SPECIFICATION TSpec
CONSTANTS
  Obj <- MCObj
  Type <- MCNamed
  NoType = NoType
  NamedType <- MCNamed
  ZapType <- MCZapType
  Key <- MCKey
  Field <- MCField
  WordMod = 32
  ObjsetOf <- MCObjsetOf
  Missing = Missing
  MaxOps = 16
  ScanMaxWords = 4
  InitImages <- SoundOnly
  Drift <- NoDrift
  MosDir = 1
  ScanWords = 3
  BonusFields <- MCBonusFields
  NameOrder <- MCNameOrder
  SpecialName <- MCSpecial
  DirLike <- MCDirLike
  DatasetLike <- MCDatasetLike
  ErrlogLike <- MCErrlogLike
  RefType <- MCRefType
  SubtreeType <- MCSubtreeType
  MaxScans = 1
  MaxFaults = 1
  MaxDrift = 0
PROPERTY HealthyKept
CHECK_DEADLOCK FALSE
