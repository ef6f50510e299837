SPECIFICATION TSpec
CONSTANTS
  Obj <- MCObj
  Type <- MCNamed
  NoType = NoType
  NamedType <- MCNamed
  ZapType <- MCZapType
  Key <- MCKey
  Field <- MCField
  WordMod = 32
  ObjsetOf <- MCObjsetOf
  Missing = Missing
  MaxOps = 16
  ScanMaxWords = 4
  InitImages <- DeadRoot
  Drift <- NoDrift
  MosDir = 1
  ScanWords = 3
  BonusFields <- MCBonusFields
  NameOrder <- MCNameOrder
  SpecialName <- MCSpecial
  DirLike <- MCDirLike
  DatasetLike <- MCDatasetLike
  ErrlogLike <- MCErrlogLike
  RefType <- MCRefType
  SubtreeType <- MCSubtreeType
  MaxScans = 2
  MaxFaults = 0
  MaxDrift = 0
INVARIANT RescanClean
CHECK_DEADLOCK FALSE
