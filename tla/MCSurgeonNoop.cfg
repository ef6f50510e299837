SPECIFICATION Spec
CONSTANTS
  Obj <- MCObj
  Type <- MCType
  NoType = NoType
  NamedType <- MCNamed
  ZapType <- MCZapType
  Key <- MCKey
  Field <- MCField
  WordMod = 16
  ObjsetOf <- MCObjsetOf
  Missing = Missing
  MaxOps = 2
  ScanMaxWords = 2
  InitImages <- MCInitImages
  Drift <- MCDrift
  PlanFiles <- MCPlanFiles
  MosDir = 1
  MaxRuns = 1
  MaxDrift = 0
INVARIANT NoopIsNoop
