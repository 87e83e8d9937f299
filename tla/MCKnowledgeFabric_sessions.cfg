SPECIFICATION Spec
CONSTANTS
  def = def
  docs = docs
  clone = clone
  java = java
  sql = sql
  doc = doc
  Repo = {def, docs, clone}
  Default = def
  Workspace = {clone}
  Path = {java, sql, doc}
  Kind <- KindMC
  Holds <- HoldsMC
  Risky <- RiskyMC
  Project <- ProjectMC
  Partly = {{sql}}
  None = None
INVARIANTS SearchIsCurrent CitedFilesExist MirrorIsWhole
PROPERTY ScanRepairs
