\* One session at a time, restarted up to twice.
SPECIFICATION Spec
CONSTANTS
  Session = {s1}
  Net = {n1, n2, n3}
  DefaultDir = FALSE
  MainAtStart = "listing"
  ManifestAtStart = FALSE
  MaxCrashes = 2
  NoNet = NoNet
INVARIANTS NoDanglingReference SavedStaysListed
PROPERTY ListedOnReturn
