SPECIFICATION Spec
CONSTANTS
  Session = {s1, s2}
  Net = {n1, n2}
  DefaultDir = TRUE
  MainAtStart = "listing"
  ManifestAtStart = TRUE
  MaxCrashes = 0
  NoNet = NoNet
INVARIANT SavedStaysListed
