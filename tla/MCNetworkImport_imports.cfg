SPECIFICATION Spec
CONSTANTS
  Net <- NetMC
  Fragment <- FragmentMC
  Python <- PythonMC
  Package <- PackageMC
  Tree <- TreeMC
  Url <- UrlMC
  Shared <- SharedMC
  Refs <- RefsMC
  Includes <- IncludesMC
  Uses <- UsesMC
  Inits <- InitsMC
  Servers <- ServersMC
  BaseName <- BaseNameMC
  Library <- LibraryMC
  LibraryUrls <- LibraryUrlsMC
  Projects <- ThreeProjects
  Faults <- BracedFaults
  MaxCommands = 3
  MaxFailures = 1
\* The bound on commands ends every behaviour.
CHECK_DEADLOCK FALSE
INVARIANTS DoneIsRegistered CompleteWhenClean
PROPERTIES EntriesKept BundleIsClosed
