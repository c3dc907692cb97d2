\* The zygote and two children.
CONSTANTS
  Zygote = "zygote"
  Children <- TwoChildren
  None = "none"
SPECIFICATION Spec
INVARIANT
  LaunchReleasesZygote
