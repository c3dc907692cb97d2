\* The zygote and three children.
CONSTANTS
  Zygote = "zygote"
  Children <- ThreeChildren
  None = "none"
SPECIFICATION FairSpec
INVARIANTS
  TypeOK
  LaunchedIsAttached
  SuccessReleasesZygote
PROPERTY
  LaunchEnds
