CONSTANT FD = {3, 4}
SPECIFICATION Spec
INVARIANT TypeOK
INVARIANT FailureReleases
INVARIANT PointersValid
PROPERTY CloseSparesOthers
