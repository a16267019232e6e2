SPECIFICATION Spec
CONSTANTS
    Supers <- FewSupers
    Dirs <- TwoDirs
    Names <- ThreeNames
    MaxOpens = 1
    MaxFailures = 0
INVARIANT
    ReadOnlyHonoured
