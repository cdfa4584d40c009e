CONSTANTS
    Paths <- MCPaths
    FileSystems <- MCFileSystems
    Root <- MCRoot
    Canonical <- MCCanonical
    Resolve <- MCResolve
    NoPath = NoPath
    MaxIncludeDepth = 2
    MaxText = 3
    MaxFragments = 2
SPECIFICATION FairSpec
INVARIANTS
    TypeOK
    ActiveAreOpen
    DepthBounded
    ResumesAfterDirective
    Attributed
    TokensAreSpliced
    LocationsAreExact
    LineEndsAgree
    TokensLieInTheirLines
PROPERTIES
    Terminates
CHECK_DEADLOCK FALSE
