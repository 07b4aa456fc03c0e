\* Clusters: how they are built, stored and shown.
SPECIFICATION MCSpec
SYMMETRY Symmetry
CONSTANTS
    b1 = b1
    b2 = b2
    r1 = r1
    r2 = r2
    p1 = p1
    p2 = p2
    Producer <- MCProducers
    Reader <- MCReaders
    Place <- MCPlaces
    Length = {1, 2}
    Asked = {1}
    MaxLength = 1
    Count = {2}
    Back = {0, 1}
    MaxTime = 3
    Area <- MCAreas
    Case <- MCCase
    Outline <- MCOutline
    OneRing <- MCOneRing
    Default = Default
    Bad = Bad
    Minute = 2
    Hour = 4
    Day = 12
    DefaultMinutes = 2
    DefaultGrid = 1
    Characters = 7
    MaxSeconds = 8
    Known <- MCKnown
    Offset <- MCOffset
    Spot <- MCSpots
    Polygon <- MCPolygon
    Instant <- MCInstants
    CommandLine <- MCCommandLine
INVARIANTS
    AllOrNothing
    AnchorShown
    StormsAreOne
    ShownAsAsked
    NeverGoesBack
PROPERTIES
    OnlyOverlapGoesBack
CHECK_DEADLOCK FALSE
