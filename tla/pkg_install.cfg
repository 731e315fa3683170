SPECIFICATION MCSpec
CONSTANTS
    Deps = {p}
    Versions = {1, 2}
    Urls = {u}
    Path = Path
    No = No
    Files = {f, g}
    Bundles = {b}
    Spoilt = {x}
    Specs <- MCSpecs
    Writes = {"full", "error", "short"}
    MaxEvents = 3
    Ranges <- MCRanges
    Listings <- MCListings
SYMMETRY Symmetry
INVARIANTS PkgTypeOK DiskIsPinned BestIsHighest
PROPERTIES PinsHold RefusalMeansTamper
