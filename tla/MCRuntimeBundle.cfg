SPECIFICATION DeliverySpec
CONSTANTS
    InitialDisks <- AllDisks
    first = first
    second = second
    Attempts = {first, second}
    Served <- MCServed
    Replacements <- MCReplacements
    MaxRedirects = 2
    Limit = 2
    Members <- BundleMembers
    Nothing = Nothing
INVARIANTS
    FilesSurvive
    RollbackIsExact
    ManifestIsLast
    ArchiveYieldsPinned
    WritersCleanUp
\* A delivery may fail, and then nothing is installed.
CHECK_DEADLOCK FALSE
