\* Two starts over one directory for three lists of tasks, killed anywhere.
CONSTANTS
    Tasks = {1, 2}
    Ranges <- MCRanges
    BestOf = 1
    Workers = 2
    HoldoutSizes = {0, 1}
    MaxStarts = 2
SPECIFICATION FairSpec
INVARIANTS
    MetaMatchesFiles
    OnlyCleanRows
    ReportAddsUp
PROPERTY
    CollectionEnds
\* No start is left.
CHECK_DEADLOCK FALSE
