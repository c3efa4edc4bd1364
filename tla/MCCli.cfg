CONSTANTS
    a = a
    b = b
    other = other
    secret = secret
    locked = locked
    dir = dir
    guarded = guarded
    missing = missing
    ugly = ugly
    good = good
    bad = bad
    brace = brace
    glued = glued
    loose = loose
    Error = Error
    Empty = Empty
    half = half
    tidy = tidy
    cut = cut
    Parts = {half, tidy, cut}
    Commands <- MCCommands
    Paths = {a, b, other, secret, locked, dir, guarded, missing}
    Files = {a, b, other, secret}
    Disks <- MCDisks
    Walk <- MCWalk
    Templates = {a, b, secret}
    Unreadable = {locked, secret}
    ReadOnly = {other}
    Contents = {ugly, good, bad, brace, glued, loose, Empty, half, tidy, cut}
    Format <- MCFormat
    MaxRuns = 2
    MaxSaves = 1
SPECIFICATION FairSpec
INVARIANTS
    OnlyWriteModeWrites
    SavesSurvive
    OneTornFilePerFailure
    ExitZeroMeansDone
    ListIsExact
PROPERTIES
    SecondRunIsQuiet
    Ends
CHECK_DEADLOCK FALSE
