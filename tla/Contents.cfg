CONSTANTS
    AceTypes = {"allow", "audit"}
    Masks = {"m"}
    Sids = {s1}
    AppData = {x1}
    NoSid = NoSid
    NoData = NoData
    Lists <- MCLists
    NoList = NoList
    Editors = {e1, e2}
    Owners = {o1}
    NoOwner = NoOwner
    MaxAces = 3
    Events <- MCEvents
    Records <- MCRecords
    Cells = {0, 1, 2, 3, 4, 5, 6, 7, 8, 9, 10, 11, 12}
    Stored <- MCStored
    Loose <- MCLoose
    Garbled = {9}
    MaxRecords = 2
    Scalars = {"int", "str"}
    Counts = {1, 2}
    MaxItems = 3
    c1 = c1
    c2 = c2
    Clients <- MCClients
    Names = {1, 2}
    QueueLength = 2
    MaxWrites = 3
    MaxFaults = 1
SPECIFICATION MCSpec
CHECK_DEADLOCK FALSE
INVARIANTS
    RebuildKeepsEveryAce OpenOnlyWhenAsked ParseIsExact DecodeLosesNothing OnlyBadStringsAreLost
    NoLostUpdate CopyIsFresh WalkGivesAll
PROPERTIES CopyBecomesFresh
