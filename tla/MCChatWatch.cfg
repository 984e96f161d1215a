CONSTANTS
    m1 = m1
    m2 = m2
    plain = plain
    album = album
    g1 = g1
    NoMessage = NoMessage
    NoGroup = NoGroup
    Users = {plain, album}
    Messages = {m1, m2}
    GroupOf <- MCGroupOf
    Wants <- MCWants
    AlbumUsers = {album}
    QueueSize = 1
    MaxCopies <- MCMaxCopies
SPECIFICATION FairSpec
INVARIANTS OneTaskPerWait BufferAccounts
PROPERTIES MediaSeenTo
CHECK_DEADLOCK FALSE
