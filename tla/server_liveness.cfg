SPECIFICATION FairSpec
CONSTANTS
    Conn = {c1, c2}
    Fd = {f1}
    Worker = {w1}
    None = None
    Listener = Listener
    CountMod = 8
    MaxData = 1
    MaxPosts = 1
    Inline = TRUE
    MaxResets = 1
PROPERTIES GoneIsDestroyed BacklogIsAccepted
CHECK_DEADLOCK FALSE
