SPECIFICATION Spec
CONSTANTS
    Conn = {c1, c2}
    Fd = {f1, f2}
    Worker = {w1, w2}
    None = None
    Listener = Listener
    CountMod = 8
    MaxData = 1
    MaxPosts = 1
    Inline = FALSE
    MaxResets = 1
SYMMETRY Symmetry
INVARIANTS TypeOK TableOwnsSockets NobodyIsForgotten HandledIsLive
           OrderlyTotalIsExact OrderlyBatchIsLive
PROPERTY ImplementsConnLife
CHECK_DEADLOCK FALSE
