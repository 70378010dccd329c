SPECIFICATION FairSpec
CONSTANTS
    d = d
    n1 = n1
    n2 = n2
    Bundles = {own, foreign}
    Reports = {}
    Traffic <- Alone
    Resubmitted = {own}
    Own = {own}
    Nodes = {d, n1, n2, me}
    Self = me
    Dest <- MCDest
    Static = {n1}
    Mute = {}
    FailLimit = 1
    Copies = 3
INVARIANTS CopiesConserved SpreadBounded NoSecondSend
PROPERTY DestinationServed
