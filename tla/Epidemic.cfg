SPECIFICATION FairSpec
CONSTANTS
    d = d
    n1 = n1
    n2 = n2
    nobody = nobody
    relayed = relayed
    Bundles = {relayed, created, report}
    Reports = {report}
    Traffic <- Alone
    Resubmitted = {relayed}
    Nodes = {d, n1, n2}
    Dest <- MCDest
    Prev <- MCPrev
    Static = {n1}
    Mute = {}
    FailLimit = 1
INVARIANTS NoSecondSend RecordedHaveIt
PROPERTY PeersServed
