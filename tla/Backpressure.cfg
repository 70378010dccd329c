SPECIFICATION TimedSpec
CONSTANTS
    dialer = dialer
    listener = listener
    large = large
    stored = stored
    small = small
    huge = huge
    bad = bad
    Dialer = dialer
    Listener = listener
    Bundles = {large, stored, small, huge, bad}
    Size <- MCSize
    Malformed = {bad}
    Transfers <- MCTransfers
    Traffic <- MCTraffic
    StoredBefore <- MCStored
    SegmentMru <- MCSegmentMru
    TransferMru <- MCTransferMru
    Careless = {listener}
    Buffer = 1
    Pipe = 1
    MaxDials = 1
PROPERTY TimeoutRespectedInSend
CHECK_DEADLOCK FALSE
