SPECIFICATION Spec
CONSTANTS
    transit = transit
    subject = subject
    receipt = receipt
    blocked = blocked
    unreadable = unreadable
    inbound = inbound
    group = group
    reported = reported
    Bundles = {transit, subject, receipt}
    Traffic <- Mixed
    Peers = {p, q}
    Eids <- MCEids
    NoEid = "none"
    LocalEids <- MCLocalEids
    HostEid = "host"
    GroupEids = {"news"}
    RegisteredAtStart = {"host", "inbox", "news"}
    Volatile = {transit}
    Managed = {}
    Resubmitted = {transit}
    Churn = {}
    Parallel = FALSE
    ActiveCla = TRUE
    Ids <- MCIds
    Info <- MCInfo
INVARIANT ForwardExclusive
PROPERTY LossOnlyForCause
