SPECIFICATION FairSpec
CONSTANTS
    transit = transit
    subject = subject
    receipt = receipt
    blocked = blocked
    unreadable = unreadable
    inbound = inbound
    group = group
    reported = reported
    Bundles = {transit}
    Traffic <- Alone
    Peers = {p}
    Eids <- MCEids
    NoEid = "none"
    LocalEids <- MCLocalEids
    HostEid = "host"
    GroupEids = {"news"}
    RegisteredAtStart = {"host", "inbox", "news"}
    Volatile = {transit}
    Managed = {}
    Resubmitted = {}
    Churn = {}
    Parallel = FALSE
    ActiveCla = TRUE
    Ids <- MCIds
    Info <- MCInfo
PROPERTIES GuardReleased JanitorReturns ExpiredGoes Retried
