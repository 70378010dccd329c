SPECIFICATION Spec
CONSTANTS
    transit = transit
    subject = subject
    receipt = receipt
    blocked = blocked
    unreadable = unreadable
    inbound = inbound
    group = group
    reported = reported
    Bundles = {inbound, group, blocked, unreadable}
    Traffic <- Alone
    Peers = {p}
    Eids <- MCEids
    NoEid = "none"
    LocalEids <- MCLocalEids
    HostEid = "host"
    GroupEids = {"news"}
    RegisteredAtStart = {"host", "inbox", "news"}
    Volatile = {inbound}
    Managed = {inbound, group}
    Resubmitted = {}
    Churn = {"inbox", "news"}
    Parallel = TRUE
    ActiveCla = TRUE
    Ids <- MCIds
    Info <- MCInfo
INVARIANTS TypeOK RefusedIsGone AtMostOnceDelivery QueuedLocalHeld DeletedMeansGone
