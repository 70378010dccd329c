SPECIFICATION Spec
CONSTANTS
    transit = transit
    subject = subject
    receipt = receipt
    blocked = blocked
    unreadable = unreadable
    inbound = inbound
    group = group
    reported = reported
    Bundles = {reported}
    Traffic <- Alone
    Peers = {p}
    Eids <- MCEids
    NoEid = "none"
    LocalEids <- MCLocalEids
    HostEid = "host"
    GroupEids = {"news"}
    RegisteredAtStart = {"host", "inbox", "news"}
    Volatile = {}
    Managed = {}
    Resubmitted = {}
    Churn = {}
    Parallel = FALSE
    ActiveCla = TRUE
    Ids <- MCIds
    Info <- MCInfo
PROPERTY ReportedMeansDelivered
