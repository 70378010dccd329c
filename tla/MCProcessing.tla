---------------------------- MODULE MCProcessing ----------------------------
(***************************************************************************)
(* Instances of Processing for TLC: a node with an endpoint "inbox" of its *)
(* own, a group endpoint "news" and a remote endpoint "far".               *)
(***************************************************************************)
EXTENDS Processing, TLC

CONSTANTS transit, subject, receipt, blocked, unreadable, inbound, group, reported

MCIds       == Bundles \cup (Bundles \X Status)
MCEids      == {"inbox", "news", "far", "host"}
MCLocalEids == {"inbox", "host"}

\* A bundle from a remote node without any special handling.
Plain(dst) ==
    [src |-> "far", dst |-> dst, rpt |-> "far", req |-> {}, admin |-> "no",
     ref |-> CHOOSE i \in Bundles : TRUE, status |-> "received", blocks |-> {},
     drop |-> {}, hops |-> FALSE, age |-> FALSE]

MCInfo ==
    [i \in Bundles |->
      CASE \* in transit, may outlive its age block, asks for reports
           i = transit -> [Plain("far") EXCEPT !.req = {"forwarded", "deleted"}, !.age = TRUE]
           \* in transit, and a delivery report about it for an endpoint here
        [] i = subject -> Plain("far")
        [] i = receipt -> [Plain("inbox") EXCEPT !.admin = "report", !.ref = subject,
                                                 !.status = "delivered"]
           \* refused for an unknown block that wants the bundle deleted
        [] i = blocked -> [Plain("far") EXCEPT !.blocks = {"report", "delete"},
                                               !.req = {"deleted"}]
           \* refused for an administrative record that cannot be read
        [] i = unreadable -> [Plain("inbox") EXCEPT !.admin = "invalid"]
           \* for the node's own endpoint, asks for a delivery report
        [] i = inbound -> [Plain("inbox") EXCEPT !.src = "inbox", !.req = {"delivered"}]
           \* anonymous, for the group endpoint
        [] i = group -> [Plain("news") EXCEPT !.src = "none"]
           \* in transit, asks for a reception report
        [] i = reported -> [Plain("far") EXCEPT !.req = {"received"}]]

\* Which bundles are in the node together.
Alone == {{i} : i \in Bundles}
Mixed == {{subject, receipt}, {transit}}
=============================================================================
