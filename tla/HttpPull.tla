------------------------------ MODULE HttpPull -------------------------------
(***************************************************************************)
(* The HTTP pull convergence layer, cla/httppull.rs, against one peer: the *)
(* loop compares the digest of its own store with the peer's, asks for the *)
(* list of the peer's bundles and downloads the ones it does not know.     *)
(* Every request finds both stores as they are by then.  The peer's side   *)
(* is /status/bundles/digest, /status/bundles and /download of             *)
(* dtnd/httpd.rs.  Both stores keep the ids of deleted bundles (mem and    *)
(* sled do), and a digest stands for the set of ids it was made from.      *)
(* Peers are pulled from one after the other, as by default; with          *)
(* parallel_bundle_processing each has a task of its own.                  *)
(***************************************************************************)
EXTENDS Naturals

CONSTANTS
    Shared,         \* ids of bundles that appear at either node
    MaxFailures,    \* BOUND: requests that fail
    Corrupt,        \* those among them whose download does not parse
    Rejected        \* those that parse and that validate_bundle refuses here

ASSUME HttpPullAssumption ==
    Corrupt \subseteq Shared /\ Rejected \subseteq Shared /\ MaxFailures \in Nat

VARIABLES
    here,           \* ids this node knows
    there,          \* ids the peer knows
    deletedThere,   \* ids of bundles the peer no longer has
    round,          \* what the loop does next
    localDigest,    \* the digest taken at the beginning of the round
    missing,        \* ids still to be downloaded
    failures,       \* requests that have failed
    downloading     \* downloaded bundles that receive() has not seen yet

pullVars == <<here, there, deletedThere, round, localDigest, missing, failures, downloading>>

HttpPullTypeOK ==
    /\ here \subseteq Shared /\ there \subseteq Shared
    /\ deletedThere \subseteq there
    /\ round \in {"sleeping", "digest", "list", "download", "panicked"}
    /\ localDigest \subseteq Shared
    /\ missing \subseteq Shared /\ failures \in 0 .. MaxFailures
    /\ downloading \subseteq Shared

HttpPullInit ==
    /\ here = {} /\ there \in SUBSET Shared /\ deletedThere = {}
    /\ round = "sleeping"
    /\ localDigest = {} /\ missing = {} /\ downloading = {} /\ failures = 0

\* http_pull_bundles: the own digest is taken once for all peers.
BeginRound ==
    /\ round = "sleeping"
    /\ round' = "digest"
    /\ localDigest' = here
    /\ UNCHANGED <<here, there, deletedThere, missing, downloading, failures>>

\* The digests are equal.
Same == there = localDigest

\* The peer's digest.
CompareDigests ==
    /\ round = "digest"
    /\ round' = IF Same THEN "sleeping" ELSE "list"
    /\ UNCHANGED <<here, there, deletedThere, localDigest, missing, downloading, failures>>

\* MISTAKE: the test is the wrong way round.
ListedKnown == (there \ deletedThere) \cap here

\* The ids in the peer's list that store_is_known does not know now.
Listed == (there \ deletedThere) \ here

GetList ==
    /\ round = "list"
    /\ missing' = Listed
    /\ round' = "download"
    /\ UNCHANGED <<here, there, deletedThere, localDigest, downloading, failures>>

\* A bundle that the peer has deleted meanwhile, or that does not parse, is skipped.
Download(i) ==
    /\ round = "download"
    /\ i \in missing
    /\ missing' = missing \ {i}
    /\ downloading' = IF i \in deletedThere \cup Corrupt THEN downloading
                      ELSE downloading \cup {i}
    /\ UNCHANGED <<here, there, deletedThere, round, localDigest, failures>>

EndRound ==
    /\ round = "download" /\ missing = {}
    /\ round' = "sleeping"
    /\ UNCHANGED <<here, there, deletedThere, localDigest, missing, downloading, failures>>

\* A request to the peer is under way.
Asking == round \in {"digest", "list"} \/ (round = "download" /\ missing # {})

\* A request fails, or the digest has not the length of one: the rest waits for the
\* next round.
RequestFails ==
    /\ Asking
    /\ failures < MaxFailures
    /\ failures' = failures + 1
    /\ round' = "sleeping"
    /\ missing' = {}
    /\ UNCHANGED <<here, there, deletedThere, localDigest, downloading>>

\* The body of an answer cannot be read, or the list is no JSON: the unwrap panics, and
\* so does the loop that waits for the blocking task.  It is not started again.
PullPanics ==
    /\ Asking
    /\ round' = "panicked"
    /\ missing' = {}
    /\ UNCHANGED <<here, there, deletedThere, localDigest, downloading, failures>>

\* The task that passes a downloaded bundle to receive(), which knows the bundle then
\* unless it is not valid.
ReceivePulled(i) ==
    /\ i \in downloading
    /\ here' = here \cup ({i} \ Rejected)
    /\ downloading' = downloading \ {i}
    /\ UNCHANGED <<there, deletedThere, round, localDigest, missing, failures>>

\* Other ways a bundle comes to either node, and a deletion at the peer.
OtherwiseReceived(i) ==
    /\ i \notin here \cup Rejected
    /\ here' = here \cup {i}
    /\ UNCHANGED <<there, deletedThere, round, localDigest, missing, downloading, failures>>

PeerStores(i) ==
    /\ i \notin there
    /\ there' = there \cup {i}
    /\ UNCHANGED <<here, deletedThere, round, localDigest, missing, downloading, failures>>

PeerDeletes(i) ==
    /\ i \in there \ deletedThere
    /\ deletedThere' = deletedThere \cup {i}
    /\ UNCHANGED <<here, there, round, localDigest, missing, downloading, failures>>

PullStep ==
    \/ BeginRound \/ CompareDigests \/ GetList \/ EndRound
    \/ \E i \in Shared : Download(i)

HttpPullNext ==
    \/ PullStep
    \/ RequestFails \/ PullPanics
    \/ \E i \in Shared :
          ReceivePulled(i) \/ OtherwiseReceived(i) \/ PeerStores(i) \/ PeerDeletes(i)

\* The loop goes on unless it panicked, and its tasks run.
HttpPullFairness ==
    WF_pullVars(PullStep) /\ \A i \in Shared : WF_pullVars(ReceivePulled(i))

HttpPullSpec == HttpPullInit /\ [][HttpPullNext]_pullVars /\ HttpPullFairness

------------------------------------------------------------------------------
\* Properties.

\* A bundle at the peer that parses and is valid is known here in the end, whatever is
\* deleted, stored or received during the rounds and however requests fail, unless the
\* peer deletes it before or an answer makes the loop panic.
PulledInTheEnd ==
    \A i \in Shared \ (Corrupt \cup Rejected) :
        i \in there ~> i \in here \cup deletedThere \/ round = "panicked"
==============================================================================
