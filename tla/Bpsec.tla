-------------------------------- MODULE Bpsec --------------------------------
(***************************************************************************)
(* Bundle security (core/bpsec): the rules of a node, the policy that      *)
(* turns them into actions on a bundle, and the enforcement that carries   *)
(* the actions out.  A bundle travels from its source "S" over a gateway   *)
(* "G" to its destination "D"; each node enforces its own rules when it    *)
(* transmits, receives and forwards.                                       *)
(*                                                                         *)
(* Block 0 is the primary block, block 1 the payload, higher numbers are   *)
(* security blocks.  Of the cryptography (bp7) only what decides success   *)
(* is kept: a security block remembers the key and a snapshot of what it   *)
(* covers, the primary block with its CRC (in scope of every operation,    *)
(* RFC 9173 defaults) and the contents of its targets.                     *)
(*                                                                         *)
(* enforce() is one call; its actions are steps here, in its order, and    *)
(* nothing else touches the bundle meanwhile.  Only the keys of a node may *)
(* be reloaded, from another thread; the call keeps the keys it began with.*)
(***************************************************************************)
EXTENDS Integers, Sequences, FiniteSets

CONSTANTS
    Policies,       \* node -> the configurations it may have, sequences of rules
    MaxRotations    \* bound: key reloads that change a key

Node == {"S", "G", "D"}
Target == {0, 1}

VARIABLES
    policy,         \* node -> its rules
    version,        \* node -> version of its keys
    place,          \* where the bundle is
    kept,           \* the bundle as the node it is at, or the last one, has it
    wire,           \* the copy being worked on or sent
    job,            \* the enforcement under way
    changed,        \* history: blocks altered on a link
    damaged         \* history: kinds of security actions that failed

bpsecVars == <<policy, version, place, kept, wire, job, changed, damaged>>

------------------------------------------------------------------------------
\* Configuration.

Role == {"source", "verifier", "acceptor"}
Operation == {"bib", "bcb"}
FailureAction == {"drop", "remove", "log"}

Rule == [role : Role, operation : Operation, targets : Seq(Target),
         on_failure : FailureAction, matching : BOOLEAN]

ASSUME BpsecAssumption ==
    /\ MaxRotations \in Nat
    /\ Policies \in [Node -> SUBSET Seq(Rule)]

\* target_numbers.
TargetsIn(r) == {r.targets[i] : i \in DOMAIN r.targets}

\* SecurityRule::validate.
ValidRule(r) ==
    /\ r.targets # <<>>
    /\ \A i, j \in DOMAIN r.targets : r.targets[i] = r.targets[j] => i = j
    /\ r.operation = "bcb" => /\ 0 \notin TargetsIn(r)
                              /\ r.role # "verifier"
                              /\ r.on_failure # "remove"
    /\ r.role = "source" => r.on_failure # "remove"

\* BpsecConfig::validate, called by init().
Validate(rs) == \A n \in DOMAIN rs : ValidRule(rs[n])

------------------------------------------------------------------------------
\* Bundles: crc says whether the primary block has one, content maps the
\* primary block and the payload to what they hold.

Scope == [crc : BOOLEAN, content : [Target -> BOOLEAN]]

SecurityBlock == [number : Nat, operation : Operation, targets : SUBSET Nat,
                  key : Nat, scope : Scope]

Bundle == [crc : BOOLEAN, content : [Target -> BOOLEAN], blocks : SUBSET SecurityBlock]

Snapshot(b) == [crc |-> b.crc, content |-> b.content]

TargetsOf(blocks, op) == UNION {x.targets : x \in {y \in blocks : y.operation = op}}

\* security_blocks: BIBs encrypted by a BCB are not visible.
Visible(b) == {x \in b.blocks : x.operation = "bcb"
                                \/ x.number \notin TargetsOf(b.blocks, "bcb")}

EncryptsBibs(b, x) ==
    /\ x.operation = "bcb"
    /\ \E y \in b.blocks : y.operation = "bib" /\ y.number \in x.targets

\* bibs_of.
BibsOf(b, t) == {x \in Visible(b) : x.operation = "bib" /\ t \in x.targets}

------------------------------------------------------------------------------
\* The policy engine.  An action is due by its class, the position n of the rule
\* that demands it, and the block.

Kind == {"missing", "sign", "encrypt", "decrypt", "verify", "accept"}

Action == [class : 0 .. 3, n : Nat, kind : Kind, block : Nat]

\* applies_at and matches_bundle.
Applies(r, step) ==
    /\ r.matching
    /\ (r.role = "source") <=> (step # "Receive")

\* The rules for an operation on a target; the first one counts.
Demanding(rs, step, op, t) ==
    {n \in DOMAIN rs : /\ Applies(rs[n], step) /\ rs[n].operation = op
                       /\ t \in TargetsIn(rs[n])}

First(ns) == CHOOSE n \in ns : \A m \in ns : n <= m

Unprotected(rs, step, b, op) ==
    {t \in Target : /\ Demanding(rs, step, op, t) # {}
                    /\ t \notin TargetsOf(Visible(b), op)
                    /\ op = "bib" => t \notin TargetsOf(Visible(b), "bcb")}

\* MISTAKE: the primary block is signed in the order of the rules.
SourceActionsUnsorted(rs, step, b) ==
    {[class |-> 1 - t, n |-> First(Demanding(rs, step, "bib", t)), kind |-> "sign",
      block |-> t] : t \in Unprotected(rs, step, b, "bib")}
    \cup
    {[class |-> 2, n |-> First(Demanding(rs, step, "bcb", t)), kind |-> "encrypt",
      block |-> t] : t \in Unprotected(rs, step, b, "bcb")}

\* source_actions: each target is protected once, ciphertext is not signed,
\* the primary block is signed first and encryption comes last.
SourceActions(rs, step, b) ==
    {[class |-> t, n |-> First(Demanding(rs, step, "bib", t)), kind |-> "sign",
      block |-> t] : t \in Unprotected(rs, step, b, "bib")}
    \cup
    {[class |-> 2, n |-> First(Demanding(rs, step, "bcb", t)), kind |-> "encrypt",
      block |-> t] : t \in Unprotected(rs, step, b, "bcb")}

\* The rules that handle a security block.
Handling(rs, step, b, x) ==
    {n \in DOMAIN rs : /\ Applies(rs[n], step) /\ rs[n].operation = x.operation
                       /\ \/ EncryptsBibs(b, x)
                          \/ x.targets \cap TargetsIn(rs[n]) # {}}

ReceiverKind(r) ==
    IF r.operation = "bcb" THEN "decrypt" ELSE IF r.role = "acceptor" THEN "accept" ELSE "verify"

\* Decryptions, then verifications, the acceptance of the primary block's BIB last.
ReceiverClass(x, kind) ==
    IF kind = "decrypt" THEN 1 ELSE IF kind = "accept" /\ 0 \in x.targets THEN 3 ELSE 2

\* receiver_actions: missing operations first, each block by its first rule.
ReceiverActions(rs, step, b) ==
    (UNION {{[class |-> 0, n |-> First(Demanding(rs, step, op, t)), kind |-> "missing",
              block |-> t] : t \in Unprotected(rs, step, b, op)} : op \in Operation})
    \cup
    {LET n == First(Handling(rs, step, b, x)) IN
     [class |-> ReceiverClass(x, ReceiverKind(rs[n])), n |-> n, kind |-> ReceiverKind(rs[n]),
      block |-> x.number] : x \in {y \in Visible(b) : Handling(rs, step, b, y) # {}}}

\* evaluate.
Evaluate(rs, step, b) ==
    IF step = "Receive" THEN ReceiverActions(rs, step, b) ELSE SourceActions(rs, step, b)

Precedes(a, c) ==
    \/ a.class < c.class
    \/ a.class = c.class /\ (a.n < c.n \/ (a.n = c.n /\ a.block < c.block))

------------------------------------------------------------------------------
\* The security operations of bp7 (external).

NewNumber(b) ==
    LET numbers == {1} \cup {x.number : x \in b.blocks}
    IN 1 + CHOOSE n \in numbers : \A m \in numbers : m <= n

Block(b, n) == CHOOSE x \in b.blocks : x.number = n

Covering(b, number, op, t, key) ==
    [number |-> number, operation |-> op, targets |-> {t}, key |-> key, scope |-> Snapshot(b)]

\* A block is intact if the key, the primary block and its targets are those
\* it was made with.
Intact(b, x, key) ==
    /\ x.key = key
    /\ x.scope.crc = b.crc
    /\ x.scope.content[0] = b.content[0]
    /\ 1 \in x.targets =>
          /\ x.scope.content[1] = b.content[1]
          /\ x.operation = "bib" => 1 \notin TargetsOf(b.blocks, "bcb")

\* remove_block.
Without(b, x) == [b EXCEPT !.blocks = @ \ {x}]

\* Accepting a BIB removes it and restores the CRC of its targets.
Accepted(b, x) == [Without(b, x) EXCEPT !.crc = @ \/ 0 \in x.targets]

------------------------------------------------------------------------------
\* Enforcement.

\* Signing the primary block removes its CRC first.
Signed(b, t, key) ==
    LET c == [b EXCEPT !.crc = @ /\ t # 0]
    IN [c EXCEPT !.blocks = @ \cup {Covering(c, NewNumber(b), "bib", t, key)}]

\* The BCBs of the visible BIBs of a target, in the order of their numbers.
BcbsOfBibs(b, t, key) ==
    {Covering(b, NewNumber(b) + Cardinality({y \in BibsOf(b, t) : y.number < x.number}),
              "bcb", x.number, key) : x \in BibsOf(b, t)}

\* MISTAKE: the BIBs stay encrypted when the encryption of the target fails.
EncryptInPlace(b, t, key, ok) ==
    [b EXCEPT !.blocks = @ \cup BcbsOfBibs(b, t, key)
        \cup (IF ok THEN {Covering(b, NewNumber(b) + Cardinality(BibsOf(b, t)), "bcb", t, key)}
              ELSE {})]

\* encrypt: first the BIBs of the target, then the target, each with a BCB of
\* its own; nothing changes unless all of them succeed.
Encrypt(b, t, key, ok) ==
    IF ok THEN
       [b EXCEPT !.blocks = @ \cup BcbsOfBibs(b, t, key)
           \cup {Covering(b, NewNumber(b) + Cardinality(BibsOf(b, t)), "bcb", t, key)}]
    ELSE b

\* apply: whether it succeeds, and the bundle it leaves.  bp7 may refuse to sign or
\* to encrypt, and the key wrapping of an encryption may fail.
Outcomes(a, b, key) ==
    CASE a.kind = "missing" -> {FALSE}
      [] a.kind \in {"sign", "encrypt"} -> BOOLEAN
      [] OTHER -> {Intact(b, Block(b, a.block), key)}

Apply(a, b, key, ok) ==
    CASE a.kind = "sign" /\ ok -> Signed(b, a.block, key)
      [] a.kind = "encrypt" -> Encrypt(b, a.block, key, ok)
      [] a.kind = "accept" /\ ok -> Accepted(b, Block(b, a.block))
      [] a.kind = "decrypt" /\ ok -> Without(b, Block(b, a.block))
      [] OTHER -> b

\* remove_operation.
RemoveOperation(a, b) ==
    IF a.kind \in {"verify", "accept"} THEN Without(b, Block(b, a.block)) ELSE b

------------------------------------------------------------------------------
\* The bundle on its way.

NoBundle == [crc |-> FALSE, content |-> [t \in Target |-> FALSE], blocks |-> {}]

\* An enforcement: the node, the processing step, the version of the keys, the
\* actions left, and whether the policy is evaluated again after them.
NoJob == [node |-> "S", step |-> "idle", key |-> 0, todo |-> {}, again |-> FALSE]

BpsecInit ==
    /\ policy \in {p \in [Node -> UNION {Policies[n] : n \in Node}] :
                      \A n \in Node : p[n] \in Policies[n] /\ Validate(p[n])}
    /\ version = [n \in Node |-> 0]
    /\ place = "new"
    /\ kept \in {[crc |-> c, content |-> [t \in Target |-> TRUE], blocks |-> {}] : c \in BOOLEAN}
    /\ wire = NoBundle
    /\ job = NoJob
    /\ changed = {}
    /\ damaged = {}

NextHop(n) == IF n = "S" THEN "toG" ELSE "toD"

OnBcb(rs, acts) == {a \in acts : rs[a.n].operation = "bcb"}

\* enforce: with decryptions, only the BCB actions are carried out at first.
BpBegin(n, step, b) ==
    /\ job = NoJob
    /\ LET acts == Evaluate(policy[n], step, b)
           opening == \E a \in acts : a.kind = "decrypt"
       IN job' = [node |-> n, step |-> step, key |-> version[n],
                  todo |-> IF opening THEN OnBcb(policy[n], acts) ELSE acts,
                  again |-> opening]
    /\ wire' = b
    /\ UNCHANGED <<policy, version, place, kept, changed, damaged>>

\* send_bundle.
BpTransmit == place = "new" /\ BpBegin("S", "Transmit", kept)

\* forward: only the copy that is sent is protected.
BpForward(n) == n \in {"S", "G"} /\ place = n /\ BpBegin(n, "Forward", kept)

\* receive.
BpReceive(n) ==
    <<n, place>> \in {<<"G", "toG">>, <<"D", "toD">>} /\ BpBegin(n, "Receive", wire)

\* The action that is due, and whether it may have this outcome.
Due(a, ok) ==
    /\ a \in job.todo
    /\ \A c \in job.todo \ {a} : Precedes(a, c)
    /\ ok \in Outcomes(a, wire, job.key)

OnFailure(a) == policy[job.node][a.n].on_failure

\* carry_out: the action succeeds.
BpSucceed(a) ==
    /\ Due(a, TRUE)
    /\ wire' = Apply(a, wire, job.key, TRUE)
    /\ job' = [job EXCEPT !.todo = @ \ {a}]
    /\ UNCHANGED <<policy, version, place, kept, changed, damaged>>

\* carry_out: the action fails, the rule goes on with or without the operation.
BpTolerate(a) ==
    /\ Due(a, FALSE) /\ OnFailure(a) # "drop"
    /\ LET left == Apply(a, wire, job.key, FALSE)
       IN wire' = IF OnFailure(a) = "remove" THEN RemoveOperation(a, left) ELSE left
    /\ job' = [job EXCEPT !.todo = @ \ {a}]
    /\ damaged' = damaged \cup {a.kind}
    /\ UNCHANGED <<policy, version, place, kept, changed>>

\* MISTAKE: a failure with on_failure = drop is logged and ignored.
BpDropTolerant(a) ==
    /\ Due(a, FALSE) /\ OnFailure(a) = "drop"
    /\ wire' = Apply(a, wire, job.key, FALSE)
    /\ job' = [job EXCEPT !.todo = @ \ {a}]
    /\ damaged' = damaged \cup {a.kind}
    /\ UNCHANGED <<policy, version, place, kept, changed>>

\* carry_out: the action fails and the bundle is dropped.
BpDrop(a) ==
    /\ Due(a, FALSE) /\ OnFailure(a) = "drop"
    /\ place' = "dropped"
    /\ kept' = NoBundle
    /\ wire' = NoBundle
    /\ job' = NoJob
    /\ damaged' = damaged \cup {a.kind}
    /\ UNCHANGED <<policy, version, changed>>

\* enforce: the policy is evaluated again for the BIBs the decryptions brought to light.
BpEvaluateAgain ==
    /\ job.again /\ job.todo = {}
    /\ LET acts == Evaluate(policy[job.node], job.step, wire)
       IN job' = [job EXCEPT !.todo = acts \ OnBcb(policy[job.node], acts), !.again = FALSE]
    /\ UNCHANGED <<policy, version, place, kept, wire, changed, damaged>>

\* enforce returns: what was transmitted or received is kept, a forwarded copy
\* leaves.
BpEnforced ==
    /\ job.step # "idle" /\ ~job.again /\ job.todo = {}
    /\ job' = NoJob
    /\ IF job.step = "Forward"
       THEN place' = NextHop(job.node) /\ UNCHANGED <<kept, wire>>
       ELSE place' = job.node /\ kept' = wire /\ wire' = NoBundle
    /\ UNCHANGED <<policy, version, changed, damaged>>

\* The transfer fails; forward() starts from the kept bundle again.
BpLost(n) ==
    /\ n \in {"S", "G"} /\ place = NextHop(n) /\ job = NoJob
    /\ place' = n
    /\ wire' = NoBundle
    /\ changed' = {t \in changed : ~kept.content[t]}
    /\ UNCHANGED <<policy, version, kept, job, damaged>>

\* A block is altered on a link.
BpAlter(t) ==
    /\ place \in {"toG", "toD"} /\ job = NoJob /\ changed = {}
    /\ wire' = [wire EXCEPT !.content[t] = FALSE]
    /\ changed' = {t}
    /\ UNCHANGED <<policy, version, place, kept, job, damaged>>

\* KeyStore::reload replaces all keys of a node at once; one that fails the
\* check of the rules changes nothing.
BpReload(n) ==
    /\ version[n] < MaxRotations
    /\ version' = [version EXCEPT ![n] = @ + 1]
    /\ UNCHANGED <<policy, place, kept, wire, job, changed, damaged>>

BpsecNext ==
    \/ BpTransmit
    \/ \E n \in {"S", "G"} : BpForward(n) \/ BpLost(n)
    \/ \E n \in {"G", "D"} : BpReceive(n)
    \/ \E a \in job.todo : BpSucceed(a) \/ BpTolerate(a) \/ BpDrop(a)
    \/ BpEvaluateAgain
    \/ BpEnforced
    \/ \E n \in Node : BpReload(n)
    \/ \E t \in Target : BpAlter(t)

BpsecSpec == BpsecInit /\ [][BpsecNext]_bpsecVars

------------------------------------------------------------------------------
\* Properties.

BpsecTypeOK ==
    /\ policy \in [Node -> Seq(Rule)]
    /\ version \in [Node -> 0 .. MaxRotations]
    /\ place \in {"new", "toG", "toD", "dropped"} \cup Node
    /\ kept \in Bundle /\ wire \in Bundle
    /\ job \in [node : Node, step : {"idle", "Transmit", "Forward", "Receive"}, key : Nat,
                todo : SUBSET Action, again : BOOLEAN]
    /\ changed \subseteq Target
    /\ damaged \subseteq Kind

Demands(n, role, op, t) ==
    \E i \in DOMAIN policy[n] :
       LET r == policy[n][i]
       IN r.matching /\ r.role = role /\ r.operation = op /\ t \in TargetsIn(r)

Together(b) ==
    \A x \in b.blocks : x.operation = "bib" =>
       ((x.number \in TargetsOf(b.blocks, "bcb"))
          <=> (x.targets \cap TargetsOf(b.blocks, "bcb") # {}))

\* BIBs are encrypted along with their targets and only with them (RFC 9172,
\* 3.9), whichever nodes sign, encrypt, accept and decrypt, and also if an
\* encryption fails and the rule only logs it: in a bundle a node keeps or
\* sends, and in one it protects.  Only a decryption that fails and is
\* tolerated may part them, or one that is not yet complete.
BibsFollowTargets ==
    "decrypt" \notin damaged => Together(kept) /\ (job.again \/ Together(wire))

\* The destination accepts what the source protects; the gateway verifies
\* some of it.
EndToEnd ==
    /\ \A op \in Operation, t \in Target :
          Demands("S", "source", op, t) <=> Demands("D", "acceptor", op, t)
    /\ \A i \in DOMAIN policy["D"] : policy["D"][i].role = "acceptor"
    /\ \A i \in DOMAIN policy["G"] :
          /\ policy["G"][i].role = "verifier"
          /\ \A t \in TargetsIn(policy["G"][i]) : Demands("S", "source", "bib", t)

\* What the source could protect and nobody disturbs arrives: no check fails on the
\* way, over retries and verifiers, and the destination has the bundle in the
\* clear and without security blocks.
ProtectedArrives ==
    /\ EndToEnd /\ changed = {} /\ version = [n \in Node |-> 0]
    /\ "sign" \notin damaged /\ "encrypt" \notin damaged
    =>
       /\ damaged = {} /\ place # "dropped"
       /\ place = "D" => kept.blocks = {}

\* A block altered on a link is not delivered in the clear by a destination
\* whose rules demand its BIB and drop bundles, unless the gateway signed the
\* altered block.
AlteredNotDelivered ==
    \A t \in changed :
       /\ place = "D"
       /\ Demands("D", "acceptor", "bib", t) \/ Demands("D", "verifier", "bib", t)
       /\ \A i \in DOMAIN policy["D"] :
             policy["D"][i].matching => policy["D"][i].on_failure = "drop"
       /\ \A u \in Target : ~Demands("G", "source", "bib", u)
       => t \in TargetsOf(kept.blocks, "bcb")
==============================================================================
