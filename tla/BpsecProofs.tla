----------------------------- MODULE BpsecProofs -----------------------------
(***************************************************************************)
(* What bundle security promises, proved for every configuration of the    *)
(* three nodes: BIBs follow their targets, what is altered on a link does  *)
(* not reach the application of a destination that checks it, and what the *)
(* source protects and nobody disturbs arrives in the clear.               *)
(***************************************************************************)
EXTENDS Bpsec, FiniteSetTheorems, WellFoundedInduction, TLAPS

------------------------------------------------------------------------------
\* The inductive invariant, part by part.

\* Security blocks have numbers of their own, above those of the payload.
Numbered(b) ==
    /\ \E m \in Nat : \A x \in b.blocks : x.number <= m
    /\ \A x \in b.blocks : x.number >= 2
    /\ \A x, y \in b.blocks : x.number = y.number => x = y

Encrypted(b) == TargetsOf(b.blocks, "bcb")

\* Each has one target: the primary block or the payload for a BIB, the
\* payload or a BIB for a BCB.
OneTarget(b) ==
    \A x \in b.blocks : \E t \in x.targets :
       /\ x.targets = {t}
       /\ x.operation = "bib" => t \in Target
       /\ x.operation = "bcb" =>
             t = 1 \/ \E y \in b.blocks : y.operation = "bib" /\ y.number = t

Shaped(b) == Numbered(b) /\ OneTarget(b)

\* Where an enforcement takes place.
JobPlaced ==
    /\ job.step = "idle" <=> job = NoJob
    /\ job.step = "Transmit" => job.node = "S" /\ place = "new"
    /\ job.step = "Forward" => job.node \in {"S", "G"} /\ place = job.node
    /\ job.step = "Receive" => \/ job.node = "G" /\ place = "toG"
                               \/ job.node = "D" /\ place = "toD"
    /\ job.again => job.step = "Receive"

\* What an action that is still to be carried out is about.
SourceAction(b, rs, step, a) ==
    /\ step # "Receive"
    /\ a.n \in DOMAIN rs /\ Applies(rs[a.n], step)
    /\ a.block \notin Encrypted(b)
    /\ a.block \in TargetsIn(rs[a.n])
    /\ \/ /\ a.kind = "sign" /\ rs[a.n].operation = "bib"
          /\ a.block \in Target /\ a.class = a.block
       \/ /\ a.kind = "encrypt" /\ rs[a.n].operation = "bcb"
          /\ a.block = 1 /\ a.class = 2

MissingAction(rs, step, a) ==
    /\ step = "Receive" /\ a.kind = "missing"
    /\ a.n \in DOMAIN rs /\ Applies(rs[a.n], step)

BlockAction(b, rs, step, again, a) ==
    /\ step = "Receive"
    /\ a.n \in DOMAIN rs /\ Applies(rs[a.n], step)
    /\ \E x \in b.blocks :
          /\ x.number = a.block /\ x.operation = rs[a.n].operation
          /\ a.class = ReceiverClass(x, a.kind)
          /\ \/ a.kind = "decrypt" /\ again /\ x.operation = "bcb"
             \/ /\ a.kind \in {"verify", "accept"} /\ ~again /\ x.operation = "bib"
                /\ x.number \notin Encrypted(b)

ActionsOK(b, rs, step, again, todo) ==
    /\ \A a \in todo : \/ SourceAction(b, rs, step, a)
                       \/ MissingAction(rs, step, a)
                       \/ BlockAction(b, rs, step, again, a)
    /\ \A a, c \in todo : a.kind # "missing" /\ c.kind # "missing" /\ a.block = c.block
                          /\ (step # "Receive" => a.class = c.class)
                          => a = c

\* Every BCB still there is about to be decrypted, or BIBs and targets are together.
Following(b, again, todo) ==
    IF again THEN \A x \in b.blocks : x.operation = "bcb" =>
                     \E a \in todo : a.kind = "decrypt" /\ a.block = x.number
    ELSE Together(b)

\* The invariant of BibsFollowTargets.
FollowInv ==
    /\ BpsecTypeOK
    /\ \A n \in Node : Validate(policy[n])
    /\ Shaped(kept) /\ Shaped(wire)
    /\ JobPlaced
    /\ ActionsOK(wire, policy[job.node], job.step, job.again, job.todo)
    /\ "decrypt" \notin damaged =>
          Together(kept) /\ Following(wire, job.again, job.todo)

\* What is altered is known.
Contents ==
    /\ place \in {"new"} \cup Node => \A t \in Target : t \in changed <=> ~kept.content[t]
    /\ place \in {"toG", "toD"} =>
          \A t \in Target : /\ t \in changed <=> ~wire.content[t]
                            /\ ~kept.content[t] => t \in changed
    /\ job.step \in {"Transmit", "Forward"} => wire.content = kept.content
    /\ place \in {"new", "S", "toG"} => \A t \in Target : kept.content[t]

\* The destination checks t and drops what fails, the gateway signs nothing.
Strict(t) ==
    /\ Demands("D", "acceptor", "bib", t) \/ Demands("D", "verifier", "bib", t)
    /\ \A i \in DOMAIN policy["D"] :
          policy["D"][i].matching => policy["D"][i].on_failure = "drop"
    /\ \A u \in Target : ~Demands("G", "source", "bib", u)

\* No BIB covers altered content.
SignedWhole(b) ==
    \A x \in b.blocks : x.operation = "bib" => \A t \in Target : x.scope.content[t]

\* An action that fails for the altered block t.
Catching(b, todo, t) ==
    \E a \in todo :
       \/ a.kind = "missing"
       \/ /\ a.kind \in {"verify", "accept"}
          /\ \E x \in b.blocks : x.number = a.block /\ x.operation = "bib" /\ t \in x.targets

\* The invariant of AlteredNotDelivered.
AlteredInv ==
    /\ Contents
    /\ (\A u \in Target : ~Demands("G", "source", "bib", u)) =>
          SignedWhole(kept) /\ SignedWhole(wire)
    /\ \A t \in changed : Strict(t) =>
          /\ job.node = "D" /\ job.step = "Receive" /\ ~job.again =>
                t \in Encrypted(wire) \/ Catching(wire, job.todo, t)
          /\ place = "D" => t \in Encrypted(kept)

Unrotated == version = [n \in Node |-> 0]

Undisturbed == EndToEnd /\ Unrotated /\ "sign" \notin damaged /\ "encrypt" \notin damaged

Whole(b) == \A t \in Target : b.content[t]

\* The targets for which a node demands an operation in a role.
Wants(rs, role, op) ==
    {t \in Target : \E i \in DOMAIN rs : /\ rs[i].matching /\ rs[i].role = role
                                         /\ rs[i].operation = op /\ t \in TargetsIn(rs[i])}

\* What the source signs and what it encrypts.
Bibs == Wants(policy["S"], "source", "bib")

Bcbs == Wants(policy["S"], "source", "bcb")

\* Every security block covers the bundle as it is, and the source, which signs B
\* and encrypts E, demands it.
Fresh(B, E, b) ==
    /\ \A x \in b.blocks : x.key = 0 /\ x.scope = Snapshot(b)
    /\ \A x \in b.blocks : x.operation = "bib" => x.targets \subseteq B
    /\ \A x \in b.blocks : x.operation = "bcb" => E # {}
    /\ \A x, y \in b.blocks : x.operation = "bib" /\ y.operation = "bib"
                              /\ 0 \in x.targets /\ 0 \in y.targets => x = y

HasBib(b, t) == \E x \in b.blocks : x.operation = "bib" /\ t \in x.targets

SignedAll(B, b) == \A t \in B : HasBib(b, t)

\* As a bundle is between the source and the destination.
Protected(B, E, b) ==
    /\ Fresh(B, E, b)
    /\ SignedAll(B, b)
    /\ E # {} => 1 \in Encrypted(b)

\* What is not protected yet is about to be, the primary block before all else.
AtSource(B, E, b, todo) ==
    /\ Fresh(B, E, b)
    /\ \A t \in B : HasBib(b, t) \/ \E a \in todo : a.kind = "sign" /\ a.block = t
    /\ E # {} => 1 \in Encrypted(b) \/ \E a \in todo : a.kind = "encrypt"
    /\ (\E a \in todo : a.kind = "sign" /\ a.block = 0) => b.blocks = {}

\* The gateway only verifies.
AtGateway(B, E, b, again, todo) ==
    /\ Protected(B, E, b) /\ ~again
    /\ \A a \in todo : a.kind = "verify"

\* What is left of the protection is about to be decrypted and accepted.
AtDestination(B, E, b, again, todo) ==
    /\ Fresh(B, E, b)
    /\ again => /\ SignedAll(B, b)
                /\ \A a \in todo : a.kind = "decrypt"
    /\ ~again => /\ \A x \in b.blocks : x.operation = "bib"
                 /\ \A a \in todo : a.kind = "accept"
                 /\ \A x \in b.blocks : \E a \in todo : a.block = x.number

\* The bundle that is worked on or sent.
Working ==
    /\ job = NoJob /\ place \in {"toG", "toD"} => Protected(Bibs, Bcbs, wire)
    /\ job # NoJob /\ job.node = "S" => AtSource(Bibs, Bcbs, wire, job.todo)
    /\ job # NoJob /\ job.node = "G" => AtGateway(Bibs, Bcbs, wire, job.again, job.todo)
    /\ job # NoJob /\ job.node = "D" => AtDestination(Bibs, Bcbs, wire, job.again, job.todo)

\* The invariant of ProtectedArrives.
ArrivesInv ==
    /\ Unrotated => job.key = 0
    /\ Undisturbed /\ place # "dropped" /\ Whole(kept) /\ (changed = {} \/ job = NoJob)
          => damaged = {}
    /\ Undisturbed /\ changed = {} => place # "dropped"
    /\ Undisturbed /\ Whole(kept) =>
          /\ place \in {"new", "D"} => kept.blocks = {}
          /\ place \in {"S", "toG", "G", "toD"} => Protected(Bibs, Bcbs, kept)
    /\ Undisturbed /\ changed = {} => Working

------------------------------------------------------------------------------
\* Numbers.

\* A set of naturals that is not empty has a least element.
LEMMA LeastExists ==
    ASSUME NEW S, S \subseteq Nat, S # {}
    PROVE  \E n \in S : \A m \in S : n <= m
<1>1. PICK n \in S : \A m \in S : ~(<<m, n>> \in OpToRel(<, Nat))
  BY NatLessThanWellFounded, WFMin, Zenon
<1>2. ASSUME NEW m \in S PROVE n <= m
  <2>1. <<m, n>> \notin OpToRel(<, Nat)
    BY <1>1
  <2>2. ~(m < n)
    BY <2>1 DEF OpToRel
  <2> QED BY <2>2
<1> QED BY <1>2

\* The first of some rules is one of them.
LEMMA FirstIn ==
    ASSUME NEW S, S \subseteq Nat, S # {}
    PROVE  First(S) \in S /\ \A m \in S : First(S) <= m
<1>1. \E n \in S : \A m \in S : n <= m
  BY LeastExists
<1> QED BY <1>1 DEF First

\* A bounded set of naturals that is not empty has a greatest element.
LEMMA GreatestExists ==
    ASSUME NEW S, S \subseteq Nat, S # {}, NEW m \in Nat, \A n \in S : n <= m
    PROVE  \E n \in S : \A k \in S : k <= n
<1> DEFINE T == {m - n : n \in S}
<1>1. T \subseteq Nat /\ T # {}
  <2>1. \A n \in S : m - n \in Nat
    OBVIOUS
  <2>2. T \subseteq Nat
    BY <2>1
  <2>3. \A n \in S : m - n \in T
    OBVIOUS
  <2> QED BY <2>2, <2>3
<1>2. PICK d \in T : \A e \in T : d <= e
  BY <1>1, LeastExists
<1>3. PICK n \in S : d = m - n
  OBVIOUS
<1>4. ASSUME NEW k \in S PROVE k <= n
  <2>1. m - k \in T
    OBVIOUS
  <2>2. m - n <= m - k
    BY <2>1, <1>2, <1>3
  <2> QED BY <2>2
<1> QED BY <1>4

\* A new security block gets a number above all others.
LEMMA NewNumberAbove ==
    ASSUME NEW b \in Bundle, Numbered(b)
    PROVE  /\ NewNumber(b) \in Nat /\ NewNumber(b) >= 2
           /\ \A x \in b.blocks : x.number < NewNumber(b)
<1> DEFINE numbers == {1} \cup {x.number : x \in b.blocks}
           top == CHOOSE n \in numbers : \A m \in numbers : m <= n
<1>1. \A x \in b.blocks : x.number \in Nat
  BY DEF Bundle, SecurityBlock
<1>2. numbers \subseteq Nat /\ numbers # {}
  BY <1>1
<1>3. PICK m \in Nat : \A x \in b.blocks : x.number <= m
  BY DEF Numbered
<1>4. \A n \in numbers : n <= m + 1
  BY <1>1, <1>3
<1>5. \E n \in numbers : \A k \in numbers : k <= n
  <2> HIDE DEF numbers
  <2>1. m + 1 \in Nat
    OBVIOUS
  <2> QED BY <1>2, <1>4, <2>1, GreatestExists
<1>6. top \in numbers /\ \A n \in numbers : n <= top
  BY <1>5
<1>7. NewNumber(b) = 1 + top
  BY DEF NewNumber
<1>8. 1 \in numbers /\ \A x \in b.blocks : x.number \in numbers
  OBVIOUS
<1> HIDE DEF top, numbers
<1>9. top \in Nat /\ 1 <= top
  BY <1>2, <1>6, <1>8
<1>10. \A x \in b.blocks : x.number <= top
  BY <1>6, <1>8
<1> QED BY <1>1, <1>7, <1>9, <1>10

\* A block is found by its number.
LEMMA BlockFound ==
    ASSUME NEW b \in Bundle, Numbered(b), NEW x \in b.blocks
    PROVE  Block(b, x.number) = x
BY DEF Block, Numbered

\* The security blocks of a bundle are finitely many.
LEMMA BlocksFinite ==
    ASSUME NEW b \in Bundle, Numbered(b)
    PROVE  IsFiniteSet(b.blocks)
<1>1. PICK m \in Nat : \A x \in b.blocks : x.number <= m
  BY DEF Numbered
<1> DEFINE f == [x \in b.blocks |-> x.number]
<1>2. \A x \in b.blocks : x.number \in 0 .. m
  BY <1>1 DEF Bundle, SecurityBlock
<1>3. f \in Injection(b.blocks, 0 .. m)
  BY <1>2 DEF Injection, IsInjective, Numbered
<1>4. IsFiniteSet(0 .. m)
  BY FS_Interval
<1> QED BY <1>3, <1>4, FS_Injection

\* What the BCBs of a bundle encrypt.
LEMMA EncryptedIs ==
    ASSUME NEW b, NEW t
    PROVE  t \in Encrypted(b)
           <=> \E x \in b.blocks : x.operation = "bcb" /\ t \in x.targets
BY DEF Encrypted, TargetsOf

\* Every BCB is visible.
LEMMA VisibleEncrypted ==
    ASSUME NEW b
    PROVE  TargetsOf(Visible(b), "bcb") = Encrypted(b)
BY DEF Visible, TargetsOf, Encrypted

\* The visible BIBs tell what is signed in the clear.
LEMMA VisibleSigned ==
    ASSUME NEW b, NEW t
    PROVE  t \in TargetsOf(Visible(b), "bib")
           <=> \E x \in b.blocks : /\ x.operation = "bib" /\ t \in x.targets
                                   /\ x.number \notin Encrypted(b)
BY DEF Visible, TargetsOf, Encrypted
------------------------------------------------------------------------------
\* The security operations.

\* The bundle c is b with the new BIB y of the target t, which covers c.
GainsBib(b, c, y, t, key) ==
    /\ y \in SecurityBlock
    /\ y.number = NewNumber(b) /\ y.operation = "bib" /\ y.targets = {t}
    /\ y.key = key /\ y.scope = Snapshot(c)
    /\ c \in Bundle /\ c.blocks = b.blocks \cup {y} /\ c.content = b.content
    /\ t # 0 => c.crc = b.crc

\* Signing adds one BIB, which covers the bundle it leaves.
LEMMA SignedEffect ==
    ASSUME NEW b \in Bundle, Numbered(b), NEW t \in Target, NEW key \in Nat,
           NEW s, s = Signed(b, t, key)
    PROVE  \E y : GainsBib(b, s, y, t, key)
<1> DEFINE c == [b EXCEPT !.crc = @ /\ t # 0]
           y == Covering(c, NewNumber(b), "bib", t, key)
<1>1. c \in Bundle /\ c.content = b.content /\ c.blocks = b.blocks
      /\ (t # 0 => c.crc = b.crc)
  BY DEF Bundle
<1>2. s = [c EXCEPT !.blocks = @ \cup {y}]
  BY DEF Signed
<1>3. /\ y.number = NewNumber(b) /\ y.operation = "bib" /\ y.targets = {t}
      /\ y.key = key /\ y.scope = [crc |-> c.crc, content |-> c.content]
  BY DEF Covering, Snapshot
<1>4. y \in SecurityBlock
  <2>1. NewNumber(b) \in Nat
    BY NewNumberAbove
  <2>2. {t} \in SUBSET Nat
    BY DEF Target
  <2>3. [crc |-> c.crc, content |-> c.content] \in Scope
    BY <1>1 DEF Bundle, Scope
  <2>4. y = [number |-> NewNumber(b), operation |-> "bib", targets |-> {t}, key |-> key,
             scope |-> [crc |-> c.crc, content |-> c.content]]
    BY DEF Covering, Snapshot
  <2> HIDE DEF c, y
  <2> QED BY <2>1, <2>2, <2>3, <2>4 DEF SecurityBlock, Operation
<1> HIDE DEF c, y
<1>5. s \in Bundle /\ s.blocks = c.blocks \cup {y} /\ s.content = c.content /\ s.crc = c.crc
  BY <1>1, <1>2, <1>4 DEF Bundle
<1>6. y.scope = Snapshot(s)
  BY <1>3, <1>5 DEF Snapshot
<1> QED BY <1>1, <1>3, <1>4, <1>5, <1>6 DEF GainsBib

\* BIBs before others get smaller numbers for their BCBs.
LEMMA RankGrows ==
    ASSUME NEW S, IsFiniteSet(S), \A x \in S : x.number \in Nat,
           NEW u \in S, NEW v \in S, u.number < v.number
    PROVE  /\ Cardinality({y \in S : y.number < u.number}) \in Nat
           /\ Cardinality({y \in S : y.number < v.number}) \in Nat
           /\ Cardinality({y \in S : y.number < u.number})
                 < Cardinality({y \in S : y.number < v.number})
<1> DEFINE U == {y \in S : y.number < u.number}
           V == {y \in S : y.number < v.number}
<1>1. IsFiniteSet(V)
  BY FS_Subset
<1>2. U \subseteq V /\ u \in V /\ u \notin U
  OBVIOUS
<1> HIDE DEF U, V
<1>3. IsFiniteSet(U) /\ Cardinality(U) <= Cardinality(V) /\ Cardinality(V) # Cardinality(U)
  BY <1>1, <1>2, FS_Subset
<1>4. Cardinality(U) \in Nat /\ Cardinality(V) \in Nat
  BY <1>1, <1>3, FS_CardinalityType
<1>5. Cardinality(U) < Cardinality(V)
  BY <1>3, <1>4
<1> QED BY <1>4, <1>5 DEF U, V

\* The BCB of a BIB has a smaller number than the BCB of the target.
LEMMA RankBelow ==
    ASSUME NEW S, IsFiniteSet(S), \A x \in S : x.number \in Nat, NEW u \in S
    PROVE  /\ Cardinality({y \in S : y.number < u.number}) \in Nat
           /\ Cardinality(S) \in Nat
           /\ Cardinality({y \in S : y.number < u.number}) < Cardinality(S)
<1> DEFINE U == {y \in S : y.number < u.number}
<1>1. U \subseteq S /\ u \notin U
  OBVIOUS
<1> HIDE DEF U
<1>2. IsFiniteSet(U) /\ Cardinality(U) <= Cardinality(S) /\ Cardinality(S) # Cardinality(U)
  BY <1>1, FS_Subset
<1>3. Cardinality(U) \in Nat /\ Cardinality(S) \in Nat
  BY <1>2, FS_CardinalityType
<1>4. Cardinality(U) < Cardinality(S)
  BY <1>2, <1>3
<1> QED BY <1>3, <1>4 DEF U

\* The blocks an encryption of the target t adds to b.
NewBcbs(Y, b, t, key) ==
    /\ Y \subseteq SecurityBlock
    /\ \A y \in Y : /\ y.operation = "bcb" /\ y.key = key /\ y.scope = Snapshot(b)
                    /\ y.number >= NewNumber(b)
                    /\ \/ y.targets = {t}
                       \/ \E x \in BibsOf(b, t) : y.targets = {x.number}
    /\ \A y, z \in Y : y.number = z.number => y = z
    /\ \E m \in Nat : \A y \in Y : y.number <= m
    /\ \E y \in Y : y.targets = {t}
    /\ \A x \in BibsOf(b, t) : \E y \in Y : y.targets = {x.number}

\* The bundle c is b with the new BCBs Y for the target t and its BIBs.
GainsBcbs(b, c, Y, t, key) ==
    /\ NewBcbs(Y, b, t, key)
    /\ c \in Bundle /\ c.blocks = b.blocks \cup Y
    /\ c.content = b.content /\ c.crc = b.crc

\* Encryption adds a BCB for the target and one for each of its visible BIBs, and
\* numbers them apart.
LEMMA EncryptEffect ==
    ASSUME NEW b \in Bundle, Numbered(b), NEW t \in Target, NEW key \in Nat,
           NEW c, c = Encrypt(b, t, key, TRUE)
    PROVE  \E Y : GainsBcbs(b, c, Y, t, key)
<1> DEFINE bibs == BibsOf(b, t)
           rank(x) == Cardinality({y \in bibs : y.number < x.number})
           bcb(x) == Covering(b, NewNumber(b) + rank(x), "bcb", x.number, key)
           last == Covering(b, NewNumber(b) + Cardinality(bibs), "bcb", t, key)
           Y == {bcb(x) : x \in bibs} \cup {last}
<1>1. bibs \subseteq b.blocks
  BY DEF BibsOf, Visible
<1>2. IsFiniteSet(bibs)
  BY <1>1, BlocksFinite, FS_Subset
<1>3. \A x \in b.blocks : x \in SecurityBlock /\ x.number \in Nat
  BY DEF Bundle, SecurityBlock
<1>4. /\ Cardinality(bibs) \in Nat
      /\ \A x \in bibs : rank(x) \in Nat /\ rank(x) < Cardinality(bibs)
  <2>1. Cardinality(bibs) \in Nat
    BY <1>2, FS_CardinalityType
  <2>2. \A x \in bibs : x.number \in Nat
    BY <1>1, <1>3
  <2> HIDE DEF bibs
  <2> QED BY <1>2, <2>1, <2>2, RankBelow
<1>5. \A x, y \in bibs : rank(x) = rank(y) => x = y
  <2> SUFFICES ASSUME NEW x \in bibs, NEW y \in bibs, rank(x) = rank(y) PROVE x = y
    OBVIOUS
  <2>1. \A z \in bibs : z.number \in Nat
    BY <1>1, <1>3
  <2>2. ASSUME x.number < y.number PROVE FALSE
    <3> HIDE DEF bibs
    <3>1. rank(x) < rank(y)
      BY <1>2, <2>1, <2>2, RankGrows
    <3> HIDE DEF rank
    <3> QED BY <3>1, <1>4
  <2>3. ASSUME y.number < x.number PROVE FALSE
    <3> HIDE DEF bibs
    <3>1. rank(y) < rank(x)
      BY <1>2, <2>1, <2>3, RankGrows
    <3> HIDE DEF rank
    <3> QED BY <3>1, <1>4
  <2>4. x.number = y.number
    BY <2>1, <2>2, <2>3
  <2> QED BY <2>4, <1>1 DEF Numbered
<1>6. NewNumber(b) \in Nat
  BY NewNumberAbove
<1>7. Snapshot(b) \in Scope
  BY DEF Snapshot, Scope, Bundle
<1>8. ASSUME NEW x \in bibs
      PROVE  /\ bcb(x) \in SecurityBlock
             /\ bcb(x).operation = "bcb" /\ bcb(x).key = key /\ bcb(x).scope = Snapshot(b)
             /\ bcb(x).number = NewNumber(b) + rank(x) /\ bcb(x).targets = {x.number}
  <2>1. bcb(x) = [number |-> NewNumber(b) + rank(x), operation |-> "bcb",
                  targets |-> {x.number}, key |-> key, scope |-> Snapshot(b)]
    BY DEF Covering
  <2>2. NewNumber(b) + rank(x) \in Nat
    BY <1>4, <1>6
  <2>3. {x.number} \in SUBSET Nat
    BY <1>1, <1>3
  <2> HIDE DEF bcb, rank, bibs
  <2>4. bcb(x) \in SecurityBlock
    BY <2>1, <2>2, <2>3, <1>7 DEF SecurityBlock, Operation
  <2> QED BY <2>1, <2>4
<1>9. /\ last \in SecurityBlock
      /\ last.operation = "bcb" /\ last.key = key /\ last.scope = Snapshot(b)
      /\ last.number = NewNumber(b) + Cardinality(bibs) /\ last.targets = {t}
  <2>1. last = [number |-> NewNumber(b) + Cardinality(bibs), operation |-> "bcb",
                targets |-> {t}, key |-> key, scope |-> Snapshot(b)]
    BY DEF Covering
  <2>2. NewNumber(b) + Cardinality(bibs) \in Nat
    BY <1>4, <1>6
  <2>3. {t} \in SUBSET Nat
    BY DEF Target
  <2> HIDE DEF last, bibs
  <2>4. last \in SecurityBlock
    BY <2>1, <2>2, <2>3, <1>7 DEF SecurityBlock, Operation
  <2> QED BY <2>1, <2>4
<1>10. BcbsOfBibs(b, t, key) = {bcb(x) : x \in bibs}
  BY DEF BcbsOfBibs
<1>11. c = [b EXCEPT !.blocks = @ \cup Y]
  BY <1>10 DEF Encrypt
<1> HIDE DEF bcb, last, rank
<1>12. \A y \in Y : \/ y = last
                    \/ \E x \in bibs : y = bcb(x)
  OBVIOUS
<1>13. last \in Y /\ \A x \in bibs : bcb(x) \in Y
  OBVIOUS
<1> HIDE DEF Y
<1>14. NewBcbs(Y, b, t, key)
  <2>1. Y \subseteq SecurityBlock
    BY <1>8, <1>9, <1>12
  <2>2. \A y \in Y : /\ y.operation = "bcb" /\ y.key = key /\ y.scope = Snapshot(b)
                     /\ y.targets = {t} \/ \E x \in bibs : y.targets = {x.number}
    BY <1>8, <1>9, <1>12
  <2>3. \A y \in Y : /\ y.number >= NewNumber(b)
                     /\ y.number <= NewNumber(b) + Cardinality(bibs)
    BY <1>4, <1>6, <1>8, <1>9, <1>12
  <2>4. \A y, z \in Y : y.number = z.number => y = z
    <3> SUFFICES ASSUME NEW y \in Y, NEW z \in Y, y.number = z.number PROVE y = z
      OBVIOUS
    <3>1. CASE y = last /\ z = last
      BY <3>1
    <3>2. CASE y = last /\ z # last
      BY <3>2, <1>4, <1>6, <1>8, <1>9, <1>12
    <3>3. CASE y # last /\ z = last
      BY <3>3, <1>4, <1>6, <1>8, <1>9, <1>12
    <3>4. CASE y # last /\ z # last
      <4>1. PICK u \in bibs : y = bcb(u)
        BY <3>4, <1>12
      <4>2. PICK v \in bibs : z = bcb(v)
        BY <3>4, <1>12
      <4>3. rank(u) = rank(v)
        BY <4>1, <4>2, <1>4, <1>6, <1>8
      <4> QED BY <4>1, <4>2, <4>3, <1>5
    <3> QED BY <3>1, <3>2, <3>3, <3>4
  <2>5. \E m \in Nat : \A y \in Y : y.number <= m
    BY <2>3, <1>4, <1>6
  <2>6. \E y \in Y : y.targets = {t}
    BY <1>9, <1>13
  <2>7. \A x \in bibs : \E y \in Y : y.targets = {x.number}
    BY <1>8, <1>13
  <2> QED BY <2>1, <2>2, <2>3, <2>4, <2>5, <2>6, <2>7 DEF NewBcbs
<1>15. c \in Bundle /\ c.blocks = b.blocks \cup Y /\ c.content = b.content /\ c.crc = b.crc
  <2>1. Y \subseteq SecurityBlock
    BY <1>14 DEF NewBcbs
  <2> QED BY <2>1, <1>11 DEF Bundle
<1> QED BY <1>14, <1>15 DEF GainsBcbs
------------------------------------------------------------------------------
\* The shape of bundles.

\* New blocks keep the numbers apart.
LEMMA NumberedGrows ==
    ASSUME NEW b \in Bundle, Numbered(b), NEW c, NEW Y, Y \subseteq SecurityBlock,
           c.blocks = b.blocks \cup Y,
           \A y \in Y : y.number >= NewNumber(b),
           \A y, z \in Y : y.number = z.number => y = z,
           \E m \in Nat : \A y \in Y : y.number <= m
    PROVE  Numbered(c)
<1>1. NewNumber(b) \in Nat /\ NewNumber(b) >= 2
      /\ \A x \in b.blocks : x.number < NewNumber(b)
  BY NewNumberAbove
<1>2. \A x \in b.blocks \cup Y : x.number \in Nat
  BY DEF Bundle, SecurityBlock
<1>3. PICK m \in Nat : \A x \in b.blocks : x.number <= m
  BY DEF Numbered
<1>4. PICK k \in Nat : \A y \in Y : y.number <= k
  OBVIOUS
<1>5. \A x \in c.blocks : x.number <= m + k
  BY <1>2, <1>3, <1>4
<1>6. \A x \in c.blocks : x.number >= 2
  BY <1>1, <1>2 DEF Numbered
<1>7. \A x, y \in c.blocks : x.number = y.number => x = y
  <2> SUFFICES ASSUME NEW x \in c.blocks, NEW y \in c.blocks, x.number = y.number
               PROVE  x = y
    OBVIOUS
  <2>1. CASE x \in b.blocks /\ y \in b.blocks
    BY <2>1 DEF Numbered
  <2>2. CASE x \in Y /\ y \in Y
    BY <2>2
  <2>3. CASE x \in b.blocks /\ y \in Y
    BY <2>3, <1>1, <1>2
  <2>4. CASE x \in Y /\ y \in b.blocks
    BY <2>4, <1>1, <1>2
  <2> QED BY <2>1, <2>2, <2>3, <2>4
<1>8. m + k \in Nat
  OBVIOUS
<1> QED BY <1>5, <1>6, <1>7, <1>8 DEF Numbered

LEMMA NumberedShrinks ==
    ASSUME NEW b, NEW c, Numbered(b), c.blocks \subseteq b.blocks
    PROVE  Numbered(c)
BY DEF Numbered

\* A security block has its one target, whatever it is.
LEMMA TargetOf ==
    ASSUME NEW b \in Bundle, Shaped(b), NEW x \in b.blocks
    PROVE  \E t \in Nat :
              /\ x.targets = {t}
              /\ x.operation \in {"bib", "bcb"}
              /\ x.operation = "bib" => t \in Target
              /\ x.operation = "bcb" =>
                    t = 1 \/ \E y \in b.blocks : y.operation = "bib" /\ y.number = t
<1>1. x \in SecurityBlock
  BY DEF Bundle
<1>2. PICK t \in x.targets : /\ x.targets = {t}
                             /\ x.operation = "bib" => t \in Target
                             /\ x.operation = "bcb" =>
                                t = 1 \/ \E y \in b.blocks : y.operation = "bib" /\ y.number = t
  BY DEF Shaped, OneTarget
<1>3. t \in Nat
  BY <1>1 DEF SecurityBlock
<1>4. x.operation \in {"bib", "bcb"}
  BY <1>1 DEF SecurityBlock, Operation
<1> QED BY <1>2, <1>3, <1>4

LEMMA BcbTarget ==
    ASSUME NEW b \in Bundle, Shaped(b), NEW x \in b.blocks, x.operation = "bcb"
    PROVE  EncryptsBibs(b, x) \/ x.targets = {1}
<1>1. PICK t \in Nat :
         /\ x.targets = {t}
         /\ t = 1 \/ \E y \in b.blocks : y.operation = "bib" /\ y.number = t
  BY TargetOf
<1> QED BY <1>1 DEF EncryptsBibs

\* The primary block is never encrypted, and no BCB is about a block to come.
LEMMA EncryptedBelow ==
    ASSUME NEW b \in Bundle, Shaped(b)
    PROVE  /\ 0 \notin Encrypted(b)
           /\ \A t \in Encrypted(b) : t \in Nat /\ t < NewNumber(b)
<1>1. NewNumber(b) \in Nat /\ NewNumber(b) >= 2
      /\ \A x \in b.blocks : x.number < NewNumber(b)
  BY NewNumberAbove DEF Shaped
<1>2. \A x \in b.blocks : x.number >= 2
  BY DEF Shaped, Numbered
<1>3. ASSUME NEW t \in Encrypted(b) PROVE t \in Nat /\ t < NewNumber(b) /\ t # 0
  <2>1. PICK x \in b.blocks : x.operation = "bcb" /\ t \in x.targets
    BY EncryptedIs
  <2>2. PICK s \in Nat : /\ x.targets = {s}
                         /\ s = 1 \/ \E y \in b.blocks : y.operation = "bib" /\ y.number = s
    BY <2>1, TargetOf
  <2>3. t = s
    BY <2>1, <2>2
  <2> QED BY <1>1, <1>2, <2>2, <2>3
<1> QED BY <1>3

\* Together, for blocks of one target.
LEMMA TogetherIs ==
    ASSUME NEW b \in Bundle, Shaped(b)
    PROVE  Together(b) <=>
           \A x \in b.blocks : \A t \in Target :
              x.operation = "bib" /\ x.targets = {t} =>
                 (x.number \in Encrypted(b) <=> t \in Encrypted(b))
<1>1. ASSUME NEW x \in b.blocks, NEW t \in Target, x.targets = {t}
      PROVE  x.targets \cap Encrypted(b) # {} <=> t \in Encrypted(b)
  BY <1>1
<1>2. \A x \in b.blocks : x.operation = "bib" => \E t \in Target : x.targets = {t}
  BY TargetOf
<1> QED BY <1>1, <1>2 DEF Together, Encrypted

\* A bundle that gains a BIB of a target in the clear.
LEMMA AddBib ==
    ASSUME NEW b \in Bundle, Shaped(b), NEW c, NEW y, NEW t \in Target, NEW key,
           GainsBib(b, c, y, t, key)
    PROVE  /\ Shaped(c)
           /\ Encrypted(c) = Encrypted(b)
           /\ Together(b) /\ t \notin Encrypted(b) => Together(c)
<1> USE DEF GainsBib
<1>1. NewNumber(b) \in Nat
  BY NewNumberAbove DEF Shaped
<1>2. Numbered(c)
  <2>1. Numbered(b) /\ {y} \subseteq SecurityBlock
    BY DEF Shaped
  <2>2. \A z \in {y} : z.number >= NewNumber(b)
    BY <1>1
  <2>3. \A z \in {y} : z.number <= NewNumber(b)
    BY <1>1
  <2>4. \A z, w \in {y} : z.number = w.number => z = w
    OBVIOUS
  <2> QED BY <1>1, <2>1, <2>2, <2>3, <2>4, NumberedGrows
<1>3. OneTarget(c)
  BY DEF Shaped, OneTarget
<1>4. Encrypted(c) = Encrypted(b)
  BY DEF Encrypted, TargetsOf
<1>5. Shaped(c)
  BY <1>2, <1>3 DEF Shaped
<1>6. ASSUME Together(b), t \notin Encrypted(b) PROVE Together(c)
  <2>1. y.number \notin Encrypted(b)
    BY <1>1, EncryptedBelow
  <2>2. \A x \in b.blocks : \A s \in Target :
           x.operation = "bib" /\ x.targets = {s} =>
              (x.number \in Encrypted(b) <=> s \in Encrypted(b))
    BY <1>6, TogetherIs
  <2>3. \A x \in c.blocks : \A s \in Target :
           x.operation = "bib" /\ x.targets = {s} =>
              (x.number \in Encrypted(c) <=> s \in Encrypted(c))
    BY <1>4, <1>6, <2>1, <2>2
  <2> QED BY <1>5, <2>3, TogetherIs
<1> QED BY <1>4, <1>5, <1>6

\* A bundle that gains the BCBs of the payload and of its BIBs.
LEMMA AddBcbs ==
    ASSUME NEW b \in Bundle, Shaped(b), NEW c, NEW Y, NEW key,
           GainsBcbs(b, c, Y, 1, key)
    PROVE  /\ Shaped(c)
           /\ 1 \in Encrypted(c)
           /\ Together(b) /\ 1 \notin Encrypted(b) => Together(c)
<1> USE DEF GainsBcbs
<1>1. NewNumber(b) \in Nat /\ \A x \in b.blocks : x.number < NewNumber(b)
  BY NewNumberAbove DEF Shaped
<1>2. Numbered(c)
  BY NumberedGrows DEF NewBcbs, Shaped
<1>3. BibsOf(b, 1) \subseteq {x \in b.blocks : x.operation = "bib" /\ 1 \in x.targets}
  BY DEF BibsOf, Visible
<1>4. OneTarget(c)
  <2> SUFFICES ASSUME NEW x \in c.blocks
               PROVE  \E t \in x.targets :
                         /\ x.targets = {t}
                         /\ x.operation = "bib" => t \in Target
                         /\ x.operation = "bcb" =>
                            t = 1 \/ \E y \in c.blocks : y.operation = "bib" /\ y.number = t
    BY DEF OneTarget
  <2>1. CASE x \in b.blocks
    BY <2>1 DEF Shaped, OneTarget
  <2>2. CASE x \in Y
    <3>1. x.operation = "bcb"
      BY <2>2 DEF NewBcbs
    <3>2. CASE x.targets = {1}
      BY <3>1, <3>2
    <3>3. ASSUME NEW z \in BibsOf(b, 1), x.targets = {z.number}
          PROVE  \E t \in x.targets :
                         /\ x.targets = {t}
                         /\ x.operation = "bib" => t \in Target
                         /\ x.operation = "bcb" =>
                            t = 1 \/ \E y \in c.blocks : y.operation = "bib" /\ y.number = t
      BY <3>1, <3>3, <1>3
    <3> QED BY <2>2, <3>2, <3>3 DEF NewBcbs
  <2> QED BY <2>1, <2>2
<1>5. Shaped(c)
  BY <1>2, <1>4 DEF Shaped
<1>6. \A t : t \in Encrypted(c) <=>
             t \in Encrypted(b) \/ t = 1 \/ \E x \in BibsOf(b, 1) : t = x.number
  <2> TAKE t
  <2>1. ASSUME t \in Encrypted(c)
        PROVE  t \in Encrypted(b) \/ t = 1 \/ \E x \in BibsOf(b, 1) : t = x.number
    <3>1. PICK y \in c.blocks : y.operation = "bcb" /\ t \in y.targets
      BY <2>1, EncryptedIs
    <3>2. CASE y \in b.blocks
      BY <3>1, <3>2, EncryptedIs
    <3>3. CASE y \in Y
      BY <3>1, <3>3 DEF NewBcbs
    <3> QED BY <3>2, <3>3
  <2>2. ASSUME t \in Encrypted(b) PROVE t \in Encrypted(c)
    BY <2>2, EncryptedIs
  <2>3. ASSUME t = 1 PROVE t \in Encrypted(c)
    <3>1. PICK y \in Y : y.targets = {1}
      BY DEF NewBcbs
    <3>2. y \in c.blocks /\ y.operation = "bcb" /\ t \in y.targets
      BY <2>3, <3>1 DEF NewBcbs
    <3> QED BY <3>2, EncryptedIs
  <2>4. ASSUME NEW x \in BibsOf(b, 1), t = x.number PROVE t \in Encrypted(c)
    <3>1. PICK y \in Y : y.targets = {x.number}
      BY DEF NewBcbs
    <3>2. y \in c.blocks /\ y.operation = "bcb" /\ t \in y.targets
      BY <2>4, <3>1 DEF NewBcbs
    <3> QED BY <3>2, EncryptedIs
  <2> QED BY <2>1, <2>2, <2>3, <2>4
<1>7. ASSUME Together(b), 1 \notin Encrypted(b) PROVE Together(c)
  <2>1. \A x \in b.blocks : \A s \in Target :
           x.operation = "bib" /\ x.targets = {s} =>
              (x.number \in Encrypted(b) <=> s \in Encrypted(b))
    BY <1>7, TogetherIs
  <2> SUFFICES ASSUME NEW x \in c.blocks, NEW s \in Target,
                      x.operation = "bib", x.targets = {s}
               PROVE  x.number \in Encrypted(c) <=> s \in Encrypted(c)
    BY <1>5, TogetherIs
  <2>2. x \in b.blocks
    BY DEF NewBcbs
  <2>3. CASE s = 1
    <3>1. x \in BibsOf(b, 1)
      <4>1. x.number \notin Encrypted(b)
        BY <2>1, <2>2, <2>3, <1>7
      <4> QED BY <2>2, <2>3, <4>1 DEF BibsOf, Visible, Encrypted
    <3> QED BY <2>3, <3>1, <1>6
  <2>4. CASE s = 0
    <3>1. x.number \notin Encrypted(b)
      BY <2>1, <2>2, <2>4, EncryptedBelow
    <3>2. x.number >= 2 /\ x.number \in Nat
      BY <2>2 DEF Shaped, Numbered, Bundle, SecurityBlock
    <3>3. \A z \in BibsOf(b, 1) : z.number # x.number
      <4>1. ASSUME NEW z \in BibsOf(b, 1), z.number = x.number PROVE FALSE
        <5>1. z = x
          BY <1>3, <2>2, <4>1 DEF Shaped, Numbered
        <5> QED BY <5>1, <1>3, <2>4
      <4> QED BY <4>1
    <3>4. \A z \in BibsOf(b, 1) : z.number # 0
      BY <1>3 DEF Shaped, Numbered
    <3>5. 0 \notin Encrypted(b)
      BY EncryptedBelow
    <3> QED BY <2>4, <3>1, <3>2, <3>3, <3>4, <3>5, <1>6
  <2> QED BY <2>3, <2>4 DEF Target
<1> QED BY <1>5, <1>6, <1>7

\* A bundle that loses a BIB in the clear.
LEMMA RemoveBib ==
    ASSUME NEW b \in Bundle, Shaped(b), NEW c \in Bundle, NEW x \in b.blocks,
           c.blocks = b.blocks \ {x}, x.operation = "bib", x.number \notin Encrypted(b)
    PROVE  /\ Shaped(c)
           /\ Encrypted(c) = Encrypted(b)
           /\ Together(b) => Together(c)
<1>1. Numbered(c)
  BY NumberedShrinks DEF Shaped
<1>2. OneTarget(c)
  <2> SUFFICES ASSUME NEW z \in c.blocks
               PROVE  \E t \in z.targets :
                         /\ z.targets = {t}
                         /\ z.operation = "bib" => t \in Target
                         /\ z.operation = "bcb" =>
                            t = 1 \/ \E y \in c.blocks : y.operation = "bib" /\ y.number = t
    BY DEF OneTarget
  <2>1. PICK t \in Nat :
              /\ z.targets = {t}
              /\ z.operation = "bib" => t \in Target
              /\ z.operation = "bcb" =>
                    t = 1 \/ \E y \in b.blocks : y.operation = "bib" /\ y.number = t
    BY TargetOf
  <2>2. z.operation = "bcb" => t # x.number
    BY <2>1, EncryptedIs
  <2> QED BY <2>1, <2>2
<1>3. Encrypted(c) = Encrypted(b)
  BY DEF Encrypted, TargetsOf
<1> QED BY <1>1, <1>2, <1>3 DEF Shaped, Together, Encrypted

\* A bundle that loses a BCB.
LEMMA RemoveBcb ==
    ASSUME NEW b \in Bundle, Shaped(b), NEW c \in Bundle, NEW x \in b.blocks,
           c.blocks = b.blocks \ {x}, x.operation = "bcb"
    PROVE  Shaped(c)
<1>1. Numbered(c)
  BY NumberedShrinks DEF Shaped
<1>2. OneTarget(c)
  BY DEF Shaped, OneTarget
<1> QED BY <1>1, <1>2 DEF Shaped
------------------------------------------------------------------------------
\* The policy engine.

\* A rule has the fields of its type, and targets among the primary block and the
\* payload; a valid BCB rule has the payload alone.
LEMMA RuleIs ==
    ASSUME NEW rs \in Seq(Rule), NEW n \in DOMAIN rs
    PROVE  /\ n \in Nat
           /\ rs[n] \in Rule
           /\ TargetsIn(rs[n]) \subseteq Target
           /\ Validate(rs) /\ rs[n].operation = "bcb" => TargetsIn(rs[n]) = {1}
<1>1. n \in Nat /\ rs[n] \in Rule
  OBVIOUS
<1>2. rs[n].targets \in Seq(Target)
  BY <1>1 DEF Rule
<1>3. \A i \in DOMAIN rs[n].targets : rs[n].targets[i] \in Target
  BY <1>2
<1>4. TargetsIn(rs[n]) \subseteq Target
  BY <1>3 DEF TargetsIn
<1>5. ASSUME Validate(rs), rs[n].operation = "bcb" PROVE TargetsIn(rs[n]) = {1}
  <2>1. rs[n].targets # <<>> /\ 0 \notin TargetsIn(rs[n])
    BY <1>5 DEF Validate, ValidRule
  <2>2. 1 \in DOMAIN rs[n].targets
    BY <1>2, <2>1
  <2>3. rs[n].targets[1] \in TargetsIn(rs[n])
    BY <2>2 DEF TargetsIn
  <2> QED BY <2>1, <2>3, <1>4 DEF Target
<1> QED BY <1>1, <1>4, <1>5

\* The first of the rules that demand an operation demands it.
LEMMA DemandingFirst ==
    ASSUME NEW rs \in Seq(Rule), NEW step, NEW op, NEW t, Demanding(rs, step, op, t) # {}
    PROVE  LET n == First(Demanding(rs, step, op, t))
           IN n \in Nat /\ n \in DOMAIN rs /\ Applies(rs[n], step) /\ rs[n].operation = op
              /\ t \in TargetsIn(rs[n])
<1>1. Demanding(rs, step, op, t) \subseteq Nat
  BY RuleIs DEF Demanding
<1>2. First(Demanding(rs, step, op, t)) \in Demanding(rs, step, op, t)
  BY <1>1, FirstIn
<1> QED BY <1>1, <1>2 DEF Demanding

\* The first of the rules that handle a block handles it.
LEMMA HandlingFirst ==
    ASSUME NEW rs \in Seq(Rule), NEW step, NEW b, NEW x, Handling(rs, step, b, x) # {}
    PROVE  LET n == First(Handling(rs, step, b, x))
           IN n \in Nat /\ n \in DOMAIN rs /\ Applies(rs[n], step)
              /\ rs[n].operation = x.operation
<1>1. Handling(rs, step, b, x) \subseteq Nat
  BY RuleIs DEF Handling
<1>2. First(Handling(rs, step, b, x)) \in Handling(rs, step, b, x)
  BY <1>1, FirstIn
<1> QED BY <1>1, <1>2 DEF Handling

\* What is unprotected is neither signed nor encrypted in the clear.
LEMMA UnprotectedIs ==
    ASSUME NEW rs, NEW step, NEW b, NEW op, NEW t
    PROVE  t \in Unprotected(rs, step, b, op) <=>
              /\ t \in Target
              /\ Demanding(rs, step, op, t) # {}
              /\ t \notin TargetsOf(Visible(b), op)
              /\ op = "bib" => t \notin Encrypted(b)
BY VisibleEncrypted DEF Unprotected

\* The actions of a source: what they are about, each once, and which there are.
LEMMA SourceActs ==
    ASSUME NEW rs \in Seq(Rule), Validate(rs), NEW step \in {"Transmit", "Forward"},
           NEW b \in Bundle, Shaped(b)
    PROVE  /\ Evaluate(rs, step, b) \subseteq Action
           /\ \A a \in Evaluate(rs, step, b) : SourceAction(b, rs, step, a)
           /\ \A a, c \in Evaluate(rs, step, b) :
                 a.block = c.block /\ a.class = c.class => a = c
           /\ \A t \in Unprotected(rs, step, b, "bib") :
                 \E a \in Evaluate(rs, step, b) : a.kind = "sign" /\ a.block = t
           /\ \A t \in Unprotected(rs, step, b, "bcb") :
                 \E a \in Evaluate(rs, step, b) : a.kind = "encrypt" /\ a.block = t
           /\ \A a \in Evaluate(rs, step, b) : a.kind = "sign" =>
                 a.block \in Unprotected(rs, step, b, "bib")
           /\ \A a \in Evaluate(rs, step, b) : a.kind = "encrypt" =>
                 a.block \in Unprotected(rs, step, b, "bcb")
<1> DEFINE sign(t) == [class |-> t, n |-> First(Demanding(rs, step, "bib", t)),
                       kind |-> "sign", block |-> t]
           encr(t) == [class |-> 2, n |-> First(Demanding(rs, step, "bcb", t)),
                       kind |-> "encrypt", block |-> t]
           Signs == Unprotected(rs, step, b, "bib")
           Encrs == Unprotected(rs, step, b, "bcb")
           acts == Evaluate(rs, step, b)
<1>1. acts = {sign(t) : t \in Signs} \cup {encr(t) : t \in Encrs}
  BY DEF Evaluate, SourceActions
<1>2. ASSUME NEW t \in Signs
      PROVE  /\ sign(t) \in Action
             /\ SourceAction(b, rs, step, sign(t))
             /\ sign(t).kind = "sign" /\ sign(t).block = t /\ sign(t).class = t
  <2>1. t \in Target /\ Demanding(rs, step, "bib", t) # {} /\ t \notin Encrypted(b)
    BY UnprotectedIs
  <2> DEFINE n == First(Demanding(rs, step, "bib", t))
  <2>2. n \in Nat /\ n \in DOMAIN rs /\ Applies(rs[n], step) /\ rs[n].operation = "bib"
        /\ t \in TargetsIn(rs[n])
    BY <2>1, DemandingFirst
  <2> HIDE DEF n
  <2>3. sign(t) = [class |-> t, n |-> n, kind |-> "sign", block |-> t]
    BY DEF n
  <2>4. t \in 0 .. 3 /\ t \in Nat
    BY <2>1 DEF Target
  <2> HIDE DEF sign
  <2>5. sign(t) \in Action
    BY <2>2, <2>3, <2>4 DEF Action, Kind
  <2> QED BY <2>1, <2>2, <2>3, <2>5 DEF SourceAction
<1>3. ASSUME NEW t \in Encrs
      PROVE  /\ encr(t) \in Action
             /\ SourceAction(b, rs, step, encr(t))
             /\ encr(t).kind = "encrypt" /\ encr(t).block = t /\ encr(t).class = 2
  <2>1. t \in Target /\ Demanding(rs, step, "bcb", t) # {} /\ t \notin Encrypted(b)
    BY UnprotectedIs, VisibleEncrypted
  <2> DEFINE n == First(Demanding(rs, step, "bcb", t))
  <2>2. n \in Nat /\ n \in DOMAIN rs /\ Applies(rs[n], step) /\ rs[n].operation = "bcb"
        /\ t \in TargetsIn(rs[n])
    BY <2>1, DemandingFirst
  <2>3. t = 1
    BY <2>2, RuleIs
  <2> HIDE DEF n
  <2>4. encr(t) = [class |-> 2, n |-> n, kind |-> "encrypt", block |-> t]
    BY DEF n
  <2>5. 2 \in 0 .. 3 /\ t \in Nat
    BY <2>3
  <2> HIDE DEF encr
  <2>6. encr(t) \in Action
    BY <2>2, <2>4, <2>5 DEF Action, Kind
  <2> QED BY <2>1, <2>2, <2>3, <2>4, <2>6 DEF SourceAction
<1> HIDE DEF sign, encr, Signs, Encrs, acts
<1>4. \A t \in Signs : t \in Target
  BY UnprotectedIs DEF Signs
<1>5. \A a \in acts : \/ \E t \in Signs : a = sign(t)
                      \/ \E t \in Encrs : a = encr(t)
  BY <1>1
<1>6. \A t \in Signs : sign(t) \in acts
  BY <1>1
<1>7. \A t \in Encrs : encr(t) \in acts
  BY <1>1
<1>8. \A a, c \in acts : a.block = c.block /\ a.class = c.class => a = c
  <2> SUFFICES ASSUME NEW a \in acts, NEW c \in acts, a.block = c.block, a.class = c.class
               PROVE  a = c
    OBVIOUS
  <2>1. \A t \in Signs : sign(t).class # 2
    BY <1>2, <1>4 DEF Target
  <2> QED BY <1>2, <1>3, <1>5, <2>1
<1>9. acts \subseteq Action /\ \A a \in acts : SourceAction(b, rs, step, a)
  BY <1>2, <1>3, <1>5
<1>10. \A t \in Signs : \E a \in acts : a.kind = "sign" /\ a.block = t
  BY <1>2, <1>6
<1>11. \A t \in Encrs : \E a \in acts : a.kind = "encrypt" /\ a.block = t
  BY <1>3, <1>7
<1>12. \A a \in acts : a.kind = "sign" => a.block \in Signs
  BY <1>2, <1>3, <1>5
<1>13. \A a \in acts : a.kind = "encrypt" => a.block \in Encrs
  BY <1>2, <1>3, <1>5
<1> QED BY <1>8, <1>9, <1>10, <1>11, <1>12, <1>13 DEF Signs, Encrs, acts

\* An action of a receiver on a security block.
Handles(b, rs, a, x) ==
    /\ a.n \in DOMAIN rs /\ Applies(rs[a.n], "Receive")
    /\ x.number = a.block /\ x.operation = rs[a.n].operation
    /\ a.kind = ReceiverKind(rs[a.n]) /\ a.class = ReceiverClass(x, a.kind)

Misses(b, rs, a) ==
    /\ a.n \in DOMAIN rs /\ Applies(rs[a.n], "Receive")
    /\ a.kind = "missing" /\ a.class = 0
    /\ a.block \in Unprotected(rs, "Receive", b, rs[a.n].operation)

\* The actions of a receiver: what they are about, each once, and which there are.
LEMMA ReceiverActs ==
    ASSUME NEW rs \in Seq(Rule), NEW b \in Bundle, Shaped(b)
    PROVE  LET acts == Evaluate(rs, "Receive", b)
           IN /\ acts \subseteq Action
              /\ \A a \in acts : \/ Misses(b, rs, a)
                                 \/ \E x \in Visible(b) : Handles(b, rs, a, x)
              /\ \A a, c \in acts : a.kind # "missing" /\ c.kind # "missing"
                                    /\ a.block = c.block => a = c
              /\ \A op \in Operation : \A t \in Unprotected(rs, "Receive", b, op) :
                    \E a \in acts : /\ a.kind = "missing" /\ a.block = t
                                    /\ a.n \in DOMAIN rs /\ rs[a.n].operation = op
              /\ \A x \in Visible(b) : Handling(rs, "Receive", b, x) # {} =>
                    \E a \in acts : Handles(b, rs, a, x)
<1> DEFINE step == "Receive"
           miss(op, t) == [class |-> 0, n |-> First(Demanding(rs, step, op, t)),
                           kind |-> "missing", block |-> t]
           nr(x) == First(Handling(rs, step, b, x))
           hand(x) == [class |-> ReceiverClass(x, ReceiverKind(rs[nr(x)])), n |-> nr(x),
                       kind |-> ReceiverKind(rs[nr(x)]), block |-> x.number]
           Xs == {y \in Visible(b) : Handling(rs, step, b, y) # {}}
           Un(op) == Unprotected(rs, step, b, op)
           acts == Evaluate(rs, step, b)
<1>1. acts = (UNION {{miss(op, t) : t \in Un(op)} : op \in Operation}) \cup {hand(x) : x \in Xs}
  BY DEF Evaluate, ReceiverActions
<1>2. ASSUME NEW op \in Operation, NEW t \in Un(op)
      PROVE  /\ miss(op, t) \in Action
             /\ Misses(b, rs, miss(op, t))
             /\ miss(op, t).kind = "missing" /\ miss(op, t).block = t
             /\ rs[miss(op, t).n].operation = op
  <2>1. t \in Target /\ Demanding(rs, step, op, t) # {}
    BY UnprotectedIs
  <2> DEFINE n == First(Demanding(rs, step, op, t))
  <2>2. n \in Nat /\ n \in DOMAIN rs /\ Applies(rs[n], step) /\ rs[n].operation = op
    BY <2>1, DemandingFirst
  <2> HIDE DEF n
  <2>3. miss(op, t) = [class |-> 0, n |-> n, kind |-> "missing", block |-> t]
    BY DEF n
  <2>4. 0 \in 0 .. 3 /\ t \in Nat
    BY <2>1 DEF Target
  <2> HIDE DEF miss
  <2>5. miss(op, t) \in Action
    BY <2>2, <2>3, <2>4 DEF Action, Kind
  <2> QED BY <2>2, <2>3, <2>5 DEF Misses
<1>3. ASSUME NEW x \in Xs
      PROVE  /\ hand(x) \in Action
             /\ Handles(b, rs, hand(x), x)
             /\ hand(x).block = x.number /\ hand(x).kind # "missing"
  <2>1. nr(x) \in Nat /\ nr(x) \in DOMAIN rs /\ Applies(rs[nr(x)], step)
        /\ rs[nr(x)].operation = x.operation
    BY HandlingFirst
  <2>2. x \in b.blocks /\ x.number \in Nat
    BY DEF Visible, Bundle, SecurityBlock
  <2>3. ReceiverKind(rs[nr(x)]) \in Kind \ {"missing"}
    BY DEF ReceiverKind, Kind
  <2>4. ReceiverClass(x, ReceiverKind(rs[nr(x)])) \in 0 .. 3
    BY DEF ReceiverClass
  <2> HIDE DEF nr
  <2>5. hand(x) \in Action
    BY <2>1, <2>2, <2>3, <2>4 DEF Action
  <2> QED BY <2>1, <2>3, <2>5 DEF Handles
<1> HIDE DEF miss, nr, hand, Xs, acts
<1>4. \A a \in acts : \/ \E op \in Operation : \E t \in Un(op) : a = miss(op, t)
                      \/ \E x \in Xs : a = hand(x)
  BY <1>1
<1>5. \A op \in Operation : \A t \in Un(op) : miss(op, t) \in acts
  BY <1>1
<1>6. \A x \in Xs : hand(x) \in acts
  BY <1>1
<1>7. Xs \subseteq Visible(b) /\ Xs \subseteq b.blocks
      /\ \A x \in Visible(b) : Handling(rs, step, b, x) # {} => x \in Xs
  BY DEF Xs, Visible
<1>8. acts \subseteq Action
  BY <1>2, <1>3, <1>4
<1>9. \A a \in acts : Misses(b, rs, a) \/ \E x \in Visible(b) : Handles(b, rs, a, x)
  BY <1>2, <1>3, <1>4, <1>7
<1>10. \A a, c \in acts : a.kind # "missing" /\ c.kind # "missing" /\ a.block = c.block => a = c
  <2> SUFFICES ASSUME NEW a \in acts, NEW c \in acts, a.kind # "missing", c.kind # "missing",
                      a.block = c.block
               PROVE  a = c
    OBVIOUS
  <2>1. PICK x \in Xs : a = hand(x)
    BY <1>2, <1>4
  <2>2. PICK y \in Xs : c = hand(y)
    BY <1>2, <1>4
  <2>3. x.number = y.number
    BY <2>1, <2>2, <1>3
  <2>4. x = y
    BY <2>3, <1>7 DEF Shaped, Numbered
  <2> QED BY <2>1, <2>2, <2>4
<1>11. \A op \in Operation : \A t \in Un(op) :
          \E a \in acts : /\ a.kind = "missing" /\ a.block = t
                          /\ a.n \in DOMAIN rs /\ rs[a.n].operation = op
  BY <1>2, <1>5 DEF Misses
<1>12. \A x \in Visible(b) : Handling(rs, step, b, x) # {} =>
          \E a \in acts : Handles(b, rs, a, x)
  BY <1>3, <1>6, <1>7
<1> QED BY <1>8, <1>9, <1>10, <1>11, <1>12 DEF acts
------------------------------------------------------------------------------
\* Enforcement: what is to be done at first.

\* What enforce() begins with is in order, and if it decrypts then it decrypts
\* everything: a BCB rule handles every BCB, of the payload and of BIBs.
LEMMA BeginActs ==
    ASSUME NEW rs \in Seq(Rule), Validate(rs), NEW step \in {"Transmit", "Forward", "Receive"},
           NEW b \in Bundle, Shaped(b), NEW acts, acts = Evaluate(rs, step, b),
           NEW opening \in BOOLEAN, opening <=> \E a \in acts : a.kind = "decrypt",
           NEW todo, todo = IF opening THEN OnBcb(rs, acts) ELSE acts
    PROVE  /\ todo \subseteq Action
           /\ ActionsOK(b, rs, step, opening, todo)
           /\ opening => step = "Receive" /\ Following(b, opening, todo)
           /\ step = "Receive" /\ ~opening =>
                 \A x \in b.blocks : x.operation = "bcb" => Handling(rs, step, b, x) = {}
<1>1. todo \subseteq acts
  BY DEF OnBcb
<1>2. CASE step # "Receive"
  <2>1. step \in {"Transmit", "Forward"}
    BY <1>2
  <2>2. acts \subseteq Action /\ \A a \in acts : SourceAction(b, rs, step, a)
    BY <2>1, SourceActs
  <2>3. \A a, c \in acts : a.block = c.block /\ a.class = c.class => a = c
    BY <2>1, SourceActs
  <2>4. ~opening
    BY <2>2 DEF SourceAction
  <2> QED BY <1>1, <1>2, <2>2, <2>3, <2>4 DEF ActionsOK
<1>3. CASE step = "Receive"
  <2>1. acts \subseteq Action
    BY <1>3, ReceiverActs
  <2>2. \A a \in acts : \/ Misses(b, rs, a)
                        \/ \E x \in Visible(b) : Handles(b, rs, a, x)
    BY <1>3, ReceiverActs
  <2>3. \A a, c \in acts : a.kind # "missing" /\ c.kind # "missing"
                           /\ a.block = c.block => a = c
    BY <1>3, ReceiverActs
  <2>4. \A x \in Visible(b) : Handling(rs, "Receive", b, x) # {} =>
           \E a \in acts : Handles(b, rs, a, x)
    BY <1>3, ReceiverActs
  <2>5. ASSUME NEW a \in todo PROVE MissingAction(rs, step, a) \/ BlockAction(b, rs, step, opening, a)
    <3>1. CASE Misses(b, rs, a)
      BY <1>3, <3>1 DEF Misses, MissingAction
    <3>2. ASSUME NEW x \in Visible(b), Handles(b, rs, a, x)
          PROVE  BlockAction(b, rs, step, opening, a)
      <4>1. x \in b.blocks /\ (x.operation = "bib" => x.number \notin Encrypted(b))
        BY DEF Visible, Encrypted
      <4>2. x.operation \in {"bib", "bcb"}
        BY <4>1, TargetOf
      <4>3. CASE x.operation = "bcb"
        <5>1. a.kind = "decrypt"
          BY <3>2, <4>3 DEF Handles, ReceiverKind
        <5>2. opening
          BY <1>1, <5>1
        <5> QED BY <1>3, <3>2, <4>1, <4>3, <5>1, <5>2 DEF BlockAction, Handles
      <4>4. CASE x.operation = "bib"
        <5>1. a.kind \in {"verify", "accept"} /\ rs[a.n].operation = "bib"
          BY <3>2, <4>4 DEF Handles, ReceiverKind
        <5>2. ~opening
          BY <5>1 DEF OnBcb
        <5> QED BY <1>3, <3>2, <4>1, <4>4, <5>1, <5>2 DEF BlockAction, Handles
      <4> QED BY <4>2, <4>3, <4>4
    <3> QED BY <1>1, <2>2, <3>1, <3>2
  <2>6. ActionsOK(b, rs, step, opening, todo)
    BY <1>1, <2>3, <2>5 DEF ActionsOK
  <2>7. ASSUME NEW x \in b.blocks, x.operation = "bcb", Handling(rs, step, b, x) # {}
        PROVE  \E a \in acts : a.kind = "decrypt" /\ a.block = x.number
                               /\ rs[a.n].operation = "bcb"
    <3>1. x \in Visible(b)
      BY <2>7 DEF Visible
    <3>2. PICK a \in acts : Handles(b, rs, a, x)
      BY <1>3, <2>4, <2>7, <3>1
    <3> QED BY <2>7, <3>2 DEF Handles, ReceiverKind
  <2>8. ASSUME opening PROVE Following(b, opening, todo)
    <3>1. PICK d \in acts : d.kind = "decrypt"
      BY <2>8
    <3>2. PICK z \in Visible(b) : Handles(b, rs, d, z)
      BY <2>2, <3>1 DEF Misses
    <3>3. d.n \in DOMAIN rs /\ Applies(rs[d.n], step) /\ rs[d.n].operation = "bcb"
      BY <1>3, <3>1, <3>2 DEF Handles, ReceiverKind
    <3>4. TargetsIn(rs[d.n]) = {1}
      BY <3>3, RuleIs
    <3>5. ASSUME NEW x \in b.blocks, x.operation = "bcb"
          PROVE  \E a \in todo : a.kind = "decrypt" /\ a.block = x.number
      <4>1. PICK t \in Nat : /\ x.targets = {t}
                             /\ t = 1 \/ \E y \in b.blocks : y.operation = "bib" /\ y.number = t
        BY <3>5, TargetOf
      <4>2. EncryptsBibs(b, x) \/ x.targets \cap TargetsIn(rs[d.n]) # {}
        BY <3>4, <3>5, <4>1 DEF EncryptsBibs
      <4>3. d.n \in Handling(rs, step, b, x)
        BY <3>3, <3>5, <4>2 DEF Handling
      <4> QED BY <2>7, <2>8, <3>5, <4>3 DEF OnBcb
    <3> QED BY <2>8, <3>5 DEF Following
  <2>9. ASSUME ~opening, NEW x \in b.blocks, x.operation = "bcb"
        PROVE  Handling(rs, step, b, x) = {}
    BY <2>7, <2>9
  <2> QED BY <1>1, <1>3, <2>1, <2>6, <2>8, <2>9
<1> QED BY <1>2, <1>3

\* What enforce() goes on with after the decryptions is about BIBs.
LEMMA AgainActs ==
    ASSUME NEW rs \in Seq(Rule), NEW b \in Bundle, Shaped(b),
           NEW acts, acts = Evaluate(rs, "Receive", b),
           NEW todo, todo = acts \ OnBcb(rs, acts)
    PROVE  /\ todo \subseteq Action
           /\ ActionsOK(b, rs, "Receive", FALSE, todo)
<1>1. acts \subseteq Action
  BY ReceiverActs
<1>2. \A a \in acts : \/ Misses(b, rs, a)
                      \/ \E x \in Visible(b) : Handles(b, rs, a, x)
  BY ReceiverActs
<1>3. \A a, c \in acts : a.kind # "missing" /\ c.kind # "missing" /\ a.block = c.block => a = c
  BY ReceiverActs
<1>4. \A a \in todo : a \in acts /\ rs[a.n].operation # "bcb"
  BY DEF OnBcb
<1>5. ASSUME NEW a \in todo
      PROVE  MissingAction(rs, "Receive", a) \/ BlockAction(b, rs, "Receive", FALSE, a)
  <2>1. CASE Misses(b, rs, a)
    BY <2>1 DEF Misses, MissingAction
  <2>2. ASSUME NEW x \in Visible(b), Handles(b, rs, a, x)
        PROVE  BlockAction(b, rs, "Receive", FALSE, a)
    <3>1. x \in b.blocks /\ (x.operation = "bib" => x.number \notin Encrypted(b))
      BY DEF Visible, Encrypted
    <3>2. x.operation = "bib" /\ rs[a.n].operation = "bib"
      BY <1>4, <2>2, <3>1, TargetOf DEF Handles
    <3>3. a.kind \in {"verify", "accept"}
      BY <2>2, <3>2 DEF Handles, ReceiverKind
    <3> QED BY <2>2, <3>1, <3>2, <3>3 DEF BlockAction, Handles
  <2> QED BY <1>2, <1>4, <2>1, <2>2
<1>6. ActionsOK(b, rs, "Receive", FALSE, todo)
  <2>1. todo \subseteq acts
    BY <1>4
  <2>2. \A a, c \in todo : a.kind # "missing" /\ c.kind # "missing" /\ a.block = c.block => a = c
    BY <1>3, <2>1
  <2>3. \A a \in todo : MissingAction(rs, "Receive", a) \/ BlockAction(b, rs, "Receive", FALSE, a)
    BY <1>5
  <2> HIDE DEF ActionsOK
  <2> QED BY <2>2, <2>3, ZenonT(30) DEF ActionsOK
<1> QED BY <1>1, <1>4, <1>6

------------------------------------------------------------------------------
\* Enforcement: one action after the other.

\* What carrying out an action leaves.
Carried(b, c, rs, step, again, todo, a) ==
    /\ c \in Bundle /\ Shaped(c) /\ c.content = b.content
    /\ ActionsOK(c, rs, step, again, todo \ {a})

\* An action that leaves the bundle alone.
LEMMA CarryNothing ==
    ASSUME NEW b \in Bundle, Shaped(b), NEW rs, NEW step, NEW again, NEW todo,
           ActionsOK(b, rs, step, again, todo), NEW a \in todo
    PROVE  /\ Carried(b, b, rs, step, again, todo, a)
           /\ a.kind # "decrypt" /\ Following(b, again, todo)
                 => Following(b, again, todo \ {a})
BY DEF Carried, ActionsOK, Following

\* Signing a target in the clear.
LEMMA CarrySign ==
    ASSUME NEW b \in Bundle, Shaped(b), NEW rs, NEW step, NEW again \in BOOLEAN, NEW todo,
           ActionsOK(b, rs, step, again, todo), again => step = "Receive",
           NEW a \in todo, a.kind = "sign", NEW key \in Nat,
           NEW c, c = Signed(b, a.block, key)
    PROVE  /\ Carried(b, c, rs, step, again, todo, a)
           /\ Following(b, again, todo) => Following(c, again, todo \ {a})
<1>1. SourceAction(b, rs, step, a)
  BY DEF ActionsOK, MissingAction, BlockAction
<1>2. a.block \in Target /\ a.block \notin Encrypted(b) /\ step # "Receive" /\ ~again
  BY <1>1 DEF SourceAction
<1>3. PICK y : GainsBib(b, c, y, a.block, key)
  <2>1. Numbered(b)
    BY DEF Shaped
  <2>2. a.block \in Target
    BY <1>2
  <2> QED BY <2>1, <2>2, SignedEffect
<1>4. Shaped(c) /\ Encrypted(c) = Encrypted(b) /\ (Together(b) => Together(c))
  BY <1>2, <1>3, AddBib
<1>5. ActionsOK(c, rs, step, again, todo \ {a})
  BY <1>2, <1>4 DEF ActionsOK, SourceAction, MissingAction, BlockAction
<1> QED BY <1>2, <1>3, <1>4, <1>5 DEF Carried, Following, GainsBib

\* Encrypting the payload is the last thing a source does.
LEMMA EncryptLast ==
    ASSUME NEW b, NEW rs, NEW step, NEW again, NEW todo,
           ActionsOK(b, rs, step, again, todo),
           NEW a \in todo, a.kind = "encrypt", \A d \in todo \ {a} : Precedes(a, d)
    PROVE  /\ SourceAction(b, rs, step, a)
           /\ todo \ {a} = {}
<1>1. SourceAction(b, rs, step, a)
  BY DEF ActionsOK, MissingAction, BlockAction
<1>2. a.block = 1 /\ a.class = 2 /\ step # "Receive"
  BY <1>1 DEF SourceAction
<1>3. ASSUME NEW d \in todo \ {a} PROVE FALSE
  <2>1. SourceAction(b, rs, step, d)
    BY <1>2 DEF ActionsOK, MissingAction, BlockAction
  <2>2. CASE d.kind = "sign"
    <3>1. d.class \in {0, 1}
      BY <2>1, <2>2 DEF SourceAction, Target
    <3> QED BY <1>2, <3>1 DEF Precedes
  <2>3. CASE d.kind = "encrypt"
    <3>1. d.block = 1 /\ d.class = 2
      BY <2>1, <2>3 DEF SourceAction
    <3>2. a.kind # "missing" /\ d.kind # "missing"
      BY <2>3
    <3> QED BY <1>2, <3>1, <3>2 DEF ActionsOK
  <2> QED BY <2>1, <2>2, <2>3 DEF SourceAction
<1> QED BY <1>1, <1>3

LEMMA CarryEncrypt ==
    ASSUME NEW b \in Bundle, Shaped(b), NEW rs, NEW step, NEW again \in BOOLEAN, NEW todo,
           ActionsOK(b, rs, step, again, todo), again => step = "Receive",
           NEW a \in todo, a.kind = "encrypt", \A d \in todo \ {a} : Precedes(a, d),
           NEW key \in Nat, NEW c, c = Encrypt(b, a.block, key, TRUE)
    PROVE  /\ Carried(b, c, rs, step, again, todo, a)
           /\ Following(b, again, todo) => Following(c, again, todo \ {a})
<1>1. SourceAction(b, rs, step, a) /\ todo \ {a} = {}
  BY EncryptLast
<1>2. a.block = 1 /\ a.block \notin Encrypted(b) /\ ~again
  BY <1>1 DEF SourceAction
<1>3. PICK Y : GainsBcbs(b, c, Y, 1, key)
  <2>1. 1 \in Target
    BY DEF Target
  <2>2. c = Encrypt(b, 1, key, TRUE)
    BY <1>2
  <2>3. Numbered(b)
    BY DEF Shaped
  <2> QED BY <2>1, <2>2, <2>3, EncryptEffect
<1>4. Shaped(c) /\ (Together(b) => Together(c))
  BY <1>2, <1>3, AddBcbs
<1>5. ActionsOK(c, rs, step, again, todo \ {a})
  BY <1>1 DEF ActionsOK
<1> QED BY <1>2, <1>3, <1>4, <1>5 DEF Carried, Following, GainsBcbs

\* The bundle c is b without the block x; only accepting a BIB of the primary block
\* changes its CRC.
Loses(b, c, x) ==
    /\ c \in Bundle /\ c.blocks = b.blocks \ {x} /\ c.content = b.content
    /\ 0 \notin x.targets => c.crc = b.crc

LEMMA WithoutIs ==
    ASSUME NEW b \in Bundle, NEW x, NEW c, c = Without(b, x)
    PROVE  Loses(b, c, x) /\ c.crc = b.crc
BY DEF Without, Bundle, Loses

LEMMA AcceptedIs ==
    ASSUME NEW b \in Bundle, NEW x, NEW c, c = Accepted(b, x)
    PROVE  Loses(b, c, x)
<1> DEFINE w == Without(b, x)
<1>1. w \in Bundle /\ w.blocks = b.blocks \ {x} /\ w.content = b.content /\ w.crc = b.crc
  BY WithoutIs DEF Loses
<1>2. c = [w EXCEPT !.crc = @ \/ 0 \in x.targets]
  BY DEF Accepted
<1> HIDE DEF w
<1> QED BY <1>1, <1>2 DEF Bundle, Loses

\* Removing a BIB, accepted or not.
LEMMA CarryBib ==
    ASSUME NEW b \in Bundle, Shaped(b), NEW rs, NEW step, NEW again \in BOOLEAN, NEW todo,
           ActionsOK(b, rs, step, again, todo),
           NEW a \in todo, a.kind \in {"verify", "accept"},
           NEW c, Loses(b, c, Block(b, a.block))
    PROVE  /\ Carried(b, c, rs, step, again, todo, a)
           /\ Following(b, again, todo) => Following(c, again, todo \ {a})
           /\ Encrypted(c) = Encrypted(b)
<1> USE DEF Loses
<1>1. BlockAction(b, rs, step, again, a)
  BY DEF ActionsOK, MissingAction, SourceAction
<1>2. PICK x \in b.blocks : x.number = a.block /\ x.operation = "bib" /\ ~again
                            /\ x.number \notin Encrypted(b)
  BY <1>1 DEF BlockAction
<1>3. Block(b, a.block) = x
  BY <1>2, BlockFound DEF Shaped
<1>4. Shaped(c) /\ Encrypted(c) = Encrypted(b) /\ (Together(b) => Together(c))
  BY <1>2, <1>3, RemoveBib
<1>5. ActionsOK(c, rs, step, again, todo \ {a})
  <2>1. step = "Receive"
    BY <1>1 DEF BlockAction
  <2>2. ASSUME NEW d \in todo \ {a}
        PROVE  MissingAction(rs, step, d) \/ BlockAction(c, rs, step, again, d)
    <3>1. CASE MissingAction(rs, step, d)
      BY <3>1
    <3>2. CASE BlockAction(b, rs, step, again, d)
      <4>1. d.kind # "missing" /\ a.kind # "missing"
        BY <3>2 DEF BlockAction
      <4>2. d.block # a.block
        BY <2>1, <4>1 DEF ActionsOK
      <4> QED BY <1>2, <1>3, <1>4, <3>2, <4>2 DEF BlockAction
    <3> QED BY <2>1, <3>1, <3>2 DEF ActionsOK, SourceAction
  <2> QED BY <2>2 DEF ActionsOK
<1> QED BY <1>2, <1>4, <1>5 DEF Carried, Following

\* Decrypting removes a BCB.
LEMMA CarryDecrypt ==
    ASSUME NEW b \in Bundle, Shaped(b), NEW rs, NEW step, NEW again \in BOOLEAN, NEW todo,
           ActionsOK(b, rs, step, again, todo),
           NEW a \in todo, a.kind = "decrypt",
           NEW c, Loses(b, c, Block(b, a.block))
    PROVE  /\ Carried(b, c, rs, step, again, todo, a)
           /\ Following(b, again, todo) => Following(c, again, todo \ {a})
<1> USE DEF Loses
<1>1. BlockAction(b, rs, step, again, a)
  BY DEF ActionsOK, MissingAction, SourceAction
<1>2. PICK x \in b.blocks : x.number = a.block /\ x.operation = "bcb" /\ again
  BY <1>1 DEF BlockAction
<1>3. Block(b, a.block) = x
  BY <1>2, BlockFound DEF Shaped
<1>4. Shaped(c)
  BY <1>2, <1>3, RemoveBcb
<1>5. ActionsOK(c, rs, step, again, todo \ {a})
  <2>1. step = "Receive"
    BY <1>1 DEF BlockAction
  <2>2. ASSUME NEW d \in todo \ {a}
        PROVE  MissingAction(rs, step, d) \/ BlockAction(c, rs, step, again, d)
    <3>1. CASE MissingAction(rs, step, d)
      BY <3>1
    <3>2. CASE BlockAction(b, rs, step, again, d)
      <4>1. d.kind # "missing" /\ a.kind # "missing"
        BY <3>2 DEF BlockAction
      <4>2. d.block # a.block
        BY <2>1, <4>1 DEF ActionsOK
      <4> QED BY <1>2, <1>3, <3>2, <4>2 DEF BlockAction
    <3> QED BY <2>1, <3>1, <3>2 DEF ActionsOK, SourceAction
  <2> QED BY <2>2 DEF ActionsOK
<1>6. ASSUME Following(b, again, todo) PROVE Following(c, again, todo \ {a})
  <2>1. ASSUME NEW y \in c.blocks, y.operation = "bcb"
        PROVE  \E d \in todo \ {a} : d.kind = "decrypt" /\ d.block = y.number
    <3>1. PICK d \in todo : d.kind = "decrypt" /\ d.block = y.number
      BY <1>2, <1>6, <2>1 DEF Following
    <3>2. y.number # x.number
      BY <1>2, <1>3, <2>1 DEF Shaped, Numbered
    <3> QED BY <1>2, <3>1, <3>2
  <2> QED BY <1>2, <2>1 DEF Following
<1> QED BY <1>4, <1>5, <1>6 DEF Carried

\* An action whose turn it is.
Ready(b, rs, step, again, todo, a, key) ==
    /\ b \in Bundle /\ Shaped(b) /\ again \in BOOLEAN /\ key \in Nat
    /\ ActionsOK(b, rs, step, again, todo) /\ (again => step = "Receive")
    /\ a \in todo /\ a.kind \in Kind
    /\ \A d \in todo \ {a} : Precedes(a, d)

\* The rest is still in order, and BIBs still follow their targets.
InOrder(b, c, rs, step, again, todo, a) ==
    /\ Carried(b, c, rs, step, again, todo, a)
    /\ Following(b, again, todo) => Following(c, again, todo \ {a})

\* Every action that succeeds leaves the rest in order.
LEMMA Succeeded ==
    ASSUME NEW b, NEW rs, NEW step, NEW again, NEW todo, NEW a, NEW key,
           Ready(b, rs, step, again, todo, a, key), TRUE \in Outcomes(a, b, key),
           NEW c, c = Apply(a, b, key, TRUE)
    PROVE  InOrder(b, c, rs, step, again, todo, a)
<1> USE DEF InOrder
<1>0. /\ b \in Bundle /\ Shaped(b) /\ again \in BOOLEAN /\ key \in Nat
      /\ ActionsOK(b, rs, step, again, todo) /\ (again => step = "Receive")
      /\ a \in todo /\ a.kind \in Kind
      /\ \A d \in todo \ {a} : Precedes(a, d)
  BY DEF Ready
<1>1. CASE a.kind = "sign"
  <2>1. c = Signed(b, a.block, key)
    BY <1>1 DEF Apply
  <2> QED BY <1>0, <1>1, <2>1, CarrySign
<1>2. CASE a.kind = "encrypt"
  <2>1. c = Encrypt(b, a.block, key, TRUE)
    BY <1>2 DEF Apply
  <2> QED BY <1>0, <1>2, <2>1, CarryEncrypt
<1>3. CASE a.kind = "accept"
  <2>1. c = Accepted(b, Block(b, a.block))
    BY <1>3 DEF Apply
  <2>2. Loses(b, c, Block(b, a.block))
    BY <1>0, <2>1, AcceptedIs
  <2>3. a.kind \in {"verify", "accept"}
    BY <1>3
  <2> QED BY <1>0, <2>2, <2>3, CarryBib, ZenonT(30)
<1>4. CASE a.kind = "decrypt"
  <2>1. c = Without(b, Block(b, a.block))
    BY <1>4 DEF Apply
  <2>2. Loses(b, c, Block(b, a.block))
    BY <1>0, <2>1, WithoutIs
  <2> QED BY <1>0, <1>4, <2>2, CarryDecrypt
<1>5. CASE a.kind = "verify"
  <2>1. c = b
    BY <1>5 DEF Apply
  <2>2. /\ Carried(b, b, rs, step, again, todo, a)
        /\ a.kind # "decrypt" /\ Following(b, again, todo) => Following(b, again, todo \ {a})
    BY <1>0, CarryNothing
  <2> QED BY <1>5, <2>1, <2>2
<1>6. CASE a.kind = "missing"
  BY <1>6 DEF Outcomes
<1> QED BY <1>0, <1>1, <1>2, <1>3, <1>4, <1>5, <1>6 DEF Kind

\* An action that fails changes nothing.
LEMMA Failed ==
    ASSUME NEW b, NEW a, NEW key, a.kind \in Kind, FALSE \in Outcomes(a, b, key)
    PROVE  Apply(a, b, key, FALSE) = b
<1>1. CASE a.kind = "sign"
  BY <1>1 DEF Apply
<1>2. CASE a.kind = "encrypt"
  BY <1>2 DEF Apply, Encrypt
<1>3. CASE a.kind \notin {"sign", "encrypt"}
  BY <1>3 DEF Apply
<1> QED BY <1>1, <1>2, <1>3

\* The rest is in order although an action failed.
Tolerated(b, c, rs, step, again, todo, a) ==
    /\ Carried(b, c, rs, step, again, todo, a)
    /\ a.kind # "decrypt" /\ Following(b, again, todo) => Following(c, again, todo \ {a})
    /\ Encrypted(c) = Encrypted(b)

\* Removing the operation that failed leaves the rest in order, too.
LEMMA RemovedToo ==
    ASSUME NEW b, NEW rs, NEW step, NEW again, NEW todo, NEW a, NEW key,
           Ready(b, rs, step, again, todo, a, key),
           NEW c, c \in {b, RemoveOperation(a, b)}
    PROVE  Tolerated(b, c, rs, step, again, todo, a)
<1> USE DEF Tolerated
<1>0. /\ b \in Bundle /\ Shaped(b) /\ again \in BOOLEAN
      /\ ActionsOK(b, rs, step, again, todo) /\ a \in todo
  BY DEF Ready
<1>7. CASE c = b
  <2>1. /\ Carried(b, b, rs, step, again, todo, a)
        /\ a.kind # "decrypt" /\ Following(b, again, todo) => Following(b, again, todo \ {a})
    BY <1>0, CarryNothing
  <2> QED BY <1>7, <2>1
<1>1. CASE c # b /\ a.kind \in {"verify", "accept"}
  <2>1. c = Without(b, Block(b, a.block))
    BY <1>1 DEF RemoveOperation
  <2>2. Loses(b, c, Block(b, a.block))
    BY <1>0, <2>1, WithoutIs
  <2> QED BY <1>0, <1>1, <2>2, CarryBib
<1>2. CASE c # b /\ a.kind \notin {"verify", "accept"}
  BY <1>2 DEF RemoveOperation
<1> QED BY <1>7, <1>1, <1>2

------------------------------------------------------------------------------
\* BIBs follow their targets.

LEMMA NoBundleShaped == NoBundle \in Bundle /\ Shaped(NoBundle) /\ Together(NoBundle)
<1>1. NoBundle \in Bundle
  BY DEF NoBundle, Bundle
<1>2. NoBundle.blocks = {}
  BY DEF NoBundle
<1>3. Numbered(NoBundle)
  <2>1. \A x \in NoBundle.blocks : x.number <= 0
    BY <1>2
  <2> QED BY <1>2, <2>1 DEF Numbered
<1> QED BY <1>1, <1>2, <1>3 DEF Shaped, OneTarget, Together

LEMMA NoJobIs ==
    /\ NoJob \in [node : Node, step : {"idle", "Transmit", "Forward", "Receive"}, key : Nat,
                  todo : SUBSET Action, again : BOOLEAN]
    /\ NoJob.node = "S" /\ NoJob.step = "idle" /\ NoJob.todo = {} /\ NoJob.again = FALSE
    /\ NoJob.key = 0
BY DEF NoJob, Node

LEMMA NoActions ==
    ASSUME NEW b, NEW rs, NEW step, NEW again
    PROVE  ActionsOK(b, rs, step, again, {})
BY DEF ActionsOK

LEMMA FollowInit == BpsecInit => FollowInv
<1> SUFFICES ASSUME BpsecInit PROVE FollowInv
  OBVIOUS
<1> USE DEF BpsecInit
<1>1. policy \in [Node -> Seq(Rule)] /\ \A n \in Node : Validate(policy[n])
  <2>1. policy \in [Node -> UNION {Policies[n] : n \in Node}]
        /\ \A n \in Node : policy[n] \in Policies[n] /\ Validate(policy[n])
    OBVIOUS
  <2>2. \A n \in Node : Policies[n] \subseteq Seq(Rule)
    BY BpsecAssumption
  <2> QED BY <2>1, <2>2
<1>2. version \in [Node -> 0 .. MaxRotations]
  BY BpsecAssumption
<1>3. kept \in Bundle /\ kept.blocks = {}
  <2>1. PICK crc \in BOOLEAN : kept = [crc |-> crc, content |-> [t \in Target |-> TRUE],
                                      blocks |-> {}]
    OBVIOUS
  <2>2. [t \in Target |-> TRUE] \in [Target -> BOOLEAN]
    OBVIOUS
  <2> QED BY <2>1, <2>2 DEF Bundle
<1>4. Shaped(kept) /\ Together(kept)
  <2>1. \A x \in kept.blocks : x.number <= 0
    BY <1>3
  <2> QED BY <1>3, <2>1 DEF Shaped, Numbered, OneTarget, Together
<1>5. BpsecTypeOK
  BY <1>1, <1>2, <1>3, NoBundleShaped, NoJobIs DEF BpsecTypeOK
<1>6. JobPlaced
  BY NoJobIs DEF JobPlaced
<1>7. ActionsOK(wire, policy[job.node], job.step, job.again, job.todo)
  BY NoJobIs, NoActions
<1>8. Following(wire, job.again, job.todo)
  BY NoJobIs, NoBundleShaped DEF Following
<1> QED BY <1>1, <1>4, <1>5, <1>6, <1>7, <1>8, NoBundleShaped DEF FollowInv

\* The types of an enforcement.
Job == [node : Node, step : {"idle", "Transmit", "Forward", "Receive"}, key : Nat,
        todo : SUBSET Action, again : BOOLEAN]

LEMMA FollowFacts ==
    ASSUME FollowInv
    PROVE  /\ policy \in [Node -> Seq(Rule)] /\ version \in [Node -> 0 .. MaxRotations]
           /\ \A n \in Node : policy[n] \in Seq(Rule) /\ Validate(policy[n]) /\ version[n] \in Nat
           /\ kept \in Bundle /\ Shaped(kept) /\ wire \in Bundle /\ Shaped(wire)
           /\ job \in Job /\ job.node \in Node /\ job.key \in Nat /\ job.again \in BOOLEAN
           /\ job.todo \subseteq Action
BY BpsecAssumption DEF FollowInv, BpsecTypeOK, Job

\* enforce() begins.
LEMMA BeginFollow ==
    ASSUME FollowInv, NEW n \in Node, NEW step \in {"Transmit", "Forward", "Receive"},
           NEW b \in Bundle, Shaped(b), "decrypt" \notin damaged => Together(b),
           step = "Transmit" => n = "S" /\ place = "new",
           step = "Forward" => n \in {"S", "G"} /\ place = n,
           step = "Receive" => \/ n = "G" /\ place = "toG"
                               \/ n = "D" /\ place = "toD",
           BpBegin(n, step, b)
    PROVE  FollowInv'
<1> DEFINE acts == Evaluate(policy[n], step, b)
           opening == \E a \in acts : a.kind = "decrypt"
           todo == IF opening THEN OnBcb(policy[n], acts) ELSE acts
<1>1. /\ wire' = b
      /\ job' = [node |-> n, step |-> step, key |-> version[n], todo |-> todo, again |-> opening]
      /\ UNCHANGED <<policy, version, place, kept, changed, damaged>>
  BY DEF BpBegin
<1>2. policy[n] \in Seq(Rule) /\ Validate(policy[n]) /\ version[n] \in Nat
  BY FollowFacts
<1>3. PICK ac : ac = acts
  OBVIOUS
<1>4. PICK op \in BOOLEAN : op = opening
  OBVIOUS
<1>5. PICK td : td = todo
  OBVIOUS
<1>6. job' = [node |-> n, step |-> step, key |-> version[n], todo |-> td, again |-> op]
  BY <1>1, <1>4, <1>5
<1>7. op <=> \E a \in ac : a.kind = "decrypt"
  BY <1>3, <1>4
<1>8. td = IF op THEN OnBcb(policy[n], ac) ELSE ac
  BY <1>3, <1>4, <1>5
<1>9. ac = Evaluate(policy[n], step, b)
  BY <1>3
<1> HIDE DEF acts, opening, todo
<1>10. /\ td \subseteq Action
       /\ ActionsOK(b, policy[n], step, op, td)
       /\ op => step = "Receive" /\ Following(b, op, td)
  BY <1>2, <1>7, <1>8, <1>9, BeginActs
<1>11. /\ job' \in Job
       /\ job'.node = n /\ job'.step = step /\ job'.todo = td /\ job'.again = op
  BY <1>2, <1>6, <1>10 DEF Job
<1>12. BpsecTypeOK'
  BY <1>1, <1>11 DEF FollowInv, BpsecTypeOK, Job
<1>13. JobPlaced'
  <2>1. job' # NoJob /\ job'.step # "idle"
    BY <1>11, NoJobIs
  <2> QED BY <1>1, <1>10, <1>11, <2>1 DEF JobPlaced
<1>14. ActionsOK(wire, policy[job.node], job.step, job.again, job.todo)'
  BY <1>1, <1>10, <1>11
<1>15. "decrypt" \notin damaged => Following(b, op, td)
  BY <1>10 DEF Following
<1>16. ("decrypt" \notin damaged => Together(kept) /\ Following(wire, job.again, job.todo))'
  BY <1>1, <1>11, <1>15 DEF FollowInv
<1>17. (\A m \in Node : Validate(policy[m]))' /\ Shaped(kept)' /\ Shaped(wire)'
  BY <1>1 DEF FollowInv
<1> QED BY <1>12, <1>13, <1>14, <1>16, <1>17 DEF FollowInv

\* carry_out succeeds or is tolerated: it leaves c, and what is left to do is in order.
LEMMA CarryFollow ==
    ASSUME FollowInv, NEW a \in job.todo, NEW c, c \in Bundle, Shaped(c),
           ActionsOK(c, policy[job.node], job.step, job.again, job.todo \ {a}),
           "decrypt" \notin damaged' => "decrypt" \notin damaged
              /\ (Following(wire, job.again, job.todo)
                    => Following(c, job.again, job.todo \ {a})),
           damaged' \subseteq Kind,
           wire' = c, job' = [job EXCEPT !.todo = @ \ {a}],
           UNCHANGED <<policy, version, place, kept, changed>>
    PROVE  FollowInv'
<1>1. job \in Job /\ job.todo \subseteq Action
  BY FollowFacts
<1>2. /\ job' \in Job
      /\ job'.node = job.node /\ job'.step = job.step /\ job'.todo = job.todo \ {a}
      /\ job'.again = job.again /\ job'.key = job.key
  BY <1>1 DEF Job
<1>3. BpsecTypeOK'
  BY <1>2 DEF FollowInv, BpsecTypeOK, Job
<1>4. JobPlaced'
  <2>1. job.step # "idle"
    BY NoJobIs DEF FollowInv, JobPlaced
  <2>2. job' # NoJob
    BY <1>2, <2>1, NoJobIs
  <2> QED BY <1>2, <2>1, <2>2 DEF FollowInv, JobPlaced
<1>5. ActionsOK(wire, policy[job.node], job.step, job.again, job.todo)'
  BY <1>2
<1>6. ("decrypt" \notin damaged => Together(kept) /\ Following(wire, job.again, job.todo))'
  BY <1>2 DEF FollowInv
<1>7. (\A m \in Node : Validate(policy[m]))' /\ Shaped(kept)' /\ Shaped(wire)'
  BY DEF FollowInv
<1> QED BY <1>3, <1>4, <1>5, <1>6, <1>7 DEF FollowInv

\* The action that is due is ready.
LEMMA DueFacts ==
    ASSUME FollowInv, NEW a \in job.todo, NEW ok, Due(a, ok)
    PROVE  /\ a.kind \in Kind
           /\ ok \in Outcomes(a, wire, job.key)
           /\ Ready(wire, policy[job.node], job.step, job.again, job.todo, a, job.key)
<1>1. a.kind \in Kind
  BY FollowFacts DEF Action
<1> QED BY <1>1, FollowFacts DEF FollowInv, JobPlaced, Due, Ready

LEMMA SucceedFollow ==
    ASSUME FollowInv, NEW a \in job.todo, BpSucceed(a)
    PROVE  FollowInv'
<1>1. PICK c : c = Apply(a, wire, job.key, TRUE)
  OBVIOUS
<1>2. /\ Due(a, TRUE) /\ wire' = c /\ job' = [job EXCEPT !.todo = @ \ {a}]
      /\ UNCHANGED <<policy, version, place, kept, changed, damaged>>
  BY <1>1 DEF BpSucceed
<1>3. InOrder(wire, c, policy[job.node], job.step, job.again, job.todo, a)
  BY <1>1, <1>2, DueFacts, Succeeded
<1>4. damaged' \subseteq Kind
  BY <1>2 DEF FollowInv, BpsecTypeOK
<1> QED BY <1>2, <1>3, <1>4, CarryFollow DEF Carried, InOrder

LEMMA TolerateFollow ==
    ASSUME FollowInv, NEW a \in job.todo, BpTolerate(a)
    PROVE  FollowInv'
<1>1. PICK left : left = Apply(a, wire, job.key, FALSE)
  OBVIOUS
<1>2. PICK c : c = IF OnFailure(a) = "remove" THEN RemoveOperation(a, left) ELSE left
  OBVIOUS
<1>3. /\ Due(a, FALSE) /\ wire' = c /\ job' = [job EXCEPT !.todo = @ \ {a}]
      /\ damaged' = damaged \cup {a.kind}
      /\ UNCHANGED <<policy, version, place, kept, changed>>
  BY <1>1, <1>2 DEF BpTolerate
<1>4. left = wire
  BY <1>1, <1>3, DueFacts, Failed
<1>5. Tolerated(wire, c, policy[job.node], job.step, job.again, job.todo, a)
  <2>1. c \in {wire, RemoveOperation(a, wire)}
    BY <1>2, <1>4
  <2>2. Ready(wire, policy[job.node], job.step, job.again, job.todo, a, job.key)
    BY <1>3, DueFacts
  <2> QED BY <2>1, <2>2, RemovedToo
<1>6. damaged' \subseteq Kind
  BY <1>3, DueFacts DEF FollowInv, BpsecTypeOK
<1> QED BY <1>3, <1>5, <1>6, CarryFollow DEF Carried, Tolerated

LEMMA DropFollow ==
    ASSUME FollowInv, NEW a \in job.todo, BpDrop(a)
    PROVE  FollowInv'
<1>1. /\ Due(a, FALSE) /\ place' = "dropped" /\ kept' = NoBundle /\ wire' = NoBundle
      /\ job' = NoJob /\ damaged' = damaged \cup {a.kind}
      /\ UNCHANGED <<policy, version, changed>>
  BY DEF BpDrop
<1>2. damaged' \subseteq Kind
  BY <1>1, DueFacts DEF FollowInv, BpsecTypeOK
<1>3. BpsecTypeOK'
  BY <1>1, <1>2, NoBundleShaped, NoJobIs DEF FollowInv, BpsecTypeOK
<1>4. JobPlaced'
  BY <1>1, NoJobIs DEF JobPlaced
<1>5. ActionsOK(wire, policy[job.node], job.step, job.again, job.todo)'
  BY <1>1, NoJobIs, NoActions
<1>6. Together(kept)' /\ Following(wire, job.again, job.todo)' /\ Shaped(kept)' /\ Shaped(wire)'
  BY <1>1, NoJobIs, NoBundleShaped DEF Following
<1> QED BY <1>1, <1>3, <1>4, <1>5, <1>6 DEF FollowInv

LEMMA AgainFollow ==
    ASSUME FollowInv, BpEvaluateAgain
    PROVE  FollowInv'
<1>1. PICK acts : acts = Evaluate(policy[job.node], job.step, wire)
  OBVIOUS
<1>2. PICK todo : todo = acts \ OnBcb(policy[job.node], acts)
  OBVIOUS
<1>3. /\ job.again /\ job.todo = {}
      /\ job' = [job EXCEPT !.todo = todo, !.again = FALSE]
      /\ UNCHANGED <<policy, version, place, kept, wire, changed, damaged>>
  BY <1>1, <1>2 DEF BpEvaluateAgain
<1>4. job.step = "Receive"
  BY <1>3 DEF FollowInv, JobPlaced
<1>5. todo \subseteq Action /\ ActionsOK(wire, policy[job.node], "Receive", FALSE, todo)
  BY <1>1, <1>2, <1>4, FollowFacts, AgainActs
<1>6. /\ job' \in Job
      /\ job'.node = job.node /\ job'.step = job.step /\ job'.todo = todo /\ job'.again = FALSE
  BY <1>3, <1>5, FollowFacts DEF Job
<1>7. BpsecTypeOK'
  BY <1>3, <1>6 DEF FollowInv, BpsecTypeOK, Job
<1>8. JobPlaced'
  <2>1. job' # NoJob
    BY <1>4, <1>6, NoJobIs
  <2> QED BY <1>3, <1>4, <1>6, <2>1 DEF FollowInv, JobPlaced
<1>9. ActionsOK(wire, policy[job.node], job.step, job.again, job.todo)'
  BY <1>3, <1>4, <1>5, <1>6
<1>10. ASSUME "decrypt" \notin damaged PROVE Together(wire)
  <2>1. \A x \in wire.blocks : x.operation # "bcb"
    BY <1>3, <1>10 DEF FollowInv, Following
  <2>2. \A t : t \notin Encrypted(wire)
    BY <2>1, EncryptedIs
  <2> QED BY <2>2 DEF Together, Encrypted
<1>11. ("decrypt" \notin damaged => Together(kept) /\ Following(wire, job.again, job.todo))'
  BY <1>3, <1>6, <1>10 DEF FollowInv, Following
<1> QED BY <1>3, <1>7, <1>8, <1>9, <1>11 DEF FollowInv

LEMMA EnforcedFollow ==
    ASSUME FollowInv, BpEnforced
    PROVE  FollowInv'
<1>1. /\ job.step # "idle" /\ ~job.again /\ job.todo = {} /\ job' = NoJob
      /\ UNCHANGED <<policy, version, changed, damaged>>
  BY DEF BpEnforced
<1>2. \/ /\ job.step = "Forward" /\ place' = NextHop(job.node) /\ UNCHANGED <<kept, wire>>
      \/ place' = job.node /\ kept' = wire /\ wire' = NoBundle
  BY DEF BpEnforced
<1>3. place' \in {"new", "toG", "toD", "dropped"} \cup Node
  BY <1>2, FollowFacts DEF NextHop
<1>4. kept' \in Bundle /\ wire' \in Bundle /\ Shaped(kept') /\ Shaped(wire')
  BY <1>2, NoBundleShaped, FollowFacts
<1>5. BpsecTypeOK'
  BY <1>1, <1>3, <1>4, NoJobIs DEF FollowInv, BpsecTypeOK
<1>6. JobPlaced'
  BY <1>1, NoJobIs DEF JobPlaced
<1>7. ActionsOK(wire, policy[job.node], job.step, job.again, job.todo)'
  BY <1>1, NoJobIs, NoActions
<1>8. "decrypt" \notin damaged => Together(kept') /\ Together(wire')
  BY <1>1, <1>2, NoBundleShaped DEF FollowInv, Following
<1>9. ("decrypt" \notin damaged => Together(kept) /\ Following(wire, job.again, job.todo))'
  BY <1>1, <1>8, NoJobIs DEF Following
<1> QED BY <1>1, <1>4, <1>5, <1>6, <1>7, <1>9 DEF FollowInv

LEMMA LinkFollow ==
    ASSUME FollowInv,
           \/ \E n \in {"S", "G"} : BpLost(n)
           \/ \E t \in Target : BpAlter(t)
           \/ \E n \in Node : BpReload(n)
    PROVE  FollowInv'
<1>1. ASSUME NEW n \in {"S", "G"}, BpLost(n) PROVE FollowInv'
  <2>1. /\ job = NoJob /\ place' = n /\ wire' = NoBundle /\ changed' \subseteq changed
        /\ UNCHANGED <<policy, version, kept, job, damaged>>
    BY <1>1 DEF BpLost
  <2>2. BpsecTypeOK'
    BY <2>1, NoBundleShaped DEF FollowInv, BpsecTypeOK, Node
  <2>3. JobPlaced'
    BY <2>1, NoJobIs DEF JobPlaced
  <2>4. ActionsOK(wire, policy[job.node], job.step, job.again, job.todo)'
    BY <2>1, NoJobIs, NoActions
  <2>5. ("decrypt" \notin damaged => Together(kept) /\ Following(wire, job.again, job.todo))'
    BY <2>1, NoJobIs, NoBundleShaped DEF Following, FollowInv
  <2> QED BY <2>1, <2>2, <2>3, <2>4, <2>5, NoBundleShaped DEF FollowInv
<1>2. ASSUME NEW t \in Target, BpAlter(t) PROVE FollowInv'
  <2>1. /\ job = NoJob /\ wire' = [wire EXCEPT !.content[t] = FALSE] /\ changed' = {t}
        /\ UNCHANGED <<policy, version, place, kept, job, damaged>>
    BY <1>2 DEF BpAlter
  <2>2. wire' \in Bundle /\ wire'.blocks = wire.blocks
    BY <2>1, FollowFacts DEF Bundle
  <2>3. BpsecTypeOK'
    BY <2>1, <2>2 DEF FollowInv, BpsecTypeOK
  <2>4. JobPlaced'
    BY <2>1, NoJobIs DEF JobPlaced
  <2>5. ActionsOK(wire, policy[job.node], job.step, job.again, job.todo)'
    BY <2>1, NoJobIs, NoActions
  <2>6. Shaped(wire')
    BY <2>2, FollowFacts DEF Shaped, Numbered, OneTarget
  <2>7. Together(wire) => Together(wire')
    BY <2>2 DEF Together
  <2>8. ("decrypt" \notin damaged => Together(kept) /\ Following(wire, job.again, job.todo))'
    BY <2>1, <2>7, NoJobIs DEF Following, FollowInv
  <2> QED BY <2>1, <2>3, <2>4, <2>5, <2>6, <2>8 DEF FollowInv
<1>3. ASSUME NEW n \in Node, BpReload(n) PROVE FollowInv'
  <2>1. /\ version[n] < MaxRotations /\ version' = [version EXCEPT ![n] = @ + 1]
        /\ UNCHANGED <<policy, place, kept, wire, job, changed, damaged>>
    BY <1>3 DEF BpReload
  <2>2. version' \in [Node -> 0 .. MaxRotations]
    <3>1. version[n] + 1 \in 0 .. MaxRotations
      BY <2>1, FollowFacts, BpsecAssumption
    <3> QED BY <2>1, <3>1, FollowFacts
  <2>3. BpsecTypeOK'
    BY <2>1, <2>2 DEF FollowInv, BpsecTypeOK
  <2>4. JobPlaced'
    BY <2>1 DEF JobPlaced, FollowInv
  <2>5. ActionsOK(wire, policy[job.node], job.step, job.again, job.todo)'
    BY <2>1 DEF FollowInv
  <2>6. ("decrypt" \notin damaged => Together(kept) /\ Following(wire, job.again, job.todo))'
    BY <2>1 DEF FollowInv
  <2> QED BY <2>1, <2>3, <2>4, <2>5, <2>6 DEF FollowInv
<1> QED BY <1>1, <1>2, <1>3

LEMMA FollowStep ==
    ASSUME FollowInv, [BpsecNext]_bpsecVars
    PROVE  FollowInv'
<1>1. ASSUME job = NoJob, "decrypt" \notin damaged PROVE Together(kept) /\ Together(wire)
  BY <1>1, NoJobIs DEF FollowInv, Following
<1>2. CASE BpTransmit
  <2>1. place = "new" /\ BpBegin("S", "Transmit", kept) /\ job = NoJob
    BY <1>2 DEF BpTransmit, BpBegin
  <2>2. "S" \in Node
    BY DEF Node
  <2> QED BY <1>1, <2>1, <2>2, FollowFacts, BeginFollow
<1>3. ASSUME NEW n \in {"S", "G"}, BpForward(n) PROVE FollowInv'
  <2>1. place = n /\ BpBegin(n, "Forward", kept) /\ job = NoJob
    BY <1>3 DEF BpForward, BpBegin
  <2>2. n \in Node
    BY DEF Node
  <2> QED BY <1>1, <2>1, <2>2, FollowFacts, BeginFollow
<1>4. ASSUME NEW n \in {"G", "D"}, BpReceive(n) PROVE FollowInv'
  <2>1. /\ \/ n = "G" /\ place = "toG"
           \/ n = "D" /\ place = "toD"
        /\ BpBegin(n, "Receive", wire) /\ job = NoJob
    BY <1>4 DEF BpReceive, BpBegin
  <2>2. n \in Node
    BY DEF Node
  <2> QED BY <1>1, <2>1, <2>2, FollowFacts, BeginFollow
<1>5. CASE UNCHANGED bpsecVars
  <2>1. UNCHANGED <<policy, version, place, kept, wire, job, changed, damaged>>
    BY <1>5 DEF bpsecVars
  <2>2. BpsecTypeOK'
    BY <2>1 DEF FollowInv, BpsecTypeOK
  <2>3. JobPlaced'
    BY <2>1 DEF JobPlaced, FollowInv
  <2> QED BY <2>1, <2>2, <2>3 DEF FollowInv
<1> QED BY <1>2, <1>3, <1>4, <1>5, SucceedFollow, TolerateFollow, DropFollow, AgainFollow,
           EnforcedFollow, LinkFollow DEF BpsecNext

LEMMA FollowAlways == BpsecSpec => []FollowInv
BY FollowInit, FollowStep, PTL DEF BpsecSpec

\* Types: whatever the rules of the nodes are, the enforcement, the bundle that is
\* kept and the one that is worked on stay well formed.
THEOREM BpsecTypeCorrect == BpsecSpec => []BpsecTypeOK
<1>1. FollowInv => BpsecTypeOK
  BY DEF FollowInv
<1> QED BY <1>1, FollowAlways, PTL

\* For every configuration that validate() accepts: BIBs are encrypted along with
\* their targets and only with them (encrypt() of the enforcement, RFC 9172, 3.9),
\* at every node and also while a bundle is being protected; only a decryption
\* that failed and was tolerated may part them, or one that is not yet complete.
THEOREM BibsAlwaysFollow == BpsecSpec => []BibsFollowTargets
<1>1. FollowInv => BibsFollowTargets
  BY DEF FollowInv, Following, BibsFollowTargets
<1> QED BY <1>1, FollowAlways, PTL

------------------------------------------------------------------------------
\* What a step does to the bundle and to the enforcement.

\* enforce() begins on the bundle b.
Begins(n, step, b) ==
    /\ job = NoJob /\ wire' = b
    /\ job'.node = n /\ job'.step = step /\ job' # NoJob /\ job'.key = version[n]
    /\ UNCHANGED <<policy, version, place, kept, changed, damaged>>

\* An action is carried out.
Goes(a) ==
    /\ job # NoJob /\ job' # NoJob
    /\ job'.node = job.node /\ job'.step = job.step /\ job'.again = job.again
    /\ job'.key = job.key /\ job'.todo = job.todo \ {a}
    /\ wire'.content = wire.content
    /\ UNCHANGED <<policy, version, place, kept, changed>>

LEMMA BeginIs ==
    ASSUME NEW n \in Node, NEW step \in {"Transmit", "Forward", "Receive"}, NEW b,
           BpBegin(n, step, b)
    PROVE  Begins(n, step, b)
<1>1. /\ job = NoJob /\ wire' = b
      /\ job'.node = n /\ job'.step = step /\ job'.key = version[n]
      /\ UNCHANGED <<policy, version, place, kept, changed, damaged>>
  BY DEF BpBegin
<1>2. job' # NoJob
  BY <1>1, NoJobIs
<1> QED BY <1>1, <1>2 DEF Begins

LEMMA GoesOn ==
    ASSUME FollowInv, NEW a \in job.todo, BpSucceed(a) \/ BpTolerate(a)
    PROVE  Goes(a)
<1>1. job' = [job EXCEPT !.todo = @ \ {a}] /\ UNCHANGED <<policy, version, place, kept, changed>>
  BY DEF BpSucceed, BpTolerate
<1>2. job \in Job /\ job.step # "idle" /\ job # NoJob
  BY FollowFacts, NoJobIs DEF FollowInv, JobPlaced
<1>3. /\ job'.node = job.node /\ job'.step = job.step /\ job'.again = job.again
      /\ job'.key = job.key /\ job'.todo = job.todo \ {a}
  BY <1>1, <1>2 DEF Job
<1>4. job' # NoJob
  BY <1>2, <1>3, NoJobIs
<1>5. CASE BpSucceed(a)
  <2>1. PICK c : c = Apply(a, wire, job.key, TRUE)
    OBVIOUS
  <2>2. Due(a, TRUE) /\ wire' = c
    BY <1>5, <2>1 DEF BpSucceed
  <2>3. InOrder(wire, c, policy[job.node], job.step, job.again, job.todo, a)
    BY <2>1, <2>2, DueFacts, Succeeded
  <2> QED BY <1>1, <1>2, <1>3, <1>4, <2>2, <2>3 DEF InOrder, Carried, Goes
<1>6. CASE BpTolerate(a)
  <2>1. PICK left : left = Apply(a, wire, job.key, FALSE)
    OBVIOUS
  <2>2. Due(a, FALSE) /\ wire' \in {left, RemoveOperation(a, left)}
    BY <1>6, <2>1 DEF BpTolerate
  <2>3. left = wire
    BY <2>1, <2>2, DueFacts, Failed
  <2>4. Ready(wire, policy[job.node], job.step, job.again, job.todo, a, job.key)
    BY <2>2, DueFacts
  <2>5. Tolerated(wire, wire', policy[job.node], job.step, job.again, job.todo, a)
    BY <2>2, <2>3, <2>4, RemovedToo
  <2> QED BY <1>1, <1>2, <1>3, <1>4, <2>5 DEF Tolerated, Carried, Goes
<1> QED BY <1>5, <1>6

------------------------------------------------------------------------------
\* What is altered is known.

LEMMA ContentsInit == BpsecInit => Contents
<1> SUFFICES ASSUME BpsecInit PROVE Contents
  OBVIOUS
<1>1. place = "new" /\ changed = {} /\ job.step = "idle"
  BY NoJobIs DEF BpsecInit
<1>2. \A t \in Target : kept.content[t]
  BY DEF BpsecInit
<1> QED BY <1>1, <1>2 DEF Contents, Node

LEMMA ContentsStep ==
    ASSUME FollowInv, Contents, [BpsecNext]_bpsecVars
    PROVE  Contents'
<1> USE DEF Contents, Node
<1>1. CASE BpTransmit
  <2>1. place = "new" /\ Begins("S", "Transmit", kept)
    BY <1>1, BeginIs DEF BpTransmit
  <2> QED BY <2>1 DEF Begins
<1>2. ASSUME NEW n \in {"S", "G"}, BpForward(n) PROVE Contents'
  <2>1. place = n /\ Begins(n, "Forward", kept)
    BY <1>2, BeginIs DEF BpForward
  <2> QED BY <2>1 DEF Begins
<1>3. ASSUME NEW n \in {"G", "D"}, BpReceive(n) PROVE Contents'
  <2>1. place \in {"toG", "toD"} /\ Begins(n, "Receive", wire)
    BY <1>3, BeginIs DEF BpReceive
  <2> QED BY <2>1 DEF Begins
<1>4. ASSUME NEW a \in job.todo, BpSucceed(a) \/ BpTolerate(a) PROVE Contents'
  <2>1. Goes(a)
    BY <1>4, GoesOn
  <2> QED BY <2>1 DEF Goes
<1>5. ASSUME NEW a \in job.todo, BpDrop(a) PROVE Contents'
  <2>1. place' = "dropped" /\ job'.step = "idle"
    BY <1>5, NoJobIs DEF BpDrop
  <2> QED BY <2>1
<1>6. CASE BpEvaluateAgain
  <2>1. job'.step = job.step /\ UNCHANGED <<place, kept, wire, changed>>
    BY <1>6, FollowFacts DEF BpEvaluateAgain, Job
  <2> QED BY <2>1
<1>7. CASE BpEnforced
  <2>1. /\ job'.step = "idle" /\ changed' = changed /\ job.step # "idle"
        /\ \/ /\ job.step = "Forward" /\ place' = NextHop(job.node) /\ UNCHANGED <<kept, wire>>
           \/ job.step # "Forward" /\ place' = job.node /\ kept' = wire
    BY <1>7, NoJobIs DEF BpEnforced
  <2>2. CASE job.step = "Forward"
    <3>1. job.node \in {"S", "G"} /\ place = job.node /\ wire.content = kept.content
      BY <2>2 DEF FollowInv, JobPlaced
    <3> QED BY <2>1, <2>2, <3>1 DEF NextHop
  <2>3. CASE job.step = "Transmit"
    <3>1. job.node = "S" /\ place = "new" /\ wire.content = kept.content
      BY <2>3 DEF FollowInv, JobPlaced
    <3> QED BY <2>1, <2>3, <3>1
  <2>4. CASE job.step = "Receive"
    <3>1. place \in {"toG", "toD"} /\ job.node \in {"G", "D"}
      BY <2>4 DEF FollowInv, JobPlaced
    <3> QED BY <2>1, <2>4, <3>1
  <2> QED BY <2>1, <2>2, <2>3, <2>4, FollowFacts DEF Job
<1>8. ASSUME NEW n \in {"S", "G"}, BpLost(n) PROVE Contents'
  <2>1. /\ place = NextHop(n) /\ place' = n /\ kept' = kept /\ job'.step = "idle"
        /\ changed' = {t \in changed : ~kept.content[t]}
    BY <1>8, NoJobIs DEF BpLost
  <2>2. place \in {"toG", "toD"} /\ (n = "S" => place = "toG")
    BY <2>1 DEF NextHop
  <2> QED BY <2>1, <2>2
<1>9. ASSUME NEW t \in Target, BpAlter(t) PROVE Contents'
  <2>1. /\ place \in {"toG", "toD"} /\ job'.step = "idle" /\ changed = {} /\ changed' = {t}
        /\ wire' = [wire EXCEPT !.content[t] = FALSE] /\ UNCHANGED <<place, kept>>
    BY <1>9, NoJobIs DEF BpAlter
  <2>2. \A u \in Target : wire'.content[u] = IF u = t THEN FALSE ELSE wire.content[u]
    BY <2>1, FollowFacts DEF Bundle
  <2> QED BY <2>1, <2>2
<1>10. ASSUME NEW n \in Node, BpReload(n) PROVE Contents'
  <2>1. UNCHANGED <<place, kept, wire, job, changed>>
    BY <1>10 DEF BpReload
  <2> QED BY <2>1
<1>11. CASE UNCHANGED bpsecVars
  BY <1>11 DEF bpsecVars
<1> QED BY <1>1, <1>2, <1>3, <1>4, <1>5, <1>6, <1>7, <1>8, <1>9, <1>10, <1>11 DEF BpsecNext

------------------------------------------------------------------------------
\* What is altered is not delivered.

\* What a successful action does to the bundle.
Effect(b, c, a, key) ==
    \/ a.kind = "sign" /\ \E y : GainsBib(b, c, y, a.block, key)
    \/ a.kind = "encrypt" /\ \E Y : GainsBcbs(b, c, Y, 1, key)
    \/ a.kind \in {"accept", "decrypt"} /\ Loses(b, c, Block(b, a.block))
    \/ a.kind = "verify" /\ c = b

LEMMA SucceedEffect ==
    ASSUME NEW b, NEW rs, NEW step, NEW again, NEW todo, NEW a, NEW key,
           Ready(b, rs, step, again, todo, a, key), TRUE \in Outcomes(a, b, key),
           NEW c, c = Apply(a, b, key, TRUE)
    PROVE  Effect(b, c, a, key)
<1>0. /\ b \in Bundle /\ Shaped(b) /\ Numbered(b) /\ key \in Nat
      /\ ActionsOK(b, rs, step, again, todo) /\ a \in todo /\ a.kind \in Kind
      /\ \A d \in todo \ {a} : Precedes(a, d)
  BY DEF Ready, Shaped
<1>1. CASE a.kind = "sign"
  <2>1. c = Signed(b, a.block, key)
    BY <1>1 DEF Apply
  <2>2. a.block \in Target
    BY <1>0, <1>1 DEF ActionsOK, MissingAction, BlockAction, SourceAction
  <2>3. \E y : GainsBib(b, c, y, a.block, key)
    BY <1>0, <2>1, <2>2, SignedEffect
  <2> QED BY <1>1, <2>3 DEF Effect
<1>2. CASE a.kind = "encrypt"
  <2>1. a.block = 1
    BY <1>0, <1>2, EncryptLast DEF SourceAction
  <2>2. c = Encrypt(b, 1, key, TRUE) /\ 1 \in Target
    BY <1>2, <2>1 DEF Apply, Target
  <2>3. \E Y : GainsBcbs(b, c, Y, 1, key)
    BY <1>0, <2>2, EncryptEffect
  <2> QED BY <1>2, <2>3 DEF Effect
<1>3. CASE a.kind = "accept"
  <2>1. c = Accepted(b, Block(b, a.block))
    BY <1>3 DEF Apply
  <2>2. Loses(b, c, Block(b, a.block))
    BY <1>0, <2>1, AcceptedIs
  <2> QED BY <1>3, <2>2 DEF Effect
<1>4. CASE a.kind = "decrypt"
  <2>1. c = Without(b, Block(b, a.block))
    BY <1>4 DEF Apply
  <2>2. Loses(b, c, Block(b, a.block))
    BY <1>0, <2>1, WithoutIs
  <2> QED BY <1>4, <2>2 DEF Effect
<1>5. CASE a.kind = "verify"
  <2>1. c = b
    BY <1>5 DEF Apply
  <2> QED BY <1>5, <2>1 DEF Effect
<1>6. CASE a.kind = "missing"
  BY <1>6 DEF Outcomes
<1> QED BY <1>0, <1>1, <1>2, <1>3, <1>4, <1>5, <1>6 DEF Kind

\* The action that succeeds, and what it does.
LEMMA SucceedIs ==
    ASSUME FollowInv, NEW a \in job.todo, BpSucceed(a)
    PROVE  /\ Ready(wire, policy[job.node], job.step, job.again, job.todo, a, job.key)
           /\ Effect(wire, wire', a, job.key)
           /\ TRUE \in Outcomes(a, wire, job.key)
           /\ damaged' = damaged
<1>1. PICK c : c = Apply(a, wire, job.key, TRUE)
  OBVIOUS
<1>2. Due(a, TRUE) /\ wire' = c /\ damaged' = damaged
  BY <1>1 DEF BpSucceed
<1>3. Ready(wire, policy[job.node], job.step, job.again, job.todo, a, job.key)
  BY <1>2, DueFacts
<1>4. TRUE \in Outcomes(a, wire, job.key)
  BY <1>2 DEF Due
<1>5. Effect(wire, c, a, job.key)
  BY <1>1, <1>3, <1>4, SucceedEffect
<1> QED BY <1>2, <1>3, <1>4, <1>5

\* The action that fails and is tolerated, and what it leaves.
LEMMA TolerateIs ==
    ASSUME FollowInv, NEW a \in job.todo, BpTolerate(a)
    PROVE  /\ Ready(wire, policy[job.node], job.step, job.again, job.todo, a, job.key)
           /\ wire' \in {wire, RemoveOperation(a, wire)}
           /\ wire'.blocks \subseteq wire.blocks
           /\ FALSE \in Outcomes(a, wire, job.key)
           /\ OnFailure(a) # "drop" /\ damaged' = damaged \cup {a.kind}
<1>1. PICK left : left = Apply(a, wire, job.key, FALSE)
  OBVIOUS
<1>2. /\ Due(a, FALSE) /\ wire' \in {left, RemoveOperation(a, left)}
      /\ OnFailure(a) # "drop" /\ damaged' = damaged \cup {a.kind}
  BY <1>1 DEF BpTolerate
<1>3. left = wire
  BY <1>1, <1>2, DueFacts, Failed
<1>4. Ready(wire, policy[job.node], job.step, job.again, job.todo, a, job.key)
  BY <1>2, DueFacts
<1>5. FALSE \in Outcomes(a, wire, job.key)
  BY <1>2 DEF Due
<1>6. wire'.blocks \subseteq wire.blocks
  BY <1>2, <1>3, FollowFacts DEF RemoveOperation, Without, Bundle
<1> QED BY <1>2, <1>3, <1>4, <1>5, <1>6

\* The gateway signs nothing.
Passing == \A u \in Target : ~Demands("G", "source", "bib", u)

\* An action that signs is demanded by a source rule of the node.
LEMMA SignDemanded ==
    ASSUME FollowInv, NEW a \in job.todo, a.kind \in {"sign", "encrypt"}
    PROVE  /\ job.step \in {"Transmit", "Forward"} /\ job.node \in {"S", "G"}
           /\ a.block \in Target
           /\ a.kind = "sign" => Demands(job.node, "source", "bib", a.block)
           /\ a.kind = "encrypt" => Demands(job.node, "source", "bcb", a.block)
<1>1. SourceAction(wire, policy[job.node], job.step, a)
  BY DEF FollowInv, ActionsOK, MissingAction, BlockAction
<1>2. /\ job.step # "Receive" /\ a.block \in TargetsIn(policy[job.node][a.n])
      /\ a.n \in DOMAIN policy[job.node] /\ Applies(policy[job.node][a.n], job.step)
      /\ a.kind = "sign" => policy[job.node][a.n].operation = "bib"
      /\ a.kind = "encrypt" => policy[job.node][a.n].operation = "bcb"
      /\ a.block \in Target
  BY <1>1 DEF SourceAction, Target
<1>3. policy[job.node][a.n].role = "source" /\ policy[job.node][a.n].matching
  BY <1>2 DEF Applies
<1>4. job.step # "idle"
  BY NoJobIs DEF FollowInv, JobPlaced
<1>5. job.step \in {"Transmit", "Forward"}
  BY <1>2, <1>4, FollowFacts DEF Job
<1>6. job.node \in {"S", "G"}
  BY <1>5 DEF FollowInv, JobPlaced
<1> QED BY <1>2, <1>3, <1>5, <1>6 DEF Demands

LEMMA SignedWholeSame ==
    ASSUME NEW b, NEW c, SignedWhole(b), c.blocks \subseteq b.blocks
    PROVE  SignedWhole(c)
BY DEF SignedWhole

\* BIBs are made over contents nobody altered, if the gateway makes none.
LEMMA WholeStep ==
    ASSUME FollowInv, Contents, Passing, SignedWhole(kept) /\ SignedWhole(wire),
           [BpsecNext]_bpsecVars
    PROVE  SignedWhole(kept') /\ SignedWhole(wire')
<1>0. SignedWhole(NoBundle)
  BY DEF SignedWhole, NoBundle
<1>1. ASSUME NEW a \in job.todo, BpSucceed(a) PROVE SignedWhole(kept') /\ SignedWhole(wire')
  <2>1. Effect(wire, wire', a, job.key) /\ kept' = kept
    BY <1>1, SucceedIs DEF BpSucceed
  <2>2. CASE a.kind = "sign"
    <3>1. job.node = "S" /\ job.step \in {"Transmit", "Forward"}
      BY <2>2, SignDemanded DEF Passing
    <3>2. \A t \in Target : wire.content[t]
      BY <3>1 DEF FollowInv, JobPlaced, Contents
    <3>3. PICK y : GainsBib(wire, wire', y, a.block, job.key)
      BY <2>1, <2>2 DEF Effect
    <3>4. y.scope.content = wire.content /\ wire'.blocks = wire.blocks \cup {y}
      BY <3>3 DEF GainsBib, Snapshot
    <3>5. SignedWhole(wire')
      BY <3>2, <3>4 DEF SignedWhole
    <3> QED BY <2>1, <3>5
  <2>3. CASE a.kind = "encrypt"
    <3>1. PICK Y : GainsBcbs(wire, wire', Y, 1, job.key)
      BY <2>1, <2>3 DEF Effect
    <3>2. wire'.blocks = wire.blocks \cup Y /\ \A y \in Y : y.operation = "bcb"
      BY <3>1 DEF GainsBcbs, NewBcbs
    <3>3. SignedWhole(wire')
      BY <3>2 DEF SignedWhole
    <3> QED BY <2>1, <3>3
  <2>4. CASE a.kind \notin {"sign", "encrypt"}
    <3>1. wire'.blocks \subseteq wire.blocks
      BY <2>1, <2>4 DEF Effect, Loses
    <3> QED BY <2>1, <3>1, SignedWholeSame
  <2> QED BY <2>2, <2>3, <2>4
<1>2. ASSUME NEW a \in job.todo, BpTolerate(a) PROVE SignedWhole(kept') /\ SignedWhole(wire')
  <2>1. wire'.blocks \subseteq wire.blocks /\ kept' = kept
    BY <1>2, TolerateIs DEF BpTolerate
  <2> QED BY <2>1, SignedWholeSame
<1>3. ASSUME NEW t \in Target, BpAlter(t) PROVE SignedWhole(kept') /\ SignedWhole(wire')
  <2>1. wire'.blocks = wire.blocks /\ kept' = kept
    BY <1>3, FollowFacts DEF BpAlter, Bundle
  <2> QED BY <2>1, SignedWholeSame
<1>4. ASSUME kept' \in {kept, wire, NoBundle}, wire' \in {kept, wire, NoBundle}
      PROVE  SignedWhole(kept') /\ SignedWhole(wire')
  BY <1>0, <1>4
<1> QED
  BY <1>1, <1>2, <1>3, <1>4 DEF BpsecNext, bpsecVars, BpTransmit, BpForward, BpReceive,
     BpBegin, BpDrop, BpEvaluateAgain, BpEnforced, BpLost, BpReload

\* An action that checks a security block.
Checks(a) == a.kind \in {"verify", "accept", "decrypt"}

\* What a verification or a decryption finds.
LEMMA OutcomeIs ==
    ASSUME NEW a, NEW b, NEW key, Checks(a), NEW x, x = Block(b, a.block)
    PROVE  /\ TRUE \in Outcomes(a, b, key) => Intact(b, x, key)
           /\ FALSE \in Outcomes(a, b, key) => ~Intact(b, x, key)
<1>1. a.kind # "missing" /\ a.kind # "sign" /\ a.kind # "encrypt"
  BY DEF Checks
<1>2. Outcomes(a, b, key) = {Intact(b, x, key)}
  BY <1>1, Zenon DEF Outcomes
<1>3. Intact(b, x, key) \in BOOLEAN
  BY DEF Intact
<1> HIDE DEF Intact
<1> QED BY <1>2, <1>3, Zenon

\* A rule that demands the BIB of a target in the clear has an action that checks it.
LEMMA CatchActs ==
    ASSUME NEW rs \in Seq(Rule), NEW b \in Bundle, Shaped(b), NEW t \in Target,
           Demanding(rs, "Receive", "bib", t) # {}, t \notin Encrypted(b),
           NEW acts, acts = Evaluate(rs, "Receive", b)
    PROVE  Catching(b, acts \ OnBcb(rs, acts), t)
<1>1. \A op \in Operation : \A s \in Unprotected(rs, "Receive", b, op) :
         \E a \in acts : /\ a.kind = "missing" /\ a.block = s
                         /\ a.n \in DOMAIN rs /\ rs[a.n].operation = op
  BY ReceiverActs
<1>2. \A x \in Visible(b) : Handling(rs, "Receive", b, x) # {} =>
         \E a \in acts : Handles(b, rs, a, x)
  BY ReceiverActs
<1>3. CASE t \in TargetsOf(Visible(b), "bib")
  <2>1. PICK x \in Visible(b) : x.operation = "bib" /\ t \in x.targets
    BY <1>3 DEF TargetsOf
  <2>2. PICK n : n \in Demanding(rs, "Receive", "bib", t)
    OBVIOUS
  <2>3. n \in Handling(rs, "Receive", b, x)
    BY <2>1, <2>2 DEF Demanding, Handling
  <2>4. PICK a \in acts : Handles(b, rs, a, x)
    BY <1>2, <2>3
  <2>5. rs[a.n].operation = "bib" /\ x.number = a.block /\ a.kind \in {"verify", "accept"}
    BY <2>1, <2>4 DEF Handles, ReceiverKind
  <2>6. a \in acts \ OnBcb(rs, acts)
    BY <2>5 DEF OnBcb
  <2>7. x \in b.blocks
    BY DEF Visible
  <2> QED BY <2>1, <2>5, <2>6, <2>7 DEF Catching
<1>4. CASE t \notin TargetsOf(Visible(b), "bib")
  <2>1. t \in Unprotected(rs, "Receive", b, "bib")
    BY <1>4, UnprotectedIs
  <2>2. PICK a \in acts : a.kind = "missing" /\ rs[a.n].operation = "bib"
    BY <1>1, <2>1 DEF Operation
  <2>3. a \in acts \ OnBcb(rs, acts)
    BY <2>2 DEF OnBcb
  <2> QED BY <2>2, <2>3 DEF Catching
<1> QED BY <1>3, <1>4

LEMMA CatchMore ==
    ASSUME NEW b, NEW todo, NEW more, NEW t, todo \subseteq more, Catching(b, todo, t)
    PROVE  Catching(b, more, t)
BY DEF Catching

\* The rules of a strict destination demand the BIB when a bundle is received.
LEMMA StrictDemanding ==
    ASSUME NEW t, Strict(t)
    PROVE  Demanding(policy["D"], "Receive", "bib", t) # {}
<1>1. PICK i \in DOMAIN policy["D"] :
         /\ policy["D"][i].matching /\ policy["D"][i].role \in {"acceptor", "verifier"}
         /\ policy["D"][i].operation = "bib" /\ t \in TargetsIn(policy["D"][i])
  BY DEF Strict, Demands
<1>2. Applies(policy["D"][i], "Receive")
  BY <1>1 DEF Applies
<1>3. i \in Demanding(policy["D"], "Receive", "bib", t)
  BY <1>1, <1>2 DEF Demanding
<1> QED BY <1>3

\* A destination that checks t has its check ahead of it, or t is encrypted.
Caught(t) ==
    /\ job.node = "D" /\ job.step = "Receive" /\ ~job.again =>
          t \in Encrypted(wire) \/ Catching(wire, job.todo, t)
    /\ place = "D" => t \in Encrypted(kept)

\* The check of an altered block never succeeds.
LEMMA SucceedCaught ==
    ASSUME FollowInv, Contents, SignedWhole(wire), NEW t \in changed, Caught(t),
           NEW a \in job.todo, BpSucceed(a)
    PROVE  Caught(t)'
<1>1. Goes(a)
  BY GoesOn
<1>2. /\ Ready(wire, policy[job.node], job.step, job.again, job.todo, a, job.key)
      /\ Effect(wire, wire', a, job.key) /\ TRUE \in Outcomes(a, wire, job.key)
  BY SucceedIs
<1>3. /\ wire \in Bundle /\ Shaped(wire) /\ a.kind \in Kind /\ t \in Target
      /\ ActionsOK(wire, policy[job.node], job.step, job.again, job.todo)
  BY <1>2 DEF Ready, FollowInv, BpsecTypeOK
<1>4. (place = "D" => t \in Encrypted(kept))'
  BY <1>1 DEF Goes, Caught
<1>5. ASSUME job.node = "D", job.step = "Receive", ~job.again
      PROVE  t \in Encrypted(wire') \/ Catching(wire', job.todo \ {a}, t)
  <2>1. a.kind \in {"verify", "accept"} /\ BlockAction(wire, policy[job.node], job.step, job.again, a)
    <3>1. a.kind # "missing"
      BY <1>2 DEF Outcomes
    <3> QED BY <1>3, <1>5, <3>1 DEF ActionsOK, SourceAction, MissingAction, BlockAction
  <2>2. PICK x \in wire.blocks : x.number = a.block /\ x.operation = "bib"
                                 /\ x.number \notin Encrypted(wire)
    BY <2>1 DEF BlockAction
  <2>3. Block(wire, a.block) = x
    BY <1>3, <2>2, BlockFound DEF Shaped
  <2>4. wire' \in Bundle /\ (wire' = wire \/ wire'.blocks = wire.blocks \ {x})
    BY <1>2, <1>3, <2>1, <2>3 DEF Effect, Loses
  <2>5. Encrypted(wire') = Encrypted(wire)
    BY <1>3, <2>2, <2>4, RemoveBib
  <2>6. t \notin x.targets
    <3>1. Intact(wire, x, job.key)
      <4>1. Checks(a)
        BY <2>1 DEF Checks
      <4>2. TRUE \in Outcomes(a, wire, job.key)
        BY <1>2
      <4> QED BY <2>3, <4>1, <4>2, OutcomeIs
    <3>2. x.scope.content[t]
      BY <1>3, <2>2 DEF SignedWhole
    <3>3. ~wire.content[t]
      BY <1>3, <1>5 DEF FollowInv, JobPlaced, Contents
    <3>4. x.scope.content[0] = wire.content[0]
          /\ (1 \in x.targets => x.scope.content[1] = wire.content[1])
      BY <3>1 DEF Intact
    <3> QED BY <1>3, <3>2, <3>3, <3>4 DEF Target
  <2>7. CASE t \in Encrypted(wire)
    BY <2>5, <2>7
  <2>8. CASE Catching(wire, job.todo, t)
    <3>1. PICK d \in job.todo :
             \/ d.kind = "missing"
             \/ /\ d.kind \in {"verify", "accept"}
                /\ \E y \in wire.blocks : y.number = d.block /\ y.operation = "bib" /\ t \in y.targets
      BY <2>8 DEF Catching
    <3>2. CASE d.kind = "missing"
      <4>1. d \in job.todo \ {a}
        BY <2>1, <3>2
      <4> QED BY <3>2, <4>1 DEF Catching
    <3>3. ASSUME NEW y \in wire.blocks, y.number = d.block, y.operation = "bib", t \in y.targets,
                 d.kind \in {"verify", "accept"}
          PROVE  Catching(wire', job.todo \ {a}, t)
      <4>1. y # x
        BY <2>6, <3>3
      <4>2. d # a
        BY <1>3, <2>2, <3>3, <4>1 DEF Shaped, Numbered
      <4>3. y \in wire'.blocks
        BY <2>4, <4>1
      <4> QED BY <3>3, <4>2, <4>3 DEF Catching
    <3> QED BY <3>1, <3>2, <3>3
  <2> QED BY <1>5, <2>7, <2>8 DEF Caught
<1> QED BY <1>1, <1>4, <1>5 DEF Goes, Caught

LEMMA CaughtStep ==
    ASSUME FollowInv, Contents, SignedWhole(wire), NEW t \in changed', Strict(t),
           t \in changed => Caught(t), [BpsecNext]_bpsecVars
    PROVE  Caught(t)'
<1>0. t \in Target
  <2>1. changed' \subseteq Target
    BY DEF FollowInv, BpsecTypeOK, BpsecNext, bpsecVars, BpTransmit, BpForward, BpReceive,
       BpBegin, BpSucceed, BpTolerate, BpDrop, BpEvaluateAgain, BpEnforced, BpLost, BpAlter,
       BpReload
  <2> QED BY <2>1
<1>1. ASSUME NEW n \in {"S", "G"}, NEW step \in {"Transmit", "Forward"}, BpBegin(n, step, kept)
      PROVE  Caught(t)'
  <2>1. Begins(n, step, kept)
    BY <1>1, BeginIs DEF Node
  <2> QED BY <2>1 DEF Begins, Caught
<1>2. CASE BpReceive("G")
  <2>1. Begins("G", "Receive", wire)
    BY <1>2, BeginIs DEF Node, BpReceive
  <2> QED BY <2>1 DEF Begins, Caught
<1>3. CASE BpReceive("D")
  <2>1. place = "toD" /\ BpBegin("D", "Receive", wire)
    BY <1>3 DEF BpReceive
  <2>2. Begins("D", "Receive", wire)
    BY <2>1, BeginIs DEF Node
  <2>3. PICK acts : acts = Evaluate(policy["D"], "Receive", wire)
    OBVIOUS
  <2>4. ~job'.again => job'.todo = acts
    BY <2>1, <2>3 DEF BpBegin
  <2>5. ASSUME t \notin Encrypted(wire), ~job'.again PROVE Catching(wire, acts, t)
    <3>1. Catching(wire, acts \ OnBcb(policy["D"], acts), t)
      BY <1>0, <2>3, <2>5, StrictDemanding, CatchActs, FollowFacts DEF Node
    <3>2. acts \ OnBcb(policy["D"], acts) \subseteq acts
      OBVIOUS
    <3> QED BY <3>1, <3>2, CatchMore
  <2> QED BY <2>1, <2>2, <2>4, <2>5 DEF Begins, Caught
<1>4. ASSUME NEW a \in job.todo, BpSucceed(a) PROVE Caught(t)'
  <2>1. changed' = changed
    BY <1>4 DEF BpSucceed
  <2> QED BY <1>4, <2>1, SucceedCaught
<1>5. ASSUME NEW a \in job.todo, BpTolerate(a) PROVE Caught(t)'
  <2>1. Goes(a)
    BY <1>5, GoesOn
  <2>2. OnFailure(a) # "drop"
    BY <1>5, TolerateIs
  <2>3. ASSUME job.node = "D", job.step = "Receive" PROVE FALSE
    <3>1. a.n \in DOMAIN policy["D"] /\ policy["D"][a.n].matching
      BY <2>3 DEF FollowInv, ActionsOK, SourceAction, MissingAction, BlockAction, Applies
    <3> QED BY <2>2, <2>3, <3>1 DEF Strict, OnFailure
  <2> QED BY <2>1, <2>3 DEF Goes, Caught
<1>6. ASSUME NEW a \in job.todo, BpDrop(a) PROVE Caught(t)'
  <2>1. job'.node = "S" /\ place' = "dropped"
    BY <1>6, NoJobIs DEF BpDrop
  <2> QED BY <2>1 DEF Caught
<1>7. CASE BpEvaluateAgain
  <2>1. PICK acts : acts = Evaluate(policy[job.node], job.step, wire)
    OBVIOUS
  <2>2. /\ job'.todo = acts \ OnBcb(policy[job.node], acts)
        /\ job'.node = job.node /\ job'.step = job.step
        /\ UNCHANGED <<place, kept, wire, changed>>
    BY <1>7, <2>1, FollowFacts DEF BpEvaluateAgain, Job
  <2>3. ASSUME t \notin Encrypted(wire), job.node = "D", job.step = "Receive"
        PROVE  Catching(wire, job'.todo, t)
    <3>1. acts = Evaluate(policy["D"], "Receive", wire)
      BY <2>1, <2>3
    <3>2. Catching(wire, acts \ OnBcb(policy["D"], acts), t)
      BY <1>0, <2>3, <3>1, StrictDemanding, CatchActs, FollowFacts DEF Node
    <3> QED BY <2>2, <2>3, <3>2
  <2> QED BY <2>2, <2>3 DEF Caught
<1>8. CASE BpEnforced
  <2>1. /\ job'.node = "S" /\ changed' = changed /\ job.step # "idle"
        /\ ~job.again /\ job.todo = {}
        /\ \/ /\ job.step = "Forward" /\ place' = NextHop(job.node)
           \/ job.step # "Forward" /\ place' = job.node /\ kept' = wire
    BY <1>8, NoJobIs DEF BpEnforced
  <2>2. ASSUME place' = "D" PROVE t \in Encrypted(kept')
    <3>1. job.node = "D" /\ job.step = "Receive" /\ kept' = wire
      BY <2>1, <2>2, FollowFacts DEF NextHop, FollowInv, JobPlaced, Job
    <3>2. ~Catching(wire, job.todo, t)
      BY <2>1 DEF Catching
    <3> QED BY <2>1, <3>1, <3>2 DEF Caught
  <2> QED BY <2>1, <2>2 DEF Caught
<1>9. ASSUME NEW n \in {"S", "G"}, BpLost(n) PROVE Caught(t)'
  <2>1. job'.node = "S" /\ place' = n
    BY <1>9, NoJobIs DEF BpLost
  <2> QED BY <2>1 DEF Caught
<1>10. ASSUME NEW u \in Target, BpAlter(u) PROVE Caught(t)'
  <2>1. job'.node = "S" /\ place' \in {"toG", "toD"}
    BY <1>10, NoJobIs DEF BpAlter
  <2> QED BY <2>1 DEF Caught
<1>11. ASSUME UNCHANGED <<place, kept, wire, job, changed>> PROVE Caught(t)'
  BY <1>11 DEF Caught
<1>12. ASSUME NEW n \in Node, BpReload(n) PROVE Caught(t)'
  BY <1>11, <1>12 DEF BpReload
<1>13. CASE UNCHANGED bpsecVars
  BY <1>11, <1>13 DEF bpsecVars
<1> QED BY <1>1, <1>2, <1>3, <1>4, <1>5, <1>6, <1>7, <1>8, <1>9, <1>10, <1>12, <1>13
        DEF BpsecNext, BpTransmit, BpForward

LEMMA AlteredInit == BpsecInit => AlteredInv
<1> SUFFICES ASSUME BpsecInit PROVE AlteredInv
  OBVIOUS
<1>1. changed = {} /\ wire = NoBundle /\ kept.blocks = {}
  BY DEF BpsecInit
<1>2. SignedWhole(kept) /\ SignedWhole(wire)
  BY <1>1 DEF SignedWhole, NoBundle
<1> QED BY <1>1, <1>2, ContentsInit DEF AlteredInv

LEMMA AlteredStep ==
    ASSUME FollowInv, AlteredInv, [BpsecNext]_bpsecVars
    PROVE  AlteredInv'
<1>1. policy' = policy
  BY DEF BpsecNext, bpsecVars, BpTransmit, BpForward, BpReceive, BpBegin, BpSucceed,
     BpTolerate, BpDrop, BpEvaluateAgain, BpEnforced, BpLost, BpAlter, BpReload
<1>2. Contents /\ (Passing => SignedWhole(kept) /\ SignedWhole(wire))
      /\ \A t \in changed : Strict(t) => Caught(t)
  BY DEF AlteredInv, Passing, Caught
<1>3. Contents'
  BY <1>2, ContentsStep
<1>4. Passing' <=> Passing
  BY <1>1 DEF Passing, Demands
<1>5. ASSUME NEW t PROVE Strict(t)' <=> Strict(t)
  BY <1>1 DEF Strict, Demands
<1>6. Passing' => SignedWhole(kept') /\ SignedWhole(wire')
  BY <1>2, <1>4, WholeStep
<1>7. ASSUME NEW t \in changed', Strict(t)' PROVE Caught(t)'
  <2>1. Strict(t) /\ Passing
    BY <1>5, <1>7 DEF Strict, Passing
  <2> QED BY <1>2, <2>1, CaughtStep
<1> QED BY <1>3, <1>6, <1>7 DEF AlteredInv, Passing, Caught

LEMMA AlteredAlways == BpsecSpec => [](FollowInv /\ AlteredInv)
<1>1. FollowInv /\ AlteredInv /\ [BpsecNext]_bpsecVars => FollowInv' /\ AlteredInv'
  BY FollowStep, AlteredStep
<1>2. BpsecInit => FollowInv /\ AlteredInv
  BY FollowInit, AlteredInit
<1> QED BY <1>1, <1>2, PTL DEF BpsecSpec

\* For every configuration that validate() accepts: a block altered on a link does
\* not come out in the clear at a destination whose rules demand its BIB and drop
\* bundles (receive() and carry_out), unless the gateway signs.  Its check is ahead
\* of the enforcement, or it is encrypted, until the enforcement is done.
THEOREM AlteredIsNotDelivered == BpsecSpec => []AlteredNotDelivered
<1>1. AlteredInv => AlteredNotDelivered
  BY DEF AlteredInv, AlteredNotDelivered, Strict, Encrypted
<1> QED BY <1>1, AlteredAlways, PTL

------------------------------------------------------------------------------
\* What the source protects arrives: what each node demands and does.

\* All rules of a node have one role.
AllRole(rs, role) == \A i \in DOMAIN rs : rs[i].role = role

LEMMA WantsDemands ==
    ASSUME NEW n, NEW role, NEW op, NEW t \in Target
    PROVE  t \in Wants(policy[n], role, op) <=> Demands(n, role, op, t)
BY DEF Wants, Demands

LEMMA WantsBcb ==
    ASSUME NEW rs \in Seq(Rule), Validate(rs), NEW role
    PROVE  Wants(rs, role, "bcb") \subseteq {1}
BY RuleIs DEF Wants

LEMMA DemandingSource ==
    ASSUME NEW rs, NEW step, step # "Receive", NEW op, NEW t \in Target
    PROVE  Demanding(rs, step, op, t) # {} <=> t \in Wants(rs, "source", op)
<1>1. \A i \in DOMAIN rs : Applies(rs[i], step) <=> rs[i].matching /\ rs[i].role = "source"
  BY DEF Applies
<1> QED BY <1>1 DEF Demanding, Wants

LEMMA DemandingReceiver ==
    ASSUME NEW rs, NEW role, role # "source", AllRole(rs, role), NEW op, NEW t \in Target
    PROVE  Demanding(rs, "Receive", op, t) # {} <=> t \in Wants(rs, role, op)
<1>1. \A i \in DOMAIN rs : Applies(rs[i], "Receive") <=> rs[i].matching /\ rs[i].role = role
  BY DEF Applies, AllRole
<1> QED BY <1>1 DEF Demanding, Wants

\* A target in the clear has its BIB in the clear.
LEMMA SignedClear ==
    ASSUME NEW b \in Bundle, Shaped(b), Together(b), NEW B, SignedAll(B, b),
           NEW t \in B, t \in Target, t \notin Encrypted(b)
    PROVE  t \in TargetsOf(Visible(b), "bib")
<1>1. PICK x \in b.blocks : x.operation = "bib" /\ t \in x.targets
  BY DEF SignedAll, HasBib
<1>2. x.targets = {t}
  BY <1>1, TargetOf
<1>3. x.number \notin Encrypted(b)
  BY <1>1, <1>2, TogetherIs
<1> QED BY <1>1, <1>3, VisibleSigned

\* The source has everything to do on a new bundle.
LEMMA SourceBegins ==
    ASSUME NEW rs \in Seq(Rule), Validate(rs), NEW step \in {"Transmit", "Forward"},
           NEW b \in Bundle, Shaped(b), b.blocks = {}, NEW acts, acts = Evaluate(rs, step, b)
    PROVE  AtSource(Wants(rs, "source", "bib"), Wants(rs, "source", "bcb"), b, acts)
<1>1. /\ \A t \in Unprotected(rs, step, b, "bib") :
            \E a \in acts : a.kind = "sign" /\ a.block = t
      /\ \A t \in Unprotected(rs, step, b, "bcb") :
            \E a \in acts : a.kind = "encrypt" /\ a.block = t
  BY SourceActs
<1>2. Encrypted(b) = {} /\ \A op : TargetsOf(Visible(b), op) = {}
  BY DEF Encrypted, TargetsOf, Visible
<1>3. ASSUME NEW op, NEW t \in Wants(rs, "source", op) PROVE t \in Unprotected(rs, step, b, op)
  <2>1. t \in Target
    BY DEF Wants
  <2>2. step # "Receive"
    OBVIOUS
  <2>3. Demanding(rs, step, op, t) # {}
    BY <2>1, <2>2, DemandingSource
  <2> QED BY <1>2, <2>1, <2>3, UnprotectedIs
<1>4. \A t \in Wants(rs, "source", "bib") : \E a \in acts : a.kind = "sign" /\ a.block = t
  BY <1>1, <1>3
<1>5. Wants(rs, "source", "bcb") # {} => \E a \in acts : a.kind = "encrypt"
  BY <1>1, <1>3
<1>6. Fresh(Wants(rs, "source", "bib"), Wants(rs, "source", "bcb"), b)
  BY DEF Fresh
<1> QED BY <1>4, <1>5, <1>6 DEF AtSource

\* It has nothing to do on one that is protected.
LEMMA SourceDone ==
    ASSUME NEW rs \in Seq(Rule), Validate(rs), NEW step \in {"Transmit", "Forward"},
           NEW b \in Bundle, Shaped(b), Together(b), NEW B, NEW E,
           B = Wants(rs, "source", "bib"), E = Wants(rs, "source", "bcb"), Protected(B, E, b)
    PROVE  Evaluate(rs, step, b) = {}
<1>1. /\ \A a \in Evaluate(rs, step, b) : SourceAction(b, rs, step, a)
      /\ \A a \in Evaluate(rs, step, b) : a.kind = "sign" =>
            a.block \in Unprotected(rs, step, b, "bib")
      /\ \A a \in Evaluate(rs, step, b) : a.kind = "encrypt" =>
            a.block \in Unprotected(rs, step, b, "bcb")
  BY SourceActs
<1>2. ASSUME NEW t \in Unprotected(rs, step, b, "bib") PROVE FALSE
  <2>1. t \in Target /\ t \notin Encrypted(b) /\ t \notin TargetsOf(Visible(b), "bib")
        /\ Demanding(rs, step, "bib", t) # {}
    BY UnprotectedIs
  <2>2. step # "Receive"
    OBVIOUS
  <2>3. t \in B
    BY <2>1, <2>2, DemandingSource
  <2> QED BY <2>1, <2>3, SignedClear DEF Protected
<1>3. ASSUME NEW t \in Unprotected(rs, step, b, "bcb") PROVE FALSE
  <2>1. t \in Target /\ t \notin TargetsOf(Visible(b), "bcb") /\ Demanding(rs, step, "bcb", t) # {}
    BY UnprotectedIs
  <2>2. step # "Receive"
    OBVIOUS
  <2>3. t \in E
    BY <2>1, <2>2, DemandingSource
  <2>4. t = 1
    BY <2>3, WantsBcb
  <2> QED BY <2>1, <2>3, <2>4, VisibleEncrypted DEF Protected
<1>4. ASSUME NEW a \in Evaluate(rs, step, b) PROVE FALSE
  BY <1>1, <1>2, <1>3 DEF SourceAction
<1> QED BY <1>4

\* A gateway that only verifies protects nothing.
LEMMA NothingToProtect ==
    ASSUME NEW rs \in Seq(Rule), Validate(rs), NEW step \in {"Transmit", "Forward"},
           NEW b \in Bundle, Shaped(b), AllRole(rs, "verifier")
    PROVE  Evaluate(rs, step, b) = {}
<1>1. \A a \in Evaluate(rs, step, b) : SourceAction(b, rs, step, a)
  BY SourceActs
<1> QED BY <1>1 DEF SourceAction, Applies, AllRole

\* It verifies what it finds, and misses nothing.
LEMMA GatewayVerifies ==
    ASSUME NEW rs \in Seq(Rule), Validate(rs), AllRole(rs, "verifier"),
           NEW b \in Bundle, Shaped(b), Together(b), NEW B, SignedAll(B, b),
           Wants(rs, "verifier", "bib") \subseteq B,
           NEW a \in Evaluate(rs, "Receive", b)
    PROVE  a.kind = "verify"
<1>1. Misses(b, rs, a) \/ \E x \in Visible(b) : Handles(b, rs, a, x)
  BY ReceiverActs
<1>2. \A n \in DOMAIN rs : rs[n].operation = "bib" /\ rs[n].role = "verifier"
  <2> TAKE n \in DOMAIN rs
  <2>1. rs[n].operation \in {"bib", "bcb"}
    BY RuleIs DEF Rule, Operation
  <2>2. rs[n].role = "verifier"
    BY DEF AllRole
  <2> QED BY <2>1, <2>2 DEF Validate, ValidRule
<1>3. CASE Misses(b, rs, a)
  <2>1. a.block \in Unprotected(rs, "Receive", b, "bib")
    BY <1>2, <1>3 DEF Misses
  <2>2. /\ a.block \in Target /\ a.block \notin TargetsOf(Visible(b), "bib")
        /\ a.block \notin Encrypted(b) /\ Demanding(rs, "Receive", "bib", a.block) # {}
    BY <2>1, UnprotectedIs
  <2>3. a.block \in Wants(rs, "verifier", "bib")
    BY <2>2, DemandingReceiver
  <2> QED BY <2>2, <2>3, SignedClear
<1>4. ASSUME NEW x \in Visible(b), Handles(b, rs, a, x) PROVE a.kind = "verify"
  BY <1>2, <1>4 DEF Handles, ReceiverKind
<1> QED BY <1>1, <1>3, <1>4

\* A destination that accepts what the source protects misses nothing of it.
LEMMA NothingMissing ==
    ASSUME NEW rs \in Seq(Rule), Validate(rs), AllRole(rs, "acceptor"),
           NEW b \in Bundle, Shaped(b), Together(b), NEW B, SignedAll(B, b),
           B = Wants(rs, "acceptor", "bib"),
           NEW a, Misses(b, rs, a)
    PROVE  /\ rs[a.n].operation = "bcb"
           /\ Wants(rs, "acceptor", "bcb") # {} /\ 1 \notin Encrypted(b)
<1>1. a.n \in DOMAIN rs /\ a.block \in Unprotected(rs, "Receive", b, rs[a.n].operation)
  BY DEF Misses
<1>2. rs[a.n].operation \in {"bib", "bcb"}
  BY <1>1, RuleIs DEF Rule, Operation
<1>3. CASE rs[a.n].operation = "bib"
  <2>1. /\ a.block \in Target /\ a.block \notin TargetsOf(Visible(b), "bib")
        /\ a.block \notin Encrypted(b) /\ Demanding(rs, "Receive", "bib", a.block) # {}
    BY <1>1, <1>3, UnprotectedIs
  <2>2. a.block \in B
    BY <2>1, DemandingReceiver
  <2> QED BY <2>1, <2>2, SignedClear
<1>4. CASE rs[a.n].operation = "bcb"
  <2>1. /\ a.block \in Target /\ a.block \notin TargetsOf(Visible(b), "bcb")
        /\ Demanding(rs, "Receive", "bcb", a.block) # {}
    BY <1>1, <1>4, UnprotectedIs
  <2>2. a.block \in Wants(rs, "acceptor", "bcb")
    BY <2>1, DemandingReceiver
  <2>3. a.block = 1
    BY <2>2, WantsBcb
  <2> QED BY <1>4, <2>1, <2>2, <2>3, VisibleEncrypted
<1> QED BY <1>2, <1>3, <1>4

\* Once there are no BCBs, it accepts every BIB.
LEMMA DestinationAccepts ==
    ASSUME NEW rs \in Seq(Rule), Validate(rs), AllRole(rs, "acceptor"),
           NEW b \in Bundle, Shaped(b), NEW B, NEW E, Fresh(B, E, b), SignedAll(B, b),
           B = Wants(rs, "acceptor", "bib"), \A x \in b.blocks : x.operation = "bib",
           NEW acts, acts = Evaluate(rs, "Receive", b),
           NEW todo, todo = acts \ OnBcb(rs, acts)
    PROVE  AtDestination(B, E, b, FALSE, todo)
<1>1. Encrypted(b) = {} /\ Together(b)
  BY DEF Encrypted, TargetsOf, Together
<1>2. /\ \A a \in acts : Misses(b, rs, a) \/ \E x \in Visible(b) : Handles(b, rs, a, x)
      /\ \A x \in Visible(b) : Handling(rs, "Receive", b, x) # {} =>
            \E a \in acts : Handles(b, rs, a, x)
  BY ReceiverActs
<1>3. ASSUME NEW a \in todo PROVE a.kind = "accept"
  <2>1. a \in acts /\ rs[a.n].operation # "bcb"
    BY DEF OnBcb
  <2>2. ~Misses(b, rs, a)
    BY <1>1, <2>1, NothingMissing
  <2>3. PICK x \in Visible(b) : Handles(b, rs, a, x)
    BY <1>2, <2>1, <2>2
  <2> QED BY <2>1, <2>3 DEF Handles, ReceiverKind, AllRole
<1>4. ASSUME NEW x \in b.blocks PROVE \E a \in todo : a.block = x.number
  <2>1. x \in Visible(b)
    BY <1>1 DEF Visible, Encrypted
  <2>2. PICK t \in Target : x.targets = {t}
    BY TargetOf
  <2>3. t \in B
    BY <2>2 DEF Fresh
  <2>4. PICK i \in DOMAIN rs : /\ rs[i].matching /\ rs[i].role = "acceptor"
                               /\ rs[i].operation = "bib" /\ t \in TargetsIn(rs[i])
    BY <2>3 DEF Wants
  <2>5. i \in Handling(rs, "Receive", b, x)
    BY <2>2, <2>4 DEF Handling, Applies
  <2>6. PICK a \in acts : Handles(b, rs, a, x)
    BY <1>2, <2>1, <2>5
  <2>7. a.block = x.number /\ rs[a.n].operation = "bib"
    BY <2>6 DEF Handles
  <2> QED BY <2>7 DEF OnBcb
<1> QED BY <1>3, <1>4 DEF AtDestination

\* It begins by decrypting, if there is anything to decrypt.
LEMMA DestinationBegins ==
    ASSUME NEW rs \in Seq(Rule), Validate(rs), AllRole(rs, "acceptor"),
           NEW b \in Bundle, Shaped(b), Together(b), NEW B, NEW E, Protected(B, E, b),
           B = Wants(rs, "acceptor", "bib"), E = Wants(rs, "acceptor", "bcb"),
           NEW acts, acts = Evaluate(rs, "Receive", b),
           NEW opening \in BOOLEAN, opening <=> \E a \in acts : a.kind = "decrypt",
           NEW todo, todo = IF opening THEN OnBcb(rs, acts) ELSE acts
    PROVE  AtDestination(B, E, b, opening, todo)
<1>1. \A a \in acts : Misses(b, rs, a) \/ \E x \in Visible(b) : Handles(b, rs, a, x)
  BY ReceiverActs
<1>2. Fresh(B, E, b) /\ SignedAll(B, b) /\ (E # {} => 1 \in Encrypted(b))
  BY DEF Protected
<1>3. \A a : ~Misses(b, rs, a)
  BY <1>2, NothingMissing
<1>4. CASE opening
  <2>1. ASSUME NEW a \in todo PROVE a.kind = "decrypt"
    <3>1. a \in acts /\ rs[a.n].operation = "bcb"
      BY <1>4 DEF OnBcb
    <3> QED BY <1>1, <1>3, <3>1 DEF Handles, ReceiverKind
  <2> QED BY <1>2, <1>4, <2>1 DEF AtDestination
<1>5. CASE ~opening
  <2>1. \A x \in b.blocks : x.operation = "bcb" => Handling(rs, "Receive", b, x) = {}
    BY <1>5, BeginActs
  <2>2. ASSUME NEW x \in b.blocks, x.operation = "bcb" PROVE FALSE
    <3>1. PICK e \in E : TRUE
      BY <1>2, <2>2 DEF Fresh
    <3>2. PICK i \in DOMAIN rs : /\ rs[i].matching /\ rs[i].role = "acceptor"
                                 /\ rs[i].operation = "bcb"
      BY <3>1 DEF Wants
    <3>3. TargetsIn(rs[i]) = {1}
      BY <3>2, RuleIs
    <3>4. EncryptsBibs(b, x) \/ x.targets = {1}
      BY <2>2, BcbTarget
    <3>5. EncryptsBibs(b, x) \/ x.targets \cap TargetsIn(rs[i]) # {}
      BY <3>3, <3>4
    <3>6. i \in Handling(rs, "Receive", b, x)
      BY <2>2, <3>2, <3>5 DEF Handling, Applies
    <3> QED BY <2>1, <2>2, <3>6
  <2>3. \A x \in b.blocks : x.operation = "bib"
    BY <2>2, TargetOf
  <2>4. todo = acts \ OnBcb(rs, acts)
    <3>1. ASSUME NEW a \in acts, rs[a.n].operation = "bcb" PROVE FALSE
      <4>1. PICK x \in Visible(b) : Handles(b, rs, a, x)
        BY <1>1, <1>3, <3>1
      <4> QED BY <1>5, <3>1, <4>1 DEF Handles, ReceiverKind
    <3> QED BY <1>5, <3>1 DEF OnBcb
  <2>5. AtDestination(B, E, b, FALSE, todo)
    BY <1>2, <2>3, <2>4, DestinationAccepts
  <2> QED BY <1>5, <2>5
<1> QED BY <1>4, <1>5

\* A bundle with the same primary block and payload, and only some of the blocks, is
\* as fresh.
LEMMA FreshSubset ==
    ASSUME NEW B, NEW E, NEW b, NEW c, Fresh(B, E, b), c.blocks \subseteq b.blocks,
           c.crc = b.crc, c.content = b.content
    PROVE  Fresh(B, E, c)
BY DEF Fresh, Snapshot

\* The source signs the primary block while there is nothing else, then the payload,
\* and encrypts last: what was covered stays as it is.
LEMMA SourceSucceeds ==
    ASSUME NEW b, NEW rs, NEW step, NEW again, NEW todo, NEW a,
           Ready(b, rs, step, again, todo, a, 0), step # "Receive",
           NEW c, Effect(b, c, a, 0), NEW B, NEW E, AtSource(B, E, b, todo),
           a.kind = "sign" => a.block \in B, a.kind = "encrypt" => E # {}
    PROVE  AtSource(B, E, c, todo \ {a})
<1>1. /\ b \in Bundle /\ Shaped(b) /\ a \in todo
      /\ ActionsOK(b, rs, step, again, todo)
      /\ \A d \in todo \ {a} : Precedes(a, d)
  BY DEF Ready
<1>2. \A d \in todo : SourceAction(b, rs, step, d)
  BY <1>1 DEF ActionsOK, MissingAction, BlockAction
<1>3. CASE a.kind = "sign"
  <2>1. PICK y : GainsBib(b, c, y, a.block, 0)
    BY <1>3 DEF Effect
  <2>2. /\ y.operation = "bib" /\ y.targets = {a.block} /\ y.key = 0 /\ y.scope = Snapshot(c)
        /\ c.blocks = b.blocks \cup {y} /\ c.content = b.content
        /\ a.block # 0 => c.crc = b.crc
    BY <2>1 DEF GainsBib
  <2>3. a.block \in {0, 1} /\ a.class = a.block
    BY <1>1, <1>2, <1>3 DEF SourceAction, Target
  <2>4. ASSUME NEW d \in todo \ {a}, d.kind = "sign" PROVE d.block # 0
    <3>1. d.block \in {0, 1} /\ d.class = d.block
      BY <1>2, <2>4 DEF SourceAction, Target
    <3>2. CASE a.block = 1
      BY <1>1, <2>3, <3>1, <3>2 DEF Precedes
    <3>3. CASE a.block = 0 /\ d.block = 0
      BY <1>1, <1>3, <2>3, <2>4, <3>1, <3>3 DEF ActionsOK
    <3> QED BY <2>3, <3>2, <3>3
  <2>5. Fresh(B, E, c)
    <3>1. CASE a.block = 0
      <4>1. b.blocks = {}
        BY <1>1, <1>3, <3>1 DEF AtSource
      <4> QED BY <1>3, <2>2, <4>1 DEF Fresh
    <3>2. CASE a.block # 0
      <4>1. Snapshot(c) = Snapshot(b)
        BY <2>2, <3>2 DEF Snapshot
      <4> QED BY <1>3, <2>2, <3>2, <4>1 DEF Fresh, AtSource
    <3> QED BY <3>1, <3>2
  <2>6. \A t \in B : HasBib(c, t) \/ \E d \in todo \ {a} : d.kind = "sign" /\ d.block = t
    BY <2>2 DEF AtSource, HasBib
  <2>7. Encrypted(b) \subseteq Encrypted(c)
    BY <2>2 DEF Encrypted, TargetsOf
  <2>8. E # {} => 1 \in Encrypted(c) \/ \E d \in todo \ {a} : d.kind = "encrypt"
    BY <1>3, <2>7 DEF AtSource
  <2> QED BY <2>4, <2>5, <2>6, <2>8 DEF AtSource
<1>4. CASE a.kind = "encrypt"
  <2>1. PICK Y : GainsBcbs(b, c, Y, 1, 0)
    BY <1>4 DEF Effect
  <2>2. /\ \A y \in Y : y.operation = "bcb" /\ y.key = 0 /\ y.scope = Snapshot(b)
        /\ c.blocks = b.blocks \cup Y /\ c.content = b.content /\ c.crc = b.crc
    BY <2>1 DEF GainsBcbs, NewBcbs
  <2>3. todo \ {a} = {}
    BY <1>1, <1>4, EncryptLast
  <2>4. 1 \in Encrypted(c)
    BY <1>1, <2>1, AddBcbs
  <2>5. Snapshot(c) = Snapshot(b)
    BY <2>2 DEF Snapshot
  <2>6. Fresh(B, E, c)
    BY <1>4, <2>2, <2>5 DEF Fresh, AtSource
  <2>7. \A t \in B : HasBib(c, t)
    <3>1. \A t \in B : HasBib(b, t)
      BY <1>4, <2>3 DEF AtSource
    <3> QED BY <2>2, <3>1 DEF HasBib
  <2> QED BY <2>3, <2>4, <2>6, <2>7 DEF AtSource
<1> QED BY <1>1, <1>2, <1>3, <1>4 DEF SourceAction

\* The destination accepts the BIB of the primary block last, when its CRC covers
\* nothing any more.
LEMMA DestinationSucceeds ==
    ASSUME NEW b, NEW rs, NEW again \in BOOLEAN, NEW todo, NEW a, todo \subseteq Action,
           Ready(b, rs, "Receive", again, todo, a, 0),
           NEW c, Effect(b, c, a, 0), NEW B, NEW E, AtDestination(B, E, b, again, todo)
    PROVE  AtDestination(B, E, c, again, todo \ {a})
<1>1. /\ b \in Bundle /\ Shaped(b) /\ a \in todo
      /\ ActionsOK(b, rs, "Receive", again, todo)
      /\ \A d \in todo \ {a} : Precedes(a, d)
  BY DEF Ready
<1>2. a.kind = IF again THEN "decrypt" ELSE "accept"
  BY <1>1 DEF AtDestination
<1>3. BlockAction(b, rs, "Receive", again, a)
  BY <1>1, <1>2 DEF ActionsOK, MissingAction, SourceAction
<1>4. PICK x \in b.blocks :
         /\ x.number = a.block /\ a.class = ReceiverClass(x, a.kind)
         /\ again => x.operation = "bcb"
         /\ ~again => x.operation = "bib"
  BY <1>2, <1>3 DEF BlockAction
<1>5. Block(b, a.block) = x
  BY <1>1, <1>4, BlockFound DEF Shaped
<1>6. /\ c \in Bundle /\ c.blocks = b.blocks \ {x} /\ c.content = b.content
      /\ 0 \notin x.targets => c.crc = b.crc
  BY <1>2, <1>5 DEF Effect, Loses
<1>7. CASE again
  <2>1. 0 \notin x.targets
    BY <1>1, <1>4, <1>7, EncryptedBelow, EncryptedIs
  <2>2. Fresh(B, E, b) /\ SignedAll(B, b) /\ \A d \in todo : d.kind = "decrypt"
    BY <1>7 DEF AtDestination
  <2>3. Fresh(B, E, c)
    BY <1>6, <2>1, <2>2, FreshSubset
  <2>4. SignedAll(B, c)
    BY <1>4, <1>6, <1>7, <2>2 DEF SignedAll, HasBib
  <2> QED BY <1>7, <2>2, <2>3, <2>4 DEF AtDestination
<1>8. CASE ~again
  <2>1. /\ Fresh(B, E, b)
        /\ \A y \in b.blocks : y.operation = "bib"
        /\ \A d \in todo : d.kind = "accept"
        /\ \A y \in b.blocks : \E d \in todo : d.block = y.number
    BY <1>8 DEF AtDestination
  <2>2. ASSUME NEW y \in c.blocks PROVE \E d \in todo \ {a} : d.block = y.number
    <3>1. y \in b.blocks /\ y # x
      BY <1>6
    <3>2. y.number # a.block
      BY <1>1, <1>4, <3>1 DEF Shaped, Numbered
    <3> QED BY <2>1, <3>1, <3>2
  <2>3. Fresh(B, E, c)
    <3>1. CASE 0 \notin x.targets
      BY <1>6, <2>1, <3>1, FreshSubset
    <3>2. CASE 0 \in x.targets
      <4>1. a.class = 3
        BY <1>2, <1>4, <1>8, <3>2 DEF ReceiverClass
      <4>2. ASSUME NEW d \in todo \ {a} PROVE FALSE
        <5>1. d.class \in 0 .. 3 /\ Precedes(a, d)
          BY <1>1 DEF Action
        <5>2. d.class = 3 /\ d.kind = "accept"
          BY <2>1, <4>1, <5>1 DEF Precedes
        <5>3. BlockAction(b, rs, "Receive", again, d)
          BY <1>1, <5>2 DEF ActionsOK, MissingAction, SourceAction
        <5>4. PICK y \in b.blocks : y.number = d.block /\ d.class = ReceiverClass(y, d.kind)
          BY <5>3 DEF BlockAction
        <5>5. 0 \in y.targets
          BY <5>2, <5>4 DEF ReceiverClass
        <5>6. y = x
          BY <2>1, <3>2, <5>5 DEF Fresh
        <5>7. a.block = d.block /\ a.kind # "missing" /\ d.kind # "missing"
          BY <1>2, <1>4, <1>8, <5>2, <5>4, <5>6
        <5> QED BY <1>1, <5>7 DEF ActionsOK
      <4>3. c.blocks = {}
        BY <2>2, <4>2
      <4> QED BY <4>3 DEF Fresh
    <3> QED BY <3>1, <3>2
  <2>4. \A y \in c.blocks : y.operation = "bib"
    BY <1>6, <2>1
  <2> QED BY <1>8, <2>1, <2>2, <2>3, <2>4 DEF AtDestination
<1> QED BY <1>7, <1>8

\* A fresh block is intact.
LEMMA FreshIntact ==
    ASSUME NEW B, NEW E, NEW b, Fresh(B, E, b), NEW x \in b.blocks,
           x.operation = "bib" => 1 \notin x.targets \/ 1 \notin Encrypted(b)
    PROVE  Intact(b, x, 0)
<1>1. x.key = 0 /\ x.scope.crc = b.crc /\ x.scope.content = b.content
  BY DEF Fresh, Snapshot
<1> QED BY <1>1 DEF Intact, Encrypted

LEMMA GatewayNeverFails ==
    ASSUME NEW b, NEW rs, NEW again, NEW todo, NEW a,
           Ready(b, rs, "Receive", again, todo, a, 0),
           NEW B, NEW E, AtGateway(B, E, b, again, todo), Together(b),
           FALSE \in Outcomes(a, b, 0)
    PROVE  FALSE
<1>1. /\ b \in Bundle /\ Shaped(b) /\ a \in todo
      /\ ActionsOK(b, rs, "Receive", again, todo)
  BY DEF Ready
<1>2. a.kind = "verify" /\ Fresh(B, E, b)
  BY <1>1 DEF AtGateway, Protected
<1>3. PICK x \in b.blocks : x.number = a.block /\ x.operation = "bib"
                            /\ x.number \notin Encrypted(b)
  BY <1>1, <1>2 DEF ActionsOK, MissingAction, SourceAction, BlockAction
<1>4. x = Block(b, a.block)
  BY <1>1, <1>3, BlockFound DEF Shaped
<1>5. 1 \notin x.targets \/ 1 \notin Encrypted(b)
  BY <1>3 DEF Together, Encrypted
<1>6. Intact(b, x, 0)
  BY <1>2, <1>5, FreshIntact
<1>7. Checks(a)
  BY <1>2 DEF Checks
<1>8. ~Intact(b, x, 0)
  BY <1>4, <1>7, OutcomeIs
<1> QED BY <1>6, <1>8

LEMMA DestinationNeverFails ==
    ASSUME NEW b, NEW rs, NEW again \in BOOLEAN, NEW todo, NEW a,
           Ready(b, rs, "Receive", again, todo, a, 0),
           NEW B, NEW E, AtDestination(B, E, b, again, todo),
           FALSE \in Outcomes(a, b, 0)
    PROVE  FALSE
<1>1. /\ b \in Bundle /\ Shaped(b) /\ a \in todo
      /\ ActionsOK(b, rs, "Receive", again, todo)
  BY DEF Ready
<1>2. a.kind \in {"decrypt", "accept"} /\ Fresh(B, E, b)
  BY <1>1 DEF AtDestination
<1>3. PICK x \in b.blocks : x.number = a.block /\ (again => x.operation = "bcb")
  BY <1>1, <1>2 DEF ActionsOK, MissingAction, SourceAction, BlockAction
<1>4. x = Block(b, a.block)
  BY <1>1, <1>3, BlockFound DEF Shaped
<1>5. x.operation = "bib" => 1 \notin Encrypted(b)
  <2>1. ~again => \A y \in b.blocks : y.operation = "bib"
    BY DEF AtDestination
  <2> QED BY <1>3, <2>1, EncryptedIs
<1>6. Intact(b, x, 0)
  BY <1>2, <1>5, FreshIntact
<1>7. Checks(a)
  BY <1>2 DEF Checks
<1>8. ~Intact(b, x, 0)
  BY <1>4, <1>7, OutcomeIs
<1> QED BY <1>6, <1>8

------------------------------------------------------------------------------
\* What the source protects arrives: step by step.

LEMMA EndToEndIs ==
    ASSUME FollowInv, EndToEnd
    PROVE  /\ AllRole(policy["D"], "acceptor") /\ AllRole(policy["G"], "verifier")
           /\ Bibs = Wants(policy["D"], "acceptor", "bib")
           /\ Bcbs = Wants(policy["D"], "acceptor", "bcb")
           /\ Wants(policy["G"], "verifier", "bib") \subseteq Bibs
<1>1. AllRole(policy["D"], "acceptor") /\ AllRole(policy["G"], "verifier")
  BY DEF EndToEnd, AllRole
<1>2. ASSUME NEW op \in Operation, NEW t \in Target
      PROVE  t \in Wants(policy["S"], "source", op) <=> t \in Wants(policy["D"], "acceptor", op)
  BY WantsDemands DEF EndToEnd
<1>3. \A rs, role, op : Wants(rs, role, op) \subseteq Target
  BY DEF Wants
<1>4. Bibs = Wants(policy["D"], "acceptor", "bib")
  BY <1>2, <1>3 DEF Bibs, Operation
<1>5. Bcbs = Wants(policy["D"], "acceptor", "bcb")
  BY <1>2, <1>3 DEF Bcbs, Operation
<1>6. ASSUME NEW t \in Wants(policy["G"], "verifier", "bib") PROVE t \in Bibs
  <2>1. t \in Target /\ \E i \in DOMAIN policy["G"] : t \in TargetsIn(policy["G"][i])
    BY DEF Wants
  <2>2. Demands("S", "source", "bib", t)
    BY <2>1 DEF EndToEnd
  <2> QED BY <2>1, <2>2, WantsDemands DEF Bibs
<1> QED BY <1>1, <1>4, <1>5, <1>6

\* Nobody disturbs the bundle, and all is well.
Calm ==
    /\ EndToEnd /\ Unrotated /\ changed = {} /\ damaged = {} /\ place # "dropped"
    /\ job.key = 0 /\ Whole(kept) /\ Working
    /\ place \in {"new", "D"} => kept.blocks = {}
    /\ place \in {"S", "toG", "G", "toD"} => Protected(Bibs, Bcbs, kept)

LEMMA CalmIs ==
    ASSUME FollowInv, Contents, ArrivesInv, Undisturbed, changed = {}
    PROVE  Calm
<1>1. place # "dropped" /\ job.key = 0 /\ Working
  BY DEF ArrivesInv, Undisturbed
<1>2. Whole(kept)
  BY <1>1 DEF Contents, Whole, FollowInv, BpsecTypeOK
<1>3. damaged = {}
  BY <1>1, <1>2 DEF ArrivesInv
<1> QED BY <1>1, <1>2, <1>3 DEF Calm, Undisturbed, ArrivesInv

\* What is demanded does not change, and what disturbs is not undone.
LEMMA StaysDisturbed ==
    ASSUME FollowInv, [BpsecNext]_bpsecVars
    PROVE  /\ policy' = policy /\ Bibs' = Bibs /\ Bcbs' = Bcbs
           /\ Unrotated' => Unrotated /\ version' = version
           /\ damaged \subseteq damaged'
           /\ Undisturbed' => Undisturbed
<1>1. policy' = policy /\ damaged \subseteq damaged'
  BY DEF BpsecNext, bpsecVars, BpTransmit, BpForward, BpReceive, BpBegin, BpSucceed,
     BpTolerate, BpDrop, BpEvaluateAgain, BpEnforced, BpLost, BpAlter, BpReload
<1>2. Bibs' = Bibs /\ Bcbs' = Bcbs
  BY <1>1 DEF Bibs, Bcbs
<1>3. EndToEnd' <=> EndToEnd
  BY <1>1 DEF EndToEnd, Demands
<1>4. Unrotated' => version' = version
  <2>1. ASSUME NEW n \in Node, BpReload(n), Unrotated' PROVE FALSE
    <3>1. version'[n] = version[n] + 1 /\ version[n] \in Nat
      BY <2>1, FollowFacts DEF BpReload
    <3>2. version'[n] = 0
      BY <2>1 DEF Unrotated
    <3> QED BY <3>1, <3>2
  <2>2. version' = version \/ \E n \in Node : BpReload(n)
    BY DEF BpsecNext, bpsecVars, BpTransmit, BpForward, BpReceive, BpBegin, BpSucceed,
       BpTolerate, BpDrop, BpEvaluateAgain, BpEnforced, BpLost, BpAlter
  <2> QED BY <2>1, <2>2
<1>5. Unrotated' => Unrotated
  BY <1>4 DEF Unrotated
<1> QED BY <1>1, <1>2, <1>3, <1>4, <1>5 DEF Undisturbed

\* BIBs and targets are together.
LEMMA CalmTogether ==
    ASSUME FollowInv, Calm
    PROVE  Together(kept) /\ (~job.again => Together(wire))
BY DEF FollowInv, Calm, Following

\* enforce() begins on a bundle that is well.
LEMMA BeginWorking ==
    ASSUME FollowInv, Calm, Bibs' = Bibs, Bcbs' = Bcbs,
           NEW n \in Node, NEW step \in {"Transmit", "Forward", "Receive"}, NEW b,
           BpBegin(n, step, b),
           \/ n = "S" /\ step = "Transmit" /\ place = "new" /\ b = kept
           \/ n \in {"S", "G"} /\ step = "Forward" /\ place = n /\ b = kept
           \/ n = "G" /\ step = "Receive" /\ place = "toG" /\ b = wire
           \/ n = "D" /\ step = "Receive" /\ place = "toD" /\ b = wire
    PROVE  Working'
<1>1. PICK acts : acts = Evaluate(policy[n], step, b)
  OBVIOUS
<1>2. PICK opening \in BOOLEAN : opening <=> \E a \in acts : a.kind = "decrypt"
  OBVIOUS
<1>3. PICK todo : todo = IF opening THEN OnBcb(policy[n], acts) ELSE acts
  OBVIOUS
<1>4. job = NoJob /\ wire' = b /\ job'.node = n /\ job' # NoJob
  BY BeginIs DEF Begins
<1>5. job'.todo = todo /\ job'.again = opening
  BY <1>1, <1>2, <1>3 DEF BpBegin
<1>6. policy[n] \in Seq(Rule) /\ Validate(policy[n])
  BY FollowFacts
<1>7. b \in Bundle /\ Shaped(b)
  BY FollowFacts
<1>8. Together(b)
  BY <1>4, CalmTogether, NoJobIs
<1>9. acts = {} => todo = {} /\ ~opening
  BY <1>2, <1>3 DEF OnBcb
<1>10. CASE n = "S" /\ step = "Transmit" /\ place = "new" /\ b = kept
  <2>1. b.blocks = {}
    BY <1>10 DEF Calm
  <2>2. AtSource(Bibs, Bcbs, b, acts)
    BY <1>1, <1>6, <1>7, <1>10, <2>1, SourceBegins DEF Bibs, Bcbs
  <2>3. \A a \in acts : a.kind # "decrypt"
    BY <1>1, <1>6, <1>7, <1>10, SourceActs DEF SourceAction
  <2>4. todo = acts
    BY <1>2, <1>3, <2>3
  <2> QED BY <1>4, <1>5, <1>10, <2>2, <2>4 DEF Working
<1>11. CASE n = "S" /\ step = "Forward" /\ place = n /\ b = kept
  <2>1. Protected(Bibs, Bcbs, b)
    BY <1>11 DEF Calm
  <2>2. acts = {}
    BY <1>1, <1>6, <1>7, <1>8, <1>11, <2>1, SourceDone DEF Bibs, Bcbs
  <2>3. AtSource(Bibs, Bcbs, b, todo)
    BY <1>9, <2>1, <2>2 DEF AtSource, Protected, SignedAll
  <2> QED BY <1>4, <1>5, <1>11, <2>3 DEF Working
<1>12. CASE n = "G" /\ step = "Forward" /\ place = n /\ b = kept
  <2>1. Protected(Bibs, Bcbs, b)
    BY <1>12 DEF Calm
  <2>2. AllRole(policy[n], "verifier")
    BY <1>12, EndToEndIs DEF Calm
  <2>3. acts = {}
    BY <1>1, <1>6, <1>7, <1>12, <2>2, NothingToProtect
  <2>4. AtGateway(Bibs, Bcbs, b, opening, todo)
    BY <1>9, <2>1, <2>3 DEF AtGateway
  <2> QED BY <1>4, <1>5, <1>12, <2>4 DEF Working
<1>13. CASE n = "G" /\ step = "Receive" /\ place = "toG" /\ b = wire
  <2>1. Protected(Bibs, Bcbs, b) /\ SignedAll(Bibs, b)
    BY <1>4, <1>13 DEF Calm, Working, Protected
  <2>2. AllRole(policy[n], "verifier") /\ Wants(policy[n], "verifier", "bib") \subseteq Bibs
    BY <1>13, EndToEndIs DEF Calm
  <2>3. \A a \in acts : a.kind = "verify"
    BY <1>1, <1>6, <1>7, <1>8, <1>13, <2>1, <2>2, GatewayVerifies
  <2>4. ~opening /\ todo = acts
    BY <1>2, <1>3, <2>3
  <2>5. AtGateway(Bibs, Bcbs, b, opening, todo)
    BY <2>1, <2>3, <2>4 DEF AtGateway
  <2> QED BY <1>4, <1>5, <1>13, <2>5 DEF Working
<1>14. CASE n = "D" /\ step = "Receive" /\ place = "toD" /\ b = wire
  <2>1. Protected(Bibs, Bcbs, b)
    BY <1>4, <1>14 DEF Calm, Working
  <2>2. /\ AllRole(policy[n], "acceptor")
        /\ Bibs = Wants(policy[n], "acceptor", "bib") /\ Bcbs = Wants(policy[n], "acceptor", "bcb")
    BY <1>14, EndToEndIs DEF Calm
  <2>3. acts = Evaluate(policy[n], "Receive", b)
    BY <1>1, <1>14
  <2>4. AtDestination(Bibs, Bcbs, b, opening, todo)
    BY <1>2, <1>3, <1>6, <1>7, <1>8, <2>1, <2>2, <2>3, DestinationBegins
  <2> QED BY <1>4, <1>5, <1>14, <2>4 DEF Working
<1> QED BY <1>10, <1>11, <1>12, <1>13, <1>14

LEMMA SucceedWorking ==
    ASSUME FollowInv, Calm, Bibs' = Bibs, Bcbs' = Bcbs, NEW a \in job.todo, BpSucceed(a)
    PROVE  Working'
<1>1. Goes(a)
  BY GoesOn
<1>2. PICK c : c = wire'
  OBVIOUS
<1>3. job.key = 0
  BY DEF Calm
<1>4. /\ Ready(wire, policy[job.node], job.step, job.again, job.todo, a, 0)
      /\ Effect(wire, c, a, 0)
  BY <1>2, <1>3, SucceedIs
<1>5. job.todo \subseteq Action /\ job.again \in BOOLEAN /\ job.node \in Node
  BY FollowFacts
<1>6. /\ job # NoJob /\ job' # NoJob /\ job'.node = job.node /\ job'.again = job.again
      /\ job'.todo = job.todo \ {a} /\ wire' = c
  BY <1>1, <1>2 DEF Goes
<1>7. job.step # "idle"
  BY <1>6 DEF FollowInv, JobPlaced
<1>8. CASE job.node = "S"
  <2>1. job.step # "Receive"
    BY <1>8 DEF FollowInv, JobPlaced
  <2>2. AtSource(Bibs, Bcbs, wire, job.todo)
    BY <1>6, <1>8 DEF Calm, Working
  <2>3. a.kind = "sign" => a.block \in Bibs
    BY <1>8, SignDemanded, WantsDemands DEF Bibs
  <2>4. a.kind = "encrypt" => Bcbs # {}
    BY <1>8, SignDemanded, WantsDemands DEF Bcbs
  <2>5. AtSource(Bibs, Bcbs, c, job.todo \ {a})
    BY <1>4, <2>1, <2>2, <2>3, <2>4, SourceSucceeds
  <2> QED BY <1>6, <1>8, <2>5 DEF Working
<1>9. CASE job.node = "G"
  <2>1. AtGateway(Bibs, Bcbs, wire, job.again, job.todo)
    BY <1>6, <1>9 DEF Calm, Working
  <2>2. a.kind = "verify"
    BY <2>1 DEF AtGateway
  <2>3. c = wire
    BY <1>4, <2>2 DEF Effect
  <2>4. AtGateway(Bibs, Bcbs, c, job.again, job.todo \ {a})
    BY <2>1, <2>3 DEF AtGateway
  <2> QED BY <1>6, <1>9, <2>4 DEF Working
<1>10. CASE job.node = "D"
  <2>1. job.step = "Receive"
    BY <1>7, <1>10, FollowFacts DEF FollowInv, JobPlaced, Job
  <2>2. AtDestination(Bibs, Bcbs, wire, job.again, job.todo)
    BY <1>6, <1>10 DEF Calm, Working
  <2>3. AtDestination(Bibs, Bcbs, c, job.again, job.todo \ {a})
    BY <1>4, <1>5, <2>1, <2>2, DestinationSucceeds
  <2> QED BY <1>6, <1>10, <2>3 DEF Working
<1> QED BY <1>5, <1>8, <1>9, <1>10 DEF Node

\* Nothing fails but what the source does.
LEMMA NothingFails ==
    ASSUME FollowInv, Calm, NEW a \in job.todo, Due(a, FALSE)
    PROVE  a.kind \in {"sign", "encrypt"}
<1>1. job.key = 0
  BY DEF Calm
<1>2. /\ FALSE \in Outcomes(a, wire, 0)
      /\ Ready(wire, policy[job.node], job.step, job.again, job.todo, a, 0)
  BY <1>1, DueFacts
<1>3. job.again \in BOOLEAN /\ job.node \in Node
  BY FollowFacts
<1>4. job.step # "idle" /\ job # NoJob
  BY NoJobIs DEF FollowInv, JobPlaced
<1>5. CASE job.node = "S"
  <2>1. job.step # "Receive"
    BY <1>5 DEF FollowInv, JobPlaced
  <2>2. a.kind \in {"sign", "encrypt"}
    BY <2>1 DEF FollowInv, ActionsOK, MissingAction, BlockAction, SourceAction
  <2> QED BY <2>2
<1>6. CASE job.node = "G"
  <2>1. AtGateway(Bibs, Bcbs, wire, job.again, job.todo)
    BY <1>4, <1>6 DEF Calm, Working
  <2>2. a.kind = "verify" /\ ~job.again
    BY <2>1 DEF AtGateway
  <2>3. Together(wire)
    BY <2>2, CalmTogether
  <2>4. job.step = "Receive"
    BY <2>2 DEF FollowInv, ActionsOK, MissingAction, BlockAction, SourceAction
  <2>5. FALSE
    BY <1>2, <2>1, <2>3, <2>4, GatewayNeverFails
  <2> QED BY <2>5
<1>7. CASE job.node = "D"
  <2>1. AtDestination(Bibs, Bcbs, wire, job.again, job.todo)
    BY <1>4, <1>7 DEF Calm, Working
  <2>2. job.step = "Receive"
    BY <1>4, <1>7, FollowFacts DEF FollowInv, JobPlaced, Job
  <2>3. FALSE
    BY <1>2, <1>3, <2>1, <2>2, DestinationNeverFails
  <2> QED BY <2>3
<1> QED BY <1>3, <1>5, <1>6, <1>7 DEF Node

\* The decryptions are done, the BIBs are next.
LEMMA AgainWorking ==
    ASSUME FollowInv, Calm, Bibs' = Bibs, Bcbs' = Bcbs, BpEvaluateAgain
    PROVE  Working'
<1>1. PICK acts : acts = Evaluate(policy[job.node], job.step, wire)
  OBVIOUS
<1>2. PICK todo : todo = acts \ OnBcb(policy[job.node], acts)
  OBVIOUS
<1>3. /\ job.again /\ job.todo = {} /\ wire' = wire
      /\ job'.todo = todo /\ job'.again = FALSE /\ job'.node = job.node
  BY <1>1, <1>2, FollowFacts DEF BpEvaluateAgain, Job
<1>4. job.step = "Receive" /\ job # NoJob
  BY <1>3, NoJobIs DEF FollowInv, JobPlaced
<1>5. job.node = "D"
  BY <1>3, <1>4 DEF FollowInv, JobPlaced, Calm, Working, AtGateway
<1>6. AtDestination(Bibs, Bcbs, wire, job.again, job.todo)
  BY <1>4, <1>5 DEF Calm, Working
<1>7. Fresh(Bibs, Bcbs, wire) /\ SignedAll(Bibs, wire)
  BY <1>3, <1>6 DEF AtDestination
<1>8. \A x \in wire.blocks : x.operation = "bib"
  <2>1. \A x \in wire.blocks : x.operation # "bcb"
    BY <1>3 DEF FollowInv, Calm, Following
  <2> QED BY <2>1, FollowFacts, TargetOf
<1>9. AtDestination(Bibs, Bcbs, wire, FALSE, todo)
  <2>1. policy["D"] \in Seq(Rule) /\ Validate(policy["D"]) /\ wire \in Bundle /\ Shaped(wire)
    BY FollowFacts DEF Node
  <2>2. AllRole(policy["D"], "acceptor") /\ Bibs = Wants(policy["D"], "acceptor", "bib")
    BY EndToEndIs DEF Calm
  <2>3. acts = Evaluate(policy["D"], "Receive", wire) /\ todo = acts \ OnBcb(policy["D"], acts)
    BY <1>1, <1>2, <1>4, <1>5
  <2> QED BY <1>7, <1>8, <2>1, <2>2, <2>3, DestinationAccepts
<1>10. job' # NoJob
  <2>1. job'.step = job.step
    BY FollowFacts DEF BpEvaluateAgain, Job
  <2> QED BY <1>4, <2>1, NoJobIs
<1> QED BY <1>3, <1>5, <1>9, <1>10 DEF Working

\* enforce() is done.
LEMMA EnforcedWorking ==
    ASSUME FollowInv, Calm, Bibs' = Bibs, Bcbs' = Bcbs, BpEnforced
    PROVE  /\ Working' /\ place' # "dropped"
           /\ (place \in {"new", "D"} => kept.blocks = {})'
           /\ (place \in {"S", "toG", "G", "toD"} => Protected(Bibs, Bcbs, kept))'
<1>1. /\ job.step # "idle" /\ ~job.again /\ job.todo = {} /\ job' = NoJob
      /\ \/ /\ job.step = "Forward" /\ place' = NextHop(job.node) /\ UNCHANGED <<kept, wire>>
         \/ /\ job.step # "Forward" /\ place' = job.node /\ kept' = wire
  BY DEF BpEnforced
<1>2. job # NoJob /\ job.node \in Node
  BY <1>1, NoJobIs, FollowFacts
<1>3. ASSUME job.node = "S" PROVE Protected(Bibs, Bcbs, wire)
  <2>1. AtSource(Bibs, Bcbs, wire, {})
    BY <1>1, <1>2, <1>3 DEF Calm, Working
  <2> QED BY <2>1 DEF AtSource, Protected, SignedAll
<1>4. ASSUME job.node = "G" PROVE Protected(Bibs, Bcbs, wire)
  BY <1>2, <1>4 DEF Calm, Working, AtGateway
<1>5. ASSUME job.node = "D" PROVE wire.blocks = {}
  <2>1. AtDestination(Bibs, Bcbs, wire, job.again, job.todo)
    BY <1>2, <1>5 DEF Calm, Working
  <2> QED BY <1>1, <2>1 DEF AtDestination
<1>6. CASE job.step = "Forward"
  <2>1. /\ job.node \in {"S", "G"} /\ place = job.node /\ place' \in {"toG", "toD"}
        /\ UNCHANGED <<kept, wire>>
    BY <1>1, <1>6 DEF FollowInv, JobPlaced, NextHop
  <2>2. Protected(Bibs, Bcbs, wire) /\ Protected(Bibs, Bcbs, kept)
    BY <1>3, <1>4, <2>1 DEF Calm
  <2> QED BY <1>1, <2>1, <2>2 DEF Working
<1>7. CASE job.step # "Forward"
  <2>1. place' = job.node /\ kept' = wire
    BY <1>1, <1>7
  <2> QED BY <1>1, <1>2, <1>3, <1>4, <1>5, <2>1 DEF Working, Node
<1> QED BY <1>6, <1>7

LEMMA ArrivesInit == BpsecInit => ArrivesInv
<1> SUFFICES ASSUME BpsecInit PROVE ArrivesInv
  OBVIOUS
<1>1. place = "new" /\ changed = {} /\ damaged = {} /\ job = NoJob /\ kept.blocks = {}
  BY DEF BpsecInit
<1>2. Working
  BY <1>1 DEF Working
<1> QED BY <1>1, <1>2, NoJobIs DEF ArrivesInv

\* The parts of the invariant that are about the bundle a node keeps.
Keeping ==
    /\ place # "dropped" /\ Whole(kept) /\ (changed = {} \/ job = NoJob) => damaged = {}
    /\ changed = {} => place # "dropped"
    /\ Whole(kept) =>
          /\ place \in {"new", "D"} => kept.blocks = {}
          /\ place \in {"S", "toG", "G", "toD"} => Protected(Bibs, Bcbs, kept)

LEMMA ArrivesIs ==
    ArrivesInv <=> /\ Unrotated => job.key = 0
                   /\ Undisturbed => Keeping
                   /\ Undisturbed /\ changed = {} => Working
BY DEF ArrivesInv, Keeping

\* The enforcement uses the keys it began with.
LEMMA KeyStep ==
    ASSUME FollowInv, [BpsecNext]_bpsecVars, Unrotated, Unrotated', job.key = 0
    PROVE  job'.key = 0
<1>1. ASSUME NEW n \in Node, NEW step, NEW b, BpBegin(n, step, b) PROVE job'.key = 0
  BY <1>1 DEF BpBegin, Unrotated
<1>2. ASSUME NEW a \in job.todo, BpSucceed(a) \/ BpTolerate(a) PROVE job'.key = 0
  BY <1>2, GoesOn DEF Goes
<1>3. CASE BpEvaluateAgain
  BY <1>3, FollowFacts DEF BpEvaluateAgain, Job
<1>4. ASSUME job' = NoJob \/ job' = job PROVE job'.key = 0
  BY <1>4, NoJobIs
<1> QED BY <1>1, <1>2, <1>3, <1>4
        DEF BpsecNext, bpsecVars, Node, BpTransmit, BpForward, BpReceive, BpDrop, BpEnforced,
            BpLost, BpAlter, BpReload

LEMMA ArrivesStep ==
    ASSUME FollowInv, Contents, ArrivesInv, [BpsecNext]_bpsecVars
    PROVE  ArrivesInv'
<1>1. /\ policy' = policy /\ Bibs' = Bibs /\ Bcbs' = Bcbs /\ damaged \subseteq damaged'
      /\ Unrotated' => Unrotated /\ version' = version
      /\ Undisturbed' => Undisturbed
  BY StaysDisturbed
<1>2. Unrotated' => job'.key = 0
  BY <1>1, KeyStep DEF ArrivesInv
<1>3. ASSUME Undisturbed' PROVE Keeping' /\ (changed' = {} => Working')
  <2>1. Undisturbed /\ "sign" \notin damaged' /\ "encrypt" \notin damaged'
    BY <1>1, <1>3 DEF Undisturbed
  <2>2. Keeping /\ (changed = {} => Calm)
    BY <2>1, ArrivesIs, CalmIs
  <2>3. ASSUME UNCHANGED <<place, kept, changed, damaged>>, job' # NoJob
        PROVE  Keeping'
    <3>1. Whole(kept') /\ changed' = {} => damaged' = {}
      BY <2>2, <2>3 DEF Keeping
    <3> QED BY <1>1, <2>2, <2>3, <3>1 DEF Keeping
  <2>4. ASSUME NEW n \in Node, NEW step \in {"Transmit", "Forward", "Receive"}, NEW b,
               BpBegin(n, step, b),
               \/ n = "S" /\ step = "Transmit" /\ place = "new" /\ b = kept
               \/ n \in {"S", "G"} /\ step = "Forward" /\ place = n /\ b = kept
               \/ n = "G" /\ step = "Receive" /\ place = "toG" /\ b = wire
               \/ n = "D" /\ step = "Receive" /\ place = "toD" /\ b = wire
        PROVE  Keeping' /\ (changed' = {} => Working')
    <3>1. UNCHANGED <<place, kept, changed, damaged>> /\ job' # NoJob
      BY <2>4, BeginIs DEF Begins
    <3>2. changed' = {} => Working'
      BY <1>1, <2>2, <2>4, <3>1, BeginWorking
    <3> QED BY <2>3, <3>1, <3>2
  <2>5. CASE BpTransmit
    BY <2>4, <2>5 DEF BpTransmit, Node
  <2>6. ASSUME NEW n \in {"S", "G"}, BpForward(n) PROVE Keeping' /\ (changed' = {} => Working')
    BY <2>4, <2>6 DEF BpForward, Node
  <2>7. ASSUME NEW n \in {"G", "D"}, BpReceive(n) PROVE Keeping' /\ (changed' = {} => Working')
    BY <2>4, <2>7 DEF BpReceive, Node
  <2>8. ASSUME NEW a \in job.todo, BpSucceed(a) PROVE Keeping' /\ (changed' = {} => Working')
    <3>1. UNCHANGED <<place, kept, changed, damaged>> /\ job' # NoJob
      BY <2>8, GoesOn DEF Goes, BpSucceed
    <3>2. changed' = {} => Working'
      BY <1>1, <2>2, <2>8, <3>1, SucceedWorking
    <3> QED BY <2>3, <3>1, <3>2
  <2>9. ASSUME NEW a \in job.todo, Due(a, FALSE), damaged' = damaged \cup {a.kind}
        PROVE  changed # {}
    BY <2>1, <2>2, <2>9, NothingFails
  <2>10. ASSUME NEW a \in job.todo, BpTolerate(a) PROVE Keeping' /\ (changed' = {} => Working')
    <3>1. UNCHANGED <<place, kept, changed>> /\ job' # NoJob
      BY <2>10, GoesOn DEF Goes
    <3>2. changed # {}
      BY <2>9, <2>10 DEF BpTolerate
    <3> QED BY <1>1, <2>2, <3>1, <3>2 DEF Keeping
  <2>11. ASSUME NEW a \in job.todo, BpDrop(a) PROVE Keeping' /\ (changed' = {} => Working')
    <3>1. changed # {}
      BY <2>9, <2>11 DEF BpDrop
    <3>2. place' = "dropped" /\ changed' = changed
      BY <2>11 DEF BpDrop
    <3> QED BY <3>1, <3>2 DEF Keeping
  <2>12. CASE BpEvaluateAgain
    <3>1. UNCHANGED <<place, kept, changed, damaged>>
      BY <2>12 DEF BpEvaluateAgain
    <3>2. job' # NoJob
      <4>1. job'.step = job.step /\ job.step = "Receive"
        BY <2>12, FollowFacts DEF BpEvaluateAgain, Job, FollowInv, JobPlaced
      <4> QED BY <4>1, NoJobIs
    <3>3. changed' = {} => Working'
      BY <1>1, <2>2, <2>12, <3>1, AgainWorking
    <3> QED BY <2>3, <3>1, <3>2, <3>3
  <2>13. CASE BpEnforced
    <3>1. changed' = changed /\ damaged' = damaged /\ job.step # "idle"
          /\ \/ job.step = "Forward" /\ kept' = kept
             \/ job.step # "Forward" /\ kept' = wire
      BY <2>13 DEF BpEnforced
    <3>2. ASSUME Whole(kept') PROVE changed = {}
      <4>1. changed \subseteq Target
        BY DEF FollowInv, BpsecTypeOK
      <4>2. CASE job.step \in {"Transmit", "Forward"}
        <5>1. place \in {"new", "S", "G"} /\ Whole(kept)
          BY <3>1, <3>2, <4>2 DEF FollowInv, JobPlaced, Contents, Whole
        <5> QED BY <4>1, <5>1 DEF Contents, Whole, Node
      <4>3. CASE job.step = "Receive"
        <5>1. place \in {"toG", "toD"} /\ Whole(wire)
          BY <3>1, <3>2, <4>3 DEF FollowInv, JobPlaced
        <5> QED BY <4>1, <5>1 DEF Contents, Whole
      <4> QED BY <3>1, <4>2, <4>3, FollowFacts DEF Job
    <3>3. ASSUME changed = {}
          PROVE  /\ Working' /\ place' # "dropped" /\ damaged' = {}
                 /\ (place \in {"new", "D"} => kept.blocks = {})'
                 /\ (place \in {"S", "toG", "G", "toD"} => Protected(Bibs, Bcbs, kept))'
      <4>1. Calm /\ damaged = {}
        BY <2>2, <3>3 DEF Calm
      <4> QED BY <1>1, <2>13, <3>1, <4>1, EnforcedWorking
    <3> QED BY <3>1, <3>2, <3>3 DEF Keeping
  <2>14. ASSUME NEW n \in {"S", "G"}, BpLost(n) PROVE Keeping' /\ (changed' = {} => Working')
    <3>1. /\ job = NoJob /\ job' = NoJob /\ kept' = kept /\ damaged' = damaged
          /\ place \in {"toG", "toD"} /\ place' \in {"S", "G"}
      BY <2>14 DEF BpLost, NextHop
    <3> QED BY <1>1, <2>2, <3>1 DEF Keeping, Working
  <2>15. ASSUME NEW t \in Target, BpAlter(t) PROVE Keeping' /\ (changed' = {} => Working')
    <3>1. /\ job = NoJob /\ changed' = {t} /\ UNCHANGED <<place, kept, job, damaged>>
      BY <2>15 DEF BpAlter
    <3> QED BY <1>1, <2>2, <3>1 DEF Keeping
  <2>16. ASSUME NEW n \in Node, BpReload(n) PROVE FALSE
    <3>1. version'[n] = version[n] + 1 /\ version[n] \in Nat
      BY <2>16, FollowFacts DEF BpReload
    <3> QED BY <1>1, <1>3, <3>1 DEF Undisturbed
  <2>17. CASE UNCHANGED bpsecVars
    <3>1. UNCHANGED <<place, kept, wire, job, changed, damaged>>
      BY <2>17 DEF bpsecVars
    <3>2. changed = {} => Working
      BY <2>2 DEF Calm
    <3> QED BY <1>1, <2>2, <3>1, <3>2 DEF Keeping, Working
  <2> QED BY <2>5, <2>6, <2>7, <2>8, <2>10, <2>11, <2>12, <2>13, <2>14, <2>15, <2>16, <2>17
          DEF BpsecNext
<1> QED BY <1>2, <1>3 DEF ArrivesInv, Keeping

\* For every configuration that validate() accepts in which the destination accepts
\* what the source protects and the gateway verifies some of it: if nobody alters
\* the bundle, no key is reloaded and no signing or encryption fails, no check fails on the
\* way, over retries of forward(), and the destination has the bundle without
\* security blocks (the order of source_actions and receiver_actions).
THEOREM ProtectedDoesArrive == BpsecSpec => []ProtectedArrives
<1>1. FollowInv /\ AlteredInv /\ ArrivesInv /\ [BpsecNext]_bpsecVars => ArrivesInv'
  BY ArrivesStep DEF AlteredInv
<1>2. FollowInv /\ AlteredInv /\ ArrivesInv => ProtectedArrives
  <2> SUFFICES ASSUME FollowInv, AlteredInv, ArrivesInv, EndToEnd, changed = {},
                      version = [n \in Node |-> 0], "sign" \notin damaged,
                      "encrypt" \notin damaged
               PROVE  /\ damaged = {} /\ place # "dropped"
                      /\ place = "D" => kept.blocks = {}
    BY DEF ProtectedArrives
  <2>1. Calm
    BY CalmIs DEF Undisturbed, Unrotated, AlteredInv
  <2> QED BY <2>1 DEF Calm
<1> QED BY <1>1, <1>2, ArrivesInit, AlteredAlways, PTL DEF BpsecSpec
==============================================================================
