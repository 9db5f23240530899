----------------------------- MODULE InboxProofs -----------------------------
(***************************************************************************)
(* Proofs about the inbox: the projection a new process rebuilds is the    *)
(* one the running process decides on, and what the ledger then says of    *)
(* each message.                                                           *)
(*                                                                         *)
(* The projection is defined by recursion on the ledger; that the          *)
(* recursion has a solution, and that an append only adds one step to it,  *)
(* is shown by taking the least place at which it would fail.              *)
(***************************************************************************)
EXTENDS Inbox, SequenceTheorems, FiniteSetTheorems, TLAPS

-------------------------------------------------------------------------------
(* The projection of a ledger *)

\* Every non-empty set of natural numbers has a least one.
LEMMA Least ==
  ASSUME NEW S \in SUBSET Nat, S # {}
  PROVE  \E n \in S : \A k \in S : n <= k
<1>1. PICK n \in S : \A k \in S : ~(<<k, n>> \in OpToRel(<, Nat))
  BY NatLessThanWellFounded, WFMin
<1>2. \A k \in S : ~(k < n)
  BY <1>1 DEF OpToRel
<1>3. QED
  BY <1>2

\* Every non-empty set of numbers up to n has a greatest one.
LEMMA Greatest ==
  ASSUME NEW n \in Nat, NEW S \in SUBSET (1 .. n), S # {}
  PROVE  \E k \in S : \A j \in S : j <= k
<1> DEFINE Bounds == {b \in Nat : \A j \in S : j <= b}
<1>1. n \in Bounds /\ Bounds \in SUBSET Nat
  OBVIOUS
<1> HIDE DEF Bounds
<1>2. PICK b \in Bounds : \A c \in Bounds : b <= c
  BY <1>1, Least
<1> USE DEF Bounds
<1>3. CASE b \in S
  BY <1>2, <1>3
<1>4. CASE b \notin S
  <2>1. b \in Nat /\ \A j \in S : j <= b - 1
    BY <1>2, <1>4
  <2>2. PICK j \in S : TRUE
    OBVIOUS
  <2>3. b - 1 \in Bounds
    BY <2>1, <2>2
  <2>4. QED
    BY <1>2, <2>1, <2>3
<1>5. QED
  BY <1>3, <1>4

\* What Projections(s) is meant to be.
IsProjection(f, s, n) ==
  f = [i \in 0 .. n |-> IF i = 0 THEN Empty ELSE Apply(f[i - 1], s[i])]

\* The recursion has a solution, for any number of events.
LEMMA ProjectionExists ==
  ASSUME NEW s, NEW n \in Nat
  PROVE  \E f : IsProjection(f, s, n)
<1> DEFINE Missing == {k \in Nat : ~ \E f : IsProjection(f, s, k)}
<1>1. SUFFICES ASSUME Missing # {} PROVE FALSE
  OBVIOUS
<1>2. PICK k \in Missing : \A j \in Missing : k <= j
  BY <1>1, Least
<1>3. k # 0
  <2> DEFINE f == [i \in 0 .. 0 |-> Empty]
  <2>1. IsProjection(f, s, 0)
    BY DEF IsProjection
  <2>2. QED
    BY <2>1
<1>4. PICK f : IsProjection(f, s, k - 1)
  BY <1>2, <1>3
<1> DEFINE g == [i \in 0 .. k |-> IF i < k THEN f[i] ELSE Apply(f[k - 1], s[k])]
<1>5. \A i \in 0 .. k : g[i] = IF i = 0 THEN Empty ELSE Apply(g[i - 1], s[i])
  BY <1>3, <1>4 DEF IsProjection
<1>6. g = [i \in 0 .. k |-> IF i = 0 THEN Empty ELSE Apply(g[i - 1], s[i])]
  BY <1>5
<1>7. IsProjection(g, s, k)
  BY <1>6 DEF IsProjection
<1>8. QED
  BY <1>7

\* The projection satisfies its recursion.
LEMMA ProjectionsRecursion ==
  ASSUME NEW s, Len(s) \in Nat
  PROVE  IsProjection(Projections(s), s, Len(s))
<1>1. PICK f : IsProjection(f, s, Len(s))
  BY ProjectionExists
<1>2. QED
  BY <1>1 DEF IsProjection, Projections

\* An appended event adds one step and leaves the others.
LEMMA ProjectionsAppend ==
  ASSUME NEW s \in Seq(Event), NEW e \in Event
  PROVE  /\ \A i \in 0 .. Len(s) : Projections(Append(s, e))[i] = Projections(s)[i]
         /\ Replay(Append(s, e)) = Apply(Replay(s), e)
<1> DEFINE t == Append(s, e)
           f == Projections(s)
           g == Projections(t)
<1>1. /\ Len(s) \in Nat
      /\ Len(t) = Len(s) + 1
      /\ \A i \in 1 .. Len(s) : t[i] = s[i]
      /\ t[Len(s) + 1] = e
  OBVIOUS
<1>2. f = [i \in 0 .. Len(s) |-> IF i = 0 THEN Empty ELSE Apply(f[i - 1], s[i])]
  BY <1>1, ProjectionsRecursion DEF IsProjection
<1>3. g = [i \in 0 .. Len(t) |-> IF i = 0 THEN Empty ELSE Apply(g[i - 1], t[i])]
  BY <1>1, ProjectionsRecursion DEF IsProjection
<1> HIDE DEF f, g, t
<1> DEFINE Differ == {i \in 0 .. Len(s) : g[i] # f[i]}
<1>4. Differ = {}
  <2>1. SUFFICES ASSUME Differ # {} PROVE FALSE
    OBVIOUS
  <2> Differ \in SUBSET Nat
    BY <1>1
  <2> HIDE DEF Differ
  <2>2. PICK k \in Differ : \A j \in Differ : k <= j
    BY <2>1, Least
  <2> USE DEF Differ
  <2>3. k # 0
    BY <1>1, <1>2, <1>3, <2>2
  <2>4. g[k - 1] = f[k - 1]
    BY <1>1, <2>2, <2>3
  <2>5. /\ k \in 1 .. Len(s)
        /\ k \in 0 .. Len(t)
    BY <1>1, <2>2, <2>3
  <2>6. /\ g[k] = Apply(g[k - 1], t[k])
        /\ f[k] = Apply(f[k - 1], s[k])
    BY <1>1, <1>2, <1>3, <2>3, <2>5
  <2>7. t[k] = s[k]
    BY <1>1, <2>5
  <2>8. QED
    BY <2>2, <2>4, <2>6, <2>7
<1>5. g[Len(t)] = Apply(g[Len(s)], e)
  BY <1>1, <1>3
<1>6. /\ \A i \in 0 .. Len(s) : g[i] = f[i]
      /\ g[Len(t)] = Apply(f[Len(s)], e)
  BY <1>1, <1>4, <1>5
<1>7. QED
  BY <1>6 DEF f, g, t, Replay

\* An empty ledger projects to empty records.
LEMMA ReplayEmpty == Replay(<< >>) = Empty
<1>1. IsProjection(Projections(<< >>), << >>, Len(<< >>))
  BY ProjectionsRecursion
<1> DEFINE f == Projections(<< >>)
<1>2. Len(<< >>) = 0 /\ 0 \in 0 .. 0
  OBVIOUS
<1>3. f = [i \in 0 .. 0 |-> IF i = 0 THEN Empty ELSE Apply(f[i - 1], << >>[i])]
  BY <1>1, <1>2, Zenon DEF IsProjection
<1> HIDE DEF f
<1>4. f[0] = Empty
  BY <1>2, <1>3
<1>5. QED
  BY <1>2, <1>4, Zenon DEF f, Replay

-------------------------------------------------------------------------------
(* One event *)

\* An event the commands may append where the projection is r.
Acceptable(r, e) ==
  /\ e.type = "sent" =>
       \A n \in Message : Logical(n) = Logical(e.message) => r[n].status = "unsent"
  /\ e.type = "claimed" =>
       /\ r[e.message].status \in {"pending", "claimed"}
       /\ r[e.message].claim # NoClaim =>
            r[e.message].claim.at + LeaseTime <= e.claim.at
  /\ e.type = "reclaimed" => /\ r[e.message].status = "claimed"
                             /\ r[e.message].claim = e.claim
  /\ e.type = "handled" => /\ r[e.message].status = "claimed"
                           /\ r[e.message].claim.lane = e.lane
  /\ e.type = "acknowledged" => r[e.message].status = "claimed"

\* The record an acceptable event leaves of its message.
After(rec, e) ==
  CASE e.type = "sent"         -> [rec EXCEPT !.status = "pending"]
    [] e.type = "claimed"      -> [rec EXCEPT !.status = "claimed",
                                              !.attempts = @ + 1,
                                              !.claim = [e.claim EXCEPT !.attempt = rec.attempts + 1]]
    [] e.type = "reclaimed"    -> [rec EXCEPT !.status = "pending", !.claim = NoClaim]
    [] e.type = "handled"      -> [rec EXCEPT !.status = "handled"]
    [] e.type = "acknowledged" -> [rec EXCEPT !.ack = e.disposition]

\* The fields of an event have the values of its type.
LEMMA EventFields ==
  ASSUME NEW e \in Event
  PROVE  /\ e.message \in Message
         /\ e.type \in {"sent", "claimed", "reclaimed", "handled", "acknowledged"}
         /\ e.type \in {"claimed", "reclaimed"} => e.claim \in Claim
         /\ e.type = "handled" => e.lane \in Lane
         /\ e.type = "acknowledged" => e.disposition \in Disposition
  BY InboxAssumption DEF Event

\* An acceptable event changes the record of its message only.
LEMMA ApplyAcceptable ==
  ASSUME NEW r \in [Message -> Record], NEW e \in Event, Acceptable(r, e)
  PROVE  /\ Apply(r, e) = [n \in Message |-> Apply(r, e)[n]]
         /\ \A n \in Message : n # e.message => Apply(r, e)[n] = r[n]
         /\ Apply(r, e)[e.message] = After(r[e.message], e)
<1>1. e.message \in Message
  BY EventFields
<1>2. CASE e.type = "sent"
  BY <1>1, <1>2 DEF Acceptable, Apply, ApplySent, After
<1>3. CASE e.type = "claimed"
  BY <1>1, <1>3 DEF Acceptable, Apply, ApplyClaimed, After
<1>4. CASE e.type = "reclaimed"
  BY <1>1, <1>4 DEF Apply, ApplyReclaimed, After
<1>5. CASE e.type = "handled"
  BY <1>1, <1>5 DEF Apply, After
<1>6. CASE e.type = "acknowledged"
  BY <1>1, <1>6 DEF Apply, After
<1>7. QED
  BY <1>2, <1>3, <1>4, <1>5, <1>6, EventFields

\* What each event does to the record of its message.
LEMMA AfterFields ==
  ASSUME NEW rec \in Record, NEW e \in Event
  PROVE  /\ After(rec, e).status = CASE e.type = "sent" -> "pending"
                                     [] e.type = "claimed" -> "claimed"
                                     [] e.type = "reclaimed" -> "pending"
                                     [] e.type = "handled" -> "handled"
                                     [] e.type = "acknowledged" -> rec.status
         /\ After(rec, e).attempts = IF e.type = "claimed" THEN rec.attempts + 1 ELSE rec.attempts
         /\ e.type = "claimed" =>
              /\ After(rec, e).claim \in [id : ClaimId, lane : Lane, at : 0 .. MaxTime, attempt : Nat]
              /\ After(rec, e).claim.lane = e.claim.lane
              /\ After(rec, e).claim.at = e.claim.at
              /\ After(rec, e).claim.attempt = rec.attempts + 1
         /\ e.type = "reclaimed" => After(rec, e).claim = NoClaim
         /\ e.type \notin {"claimed", "reclaimed"} => After(rec, e).claim = rec.claim
<1>1. CASE e.type = "claimed"
  <2>1. e.claim \in Claim /\ rec.attempts + 1 \in Nat
    BY <1>1, EventFields, InboxAssumption DEF Record
  <2>2. QED
    BY <1>1, <2>1 DEF After, Record, Claim
<1>2. CASE e.type # "claimed"
  BY <1>2, EventFields DEF After, Record
<1>3. QED
  BY <1>1, <1>2

\* The record after an event is a record, as long as claims are within their bound.
LEMMA AfterType ==
  ASSUME NEW rec \in Record, NEW e \in Event,
         e.type = "claimed" => rec.attempts + 1 <= MaxClaims
  PROVE  After(rec, e) \in Record
<1>1. CASE e.type = "claimed"
  <2>1. [e.claim EXCEPT !.attempt = rec.attempts + 1] \in Claim
    BY <1>1, EventFields, InboxAssumption DEF Record, Claim
  <2>2. rec.attempts + 1 \in 0 .. MaxClaims
    BY <1>1, InboxAssumption DEF Record
  <2>3. QED
    BY <1>1, <2>1, <2>2 DEF After, Record
<1>2. CASE e.type # "claimed"
  BY <1>2, EventFields DEF After, Record
<1>3. QED
  BY <1>1, <1>2

-------------------------------------------------------------------------------
(* What the ledger and the projection of it say of each message *)

ClaimsIn(s) == {i \in DOMAIN s : s[i].type = "claimed"}
ClaimsOn(s, m) == {i \in DOMAIN s : s[i].type = "claimed" /\ s[i].message = m}
On(s, m) == {i \in DOMAIN s : s[i].message = m /\ s[i].type # "acknowledged"}

\* The projector accepts every event in its place.
Accepted(s) == \A i \in DOMAIN s : Applicable(Projections(s)[i - 1], s[i])

\* The attempts of a message are its claims in the ledger.
Counted(s, r) == \A m \in Message : r[m].attempts = Cardinality(ClaimsOn(s, m))

\* A message has a claim from its first claim on, save when it is pending, and
\* the claim knows the number of attempts.
Consistent(r) ==
  \A m \in Message :
    /\ r[m].status \in {"unsent", "pending"} <=> r[m].claim = NoClaim
    /\ r[m].claim # NoClaim => r[m].claim.attempt = r[m].attempts

NotReclaimed(s, m, i, j) == \A k \in i .. j : s[k].type = "reclaimed" => s[k].message # m

\* A claim that nobody reclaimed is still known, by it or by a later one.
Remembered(s, r) ==
  \A m \in Message : \A i \in ClaimsOn(s, m) :
    NotReclaimed(s, m, i, Len(s)) =>
      r[m].claim # NoClaim /\ s[i].claim.at <= r[m].claim.at

IsLast(s, m, i) == i \in On(s, m) /\ \A j \in On(s, m) : j <= i

\* The last event on a message decides its status and who holds it.
Reflected(s, r) ==
  \A m \in Message :
    \/ On(s, m) = {} /\ r[m].status = "unsent"
    \/ \E i \in DOMAIN s :
         /\ IsLast(s, m, i)
         /\ r[m].status = StatusAfter[s[i].type]
         /\ s[i].type = "claimed" => s[i].claim.lane = r[m].claim.lane

Leased(s) ==
  \A m \in Message : \A i, j \in ClaimsOn(s, m) :
    i < j /\ NotReclaimed(s, m, i, j) => s[i].claim.at + LeaseTime <= s[j].claim.at

LedgerInv(s) ==
  /\ s \in Seq(Event)
  /\ Cardinality(ClaimsIn(s)) <= MaxClaims
  /\ Replay(s) \in [Message -> Record]
  /\ Accepted(s)
  /\ Counted(s, Replay(s))
  /\ Consistent(Replay(s))
  /\ Remembered(s, Replay(s))
  /\ Reflected(s, Replay(s))
  /\ Leased(s)

\* A sequence and an event appended to it.
LEMMA AppendFacts ==
  ASSUME NEW s \in Seq(Event), NEW e \in Event
  PROVE  /\ Append(s, e) \in Seq(Event)
         /\ Len(s) \in Nat
         /\ Len(Append(s, e)) = Len(s) + 1
         /\ DOMAIN s = 1 .. Len(s)
         /\ DOMAIN Append(s, e) = 1 .. Len(s) + 1
         /\ \A i \in 1 .. Len(s) : Append(s, e)[i] = s[i] /\ s[i] \in Event
         /\ Append(s, e)[Len(s) + 1] = e
  OBVIOUS

\* The claims of a ledger are finitely many, and an append adds its own.
LEMMA ClaimsFinite ==
  ASSUME NEW s \in Seq(Event), NEW m
  PROVE  /\ IsFiniteSet(ClaimsIn(s))
         /\ IsFiniteSet(ClaimsOn(s, m))
         /\ Cardinality(ClaimsIn(s)) \in Nat
         /\ Cardinality(ClaimsOn(s, m)) \in Nat
         /\ Cardinality(ClaimsOn(s, m)) <= Cardinality(ClaimsIn(s))
<1>1. Len(s) \in Nat /\ DOMAIN s = 1 .. Len(s)
  OBVIOUS
<1>2. IsFiniteSet(1 .. Len(s))
  BY <1>1, FS_Interval
<1>3. ClaimsIn(s) \subseteq 1 .. Len(s) /\ ClaimsOn(s, m) \subseteq ClaimsIn(s)
  BY <1>1 DEF ClaimsIn, ClaimsOn
<1>4. QED
  BY <1>2, <1>3, FS_Subset, FS_CardinalityType

\* An append adds at most its own claim, to all claims and to those of its message.
LEMMA ClaimsAppend ==
  ASSUME NEW s \in Seq(Event), NEW e \in Event, NEW m
  PROVE  LET t == Append(s, e)
         IN  /\ ClaimsIn(t) = IF e.type = "claimed" THEN ClaimsIn(s) \cup {Len(s) + 1}
                                                    ELSE ClaimsIn(s)
             /\ ClaimsOn(t, m) = IF e.type = "claimed" /\ e.message = m
                                   THEN ClaimsOn(s, m) \cup {Len(s) + 1}
                                   ELSE ClaimsOn(s, m)
             /\ Cardinality(ClaimsIn(t)) = IF e.type = "claimed" THEN Cardinality(ClaimsIn(s)) + 1
                                                                ELSE Cardinality(ClaimsIn(s))
             /\ Cardinality(ClaimsOn(t, m)) = IF e.type = "claimed" /\ e.message = m
                                                THEN Cardinality(ClaimsOn(s, m)) + 1
                                                ELSE Cardinality(ClaimsOn(s, m))
<1> DEFINE t == Append(s, e)
<1>1. /\ ClaimsIn(t) = IF e.type = "claimed" THEN ClaimsIn(s) \cup {Len(s) + 1}
                                              ELSE ClaimsIn(s)
      /\ ClaimsOn(t, m) = IF e.type = "claimed" /\ e.message = m
                            THEN ClaimsOn(s, m) \cup {Len(s) + 1}
                            ELSE ClaimsOn(s, m)
  BY AppendFacts DEF ClaimsIn, ClaimsOn
<1>2. Len(s) + 1 \notin ClaimsIn(s) /\ Len(s) + 1 \notin ClaimsOn(s, m)
  BY AppendFacts DEF ClaimsIn, ClaimsOn
<1>3. QED
  BY <1>1, <1>2, ClaimsFinite, FS_AddElement

\* The projection after an acceptable event.
LEMMA ReplayStep ==
  ASSUME NEW s, LedgerInv(s), NEW e \in Event, Acceptable(Replay(s), e),
         e.type = "claimed" => Cardinality(ClaimsIn(s)) + 1 <= MaxClaims
  PROVE  LET r == Replay(s)
             q == Replay(Append(s, e))
         IN  /\ q \in [Message -> Record]
             /\ \A n \in Message : n # e.message => q[n] = r[n]
             /\ q[e.message] = After(r[e.message], e)
<1> DEFINE r == Replay(s)
           q == Replay(Append(s, e))
           m == e.message
<1>1. s \in Seq(Event) /\ r \in [Message -> Record] /\ m \in Message
  BY EventFields DEF LedgerInv
<1>2. q = Apply(r, e)
  BY <1>1, ProjectionsAppend
<1>3. /\ q = [n \in Message |-> q[n]]
      /\ \A n \in Message : n # m => q[n] = r[n]
      /\ q[m] = After(r[m], e)
  BY <1>1, <1>2, ApplyAcceptable
<1>4. e.type = "claimed" => r[m].attempts + 1 <= MaxClaims
  <2>1. r[m].attempts = Cardinality(ClaimsOn(s, m))
    BY <1>1 DEF LedgerInv, Counted
  <2>2. QED
    BY <1>1, <2>1, ClaimsFinite, InboxAssumption
<1>5. q[m] \in Record
  BY <1>1, <1>3, <1>4, AfterType
<1>6. q \in [Message -> Record]
  BY <1>1, <1>3, <1>5
<1>7. QED
  BY <1>3, <1>6

\* An acceptable event leaves a ledger whose every event was acceptable in its place.
LEMMA AcceptedStep ==
  ASSUME NEW s, LedgerInv(s), NEW e \in Event, Acceptable(Replay(s), e)
  PROVE  Accepted(Append(s, e))
<1> DEFINE t == Append(s, e)
<1>1. s \in Seq(Event) /\ Accepted(s)
  BY DEF LedgerInv
<1>2. ASSUME NEW i \in DOMAIN t
      PROVE  Applicable(Projections(t)[i - 1], t[i])
  <2>1. i - 1 \in 0 .. Len(s)
    BY <1>1, AppendFacts
  <2>2. Projections(t)[i - 1] = Projections(s)[i - 1]
    BY <1>1, <2>1, ProjectionsAppend
  <2>3. CASE i \in DOMAIN s
    BY <1>1, <2>2, <2>3, AppendFacts DEF Accepted
  <2>4. CASE i = Len(s) + 1
    <3>1. Projections(t)[i - 1] = Replay(s) /\ t[i] = e
      BY <1>1, <2>2, <2>4, AppendFacts DEF Replay
    <3>2. Applicable(Replay(s), e)
      BY EventFields DEF Acceptable, Applicable
    <3>3. QED
      BY <3>1, <3>2
  <2>5. QED
    BY <1>1, <2>3, <2>4, AppendFacts
<1>3. QED
  BY <1>2 DEF Accepted

\* An acceptable event leaves the attempts of the records those of the ledger.
LEMMA CountedStep ==
  ASSUME NEW s, LedgerInv(s), NEW e \in Event, Acceptable(Replay(s), e),
         e.type = "claimed" => Cardinality(ClaimsIn(s)) + 1 <= MaxClaims
  PROVE  LET t == Append(s, e)
         IN  Counted(t, Replay(t)) /\ Consistent(Replay(t))
<1> DEFINE t == Append(s, e)
           r == Replay(s)
           q == Replay(t)
           m == e.message
<1>1. /\ s \in Seq(Event) /\ m \in Message /\ r \in [Message -> Record]
      /\ Counted(s, r) /\ Consistent(r)
  BY EventFields DEF LedgerInv
<1>2. /\ q \in [Message -> Record]
      /\ \A n \in Message : n # m => q[n] = r[n]
      /\ q[m] = After(r[m], e)
  BY ReplayStep
<1>3. r[m] \in Record /\ NoClaim \notin Claim
  BY <1>1, ClaimAssumption
<1>4. \A n \in Message : q[n].attempts = Cardinality(ClaimsOn(t, n))
  <2> TAKE n \in Message
  <2>1. CASE n # m
    BY <1>1, <1>2, <2>1, ClaimsAppend DEF Counted
  <2>2. CASE n = m
    <3>1. q[m].attempts = IF e.type = "claimed" THEN r[m].attempts + 1 ELSE r[m].attempts
      BY <1>2, <1>3, AfterFields
    <3>2. Cardinality(ClaimsOn(t, m)) = IF e.type = "claimed"
                                          THEN Cardinality(ClaimsOn(s, m)) + 1
                                          ELSE Cardinality(ClaimsOn(s, m))
      BY <1>1, ClaimsAppend
    <3>3. QED
      BY <1>1, <2>2, <3>1, <3>2 DEF Counted
  <2>3. QED
    BY <2>1, <2>2
<1>5. \A n \in Message :
        /\ q[n].status \in {"unsent", "pending"} <=> q[n].claim = NoClaim
        /\ q[n].claim # NoClaim => q[n].claim.attempt = q[n].attempts
  <2> TAKE n \in Message
  <2>1. CASE n # m
    BY <1>1, <1>2, <2>1 DEF Consistent
  <2>2. CASE n = m
    <3>1. /\ r[m].status \in {"unsent", "pending"} <=> r[m].claim = NoClaim
          /\ r[m].claim # NoClaim => r[m].claim.attempt = r[m].attempts
      BY <1>1 DEF Consistent
    <3>2. CASE e.type = "claimed"
      <4>1. q[m].claim \in Claim \cup {NoClaim}
        BY <1>1, <1>2 DEF Record
      <4>2. /\ q[m].status = "claimed"
            /\ q[m].attempts = r[m].attempts + 1
            /\ q[m].claim = [e.claim EXCEPT !.attempt = r[m].attempts + 1]
        BY <1>2, <1>3, <3>2 DEF After, Record
      <4>3. q[m].claim \in Claim
        <5>1. e.claim \in Claim
          BY <3>2, EventFields
        <5>2. q[m].attempts \in 1 .. MaxClaims
          BY <1>1, <1>2, <1>3, <4>2 DEF Record
        <5>3. QED
          BY <4>2, <5>1, <5>2 DEF Claim
      <4>4. q[m].claim.attempt = r[m].attempts + 1
        BY <1>2, <1>3, <3>2, AfterFields
      <4>5. QED
        BY <1>3, <2>2, <4>2, <4>3, <4>4
    <3>3. CASE e.type # "claimed"
      BY <1>1, <1>2, <1>3, <2>2, <3>1, <3>3, AfterFields, EventFields DEF Acceptable
    <3>4. QED
      BY <3>2, <3>3
  <2>3. QED
    BY <2>1, <2>2
<1>6. QED
  BY <1>4, <1>5 DEF Counted, Consistent

\* An acceptable event leaves the claims of the records those of the ledger, a lease apart.
LEMMA RememberedStep ==
  ASSUME NEW s, LedgerInv(s), NEW e \in Event, Acceptable(Replay(s), e),
         e.type = "claimed" => Cardinality(ClaimsIn(s)) + 1 <= MaxClaims
  PROVE  LET t == Append(s, e)
         IN  Remembered(t, Replay(t)) /\ Leased(t)
<1> DEFINE t == Append(s, e)
           r == Replay(s)
           q == Replay(t)
           m == e.message
           last == Len(s) + 1
<1>1. /\ s \in Seq(Event) /\ m \in Message /\ r \in [Message -> Record]
      /\ Consistent(r) /\ Remembered(s, r) /\ Leased(s)
  BY EventFields DEF LedgerInv
<1>2. /\ \A n \in Message : n # m => q[n] = r[n]
      /\ q[m] = After(r[m], e)
  BY ReplayStep
<1>3. /\ last - 1 \in Nat /\ Len(s) = last - 1 /\ Len(t) = last
      /\ t[last] = e
      /\ \A i \in 1 .. last - 1 : t[i] = s[i] /\ s[i] \in Event
      /\ DOMAIN s = 1 .. last - 1
  BY <1>1, AppendFacts
<1>4. Consistent(q) /\ r[m] \in Record
  BY <1>1, CountedStep
<1>5. \A n : ClaimsOn(t, n) = IF e.type = "claimed" /\ e.message = n
                               THEN ClaimsOn(s, n) \cup {last}
                               ELSE ClaimsOn(s, n)
  BY <1>1, ClaimsAppend
<1>6. \A n : ClaimsOn(s, n) \subseteq 1 .. last - 1
  BY <1>3 DEF ClaimsOn
<1>7. ASSUME NEW n, NEW i \in ClaimsOn(s, n), NotReclaimed(t, n, i, last)
      PROVE  NotReclaimed(s, n, i, Len(s)) /\ (e.type = "reclaimed" => m # n)
  <2>1. i \in 1 .. last - 1
    BY <1>6
  <2>2. last \in i .. last
    BY <1>3, <2>1
  <2>3. \A k \in i .. last - 1 : k \in i .. last /\ t[k] = s[k]
    BY <1>3, <2>1
  <2>4. QED
    BY <1>3, <1>7, <2>2, <2>3 DEF NotReclaimed
<1>8. ASSUME e.type = "claimed", r[m].claim # NoClaim
      PROVE  r[m].claim.at + LeaseTime <= e.claim.at
  BY <1>8 DEF Acceptable
<1>9. e.type = "claimed" => /\ e.claim.at \in Nat
                            /\ q[m].claim # NoClaim
                            /\ q[m].claim.at = e.claim.at
  <2> HAVE e.type = "claimed"
  <2>1. e.claim.at \in Nat
    BY EventFields, InboxAssumption DEF Claim
  <2>2. q[m].claim.at = e.claim.at /\ q[m].status = "claimed"
    BY <1>2, <1>4, AfterFields
  <2>3. q[m].claim # NoClaim
    BY <1>1, <1>4, <2>2 DEF Consistent
  <2>4. QED
    BY <2>1, <2>2, <2>3
<1>10. \A n \in Message : \A i \in ClaimsOn(s, n) :
         s[i].claim.at \in Nat /\ (r[n].claim # NoClaim => r[n].claim.at \in Nat)
  <2> TAKE n \in Message
  <2> TAKE i \in ClaimsOn(s, n)
  <2>1. s[i] \in Event /\ s[i].type = "claimed"
    BY <1>3, <1>6 DEF ClaimsOn
  <2>2. s[i].claim \in Claim
    BY <2>1, EventFields
  <2>3. r[n].claim # NoClaim => r[n].claim \in Claim
    BY <1>1 DEF Record
  <2>4. QED
    BY <2>2, <2>3, InboxAssumption DEF Claim
<1>11. ASSUME NEW n \in Message, NEW i \in ClaimsOn(t, n), NotReclaimed(t, n, i, last)
       PROVE  q[n].claim # NoClaim /\ t[i].claim.at <= q[n].claim.at
  <2>1. CASE i \in ClaimsOn(s, n)
    <3>1. r[n].claim # NoClaim /\ s[i].claim.at <= r[n].claim.at
      BY <1>1, <1>7, <1>11, <2>1 DEF Remembered
    <3>2. t[i] = s[i]
      BY <1>3, <1>6, <2>1
    <3>3. CASE n # m
      BY <1>2, <3>1, <3>2, <3>3
    <3>4. CASE n = m /\ e.type = "claimed"
      BY <1>8, <1>9, <1>10, <2>1, <3>1, <3>2, <3>4, InboxAssumption
    <3>5. CASE n = m /\ e.type # "claimed"
      <4>1. e.type # "reclaimed"
        BY <1>7, <1>11, <2>1, <3>5
      <4>2. q[m].claim = r[m].claim
        BY <1>2, <1>4, <3>5, <4>1, AfterFields
      <4>3. QED
        BY <3>1, <3>2, <3>5, <4>2
    <3>6. QED
      BY <3>3, <3>4, <3>5
  <2>2. CASE i \notin ClaimsOn(s, n)
    <3>1. e.type = "claimed" /\ n = m /\ i = last
      BY <1>5, <2>2
    <3>2. QED
      BY <1>3, <1>9, <3>1
  <2>3. QED
    BY <2>1, <2>2
<1>12. ASSUME NEW n \in Message, NEW i \in ClaimsOn(t, n), NEW j \in ClaimsOn(t, n),
              i < j, NotReclaimed(t, n, i, j)
       PROVE  t[i].claim.at + LeaseTime <= t[j].claim.at
  <2>1. CASE j \in ClaimsOn(s, n)
    <3>1. i \in ClaimsOn(s, n)
      BY <1>3, <1>5, <1>6, <1>12, <2>1
    <3>2. i \in 1 .. last - 1 /\ j \in 1 .. last - 1
      BY <1>6, <2>1, <3>1
    <3>3. \A k \in i .. j : t[k] = s[k]
      BY <1>3, <3>2
    <3>4. NotReclaimed(s, n, i, j)
      BY <1>12, <3>3 DEF NotReclaimed
    <3>5. s[i].claim.at + LeaseTime <= s[j].claim.at
      BY <1>1, <1>12, <2>1, <3>1, <3>4 DEF Leased
    <3>6. QED
      BY <1>3, <3>2, <3>5
  <2>2. CASE j \notin ClaimsOn(s, n)
    <3>1. e.type = "claimed" /\ n = m /\ j = last
      BY <1>5, <2>2
    <3>2. i \in ClaimsOn(s, n)
      BY <1>3, <1>5, <1>12, <3>1
    <3>3. r[n].claim # NoClaim /\ s[i].claim.at <= r[n].claim.at
      BY <1>1, <1>7, <1>12, <3>1, <3>2 DEF Remembered
    <3>4. t[i] = s[i] /\ t[j] = e
      BY <1>3, <1>6, <3>1, <3>2
    <3>5. r[n].claim.at + LeaseTime <= e.claim.at
      BY <1>8, <3>1, <3>3
    <3>6. s[i].claim.at \in Nat /\ r[n].claim.at \in Nat /\ e.claim.at \in Nat
      BY <1>9, <1>10, <3>1, <3>2, <3>3
    <3>7. s[i].claim.at + LeaseTime <= e.claim.at
      BY <3>3, <3>5, <3>6, InboxAssumption
    <3>8. QED
      BY <3>4, <3>7
  <2>3. QED
    BY <2>1, <2>2
<1>13. Len(t) = last
  BY <1>3
<1>14. QED
  BY <1>11, <1>12, <1>13 DEF Remembered, Leased

\* An acceptable event leaves the status of the records that of the last events.
LEMMA ReflectedStep ==
  ASSUME NEW s, LedgerInv(s), NEW e \in Event, Acceptable(Replay(s), e),
         e.type = "claimed" => Cardinality(ClaimsIn(s)) + 1 <= MaxClaims
  PROVE  LET t == Append(s, e)
         IN  Reflected(t, Replay(t))
<1> DEFINE t == Append(s, e)
           r == Replay(s)
           q == Replay(t)
           m == e.message
           last == Len(s) + 1
<1>1. /\ s \in Seq(Event) /\ m \in Message /\ r \in [Message -> Record]
      /\ Reflected(s, r)
  BY EventFields DEF LedgerInv
<1>2. /\ \A n \in Message : n # m => q[n] = r[n]
      /\ q[m] = After(r[m], e)
  BY ReplayStep
<1>3. /\ last - 1 \in Nat /\ last \in DOMAIN t
      /\ t[last] = e
      /\ \A i \in DOMAIN s : t[i] = s[i] /\ i \in DOMAIN t /\ i <= last
      /\ DOMAIN s = 1 .. last - 1 /\ DOMAIN t = 1 .. last
  BY <1>1, AppendFacts
<1>4. \A n \in Message : On(t, n) = IF n = m /\ e.type # "acknowledged"
                                      THEN On(s, n) \cup {last}
                                      ELSE On(s, n)
  BY <1>3 DEF On
<1>5. ASSUME NEW n \in Message
      PROVE  \/ On(t, n) = {} /\ q[n].status = "unsent"
             \/ \E i \in DOMAIN t :
                  /\ IsLast(t, n, i)
                  /\ q[n].status = StatusAfter[t[i].type]
                  /\ t[i].type = "claimed" => t[i].claim.lane = q[n].claim.lane
  <2>1. CASE n = m /\ e.type # "acknowledged"
    <3>1. IsLast(t, n, last)
      BY <1>3, <1>4, <2>1 DEF IsLast, On
    <3>2. q[m].status = StatusAfter[e.type]
      BY <1>1, <1>2, <2>1, EventFields, AfterFields DEF StatusAfter
    <3>3. e.type = "claimed" => e.claim.lane = q[m].claim.lane
      BY <1>1, <1>2, AfterFields
    <3>4. QED
      BY <1>3, <2>1, <3>1, <3>2, <3>3
  <2>2. CASE ~ (n = m /\ e.type # "acknowledged")
    <3>1. q[n].status = r[n].status /\ q[n].claim = r[n].claim
      BY <1>1, <1>2, <2>2, AfterFields
    <3>2. On(t, n) = On(s, n)
      BY <1>4, <2>2
    <3>3. CASE On(s, n) = {} /\ r[n].status = "unsent"
      BY <3>1, <3>2, <3>3
    <3>4. ASSUME NEW i \in DOMAIN s,
                 IsLast(s, n, i),
                 r[n].status = StatusAfter[s[i].type],
                 s[i].type = "claimed" => s[i].claim.lane = r[n].claim.lane
          PROVE  /\ IsLast(t, n, i)
                 /\ q[n].status = StatusAfter[t[i].type]
                 /\ t[i].type = "claimed" => t[i].claim.lane = q[n].claim.lane
      BY <1>3, <3>1, <3>2, <3>4 DEF IsLast
    <3>5. QED
      BY <1>1, <1>3, <3>3, <3>4 DEF Reflected
  <2>3. QED
    BY <2>1, <2>2
<1>6. QED
  BY <1>5 DEF Reflected

\* So an acceptable event keeps all that is said of a ledger.
LEMMA LedgerStep ==
  ASSUME NEW s, LedgerInv(s), NEW e \in Event, Acceptable(Replay(s), e),
         e.type = "claimed" => Cardinality(ClaimsIn(s)) + 1 <= MaxClaims
  PROVE  LedgerInv(Append(s, e))
<1> DEFINE t == Append(s, e)
<1>1. s \in Seq(Event) /\ Cardinality(ClaimsIn(s)) <= MaxClaims
  BY DEF LedgerInv
<1>2. t \in Seq(Event)
  BY <1>1
<1>3. Cardinality(ClaimsIn(t)) <= MaxClaims
  BY <1>1, ClaimsAppend
<1>4. Replay(t) \in [Message -> Record]
  BY ReplayStep
<1>5. QED
  BY <1>2, <1>3, <1>4, AcceptedStep, CountedStep, RememberedStep, ReflectedStep
     DEF LedgerInv

\* And all of it is true of an empty ledger.
LEMMA LedgerEmpty == LedgerInv(<< >>)
<1> DEFINE s == << >>
<1>1. Replay(s) = Empty
  BY ReplayEmpty
<1>2. DOMAIN s = {} /\ s \in Seq(Event)
  OBVIOUS
<1>3. ClaimsIn(s) = {} /\ \A m : ClaimsOn(s, m) = {} /\ On(s, m) = {}
  BY <1>2 DEF ClaimsIn, ClaimsOn, On
<1>4. Cardinality({}) = 0
  BY FS_EmptySet
<1>5. Empty \in [Message -> Record]
  BY InboxAssumption DEF Empty, Record
<1>6. Accepted(s)
  BY <1>2 DEF Accepted
<1>7. Counted(s, Empty) /\ Consistent(Empty)
  BY <1>3, <1>4 DEF Counted, Consistent, Empty
<1>8. Remembered(s, Empty) /\ Leased(s)
  BY <1>3 DEF Remembered, Leased
<1>9. Reflected(s, Empty)
  BY <1>3 DEF Reflected, Empty
<1> HIDE DEF s
<1>10. Cardinality(ClaimsIn(s)) <= MaxClaims
  BY <1>3, <1>4, InboxAssumption
<1>11. QED
  BY <1>1, <1>2, <1>5, <1>6, <1>7, <1>8, <1>9, <1>10 DEF LedgerInv

-------------------------------------------------------------------------------
(* What a command has still to append *)

\* Two events of one command do not disturb each other.
Compatible(d, e) ==
  \/ d.type = "acknowledged"
  \/ d.type = "claimed" /\ e.type = "claimed" /\ d.message # e.message

\* Each event of c, wherever the command breaks off, may follow the ledger s.
TodoInv(s, c) ==
  /\ c \in Seq(Event)
  /\ \A i \in DOMAIN c : Acceptable(Replay(s), c[i])
  /\ \A i, j \in DOMAIN c : i < j => Compatible(c[i], c[j])
  /\ \A i \in DOMAIN c : c[i].type = "claimed" => Cardinality(ClaimsIn(s)) + Len(c) <= MaxClaims

\* A sequence that is not empty, its head and its tail.
LEMMA TailFacts ==
  ASSUME NEW c \in Seq(Event), c # << >>
  PROVE  /\ Head(c) = c[1] /\ 1 \in DOMAIN c /\ Head(c) \in Event
         /\ Len(c) \in Nat /\ Len(c) >= 1
         /\ Tail(c) \in Seq(Event) /\ Len(Tail(c)) = Len(c) - 1
         /\ \A i \in DOMAIN Tail(c) : /\ Tail(c)[i] = c[i + 1]
                                      /\ i \in Nat /\ 1 < i + 1 /\ i + 1 \in DOMAIN c
  OBVIOUS

\* What is left of a command fits the ledger as the command did.
LEMMA TodoTail ==
  ASSUME NEW s \in Seq(Event), NEW c, TodoInv(s, c), c # << >>
  PROVE  TodoInv(s, Tail(c))
<1>1. c \in Seq(Event)
  BY DEF TodoInv
<1>2. Cardinality(ClaimsIn(s)) \in Nat
  BY ClaimsFinite
<1>3. \A i \in DOMAIN Tail(c) : Acceptable(Replay(s), Tail(c)[i])
  BY <1>1, TailFacts DEF TodoInv
<1>4. ASSUME NEW i \in DOMAIN Tail(c), NEW j \in DOMAIN Tail(c), i < j
      PROVE  Compatible(Tail(c)[i], Tail(c)[j])
  <2>1. i + 1 < j + 1
    BY <1>1, <1>4, TailFacts
  <2>2. QED
    BY <1>1, <2>1, TailFacts DEF TodoInv
<1>5. ASSUME NEW i \in DOMAIN Tail(c), Tail(c)[i].type = "claimed"
      PROVE  Cardinality(ClaimsIn(s)) + Len(Tail(c)) <= MaxClaims
  <2>1. Cardinality(ClaimsIn(s)) + Len(c) <= MaxClaims
    BY <1>1, <1>5, TailFacts DEF TodoInv
  <2>2. QED
    BY <1>1, <1>2, <2>1, TailFacts, InboxAssumption
<1>6. QED
  BY <1>1, <1>3, <1>4, <1>5, TailFacts DEF TodoInv

\* The next event of a command keeps the ledger right, and the rest of the
\* command may follow it.
LEMMA TodoStep ==
  ASSUME NEW s, LedgerInv(s), NEW c, TodoInv(s, c), c # << >>
  PROVE  /\ Head(c) \in Event
         /\ Acceptable(Replay(s), Head(c))
         /\ LedgerInv(Append(s, Head(c)))
         /\ TodoInv(Append(s, Head(c)), Tail(c))
<1> DEFINE e == Head(c)
           m == e.message
           r == Replay(s)
           q == Replay(Append(s, e))
<1>1. c \in Seq(Event) /\ s \in Seq(Event) /\ r \in [Message -> Record]
  BY DEF TodoInv, LedgerInv
<1>2. e \in Event /\ e = c[1] /\ 1 \in DOMAIN c /\ m \in Message
  BY <1>1, TailFacts, EventFields
<1>3. Acceptable(r, e)
  BY <1>2 DEF TodoInv
<1>4. Cardinality(ClaimsIn(s)) \in Nat /\ Len(c) \in Nat /\ Len(c) >= 1
  BY <1>1, ClaimsFinite, TailFacts
<1>5. e.type = "claimed" => Cardinality(ClaimsIn(s)) + Len(c) <= MaxClaims
  BY <1>2 DEF TodoInv
<1>6. e.type = "claimed" => Cardinality(ClaimsIn(s)) + 1 <= MaxClaims
  BY <1>4, <1>5, InboxAssumption
<1>7. LedgerInv(Append(s, e))
  BY <1>2, <1>3, <1>6, LedgerStep
<1>8. /\ \A n \in Message : n # m => q[n] = r[n]
      /\ q[m] = After(r[m], e)
  BY <1>2, <1>3, <1>6, ReplayStep
<1>9. TodoInv(s, Tail(c)) /\ Tail(c) \in Seq(Event)
  BY <1>1, TodoTail DEF TodoInv
<1>10. ASSUME NEW i \in DOMAIN Tail(c)
       PROVE  Acceptable(q, Tail(c)[i])
  <2> DEFINE d == Tail(c)[i]
  <2>1. Compatible(e, d) /\ d \in Event
    <3>1. d = c[i + 1] /\ i + 1 \in DOMAIN c /\ 1 < i + 1
      BY <1>1, TailFacts
    <3>2. QED
      BY <1>1, <1>2, <3>1 DEF TodoInv
  <2>2. Acceptable(r, d) /\ d.message \in Message
    BY <1>9, <2>1, EventFields DEF TodoInv
  <2>3. CASE e.type = "acknowledged"
    <3>1. q[m].status = r[m].status /\ q[m].claim = r[m].claim
      BY <1>1, <1>2, <1>8, <2>3, AfterFields
    <3>2. \A n \in Message : q[n].status = r[n].status /\ q[n].claim = r[n].claim
      BY <1>8, <3>1
    <3>3. QED
      BY <2>2, <3>2 DEF Acceptable
  <2>4. CASE d.type = "claimed" /\ m # d.message
    BY <1>8, <2>2, <2>4 DEF Acceptable
  <2>5. QED
    BY <2>1, <2>3, <2>4 DEF Compatible
<1>11. ASSUME NEW i \in DOMAIN Tail(c), Tail(c)[i].type = "claimed"
       PROVE  Cardinality(ClaimsIn(Append(s, e))) + Len(Tail(c)) <= MaxClaims
  <2>1. Cardinality(ClaimsIn(s)) + Len(c) <= MaxClaims
    BY <1>1, <1>11, TailFacts DEF TodoInv
  <2>2. Cardinality(ClaimsIn(Append(s, e))) \in {Cardinality(ClaimsIn(s)), Cardinality(ClaimsIn(s)) + 1}
    BY <1>1, <1>2, ClaimsAppend
  <2>3. Len(Tail(c)) = Len(c) - 1
    BY <1>1, TailFacts
  <2>4. QED
    BY <1>4, <2>1, <2>2, <2>3, InboxAssumption
<1>12. TodoInv(Append(s, e), Tail(c))
  BY <1>9, <1>10, <1>11 DEF TodoInv
<1>13. QED
  BY <1>2, <1>3, <1>7, <1>12

\* A command that has nothing to append.
LEMMA TodoNothing == \A s : TodoInv(s, << >>)
<1> DEFINE c == << >>
<1>1. c \in Seq(Event) /\ DOMAIN c = {}
  OBVIOUS
<1> HIDE DEF c
<1>2. \A s : TodoInv(s, c)
  BY <1>1 DEF TodoInv
<1>3. QED
  BY <1>2 DEF c

\* A command of one event.
LEMMA TodoOne ==
  ASSUME NEW s \in Seq(Event), NEW e \in Event, Acceptable(Replay(s), e),
         e.type # "claimed"
  PROVE  TodoInv(s, <<e>>)
<1> DEFINE c == <<e>>
<1>1. c \in Seq(Event) /\ DOMAIN c = {1} /\ c[1] = e
  OBVIOUS
<1> HIDE DEF c
<1>2. QED
  BY <1>1 DEF TodoInv

-------------------------------------------------------------------------------
(* The invariant of the inbox *)

IInv ==
  /\ now \in 0 .. MaxTime
  /\ up \in BOOLEAN
  /\ stops \in 0 .. MaxStops
  /\ records \in [Message -> Record]
  /\ LedgerInv(ledger)
  /\ up => records = Replay(ledger)
  /\ ~up => todo = << >>
  /\ TodoInv(ledger, todo)

\* The inductive invariant holds initially,
LEMMA InitIInv == Init => IInv
<1>1. TodoInv(<< >>, << >>)
  BY TodoNothing
<1>2. Empty \in [Message -> Record]
  BY InboxAssumption DEF Empty, Record
<1>3. QED
  BY <1>1, <1>2, LedgerEmpty, ReplayEmpty, InboxAssumption DEF Init, IInv

\* A command begins with events that may all be appended.
LEMMA BeginStep ==
  ASSUME IInv, Ready, NEW c, TodoInv(ledger, c), Begin(c)
  PROVE  IInv'
<1>1. /\ todo' = c /\ now' = now /\ up' = up /\ ledger' = ledger
      /\ records' = records /\ stops' = stops
  BY DEF Begin
<1>2. QED
  BY <1>1 DEF IInv, Ready

\* send keeps it,
LEMMA SendStep ==
  ASSUME IInv, NEW m \in Message, Send(m)
  PROVE  IInv'
<1> DEFINE e == [type |-> "sent", message |-> m]
<1>1. Ready /\ Begin(<<e>>) /\ records = Replay(ledger) /\ ledger \in Seq(Event)
  BY DEF Send, IInv, Ready, LedgerInv
<1>2. e \in Event /\ e.type = "sent" /\ e.message = m
  BY DEF Event
<1>3. \A n \in Message : Logical(n) = Logical(m) => records[n].status = "unsent"
  BY DEF Send
<1> HIDE DEF e
<1>4. Acceptable(Replay(ledger), e)
  BY <1>1, <1>2, <1>3 DEF Acceptable
<1>5. QED
  BY <1>1, <1>2, <1>4, TodoOne, BeginStep

\* reclaim keeps it,
LEMMA ReclaimStep ==
  ASSUME IInv, NEW m \in Message, Reclaim(m)
  PROVE  IInv'
<1> DEFINE e == [type |-> "reclaimed", message |-> m, claim |-> records[m].claim]
<1>1. /\ Ready /\ Begin(<<e>>) /\ records = Replay(ledger) /\ ledger \in Seq(Event)
      /\ records[m].status = "claimed" /\ records \in [Message -> Record]
      /\ Consistent(records)
  BY DEF Reclaim, IInv, Ready, LedgerInv
<1>2. records[m].claim \in Claim
  BY <1>1 DEF Consistent, Record
<1>3. e \in Event /\ e.type = "reclaimed" /\ e.message = m /\ e.claim = records[m].claim
  BY <1>2 DEF Event
<1> HIDE DEF e
<1>4. Acceptable(Replay(ledger), e)
  BY <1>1, <1>3 DEF Acceptable
<1>5. QED
  BY <1>1, <1>3, <1>4, TodoOne, BeginStep

\* handle keeps it,
LEMMA HandleStep ==
  ASSUME IInv, NEW m \in Message, NEW lane \in Lane, Handle(m, lane)
  PROVE  IInv'
<1> DEFINE e == [type |-> "handled", message |-> m, lane |-> lane]
<1>1. /\ Ready /\ Begin(<<e>>) /\ records = Replay(ledger) /\ ledger \in Seq(Event)
      /\ records[m].status = "claimed" /\ records[m].claim.lane = lane
  BY DEF Handle, HeldBy, IInv, Ready, LedgerInv
<1>2. e \in Event /\ e.type = "handled" /\ e.message = m /\ e.lane = lane
  BY DEF Event
<1> HIDE DEF e
<1>3. Acceptable(Replay(ledger), e)
  BY <1>1, <1>2 DEF Acceptable
<1>4. QED
  BY <1>1, <1>2, <1>3, TodoOne, BeginStep

\* acknowledge keeps it,
LEMMA AcknowledgeStep ==
  ASSUME IInv, NEW m \in Advice, NEW lane \in Lane, NEW disposition \in Disposition,
         Acknowledge(m, lane, disposition)
  PROVE  IInv'
<1> DEFINE answer == [type |-> "acknowledged", message |-> m, disposition |-> disposition]
           receipt == [type |-> "handled", message |-> m, lane |-> lane]
<1>1. /\ Ready /\ records = Replay(ledger) /\ ledger \in Seq(Event)
      /\ records[m].status = "claimed" /\ records[m].claim.lane = lane
      /\ Begin(<<receipt>>) \/ Begin(<<answer, receipt>>)
  BY DEF Acknowledge, HeldBy, IInv, Ready, LedgerInv
<1>2. /\ answer \in Event /\ answer.type = "acknowledged" /\ answer.message = m
      /\ receipt \in Event /\ receipt.type = "handled" /\ receipt.message = m
      /\ receipt.lane = lane
  BY InboxAssumption DEF Event
<1> HIDE DEF answer, receipt
<1>3. Acceptable(Replay(ledger), answer) /\ Acceptable(Replay(ledger), receipt)
  BY <1>1, <1>2 DEF Acceptable
<1>4. TodoInv(ledger, <<answer, receipt>>)
  <2> DEFINE c == <<answer, receipt>>
  <2>1. c \in Seq(Event) /\ DOMAIN c = 1 .. 2 /\ c[1] = answer /\ c[2] = receipt
    BY <1>2
  <2> HIDE DEF c
  <2>2. QED
    BY <1>2, <1>3, <2>1 DEF TodoInv, Compatible
<1>5. TodoInv(ledger, <<receipt>>)
  BY <1>1, <1>2, <1>3, TodoOne
<1>6. QED
  BY <1>1, <1>4, <1>5, BeginStep

\* a claim of several messages keeps it, each of its events being acceptable after those before,
LEMMA ClaimStep ==
  ASSUME IInv, NEW id \in ClaimId, NEW lane \in Lane, ClaimSome(id, lane)
  PROVE  IInv'
<1>1. /\ Ready /\ records = Replay(ledger) /\ ledger \in Seq(Event)
      /\ records \in [Message -> Record] /\ now \in 0 .. MaxTime
      /\ Counted(ledger, records) /\ Consistent(records)
  BY DEF ClaimSome, IInv, Ready, LedgerInv
<1>2. PICK some \in SUBSET {m \in Message : Claimable(m)} :
        /\ Cardinality(some) \in 1 .. ClaimLimit
        /\ Claims + Cardinality(some) <= MaxClaims
        /\ \E order \in SetToSeqs(some) :
             Begin([i \in DOMAIN order |-> ClaimEvent(order[i], id, lane)])
  BY DEF ClaimSome
<1>3. PICK order \in SetToSeqs(some) :
        Begin([i \in DOMAIN order |-> ClaimEvent(order[i], id, lane)])
  BY <1>2
<1> DEFINE size == Cardinality(some)
           c == [i \in DOMAIN order |-> ClaimEvent(order[i], id, lane)]
<1>4. /\ size \in Nat /\ size >= 1
      /\ order \in [1 .. size -> some]
      /\ \A i, j \in 1 .. size : i # j => order[i] # order[j]
  BY <1>2, <1>3, InboxAssumption DEF SetToSeqs
<1>5. Cardinality(ClaimsIn(ledger)) \in Nat /\ Cardinality(ClaimsIn(ledger)) + size <= MaxClaims
  BY <1>1, <1>2, ClaimsFinite DEF Claims, ClaimsIn
<1>6. ASSUME NEW m \in some
      PROVE  /\ ClaimEvent(m, id, lane) \in Event
             /\ ClaimEvent(m, id, lane).type = "claimed"
             /\ ClaimEvent(m, id, lane).message = m
             /\ Acceptable(records, ClaimEvent(m, id, lane))
  <2>1. m \in Message /\ Claimable(m)
    BY <1>2
  <2>2. NextAttempt(m) \in 1 .. MaxClaims
    <3>1. Cardinality(ClaimsOn(ledger, m)) \in Nat
          /\ Cardinality(ClaimsOn(ledger, m)) <= Cardinality(ClaimsIn(ledger))
      BY <1>1, ClaimsFinite
    <3>2. records[m].claim # NoClaim => records[m].claim.attempt = Cardinality(ClaimsOn(ledger, m))
      BY <1>1, <2>1 DEF Counted, Consistent
    <3>3. QED
      BY <1>4, <1>5, <3>1, <3>2, InboxAssumption DEF NextAttempt
  <2> DEFINE claim == [id |-> id, lane |-> lane, at |-> now, attempt |-> NextAttempt(m)]
  <2>3. claim \in Claim /\ claim.at = now
    BY <1>1, <2>2 DEF Claim
  <2>4. ClaimEvent(m, id, lane) = [type |-> "claimed", message |-> m, claim |-> claim]
    BY DEF ClaimEvent
  <2> HIDE DEF claim
  <2>5. /\ ClaimEvent(m, id, lane) \in Event
        /\ ClaimEvent(m, id, lane).type = "claimed"
        /\ ClaimEvent(m, id, lane).message = m
        /\ ClaimEvent(m, id, lane).claim.at = now
    BY <2>1, <2>3, <2>4 DEF Event
  <2>6. QED
    BY <2>1, <2>5 DEF Acceptable, Claimable
<1>7. DOMAIN c = 1 .. size /\ \A i \in 1 .. size : c[i] = ClaimEvent(order[i], id, lane) /\ order[i] \in some
  BY <1>4
<1> HIDE DEF c
<1>8. c \in Seq(Event) /\ Len(c) = size
  <2>1. c = [i \in 1 .. size |-> c[i]]
    BY <1>7 DEF c
  <2>2. \A i \in 1 .. size : c[i] \in Event
    BY <1>6, <1>7
  <2>3. c \in [1 .. size -> Event]
    BY <2>1, <2>2
  <2>4. QED
    BY <1>4, <2>3
<1>9. TodoInv(ledger, c)
  <2>1. \A i \in 1 .. size : Acceptable(Replay(ledger), c[i])
    BY <1>1, <1>6, <1>7
  <2>2. \A i, j \in 1 .. size : i < j => Compatible(c[i], c[j])
    BY <1>4, <1>6, <1>7 DEF Compatible
  <2>3. QED
    BY <1>5, <1>7, <1>8, <2>1, <2>2 DEF TodoInv
<1>10. QED
  BY <1>1, <1>3, <1>9, BeginStep DEF c

\* the append of the next event keeps it,
LEMMA AppendStep ==
  ASSUME IInv, AppendNext
  PROVE  IInv'
<1> DEFINE e == Head(todo)
<1>1. /\ up /\ todo # << >> /\ up' = up /\ now' = now /\ stops' = stops
      /\ records = Replay(ledger) /\ LedgerInv(ledger) /\ TodoInv(ledger, todo)
      /\ ledger \in Seq(Event) /\ records \in [Message -> Record]
  BY DEF AppendNext, IInv, LedgerInv
<1>2. /\ e \in Event
      /\ LedgerInv(Append(ledger, e))
      /\ TodoInv(Append(ledger, e), Tail(todo))
  BY <1>1, TodoStep
<1>3. CASE Earlier(e) = {}
  <2>1. ledger' = Append(ledger, e) /\ records' = Apply(records, e) /\ todo' = Tail(todo)
    BY <1>3 DEF AppendNext
  <2>2. records' = Replay(ledger')
    BY <1>1, <1>2, <2>1, ProjectionsAppend
  <2>3. records' \in [Message -> Record]
    BY <1>2, <2>1, <2>2 DEF LedgerInv
  <2>4. QED
    BY <1>1, <1>2, <2>1, <2>2, <2>3 DEF IInv
<1>4. CASE Earlier(e) # {}
  <2>1. ledger' = ledger /\ records' = records /\ todo' \in {Tail(todo), << >>}
    BY <1>4 DEF AppendNext
  <2>2. TodoInv(ledger, Tail(todo))
    BY <1>1, TodoTail
  <2>3. TodoInv(ledger, << >>)
    BY TodoNothing
  <2>4. QED
    BY <1>1, <2>1, <2>2, <2>3 DEF IInv
<1>5. QED
  BY <1>3, <1>4

\* a process that stops keeps it,
LEMMA StopStep ==
  ASSUME IInv, Stop
  PROVE  IInv'
<1>1. /\ up' = FALSE /\ todo' = << >> /\ now' = now /\ records' = records
      /\ stops' \in 0 .. MaxStops
  BY InboxAssumption DEF Stop, IInv
<1>2. LedgerInv(ledger')
  <2>1. CASE ledger' = ledger
    BY <2>1 DEF IInv
  <2>2. CASE todo # << >> /\ ledger' = Append(ledger, Head(todo))
    BY <2>2, TodoStep DEF IInv
  <2>3. QED
    BY <2>1, <2>2 DEF Stop
<1>3. TodoInv(ledger', << >>)
  BY TodoNothing
<1>4. QED
  BY <1>1, <1>2, <1>3 DEF IInv

\* and one that replays the ledger keeps it:
LEMMA RestartStep ==
  ASSUME IInv, Restart
  PROVE  IInv'
<1>1. /\ up' = TRUE /\ records' = Replay(ledger) /\ now' = now /\ ledger' = ledger
      /\ todo' = todo /\ stops' = stops
  BY DEF Restart
<1>2. Replay(ledger) \in [Message -> Record]
  BY DEF IInv, LedgerInv
<1>3. QED
  BY <1>1, <1>2 DEF IInv

\* every step keeps it.
LEMMA StepIInv == IInv /\ [Next]_vars => IInv'
<1> SUFFICES ASSUME IInv, [Next]_vars PROVE IInv'
  OBVIOUS
<1>1. ASSUME NEW m \in Message, Send(m) PROVE IInv'
  BY <1>1, SendStep
<1>2. ASSUME NEW m \in Message, Reclaim(m) PROVE IInv'
  BY <1>2, ReclaimStep
<1>3. ASSUME NEW id \in ClaimId, NEW lane \in Lane, ClaimSome(id, lane) PROVE IInv'
  BY <1>3, ClaimStep
<1>4. ASSUME NEW m \in Message, NEW lane \in Lane, Handle(m, lane) PROVE IInv'
  BY <1>4, HandleStep
<1>5. ASSUME NEW m \in Advice, NEW lane \in Lane, NEW d \in Disposition, Acknowledge(m, lane, d)
      PROVE  IInv'
  BY <1>5, AcknowledgeStep
<1>6. CASE AppendNext
  BY <1>6, AppendStep
<1>7. CASE Stop
  BY <1>7, StopStep
<1>8. CASE Restart
  BY <1>8, RestartStep
<1>9. CASE Tick
  BY <1>9, InboxAssumption DEF Tick, IInv
<1>10. CASE UNCHANGED vars
  BY <1>10 DEF vars, IInv
<1>11. QED
  BY <1>1, <1>2, <1>3, <1>4, <1>5, <1>6, <1>7, <1>8, <1>9, <1>10 DEF Next

\* The records of the running inbox and what is left of its command always fit a ledger in which
\* every event was acceptable.
THEOREM Invariance == Spec => []IInv
  BY InitIInv, StepIInv, PTL DEF Spec

\* The state and the ledger keep their types: no message is claimed more often
\* than the ledger has claims (TypeOK).
THEOREM Typed == Spec => []TypeOK
<1>1. IInv => TypeOK
  BY DEF IInv, TypeOK, LedgerInv, TodoInv
<1>2. QED
  BY <1>1, Invariance, PTL

\* Whatever was appended, in whatever order and wherever a command broke off,
\* the next process rebuilds the projection (Rehydratable).
THEOREM AlwaysRehydratable == Spec => []Rehydratable
<1>1. IInv => Rehydratable
  BY DEF IInv, Rehydratable, LedgerInv, Accepted
<1>2. QED
  BY <1>1, Invariance, PTL

\* A claimant is told how often the message has been claimed (AttemptCountsClaims).
THEOREM AttemptsAreClaims == Spec => []AttemptCountsClaims
<1>1. IInv => AttemptCountsClaims
  <2> SUFFICES ASSUME IInv, up, NEW m \in Message, records[m].status = "claimed"
               PROVE  records[m].claim.attempt = Cardinality({i \in DOMAIN ledger : ClaimOf(m, i)})
    BY DEF AttemptCountsClaims
  <2>1. Consistent(records) /\ Counted(ledger, records)
    BY DEF IInv, LedgerInv
  <2>2. {i \in DOMAIN ledger : ClaimOf(m, i)} = ClaimsOn(ledger, m)
    BY DEF ClaimOf, ClaimsOn
  <2>3. QED
    BY <2>1, <2>2 DEF Consistent, Counted
<1>2. QED
  BY <1>1, Invariance, PTL

\* Two claims of a message that nobody reclaimed in between are a lease apart
\* (LeaseRespected).
THEOREM LeasesApart == Spec => []LeaseRespected
<1>1. IInv => LeaseRespected
  <2> SUFFICES ASSUME IInv, NEW m \in Message, NEW i \in DOMAIN ledger, NEW j \in DOMAIN ledger,
                      i < j, ClaimOf(m, i), ClaimOf(m, j),
                      \A k \in i .. j : ledger[k].type = "reclaimed" => ledger[k].message # m
               PROVE  ledger[i].claim.at + LeaseTime <= ledger[j].claim.at
    BY DEF LeaseRespected
  <2>1. Leased(ledger)
    BY DEF IInv, LedgerInv
  <2>2. i \in ClaimsOn(ledger, m) /\ j \in ClaimsOn(ledger, m) /\ NotReclaimed(ledger, m, i, j)
    BY DEF ClaimOf, ClaimsOn, NotReclaimed
  <2>3. QED
    BY <2>1, <2>2 DEF Leased
<1>2. QED
  BY <1>1, Invariance, PTL

-------------------------------------------------------------------------------
(* The ledger is a delivery queue *)

\* LastEvent, status and holder of the queue for any ledger.
LatestOn(s, m) == IF On(s, m) = {} THEN [type |-> "none"]
                                   ELSE s[CHOOSE i \in On(s, m) : \A j \in On(s, m) : j <= i]

StatusIn(s, m) == StatusAfter[LatestOn(s, m).type]

HolderIn(s, m) == CASE LatestOn(s, m).type = "claimed" -> LatestOn(s, m).claim.lane
                    [] LatestOn(s, m).type = "handled" -> LatestOn(s, m).lane
                    [] OTHER -> NoClaim

\* The last event on a message is the one at the last place that is about it.
LEMMA LastIs ==
  ASSUME NEW s \in Seq(Event), NEW m
  PROVE  \A i : IsLast(s, m, i) => LatestOn(s, m) = s[i]
<1> SUFFICES ASSUME NEW i, IsLast(s, m, i) PROVE LatestOn(s, m) = s[i]
  OBVIOUS
<1>1. On(s, m) \subseteq Int
  BY AppendFacts DEF On
<1> DEFINE k == CHOOSE k \in On(s, m) : \A j \in On(s, m) : j <= k
<1>2. k \in On(s, m) /\ \A j \in On(s, m) : j <= k
  BY DEF IsLast
<1>3. k = i
  BY <1>1, <1>2 DEF IsLast
<1>4. QED
  BY <1>2, <1>3 DEF LatestOn

\* The status and the holder the projection knows are those of the queue.
LEMMA QueueState ==
  ASSUME NEW s, LedgerInv(s), NEW m \in Message
  PROVE  LET r == Replay(s)
         IN  /\ StatusIn(s, m) = r[m].status
             /\ r[m].status = "claimed" => HolderIn(s, m) = r[m].claim.lane
             /\ r[m].status \in {"unsent", "pending"} => HolderIn(s, m) = NoClaim
<1> DEFINE r == Replay(s)
<1>1. s \in Seq(Event) /\ Reflected(s, r)
  BY DEF LedgerInv
<1>2. CASE On(s, m) = {} /\ r[m].status = "unsent"
  BY <1>2 DEF StatusIn, HolderIn, LatestOn, StatusAfter
<1>3. ASSUME NEW i \in DOMAIN s,
             IsLast(s, m, i),
             r[m].status = StatusAfter[s[i].type],
             s[i].type = "claimed" => s[i].claim.lane = r[m].claim.lane
      PROVE  /\ StatusIn(s, m) = r[m].status
             /\ r[m].status = "claimed" => HolderIn(s, m) = r[m].claim.lane
             /\ r[m].status \in {"unsent", "pending"} => HolderIn(s, m) = NoClaim
  <2>1. LatestOn(s, m) = s[i] /\ s[i] \in Event
    BY <1>1, <1>3, LastIs, AppendFacts
  <2>2. s[i].type \in {"sent", "claimed", "reclaimed", "handled"}
    BY <1>3, <2>1, EventFields DEF IsLast, On
  <2>3. QED
    BY <1>3, <2>1, <2>2 DEF StatusIn, HolderIn, StatusAfter
<1>4. QED
  BY <1>1, <1>2, <1>3 DEF Reflected

\* An answer to advice is nothing to the queue; another event changes what it
\* says of its message.
LEMMA QueueAppend ==
  ASSUME NEW s \in Seq(Event), NEW e \in Event
  PROVE  LET t == Append(s, e)
         IN  /\ \A n : n # e.message \/ e.type = "acknowledged" => LatestOn(t, n) = LatestOn(s, n)
             /\ e.type # "acknowledged" => LatestOn(t, e.message) = e
<1> DEFINE t == Append(s, e)
           last == Len(s) + 1
<1>1. /\ last - 1 \in Nat /\ t \in Seq(Event) /\ t[last] = e
      /\ DOMAIN s = 1 .. last - 1 /\ DOMAIN t = 1 .. last
      /\ \A i \in DOMAIN s : t[i] = s[i]
  BY AppendFacts
<1>2. ASSUME NEW n, n # e.message \/ e.type = "acknowledged"
      PROVE  LatestOn(t, n) = LatestOn(s, n)
  <2>1. On(t, n) = On(s, n)
    BY <1>1, <1>2 DEF On
  <2>2. CASE On(s, n) = {}
    BY <2>1, <2>2 DEF LatestOn
  <2>3. CASE On(s, n) # {}
    <3> DEFINE k == CHOOSE k \in On(s, n) : \A j \in On(s, n) : j <= k
    <3>1. \E k1 \in On(s, n) : \A j \in On(s, n) : j <= k1
      <4>1. On(s, n) \in SUBSET (1 .. last - 1)
        BY <1>1 DEF On
      <4>2. QED
        BY <1>1, <2>3, <4>1, Greatest
    <3>2. k \in On(s, n)
      BY <3>1
    <3>3. t[k] = s[k]
      BY <1>1, <3>2 DEF On
    <3>4. QED
      BY <2>1, <2>3, <3>3 DEF LatestOn
  <2>4. QED
    BY <2>2, <2>3
<1>3. ASSUME e.type # "acknowledged"
      PROVE  LatestOn(t, e.message) = e
  <2>1. IsLast(t, e.message, last)
    BY <1>1, <1>3 DEF IsLast, On
  <2>2. QED
    BY <1>1, <2>1, LastIs
<1>4. QED
  BY <1>2, <1>3

QueueStatus(s) == [m \in Message |-> StatusIn(s, m)]
QueueHolder(s) == [m \in Message |-> HolderIn(s, m)]

\* The mapping of the refinement, as the proof writes it, is a function of the ledger,
LEMMA QueueMapping ==
  /\ [m \in Message |-> StatusAfter[LastEvent(m).type]] = QueueStatus(ledger)
  /\ [m \in Message |-> CASE LastEvent(m).type = "claimed" -> LastEvent(m).claim.lane
                           [] LastEvent(m).type = "handled" -> LastEvent(m).lane
                           [] OTHER -> NoClaim] = QueueHolder(ledger)
<1>1. \A m : LastEvent(m) = LatestOn(ledger, m)
  BY Zenon DEF LastEvent, LatestOn, On
<1>2. QED
  BY <1>1 DEF QueueStatus, QueueHolder, StatusIn, HolderIn

\* after a step too.
LEMMA QueueMappingNext ==
  /\ [m \in Message |-> StatusAfter[LastEvent(m).type]]' = QueueStatus(ledger')
  /\ [m \in Message |-> CASE LastEvent(m).type = "claimed" -> LastEvent(m).claim.lane
                           [] LastEvent(m).type = "handled" -> LastEvent(m).lane
                           [] OTHER -> NoClaim]' = QueueHolder(ledger')
<1>1. \A m : LastEvent(m)' = LatestOn(ledger', m)
  BY Zenon DEF LastEvent, LatestOn, On
<1>2. QED
  BY <1>1 DEF QueueStatus, QueueHolder, StatusIn, HolderIn

\* What a step of the ledger is to the queue.
LEMMA QueueStep ==
  ASSUME NEW s, LedgerInv(s), NEW e \in Event, Acceptable(Replay(s), e)
  PROVE  LET t == Append(s, e)
             m == e.message
             status == QueueStatus(s)
             holder == QueueHolder(s)
         IN  \/ /\ e.type = "sent"
                /\ \A n \in Message : Logical(n) = Logical(m) => status[n] = "unsent"
                /\ QueueStatus(t) = [status EXCEPT ![m] = "pending"]
                /\ QueueHolder(t) = holder
             \/ /\ e.type = "claimed"
                /\ status[m] \in {"pending", "claimed"}
                /\ QueueStatus(t) = [status EXCEPT ![m] = "claimed"]
                /\ QueueHolder(t) = [holder EXCEPT ![m] = e.claim.lane]
             \/ /\ e.type = "reclaimed"
                /\ status[m] = "claimed"
                /\ QueueStatus(t) = [status EXCEPT ![m] = "pending"]
                /\ QueueHolder(t) = [holder EXCEPT ![m] = NoClaim]
             \/ /\ e.type = "handled"
                /\ status[m] = "claimed"
                /\ holder[m] = e.lane
                /\ QueueStatus(t) = [status EXCEPT ![m] = "handled"]
                /\ QueueHolder(t) = holder
             \/ QueueStatus(t) = status /\ QueueHolder(t) = holder
<1> DEFINE t == Append(s, e)
           m == e.message
           r == Replay(s)
<1>1. s \in Seq(Event) /\ m \in Message
  BY EventFields DEF LedgerInv
<1>2. /\ \A n : n # m \/ e.type = "acknowledged" => LatestOn(t, n) = LatestOn(s, n)
      /\ e.type # "acknowledged" => LatestOn(t, m) = e
  BY <1>1, QueueAppend
<1>3. \A n \in Message :
        /\ QueueStatus(s)[n] = StatusIn(s, n) /\ QueueStatus(t)[n] = StatusIn(t, n)
        /\ QueueHolder(s)[n] = HolderIn(s, n) /\ QueueHolder(t)[n] = HolderIn(t, n)
  BY DEF QueueStatus, QueueHolder
<1>4. \A n \in Message : n # m \/ e.type = "acknowledged" =>
        StatusIn(t, n) = StatusIn(s, n) /\ HolderIn(t, n) = HolderIn(s, n)
  BY <1>2 DEF StatusIn, HolderIn
<1>5. \A n \in Message :
        /\ StatusIn(s, n) = r[n].status
        /\ r[n].status = "claimed" => HolderIn(s, n) = r[n].claim.lane
        /\ r[n].status \in {"unsent", "pending"} => HolderIn(s, n) = NoClaim
  BY QueueState
<1>6. e.type # "acknowledged" =>
        /\ StatusIn(t, m) = StatusAfter[e.type]
        /\ HolderIn(t, m) = CASE e.type = "claimed" -> e.claim.lane
                               [] e.type = "handled" -> e.lane
                               [] OTHER -> NoClaim
  BY <1>2 DEF StatusIn, HolderIn
<1>7. CASE e.type = "sent"
  <2>1. /\ \A n \in Message : Logical(n) = Logical(m) => r[n].status = "unsent"
        /\ r[m].status = "unsent"
    BY <1>1, <1>7 DEF Acceptable
  <2>2. StatusIn(t, m) = "pending" /\ HolderIn(t, m) = HolderIn(s, m)
    BY <1>1, <1>5, <1>6, <1>7, <2>1 DEF StatusAfter
  <2>3. QueueStatus(t) = [QueueStatus(s) EXCEPT ![m] = "pending"]
    BY <1>1, <1>4, <2>2 DEF QueueStatus
  <2>4. QueueHolder(t) = QueueHolder(s)
    BY <1>1, <1>4, <2>2 DEF QueueHolder
  <2>5. QED
    BY <1>3, <1>5, <1>7, <2>1, <2>3, <2>4
<1>8. CASE e.type = "claimed"
  <2>1. r[m].status \in {"pending", "claimed"}
    BY <1>8 DEF Acceptable
  <2>2. StatusIn(t, m) = "claimed" /\ HolderIn(t, m) = e.claim.lane
    BY <1>6, <1>8 DEF StatusAfter
  <2>3. QueueStatus(t) = [QueueStatus(s) EXCEPT ![m] = "claimed"]
    BY <1>1, <1>4, <2>2 DEF QueueStatus
  <2>4. QueueHolder(t) = [QueueHolder(s) EXCEPT ![m] = e.claim.lane]
    BY <1>1, <1>4, <2>2 DEF QueueHolder
  <2>5. QED
    BY <1>1, <1>3, <1>5, <1>8, <2>1, <2>3, <2>4
<1>9. CASE e.type = "reclaimed"
  <2>1. r[m].status = "claimed"
    BY <1>9 DEF Acceptable
  <2>2. StatusIn(t, m) = "pending" /\ HolderIn(t, m) = NoClaim
    BY <1>6, <1>9 DEF StatusAfter
  <2>3. QueueStatus(t) = [QueueStatus(s) EXCEPT ![m] = "pending"]
    BY <1>1, <1>4, <2>2 DEF QueueStatus
  <2>4. QueueHolder(t) = [QueueHolder(s) EXCEPT ![m] = NoClaim]
    BY <1>1, <1>4, <2>2 DEF QueueHolder
  <2>5. QED
    BY <1>1, <1>3, <1>5, <1>9, <2>1, <2>3, <2>4
<1>10. CASE e.type = "handled"
  <2>1. r[m].status = "claimed" /\ r[m].claim.lane = e.lane
    BY <1>10 DEF Acceptable
  <2>2. StatusIn(t, m) = "handled" /\ HolderIn(t, m) = e.lane /\ HolderIn(s, m) = e.lane
    BY <1>1, <1>5, <1>6, <1>10, <2>1 DEF StatusAfter
  <2>3. QueueStatus(t) = [QueueStatus(s) EXCEPT ![m] = "handled"]
    BY <1>1, <1>4, <2>2 DEF QueueStatus
  <2>4. QueueHolder(t) = QueueHolder(s)
    BY <1>1, <1>4, <2>2 DEF QueueHolder
  <2>5. QED
    BY <1>1, <1>3, <1>5, <1>10, <2>1, <2>2, <2>3, <2>4
<1>11. CASE e.type = "acknowledged"
  <2>1. QueueStatus(t) = QueueStatus(s) /\ QueueHolder(t) = QueueHolder(s)
    BY <1>4, <1>11 DEF QueueStatus, QueueHolder
  <2>2. QED
    BY <2>1
<1>12. QED
  BY <1>7, <1>8, <1>9, <1>10, <1>11, EventFields

\* A step appends nothing, or one event the ledger accepts.
LEMMA LedgerGrows ==
  ASSUME IInv, [Next]_vars
  PROVE  \/ ledger' = ledger
         \/ \E e \in Event : Acceptable(Replay(ledger), e) /\ ledger' = Append(ledger, e)
<1>1. CASE todo # << >> /\ ledger' = Append(ledger, Head(todo))
  BY <1>1, TodoStep DEF IInv
<1>2. CASE AppendNext
  BY <1>1, <1>2 DEF AppendNext
<1>3. CASE Stop
  BY <1>1, <1>3 DEF Stop
<1>4. ASSUME NEW m \in Message, NEW lane \in Lane, Handle(m, lane) PROVE ledger' = ledger
  BY <1>4 DEF Handle, Begin
<1>5. ASSUME NEW m \in Message, Send(m) \/ Reclaim(m) PROVE ledger' = ledger
  BY <1>5 DEF Send, Reclaim, Begin
<1>6. ASSUME NEW id \in ClaimId, NEW lane \in Lane, ClaimSome(id, lane) PROVE ledger' = ledger
  BY <1>6 DEF ClaimSome, Begin
<1>7. ASSUME NEW m \in Advice, NEW lane \in Lane, NEW d \in Disposition, Acknowledge(m, lane, d)
      PROVE  ledger' = ledger
  BY <1>7 DEF Acknowledge, Begin
<1>8. CASE Restart \/ Tick \/ UNCHANGED vars
  BY <1>8 DEF Restart, Tick, vars
<1>9. QED
  BY <1>2, <1>3, <1>4, <1>5, <1>6, <1>7, <1>8 DEF Next

\* The events of the ledger are steps of a delivery queue
\* (ImplementsDeliveryQueue): a message is accepted once, only the lane of its
\* last claim handles it, and it stays handled.
THEOREM RefinesDeliveryQueue == Spec => ImplementsDeliveryQueue
<1>1. Init => Queue!Init
  <2> SUFFICES ASSUME Init PROVE Queue!Init
    OBVIOUS
  <2>1. ledger = << >>
    BY DEF Init
  <2>2. \A m : On(ledger, m) = {}
    BY <2>1 DEF On
  <2>3. /\ QueueStatus(ledger) = [m \in Message |-> "unsent"]
        /\ QueueHolder(ledger) = [m \in Message |-> NoClaim]
    BY <2>2 DEF QueueStatus, QueueHolder, StatusIn, HolderIn, LatestOn, StatusAfter
  <2>4. QED
    BY <2>3, QueueMapping DEF Queue!Init
<1>2. IInv /\ [Next]_vars => [Queue!Next]_(Queue!vars)
  <2> SUFFICES ASSUME IInv, [Next]_vars PROVE [Queue!Next]_(Queue!vars)
    OBVIOUS
  <2> DEFINE status == [m \in Message |-> StatusAfter[LastEvent(m).type]]
             holder == [m \in Message |-> CASE LastEvent(m).type = "claimed" -> LastEvent(m).claim.lane
                                             [] LastEvent(m).type = "handled" -> LastEvent(m).lane
                                             [] OTHER -> NoClaim]
  <2>1. /\ status = QueueStatus(ledger) /\ holder = QueueHolder(ledger)
        /\ status' = QueueStatus(ledger') /\ holder' = QueueHolder(ledger')
    BY QueueMapping, QueueMappingNext
  <2>2. CASE ledger' = ledger
    BY <2>1, <2>2 DEF Queue!vars
  <2>3. ASSUME NEW e \in Event, Acceptable(Replay(ledger), e), ledger' = Append(ledger, e)
        PROVE  [Queue!Next]_(Queue!vars)
    <3> DEFINE m == e.message
    <3>1. LedgerInv(ledger)
      BY DEF IInv
    <3> HIDE DEF status, holder
    <3>2. \/ /\ e.type = "sent"
             /\ \A n \in Message : Logical(n) = Logical(m) => status[n] = "unsent"
             /\ status' = [status EXCEPT ![m] = "pending"]
             /\ holder' = holder
          \/ /\ e.type = "claimed"
             /\ status[m] \in {"pending", "claimed"}
             /\ status' = [status EXCEPT ![m] = "claimed"]
             /\ holder' = [holder EXCEPT ![m] = e.claim.lane]
          \/ /\ e.type = "reclaimed"
             /\ status[m] = "claimed"
             /\ status' = [status EXCEPT ![m] = "pending"]
             /\ holder' = [holder EXCEPT ![m] = NoClaim]
          \/ /\ e.type = "handled"
             /\ status[m] = "claimed"
             /\ holder[m] = e.lane
             /\ status' = [status EXCEPT ![m] = "handled"]
             /\ holder' = holder
          \/ status' = status /\ holder' = holder
      <4>1. LET t == Append(ledger, e)
            IN  /\ status' = QueueStatus(t)
                /\ holder' = QueueHolder(t)
        BY <2>1, <2>3
      <4>2. QED
        BY <2>1, <2>3, <3>1, <4>1, QueueStep
    <3>3. /\ Queue!Accept(m) <=> /\ \A n \in Message : Logical(n) = Logical(m) => status[n] = "unsent"
                                 /\ status' = [status EXCEPT ![m] = "pending"]
                                 /\ holder' = holder
          /\ Queue!Return(m) <=> /\ status[m] = "claimed"
                                 /\ status' = [status EXCEPT ![m] = "pending"]
                                 /\ holder' = [holder EXCEPT ![m] = NoClaim]
      BY Zenon DEF Queue!Accept, Queue!Return, status, holder
    <3>4. \A lane :
            /\ Queue!Take(m, lane) <=> /\ status[m] \in {"pending", "claimed"}
                                       /\ status' = [status EXCEPT ![m] = "claimed"]
                                       /\ holder' = [holder EXCEPT ![m] = lane]
            /\ Queue!Finish(m, lane) <=> /\ status[m] = "claimed"
                                         /\ holder[m] = lane
                                         /\ status' = [status EXCEPT ![m] = "handled"]
                                         /\ holder' = holder
      BY Zenon DEF Queue!Take, Queue!Finish, status, holder
    <3>5. (UNCHANGED Queue!vars) <=> (status' = status /\ holder' = holder)
      BY Zenon DEF Queue!vars, status, holder
    <3>6. m \in Message
      BY EventFields
    <3>7. e.type = "claimed" => e.claim.lane \in Lane
      BY EventFields DEF Claim
    <3>8. e.type = "handled" => e.lane \in Lane
      BY EventFields
    <3>9. QED
      BY <3>2, <3>6, <3>7, <3>8, <3>3, <3>4, <3>5 DEF Queue!Next
  <2>4. QED
    BY <2>2, <2>3, LedgerGrows
<1>3. QED
  BY <1>1, <1>2, Invariance, PTL DEF Spec, ImplementsDeliveryQueue, Queue!Spec

===============================================================================
