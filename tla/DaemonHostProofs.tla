--------------------------- MODULE DaemonHostProofs ---------------------------
(***************************************************************************)
(* Proofs about DaemonHost for all sets of Runs and wakes and any number   *)
(* of places: no admitted wake is lost, the host comes back to every Run   *)
(* with wakes, stop is a barrier, and nothing is committed after a lease   *)
(* was reported lost.                                                      *)
(*                                                                         *)
(* The argument: as long as activations of a Run do not overlap, the       *)
(* activation that is registered is the one that is not settled, and it    *)
(* refers to the Run's entry in `pending`; so wakes only move between the  *)
(* entry, the activation and the parked ones, and stop() waits for every   *)
(* activation there is. The host comes back because what frees a place     *)
(* schedules a pass over the queue, and what leaves a Run held sets its    *)
(* timer, has an activation still to settle, or is a failure.              *)
(***************************************************************************)
EXTENDS DaemonHost, SequenceTheorems, FiniteSetTheorems, TLAPS

\* The registered activation of a Run is the one that is not settled, and its entry
\* is the one in `pending`.
RegisteredInv ==
  /\ \A a \in Activation : Unsettled(a) => running[RunIn(a)] = a /\ InPending(a)
  /\ \A r \in Run : running[r] # None => RunIn(running[r]) = r /\ Unsettled(running[r])

\* stop() waits for every activation, and no admission begins after it.
StoppingInv ==
  /\ lifecycle = "stopping" => \A a \in Activation : Unsettled(a) => a \in awaited
  /\ lifecycle = "stopped" => admitting = {} /\ \A a \in Activation : ~Unsettled(a)

\* Where an admitted wake is.
Kept(w) ==
  LET r == RunOf[w] IN
  \/ w \in wakes[r] /\ entry[r] # "absent"
  \/ w \in parked[r] /\ lifecycle # "running"
  \/ ActiveHas(w) /\ pc[running[r]] \notin {"settled", "releasing"}

\* What holds while no activations of a Run have overlapped.
Serial == RegisteredInv /\ StoppingInv /\ \A w \in accepted : Kept(w)

\* A lease that is reported lost lends no authority.
AuthorityInv == \A a \in Activation : retired[a] => ~authority[a]

\* A Run with wakes has an entry, a stopped host has none, and the entry of a Run is
\* "running" as long as its activation has not ended.
EntryInv ==
  /\ \A r \in Run : wakes[r] # {} => entry[r] # "absent"
  /\ lifecycle = "stopped" => \A r \in Run : entry[r] = "absent"
  /\ \A r \in Run : entry[r] = "running" => running[r] # None
  /\ \A a \in Activation : Unsettled(a) /\ pc[a] # "releasing" => entry[RunIn(a)] = "running"

\* In a host that runs only the loss of its lease cancels an activation, and one that
\* ends with its wakes back, its lease not lost, has failed.
RetiredInv ==
  /\ \A a \in Activation : aborted[a] /\ (lifecycle = "running" \/ ~Unsettled(a)) => retired[a]
  /\ lifecycle = "running" =>
       \A a \in Activation : pc[a] = "releasing" /\ entry[RunIn(a)] = "held" /\ ~retired[a] =>
         ended[RunIn(a)] = "failed"

\* The places that are taken.
Full == Cardinality({r \in Run : running[r] # None}) >= MaxConcurrentActivations

\* A Run that is queued is in the queue, and a pass over it is due when there is a place.
QueueInv ==
  lifecycle = "running" =>
    \A r \in Run : entry[r] = "queued" /\ wakes[r] # {} => Queued(ready, r) /\ (pumping \/ Full)

\* A Run that is held has an activation, or a timer, or failed.
HeldInv ==
  lifecycle = "running" =>
    \A r \in Run : entry[r] = "held" /\ wakes[r] # {} =>
      running[r] # None \/ timer[r] = "entry" \/ ended[r] \in {"failed", "refused"}

\* The host comes back to every Run.
ComingBack == EntryInv /\ RetiredInv /\ QueueInv /\ HeldInv

\* The inductive invariant.
IInv == TypeOK /\ AuthorityInv /\ (overlapped \/ (Serial /\ ComingBack))

\* An activation is a Run and a number.
LEMMA ActivationOfRun ==
  /\ \A a \in Activation : RunIn(a) \in Run
  /\ \A r \in Run : \A a \in {r} \X (1 .. MaxUnsettled) : a \in Activation /\ RunIn(a) = r
  BY DEF Activation, RunIn

\* The number a started Run is given is one of its own, and free.
LEMMA FreshIsFree ==
  ASSUME NEW r \in Run, Bounded(r)
  PROVE  Fresh(r) \in Activation /\ RunIn(Fresh(r)) = r /\ ~Unsettled(Fresh(r))
<1>1. Fresh(r) \in {r} \X (1 .. MaxUnsettled) /\ ~Unsettled(Fresh(r))
  BY DEF Bounded, Fresh
<1>2. QED
  BY <1>1, ActivationOfRun

-------------------------------------------------------------------------------
(* Types *)

\* The queue stays a sequence of Runs.
LEMMA WithReadyType ==
  ASSUME ready \in Seq(Run), NEW r \in Run
  PROVE  WithReady(r) \in Seq(Run)
  BY DEF WithReady

\* The wakes of an activation go back to variables of the same types.
LEMMA PutBackType ==
  ASSUME TypeOK, NEW a \in Activation, NEW s \in {"queued", "held"}, PutBack(a, s)
  PROVE  /\ wakes' \in [Run -> SUBSET Wake]
         /\ entry' \in [Run -> {"absent", "queued", "running", "held"}]
         /\ parked' \in [Run -> SUBSET Wake]
  BY ActivationOfRun DEF TypeOK, PutBack

\* So does everything else of an activation that settles.
LEMMA ForgetType ==
  ASSUME TypeOK, NEW a \in Activation, Forget(a)
  PROVE  /\ pc' \in [Activation -> {"settled", "claiming", "verifying", "asserting",
                                    "active", "releasing"}]
         /\ batch' \in [Activation -> SUBSET Wake]
         /\ aborted' \in [Activation -> BOOLEAN]
         /\ authority' \in [Activation -> BOOLEAN]
         /\ retired' \in [Activation -> BOOLEAN]
         /\ running' \in [Run -> Activation \cup {None}]
         /\ awaited' \subseteq Activation
         /\ pumping' \in BOOLEAN
         /\ UNCHANGED <<lifecycle, admitting, committing, accepted, overlapped>>
  BY ActivationOfRun DEF TypeOK, Forget, SchedulePump

\* An entry without its activation is held or queued.
LEMMA CancelledStateType == CancelledState \in {"queued", "held"}
  BY DEF CancelledState

\* A claim that is not granted keeps the types, but for the lease.
LEMMA NotAcquiredType ==
  ASSUME TypeOK, NEW a \in Activation, NEW how \in {"held", "refused", "failed"},
         NotAcquired(a, how), lease' \in [Run -> Activation \cup {Other, None}]
  PROVE  TypeOK'
<1>1. /\ PutBack(a, CancelledState) /\ Forget(a)
      /\ timer' \in [Run -> {"none", "entry", "dropped"}]
      /\ ended' \in [Run -> {"never", "completed", "cancelled", "failed", "lost", "refused", "held"}]
      /\ attached' \in [Activation -> BOOLEAN]
      /\ ready' = ready
  BY ActivationOfRun DEF NotAcquired, TypeOK
<1>2. QED
  BY <1>1, PutBackType, ForgetType, CancelledStateType DEF TypeOK

\* The end of an activation keeps the types, but for its signal and authority.
LEMMA EndByType ==
  ASSUME TypeOK, NEW a \in Activation, NEW s \in {"queued", "held"},
         NEW how \in {"cancelled", "failed", "lost"}, EndBy(a, s, how),
         aborted' \in [Activation -> BOOLEAN], authority' \in [Activation -> BOOLEAN],
         retired' \in [Activation -> BOOLEAN]
  PROVE  TypeOK'
<1>1. /\ PutBack(a, s)
      /\ pc' \in [Activation -> {"settled", "claiming", "verifying", "asserting",
                                 "active", "releasing"}]
      /\ ended' \in [Run -> {"never", "completed", "cancelled", "failed", "lost", "refused", "held"}]
      /\ UNCHANGED <<host, ready, pumping, running, timer, batch, attached, committing,
                     lease, accepted, overlapped>>
  BY ActivationOfRun DEF EndBy, TypeOK
<1>2. QED
  BY <1>1, PutBackType DEF TypeOK, host

\* A pass over the queue starts activations of Runs.
LEMMA PumpType ==
  ASSUME TypeOK, Pump
  PROVE  TypeOK'
<1>1. CASE lifecycle = "running"
  <2>1. PICK k \in 0 .. Len(ready) :
          ready' = SubSeq(ready, k + 1, Len(ready)) /\ Launch(StartedBy(k))
    BY <1>1 DEF Pump
  <2>2. ready' \in Seq(Run)
    BY <2>1, SubSeqProperties DEF TypeOK
  <2> DEFINE started == StartedBy(k)
  <2>3. \A r \in started : Bounded(r)
    BY <2>1 DEF Launch
  <2>4. running' \in [Run -> Activation \cup {None}]
    BY <2>1, <2>3, FreshIsFree DEF Launch, TypeOK
  <2>5. /\ entry' \in [Run -> {"absent", "queued", "running", "held"}]
        /\ wakes' \in [Run -> SUBSET Wake]
        /\ timer' \in [Run -> {"none", "entry", "dropped"}]
    BY <2>1 DEF Launch, TypeOK
  <2>6. /\ pc' \in [Activation -> {"settled", "claiming", "verifying", "asserting",
                                   "active", "releasing"}]
        /\ batch' \in [Activation -> SUBSET Wake]
    BY <2>1, ActivationOfRun DEF Launch, TypeOK
  <2>7. attached' \in [Activation -> BOOLEAN] /\ overlapped' \in BOOLEAN
    BY <2>1 DEF Launch, TypeOK
  <2>8. QED
    BY <2>2, <2>4, <2>5, <2>6, <2>7 DEF Pump, TypeOK, host
<1>2. CASE lifecycle # "running"
  BY <1>2 DEF Pump, TypeOK, host
<1>3. QED
  BY <1>1, <1>2

\* The host's variables have their types at the start.
LEMMA InitType == Init => TypeOK
<1> SUFFICES ASSUME Init PROVE TypeOK
  OBVIOUS
<1>1. ready \in Seq(Run)
  BY EmptySeq DEF Init
<1>2. QED
  BY <1>1 DEF Init, TypeOK

\* A wake keeps the types: its admission, its place in the queue, its retry.
LEMMA WakeType ==
  ASSUME TypeOK, NEW w \in Wake, EnqueueWake(w) \/ ParkWake(w)
  PROVE  /\ entry' \in [Run -> {"absent", "queued", "running", "held"}]
         /\ wakes' \in [Run -> SUBSET Wake]
         /\ parked' \in [Run -> SUBSET Wake]
         /\ ready' \in Seq(Run)
         /\ pumping' \in BOOLEAN
         /\ timer' \in [Run -> {"none", "entry", "dropped"}]
         /\ running' = running
<1>1. RunOf[w] \in Run
  BY DaemonAssumption
<1>2. CASE EnqueueWake(w)
  <2>1. wakes' \in [Run -> SUBSET Wake] /\ pumping' \in BOOLEAN /\ UNCHANGED <<parked, running>>
    BY <1>1, <1>2 DEF EnqueueWake, SchedulePump, TypeOK
  <2>2. CASE entry[RunOf[w]] = "running"
    BY <1>2, <2>1, <2>2 DEF EnqueueWake, TypeOK
  <2>3. CASE entry[RunOf[w]] # "running"
    <3>1. ready' \in Seq(Run)
      BY <1>1, <1>2, <2>3, WithReadyType DEF EnqueueWake, TypeOK
    <3>2. /\ entry' \in [Run -> {"absent", "queued", "running", "held"}]
          /\ timer' \in [Run -> {"none", "entry", "dropped"}]
      BY <1>2, <2>3 DEF EnqueueWake, TypeOK
    <3>3. QED
      BY <2>1, <3>1, <3>2 DEF TypeOK
  <2>4. QED
    BY <2>2, <2>3
<1>3. CASE ParkWake(w)
  BY <1>1, <1>3 DEF ParkWake, TypeOK
<1>4. QED
  BY <1>2, <1>3

\* A function on an interval from 1 is a sequence.
LEMMA FunctionIsSeq ==
  ASSUME NEW S, NEW n \in Nat, NEW f \in [1 .. n -> S]
  PROVE  f \in Seq(S)
  OBVIOUS

\* Parked Runs come back to a queue of Runs.
LEMMA StartType ==
  ASSUME TypeOK, Start
  PROVE  TypeOK'
<1> DEFINE back == {r \in Run : parked[r] # {}}
<1>1. PICK order \in [1 .. Cardinality(back) -> back] : ready' = ready \o order
  BY DEF Start
<1>2. IsFiniteSet(back)
  BY DaemonAssumption, FS_Subset
<1>3. order \in Seq(Run)
  <2>1. Cardinality(back) \in Nat
    BY <1>2, FS_CardinalityType
  <2>2. order \in [1 .. Cardinality(back) -> Run]
    OBVIOUS
  <2>3. QED
    BY <2>1, <2>2, FunctionIsSeq
<1>4. ready' \in Seq(Run)
  BY <1>1, <1>3, ConcatProperties DEF TypeOK
<1>5. QED
  BY <1>4 DEF Start, TypeOK, activations, history

\* Every action keeps the types.
LEMMA NextType == TypeOK /\ [Next]_vars => TypeOK'
<1> SUFFICES ASSUME TypeOK, [Next]_vars PROVE TypeOK'
  OBVIOUS
<1> USE DEF host, queue, activations, history
<1>1. CASE Start
  BY <1>1, StartType
<1>2. CASE Stop
  BY <1>2 DEF Stop, TypeOK
<1>3. CASE FinishStop
  BY <1>3, EmptySeq DEF FinishStop, TypeOK
<1>4. CASE Pump
  BY <1>4, PumpType
<1>5. ASSUME NEW w \in Wake, WakeUp(w) PROVE TypeOK'
  BY <1>5 DEF WakeUp, TypeOK
<1>6. ASSUME NEW w \in Wake, NotQueued(w) PROVE TypeOK'
  BY <1>6 DEF NotQueued, TypeOK
<1>7. ASSUME NEW w \in Wake, Admitted(w) PROVE TypeOK'
  <2>1. EnqueueWake(w) \/ ParkWake(w)
    BY <1>7 DEF Admitted
  <2>2. /\ admitting' \subseteq Wake /\ accepted' \subseteq Wake
        /\ UNCHANGED <<lifecycle, awaited, activations, lease, overlapped, ended>>
    BY <1>7 DEF Admitted, TypeOK
  <2>3. QED
    BY <2>1, <2>2, WakeType DEF TypeOK
<1>8. ASSUME NEW w \in Wake, RestorePending(w) PROVE TypeOK'
  <2>1. /\ accepted' \subseteq Wake
        /\ UNCHANGED <<host, activations, lease, overlapped, ended>>
    BY <1>8 DEF RestorePending, TypeOK
  <2>2. CASE w \in wakes[RunOf[w]] \/ ActiveHas(w)
    BY <1>8, <2>1, <2>2 DEF RestorePending, TypeOK
  <2>3. CASE EnqueueWake(w)
    <3>1. parked' = parked
      BY <2>3 DEF EnqueueWake
    <3>2. QED
      BY <2>1, <2>3, <3>1, WakeType DEF TypeOK
  <2>4. QED
    BY <1>8, <2>2, <2>3 DEF RestorePending
<1>9. ASSUME NEW r \in Run, RetryFires(r) PROVE TypeOK'
  BY <1>9, WithReadyType DEF RetryFires, SchedulePump, TypeOK
<1>10. ASSUME NEW r \in Run, OtherClaims(r) \/ OtherEnds(r) PROVE TypeOK'
  BY <1>10 DEF OtherClaims, OtherEnds, TypeOK
<1>11. ASSUME NEW a \in Activation, Expires(a) PROVE TypeOK'
  BY <1>11 DEF Expires, TypeOK
<1>12. ASSUME NEW a \in Activation, ActivationStep(a) PROVE TypeOK'
  <2>1. CASE ClaimAcquired(a)
    BY <2>1, ActivationOfRun DEF ClaimAcquired, TypeOK
  <2>2. CASE ClaimHeld(a)
    BY <2>2, NotAcquiredType DEF ClaimHeld, TypeOK
  <2>3. CASE ClaimRefused(a)
    BY <2>3, NotAcquiredType DEF ClaimRefused, TypeOK
  <2>4. CASE ClaimThrows(a)
    <3>1. NotAcquired(a, "failed") /\ lease' \in [Run -> Activation \cup {Other, None}]
      BY <2>4 DEF ClaimThrows, TypeOK
    <3>2. QED
      BY <3>1, NotAcquiredType
  <2>5. CASE Verified(a)
    <3>1. CASE EndBy(a, CancelledState, "cancelled") /\ UNCHANGED <<aborted, authority, retired>>
      BY <3>1, EndByType, CancelledStateType DEF TypeOK
    <3>2. CASE /\ pc' = [pc EXCEPT ![a] = "asserting"]
               /\ UNCHANGED <<host, queue, batch, attached, aborted, authority, retired,
                              committing, lease, history>>
      BY <3>2 DEF TypeOK
    <3>3. QED
      BY <2>5, <3>1, <3>2 DEF Verified
  <2>6. CASE NotVerified(a)
    <3>1. /\ EndBy(a, "held", "lost")
          /\ aborted' \in [Activation -> BOOLEAN] /\ authority' \in [Activation -> BOOLEAN]
          /\ retired' \in [Activation -> BOOLEAN]
      BY <2>6 DEF NotVerified, RecordLeaseFailure, TypeOK
    <3>2. QED
      BY <3>1, EndByType
  <2>7. CASE RenewalLost(a)
    BY <2>7 DEF RenewalLost, RecordLeaseFailure, TypeOK
  <2>8. CASE Activate(a)
    BY <2>8 DEF Activate, TypeOK
  <2>9. CASE NotAsserted(a)
    <3>1. /\ EndBy(a, "held", "lost")
          /\ aborted' \in [Activation -> BOOLEAN] /\ authority' \in [Activation -> BOOLEAN]
          /\ retired' \in [Activation -> BOOLEAN]
      BY <2>9 DEF NotAsserted, RecordLeaseFailure, TypeOK
    <3>2. QED
      BY <3>1, EndByType
  <2>10. CASE BeginCommit(a) \/ Committed(a)
    BY <2>10 DEF BeginCommit, Committed, TypeOK
  <2>11. CASE NotCommitted(a)
    BY <2>11 DEF NotCommitted, RecordLeaseFailure, TypeOK
  <2>12. CASE Returns(a)
    <3>1. CASE EndBy(a, CancelledState, "cancelled") /\ UNCHANGED <<aborted, authority, retired>>
      BY <3>1, EndByType, CancelledStateType DEF TypeOK
    <3>2. CASE lifecycle = "running" /\ ~aborted[a]
      BY <2>12, <3>2, ActivationOfRun DEF Returns, TypeOK
    <3>3. QED
      BY <2>12, <3>1, <3>2 DEF Returns, TypeOK
  <2>13. CASE Throws(a)
    <3>1. PICK how \in {"lost", "failed"} : EndBy(a, "held", how)
      BY <2>13 DEF Throws
    <3>2. QED
      BY <2>13, <3>1, EndByType DEF Throws, TypeOK
  <2>14. CASE Settle(a)
    <3>1. Forget(a) /\ UNCHANGED <<wakes, parked, ended>>
      BY <2>14 DEF Settle
    <3>6. lease' \in [Run -> Activation \cup {Other, None}]
      BY <2>14, ActivationOfRun DEF Settle, TypeOK
    <3>2. /\ entry' \in [Run -> {"absent", "queued", "running", "held"}]
          /\ timer' \in [Run -> {"none", "entry", "dropped"}]
      BY <2>14 DEF Settle, TypeOK
    <3>3. ready' \in Seq(Run)
      BY <2>14, ActivationOfRun, WithReadyType DEF Settle, TypeOK
    <3>4. attached' \in [Activation -> BOOLEAN]
      BY <2>14 DEF Settle
    <3>5. QED
      BY <3>1, <3>2, <3>3, <3>4, <3>6, ForgetType DEF TypeOK
  <2>15. QED
    BY <1>12, <2>1, <2>2, <2>3, <2>4, <2>5, <2>6, <2>7, <2>8, <2>9, <2>10, <2>11, <2>12,
       <2>13, <2>14 DEF ActivationStep
<1>13. CASE UNCHANGED vars
  BY <1>13 DEF vars, TypeOK
<1>14. QED
  BY <1>1, <1>2, <1>3, <1>4, <1>5, <1>6, <1>7, <1>8, <1>9, <1>10, <1>11, <1>12, <1>13
  DEF Next

-------------------------------------------------------------------------------
(* Lost leases *)

\* Every action keeps a lost lease without authority, and lets no commit begin.
LEMMA NextAuthority ==
  TypeOK /\ AuthorityInv /\ [Next]_vars =>
    /\ AuthorityInv'
    /\ \A a \in Activation : retired[a] /\ ~committing[a] => ~committing'[a]
<1> DEFINE Goal == /\ AuthorityInv'
                   /\ \A a \in Activation : retired[a] /\ ~committing[a] => ~committing'[a]
<1> SUFFICES ASSUME TypeOK, AuthorityInv, [Next]_vars PROVE Goal
  OBVIOUS
<1> USE DEF AuthorityInv, TypeOK, activations
<1>1. CASE UNCHANGED <<authority, retired, committing>>
  BY <1>1
<1>2. ASSUME NEW a \in Activation, ActivationStep(a) PROVE Goal
  <2>1. CASE RecordLeaseFailure(a) /\ (UNCHANGED committing \/ NotCommitted(a))
    BY <2>1 DEF RecordLeaseFailure, NotCommitted
  <2>2. CASE Forget(a)
    BY <2>2 DEF Forget
  <2>3. CASE BeginCommit(a) \/ Committed(a)
    BY <2>3 DEF BeginCommit, Committed
  <2>4. CASE ClaimAcquired(a) \/ Activate(a)
    BY <2>4, <1>1 DEF ClaimAcquired, Activate
  <2>5. CASE ClaimHeld(a) \/ ClaimRefused(a) \/ ClaimThrows(a) \/ Settle(a)
    BY <2>5, <2>2 DEF ClaimHeld, ClaimRefused, ClaimThrows, Settle, NotAcquired
  <2>6. CASE Verified(a) \/ Returns(a) \/ Throws(a)
    BY <2>6, <1>1 DEF Verified, Returns, Throws, EndBy
  <2>7. CASE NotVerified(a) \/ NotAsserted(a) \/ RenewalLost(a) \/ NotCommitted(a)
    BY <2>7, <2>1 DEF NotVerified, NotAsserted, RenewalLost, NotCommitted, EndBy
  <2>8. QED
    BY <1>2, <2>3, <2>4, <2>5, <2>6, <2>7 DEF ActivationStep
<1>3. ASSUME NEW w \in Wake, WakeUp(w) \/ NotQueued(w) \/ Admitted(w) \/ RestorePending(w)
      PROVE  Goal
  BY <1>1, <1>3 DEF WakeUp, NotQueued, Admitted, RestorePending
<1>4. ASSUME NEW r \in Run, RetryFires(r) \/ OtherClaims(r) \/ OtherEnds(r) PROVE Goal
  BY <1>1, <1>4 DEF RetryFires, OtherClaims, OtherEnds
<1>5. CASE Start \/ Stop \/ FinishStop \/ Pump
  BY <1>1, <1>5 DEF Start, Stop, FinishStop, Pump
<1>6. ASSUME NEW a \in Activation, Expires(a) PROVE Goal
  BY <1>1, <1>6 DEF Expires
<1>7. CASE UNCHANGED vars
  BY <1>1, <1>7 DEF vars
<1>8. QED
  BY <1>2, <1>3, <1>4, <1>5, <1>6, <1>7 DEF Next

-------------------------------------------------------------------------------
(* Activations that do not overlap *)

\* The types and the serial part, before and after a step that overlaps nothing.
SerialStep == TypeOK /\ TypeOK' /\ Serial /\ ~overlapped /\ ~overlapped'

\* In a host whose activations do not overlap, two that are not settled are of
\* different Runs.
LEMMA OnePerRun ==
  ASSUME RegisteredInv, NEW a \in Activation, NEW b \in Activation,
         Unsettled(a), Unsettled(b), RunIn(a) = RunIn(b)
  PROVE  a = b
  BY DEF RegisteredInv

\* A wake that is admitted twice is still kept once: what w's place in the queue
\* says of the other wakes.
LEMMA KeptByQueue ==
  ASSUME SerialStep, NEW w \in Wake, EnqueueWake(w), UNCHANGED <<lifecycle, pc, batch>>
  PROVE  /\ \A v \in accepted : Kept(v)'
         /\ ActiveHas(w) \/ Kept(w)'
         /\ \A r \in Run : entry[r] # "absent" => entry'[r] # "absent"
<1>1. RunOf[w] \in Run
  BY DaemonAssumption
<1>2. \A r \in Run : entry[r] # "absent" => entry'[r] # "absent"
  BY DEF EnqueueWake, SerialStep, TypeOK
<1>3. \A r \in Run : wakes[r] \subseteq wakes'[r]
  BY <1>1 DEF EnqueueWake, SerialStep, TypeOK
<1>4. ASSUME NEW v \in accepted PROVE Kept(v)'
  <2>1. RunOf[v] \in Run /\ Kept(v)
    BY DaemonAssumption DEF SerialStep, TypeOK, Serial
  <2>2. ActiveHas(v)' <=> ActiveHas(v)
    BY DEF EnqueueWake, ActiveHas
  <2>3. QED
    BY <1>2, <1>3, <2>1, <2>2 DEF Kept, EnqueueWake
<1>5. ActiveHas(w) \/ Kept(w)'
  <2>1. ~ActiveHas(w) => w \in wakes'[RunOf[w]]
    BY <1>1 DEF EnqueueWake, SerialStep, TypeOK
  <2>2. entry'[RunOf[w]] # "absent"
    BY <1>1 DEF EnqueueWake, SerialStep, TypeOK
  <2>3. QED
    BY <2>1, <2>2 DEF Kept
<1>6. QED
  BY <1>2, <1>4, <1>5

\* An admission changes nothing but the place of its wake.
LEMMA SerialAdmission ==
  ASSUME SerialStep, NEW w \in Wake,
         IF lifecycle = "running" THEN EnqueueWake(w) ELSE ParkWake(w),
         accepted' = IF Consumed(w) THEN accepted ELSE accepted \cup {w},
         admitting' \subseteq admitting,
         UNCHANGED <<lifecycle, awaited, activations>>
  PROVE  Serial'
<1> USE DEF activations
<1>1. RegisteredInv'
  <2>1. \A r \in Run : entry[r] # "absent" => entry'[r] # "absent"
    BY KeptByQueue DEF ParkWake
  <2>2. running' = running
    BY DEF EnqueueWake, ParkWake
  <2>3. QED
    BY <2>1, <2>2, ActivationOfRun DEF SerialStep, Serial, RegisteredInv, InPending, Unsettled
<1>2. StoppingInv'
  BY DEF SerialStep, Serial, StoppingInv, Unsettled
<1>3. /\ \A v \in accepted : Kept(v)'
      /\ ActiveHas(w) \/ Kept(w)'
  <2>1. CASE EnqueueWake(w)
    BY <2>1, KeptByQueue
  <2>2. CASE ParkWake(w) /\ lifecycle # "running"
    <3>1. lifecycle # "running" /\ RunOf[w] \in Run
      BY <2>2, DaemonAssumption
    <3>2. \A r \in Run : parked[r] \subseteq parked'[r]
      BY <2>2 DEF ParkWake, SerialStep, TypeOK
    <3>3. w \in parked'[RunOf[w]]
      BY <2>2, <3>1 DEF ParkWake, SerialStep, TypeOK
    <3>4. \A v \in accepted : RunOf[v] \in Run
      BY DaemonAssumption DEF SerialStep, TypeOK
    <3>5. QED
      BY <2>2, <3>1, <3>2, <3>3, <3>4 DEF Kept, ActiveHas, ParkWake, SerialStep, Serial
  <2>3. QED
    BY <2>1, <2>2
<1>4. ASSUME w \in accepted', w \notin accepted PROVE Kept(w)'
  <2>1. ~Consumed(w)
    BY <1>4
  <2>2. SUFFICES ASSUME ActiveHas(w) PROVE Kept(w)'
    BY <1>3
  <2> DEFINE a == running[RunOf[w]]
  <2>3. a \in Activation /\ w \in batch[a] /\ RunOf[w] \in Run
    BY <2>2, DaemonAssumption DEF ActiveHas, SerialStep, TypeOK
  <2>4. Unsettled(a)
    BY <2>2, <2>3 DEF SerialStep, Serial, RegisteredInv, ActiveHas
  <2>5. pc[a] \notin {"settled", "releasing"}
    BY <1>4, <2>1, <2>3, <2>4 DEF Consumed, Unsettled
  <2>6. running' = running
    BY DEF EnqueueWake, ParkWake
  <2>7. QED
    BY <2>2, <2>5, <2>6 DEF Kept, ActiveHas
<1>5. QED
  BY <1>1, <1>2, <1>3, <1>4 DEF Serial

\* An activation that is not settled refers to its Run's entry, which gets the wakes.
LEMMA SerialPutBack ==
  ASSUME SerialStep, NEW a \in Activation, Unsettled(a),
         NEW s \in {"queued", "held"}, PutBack(a, s)
  PROVE  /\ wakes' = [wakes EXCEPT ![RunIn(a)] = @ \cup batch[a]]
         /\ entry' = [entry EXCEPT ![RunIn(a)] = s]
         /\ parked' = parked
         /\ \A r \in Run : entry[r] # "absent" => entry'[r] # "absent"
         /\ \A r \in Run : wakes[r] \subseteq wakes'[r]
         /\ batch[a] \subseteq wakes'[RunIn(a)]
<1>1. InPending(a)
  BY DEF SerialStep, Serial, RegisteredInv
<1>2. /\ wakes' = [wakes EXCEPT ![RunIn(a)] = @ \cup batch[a]]
      /\ entry' = [entry EXCEPT ![RunIn(a)] = s]
      /\ parked' = parked
  BY <1>1 DEF PutBack, InPending
<1>3. QED
  BY <1>2, ActivationOfRun DEF SerialStep, TypeOK

\* An activation that settles frees its Run; what is said of the others stays.
LEMMA SerialForget ==
  ASSUME SerialStep, NEW a \in Activation, Unsettled(a), Forget(a),
         \A b \in Activation : Unsettled(b) /\ b # a => InPending(b)'
  PROVE  RegisteredInv' /\ StoppingInv'
<1>1. /\ pc' = [pc EXCEPT ![a] = "settled"]
      /\ running' = [running EXCEPT ![RunIn(a)] = None]
      /\ awaited' = awaited \ {a}
      /\ UNCHANGED <<lifecycle, admitting>>
  BY DEF Forget
<1>2. \A b \in Activation : Unsettled(b)' => Unsettled(b) /\ b # a
  BY <1>1 DEF Unsettled, SerialStep, TypeOK
<1>3. \A b \in Activation : Unsettled(b) /\ b # a => RunIn(b) # RunIn(a)
  BY OnePerRun DEF SerialStep, Serial
<1>4. RegisteredInv'
  <2>1. ASSUME NEW b \in Activation, Unsettled(b)'
        PROVE  running'[RunIn(b)] = b /\ InPending(b)'
    BY <1>1, <1>2, <1>3, <2>1, ActivationOfRun DEF SerialStep, Serial, RegisteredInv, TypeOK
  <2>2. ASSUME NEW r \in Run, running'[r] # None
        PROVE  (RunIn(running[r]) = r /\ Unsettled(running[r]))'
    <3>1. r # RunIn(a) /\ running'[r] = running[r]
      BY <1>1, <2>2, ActivationOfRun DEF SerialStep, TypeOK
    <3>2. running[r] \in Activation /\ RunIn(running[r]) = r /\ Unsettled(running[r])
      BY <2>2, <3>1 DEF SerialStep, Serial, RegisteredInv, TypeOK
    <3>3. QED
      BY <1>1, <3>1, <3>2 DEF Unsettled, SerialStep, TypeOK
  <2>3. QED
    BY <2>1, <2>2 DEF RegisteredInv
<1>5. StoppingInv'
  BY <1>1, <1>2 DEF StoppingInv, SerialStep, Serial
<1>6. QED
  BY <1>4, <1>5

\* A claim that is not granted gives the wakes back.
LEMMA SerialNotAcquired ==
  ASSUME SerialStep, NEW a \in Activation, NEW how, NotAcquired(a, how)
  PROVE  Serial'
<1>1. /\ Unsettled(a) /\ pc[a] = "claiming"
      /\ PutBack(a, CancelledState) /\ Forget(a)
      /\ attached' = [attached EXCEPT ![a] = FALSE]
  BY DEF NotAcquired, Unsettled
<1>2. /\ parked' = parked
      /\ \A r \in Run : entry[r] # "absent" => entry'[r] # "absent"
      /\ \A r \in Run : wakes[r] \subseteq wakes'[r]
      /\ batch[a] \subseteq wakes'[RunIn(a)]
      /\ entry'[RunIn(a)] # "absent"
  BY <1>1, SerialPutBack, CancelledStateType, ActivationOfRun DEF SerialStep, TypeOK
<1>3. RegisteredInv' /\ StoppingInv'
  <2>1. ASSUME NEW b \in Activation, Unsettled(b), b # a PROVE InPending(b)'
    BY <1>1, <1>2, <2>1, ActivationOfRun DEF SerialStep, Serial, RegisteredInv, InPending, TypeOK
  <2>2. QED
    BY <1>1, <2>1, SerialForget
<1>4. ASSUME NEW w \in accepted PROVE Kept(w)'
  <2>1. RunOf[w] \in Run /\ Kept(w)
    BY DaemonAssumption DEF SerialStep, Serial, TypeOK
  <2>2. CASE RunOf[w] = RunIn(a) /\ ActiveHas(w)
    <3>1. running[RunIn(a)] = a
      BY <1>1 DEF SerialStep, Serial, RegisteredInv
    <3>2. w \in batch[a]
      BY <2>2, <3>1 DEF ActiveHas
    <3>3. QED
      BY <1>2, <2>2, <3>2 DEF Kept
  <2>3. CASE RunOf[w] # RunIn(a) /\ ActiveHas(w)
    <3>1. running[RunOf[w]] # a
      BY <1>1, <2>1, <2>3 DEF SerialStep, Serial, RegisteredInv, ActiveHas
    <3>2. ActiveHas(w)' /\ running'[RunOf[w]] = running[RunOf[w]]
      BY <1>1, <2>1, <2>3, <3>1 DEF Forget, ActiveHas, SerialStep, TypeOK
    <3>3. pc'[running[RunOf[w]]] = pc[running[RunOf[w]]]
      BY <1>1, <3>1 DEF Forget, SerialStep, TypeOK
    <3>4. lifecycle' = lifecycle
      BY <1>1 DEF Forget
    <3>5. QED
      BY <1>2, <2>1, <3>2, <3>3, <3>4 DEF Kept
  <2>4. CASE ~ActiveHas(w)
    <3>1. lifecycle' = lifecycle
      BY <1>1 DEF Forget
    <3>2. QED
      BY <1>2, <2>1, <2>4, <3>1 DEF Kept
  <2>5. QED
    BY <2>2, <2>3, <2>4
<1>5. accepted' = accepted
  BY <1>1 DEF Forget
<1>6. QED
  BY <1>3, <1>4, <1>5 DEF Serial

\* An activation that ends with its wakes back keeps its place until it is released.
LEMMA SerialEndBy ==
  ASSUME SerialStep, NEW a \in Activation, Unsettled(a), NEW s \in {"queued", "held"},
         NEW how, EndBy(a, s, how)
  PROVE  Serial'
<1> USE DEF host
<1>1. /\ PutBack(a, s)
      /\ pc' = [pc EXCEPT ![a] = "releasing"]
      /\ UNCHANGED <<host, running, batch, attached, accepted>>
  BY DEF EndBy
<1>2. /\ parked' = parked
      /\ \A r \in Run : entry[r] # "absent" => entry'[r] # "absent"
      /\ \A r \in Run : wakes[r] \subseteq wakes'[r]
      /\ batch[a] \subseteq wakes'[RunIn(a)]
      /\ entry'[RunIn(a)] # "absent"
  BY <1>1, SerialPutBack, ActivationOfRun DEF SerialStep, TypeOK
<1>3. \A b \in Activation : Unsettled(b)' <=> Unsettled(b)
  BY <1>1 DEF Unsettled, SerialStep, TypeOK
<1>4. RegisteredInv'
  BY <1>1, <1>2, <1>3, ActivationOfRun DEF SerialStep, Serial, RegisteredInv, InPending, TypeOK
<1>5. StoppingInv'
  BY <1>1, <1>3 DEF SerialStep, Serial, StoppingInv
<1>6. ASSUME NEW w \in accepted PROVE Kept(w)'
  <2>1. RunOf[w] \in Run /\ Kept(w)
    BY DaemonAssumption DEF SerialStep, Serial, TypeOK
  <2>2. ActiveHas(w)' <=> ActiveHas(w)
    BY <1>1 DEF ActiveHas
  <2>3. CASE ActiveHas(w) /\ running[RunOf[w]] = a
    <3>1. w \in batch[a] /\ RunOf[w] = RunIn(a)
      BY <2>1, <2>3 DEF ActiveHas, SerialStep, Serial, RegisteredInv
    <3>2. QED
      BY <1>2, <3>1 DEF Kept
  <2>4. CASE ~(ActiveHas(w) /\ running[RunOf[w]] = a)
    BY <1>1, <1>2, <2>1, <2>2, <2>4 DEF Kept, SerialStep, TypeOK
  <2>5. QED
    BY <2>3, <2>4
<1>7. QED
  BY <1>1, <1>4, <1>5, <1>6 DEF Serial

\* An activation that has completed has taken its wakes.
LEMMA SerialReturns ==
  ASSUME SerialStep, NEW a \in Activation, Returns(a)
  PROVE  Serial'
<1> USE DEF host, queue
<1>1. CASE EndBy(a, CancelledState, "cancelled") /\ pc[a] = "active"
  BY <1>1, SerialEndBy, CancelledStateType DEF Unsettled
<1>2. CASE /\ pc[a] = "active"
           /\ pc' = [pc EXCEPT ![a] = "releasing"]
           /\ accepted' = accepted \ batch[a]
           /\ UNCHANGED <<host, queue, batch, attached>>
  <2>1. \A b \in Activation : Unsettled(b)' <=> Unsettled(b)
    BY <1>2 DEF Unsettled, SerialStep, TypeOK
  <2>2. RegisteredInv' /\ StoppingInv'
    BY <1>2, <2>1, ActivationOfRun
    DEF SerialStep, Serial, RegisteredInv, StoppingInv, InPending, TypeOK
  <2>3. ASSUME NEW w \in accepted \ batch[a] PROVE Kept(w)'
    <3>1. RunOf[w] \in Run /\ Kept(w)
      BY DaemonAssumption DEF SerialStep, Serial, TypeOK
    <3>2. (ActiveHas(w)' <=> ActiveHas(w)) /\ (ActiveHas(w) => running[RunOf[w]] # a)
      BY <1>2 DEF ActiveHas
    <3>3. QED
      BY <1>2, <3>1, <3>2 DEF Kept, SerialStep, TypeOK
  <2>4. QED
    BY <1>2, <2>2, <2>3 DEF Serial
<1>3. QED
  BY <1>1, <1>2 DEF Returns, activations

\* The release: the entry goes only when it has no wakes.
LEMMA SerialSettle ==
  ASSUME SerialStep, NEW a \in Activation, Settle(a)
  PROVE  Serial'
<1>1. /\ Unsettled(a) /\ pc[a] = "releasing"
      /\ Forget(a)
      /\ UNCHANGED <<wakes, parked, accepted, lifecycle>>
  BY DEF Settle, Forget, Unsettled
<1>2. InPending(a) /\ RunIn(a) \in Run
  BY <1>1, ActivationOfRun DEF SerialStep, Serial, RegisteredInv
<1>3. /\ \A r \in Run : r # RunIn(a) => entry'[r] = entry[r]
      /\ wakes[RunIn(a)] # {} => entry'[RunIn(a)] # "absent"
  BY <1>2 DEF Settle, InPending, SerialStep, TypeOK
<1>4. ASSUME NEW b \in Activation, Unsettled(b), b # a PROVE InPending(b)'
  <2>1. RunIn(b) # RunIn(a) /\ RunIn(b) \in Run /\ InPending(b)
    BY <1>1, <1>4, OnePerRun, ActivationOfRun DEF SerialStep, Serial, RegisteredInv
  <2>2. attached'[b]
    BY <1>4, <2>1 DEF Settle, InPending
  <2>3. QED
    BY <1>3, <2>1, <2>2 DEF InPending
<1>5. RegisteredInv' /\ StoppingInv'
  BY <1>1, <1>4, SerialForget
<1>6. ASSUME NEW w \in accepted PROVE Kept(w)'
  <2>1. RunOf[w] \in Run /\ Kept(w)
    BY DaemonAssumption DEF SerialStep, Serial, TypeOK
  <2>2. CASE w \in wakes[RunOf[w]] /\ entry[RunOf[w]] # "absent"
    BY <1>1, <1>3, <2>1, <2>2 DEF Kept
  <2>3. CASE w \in parked[RunOf[w]] /\ lifecycle # "running"
    BY <1>1, <2>3 DEF Kept
  <2>4. CASE ActiveHas(w) /\ pc[running[RunOf[w]]] \notin {"settled", "releasing"}
    <3> DEFINE b == running[RunOf[w]]
    <3>1. b \in Activation /\ b # a /\ Unsettled(b) /\ RunIn(b) = RunOf[w]
      BY <1>1, <2>1, <2>4 DEF ActiveHas, SerialStep, Serial, RegisteredInv, TypeOK, Unsettled
    <3>2. RunOf[w] # RunIn(a)
      BY <1>1, <3>1, OnePerRun DEF SerialStep, Serial
    <3>3. running'[RunOf[w]] = b /\ pc'[b] = pc[b] /\ batch'[b] = batch[b]
      BY <1>1, <2>1, <3>1, <3>2 DEF Forget, SerialStep, TypeOK
    <3>4. QED
      BY <2>4, <3>3 DEF Kept, ActiveHas
  <2>5. QED
    BY <2>1, <2>2, <2>3, <2>4 DEF Kept
<1>7. QED
  BY <1>1, <1>5, <1>6 DEF Serial

\* The pass over the queue starts Runs of which no activation is left.
LEMMA SerialLaunch ==
  ASSUME SerialStep, NEW started \in SUBSET Run, Launch(started), lifecycle = "running",
         UNCHANGED <<host, parked, accepted>>
  PROVE  Serial'
<1> USE DEF host
<1>1. \A r \in started : Fresh(r) \in Activation /\ RunIn(Fresh(r)) = r /\ ~Unsettled(Fresh(r))
  BY FreshIsFree DEF Launch
<1>2. \A a \in Activation : Unsettled(a) => RunIn(a) \notin started
  BY DEF Launch, SerialStep
<1>3. \A a \in Activation :
        a \in {Fresh(r) : r \in started} <=> RunIn(a) \in started /\ a = Fresh(RunIn(a))
  BY <1>1
<1>4. \A a \in Activation : Unsettled(a)' <=>
        Unsettled(a) \/ (RunIn(a) \in started /\ a = Fresh(RunIn(a)))
  BY <1>3 DEF Launch, Unsettled
<1>5. RegisteredInv'
  <2>1. ASSUME NEW a \in Activation, Unsettled(a)' PROVE running'[RunIn(a)] = a /\ InPending(a)'
    <3>1. CASE Unsettled(a)
      BY <1>2, <1>3, <3>1, ActivationOfRun
      DEF Launch, SerialStep, Serial, RegisteredInv, InPending, TypeOK
    <3>2. CASE RunIn(a) \in started /\ a = Fresh(RunIn(a))
      BY <1>3, <3>2, ActivationOfRun DEF Launch, InPending
    <3>3. QED
      BY <1>4, <2>1, <3>1, <3>2
  <2>2. ASSUME NEW r \in Run, running'[r] # None
        PROVE  (RunIn(running[r]) = r /\ Unsettled(running[r]))'
    <3>1. CASE r \in started
      <4>1. running'[r] = Fresh(r)
        BY <3>1 DEF Launch
      <4>2. pc'[Fresh(r)] # "settled" /\ RunIn(Fresh(r)) = r
        BY <1>1, <1>4, <3>1 DEF Unsettled
      <4>3. QED
        BY <4>1, <4>2 DEF Unsettled, RunIn
    <3>2. CASE r \notin started
      <4>1. running'[r] = running[r]
        BY <3>2 DEF Launch
      <4>2. running[r] \in Activation /\ RunIn(running[r]) = r /\ Unsettled(running[r])
        BY <2>2, <4>1 DEF SerialStep, Serial, RegisteredInv, TypeOK
      <4>3. pc'[running[r]] # "settled"
        BY <1>4, <4>2 DEF Unsettled
      <4>5. QED
        BY <4>1, <4>2, <4>3 DEF Unsettled, RunIn
    <3>3. QED
      BY <3>1, <3>2
  <2>3. QED
    BY <2>1, <2>2 DEF RegisteredInv
<1>6. StoppingInv'
  BY DEF StoppingInv
<1>7. ASSUME NEW w \in accepted PROVE Kept(w)'
  <2>1. RunOf[w] \in Run /\ Kept(w)
    BY DaemonAssumption DEF SerialStep, Serial, TypeOK
  <2> DEFINE r == RunOf[w]
  <2>2. ActiveHas(w) => running[r] \in Activation /\ Unsettled(running[r]) /\ RunIn(running[r]) = r
    BY <2>1 DEF ActiveHas, SerialStep, Serial, RegisteredInv, TypeOK
  <2>3. CASE r \in started
    <3>1. w \in wakes[r]
      BY <1>2, <2>1, <2>2, <2>3 DEF Kept
    <3>2. running'[r] = Fresh(r) /\ batch'[Fresh(r)] = wakes[r] /\ pc'[Fresh(r)] = "claiming"
      BY <1>1, <1>3, <2>1, <2>3 DEF Launch
    <3>3. Fresh(r) # None
      BY <1>1, <2>3, DaemonAssumption
    <3>4. ActiveHas(w)' /\ pc'[running'[r]] = "claiming"
      BY <3>1, <3>2, <3>3 DEF ActiveHas
    <3>5. QED
      BY <3>4 DEF Kept
  <2>4. CASE r \notin started
    <3>1. /\ entry'[r] = entry[r] /\ wakes'[r] = wakes[r] /\ running'[r] = running[r]
          /\ UNCHANGED <<lifecycle, parked>>
      BY <2>1, <2>4 DEF Launch
    <3>2. ActiveHas(w) => batch'[running[r]] = batch[running[r]]
                          /\ pc'[running[r]] = pc[running[r]]
      BY <1>3, <2>2, <2>4 DEF Launch
    <3>3. QED
      BY <2>1, <3>1, <3>2 DEF Kept, ActiveHas
  <2>5. QED
    BY <2>3, <2>4
<1>8. QED
  BY <1>5, <1>6, <1>7 DEF Serial

\* Every step that overlaps nothing keeps the serial part.
LEMMA NextSerial ==
  ASSUME SerialStep, [Next]_vars
  PROVE  Serial'
<1> USE DEF host, queue, activations, history
<1>1. CASE Start
  <2>1. RegisteredInv'
    BY <1>1, ActivationOfRun
    DEF Start, SerialStep, Serial, RegisteredInv, StoppingInv, InPending, Unsettled, TypeOK
  <2>2. StoppingInv'
    BY <1>1 DEF Start, StoppingInv
  <2>3. ASSUME NEW w \in accepted PROVE Kept(w)'
    <3>1. RunOf[w] \in Run /\ Kept(w)
      BY DaemonAssumption DEF SerialStep, Serial, TypeOK
    <3>2. CASE ActiveHas(w) /\ pc[running[RunOf[w]]] \notin {"settled", "releasing"}
      BY <1>1, <3>2 DEF Start, Kept, ActiveHas
    <3>3. CASE w \in wakes[RunOf[w]] /\ entry[RunOf[w]] # "absent"
      BY <1>1, <3>1, <3>3 DEF Start, Kept
    <3>4. CASE w \in parked[RunOf[w]]
      BY <1>1, <3>1, <3>4 DEF Start, Kept
    <3>5. QED
      BY <3>1, <3>2, <3>3, <3>4 DEF Kept
  <2>4. QED
    BY <1>1, <2>1, <2>2, <2>3 DEF Start, Serial
<1>2. CASE Stop
  <2>1. RegisteredInv'
    BY <1>2 DEF Stop, SerialStep, Serial, RegisteredInv, InPending, Unsettled
  <2>2. StoppingInv'
    BY <1>2, ActivationOfRun, DaemonAssumption
    DEF Stop, SerialStep, Serial, RegisteredInv, StoppingInv, Unsettled
  <2>3. QED
    BY <1>2, <2>1, <2>2 DEF Stop, SerialStep, Serial, Kept, ActiveHas
<1>3. CASE FinishStop
  <2>1. \A a \in Activation : ~Unsettled(a)
    BY <1>3 DEF FinishStop, SerialStep, Serial, StoppingInv
  <2>2. RegisteredInv' /\ StoppingInv'
    BY <1>3, <2>1 DEF FinishStop, SerialStep, Serial, RegisteredInv, StoppingInv, Unsettled
  <2>3. ASSUME NEW w \in accepted PROVE Kept(w)'
    <3>1. RunOf[w] \in Run /\ Kept(w)
      BY DaemonAssumption DEF SerialStep, Serial, TypeOK
    <3>2. ~ActiveHas(w)
      BY <2>1, <3>1 DEF ActiveHas, SerialStep, Serial, RegisteredInv, TypeOK
    <3>3. QED
      BY <1>3, <3>1, <3>2 DEF FinishStop, Kept
  <2>4. QED
    BY <1>3, <2>2, <2>3 DEF FinishStop, Serial
<1>4. CASE Pump
  <2>1. CASE lifecycle = "running"
    <3>1. PICK k \in 0 .. Len(ready) : Launch(StartedBy(k))
      BY <1>4, <2>1 DEF Pump
    <3>2. StartedBy(k) \in SUBSET Run
      BY DEF StartedBy, SerialStep, TypeOK
    <3>3. QED
      BY <1>4, <2>1, <3>1, <3>2, SerialLaunch DEF Pump
  <2>2. CASE lifecycle # "running"
    BY <1>4, <2>2
    DEF Pump, SerialStep, Serial, RegisteredInv, StoppingInv, InPending, Unsettled, Kept, ActiveHas
  <2>3. QED
    BY <2>1, <2>2
<1>5. CASE UNCHANGED <<lifecycle, awaited, entry, wakes, parked, running, pc, batch, attached, accepted>>
           /\ (admitting' \subseteq admitting \/ lifecycle = "running")
  BY <1>5 DEF SerialStep, Serial, RegisteredInv, StoppingInv, InPending, Unsettled, Kept, ActiveHas
<1>6. ASSUME NEW w \in Wake, WakeUp(w) \/ NotQueued(w) PROVE Serial'
  BY <1>5, <1>6 DEF WakeUp, NotQueued
<1>7. ASSUME NEW w \in Wake, Admitted(w) PROVE Serial'
  BY <1>7, SerialAdmission DEF Admitted
<1>8. ASSUME NEW w \in Wake, RestorePending(w) PROVE Serial'
  <2>1. CASE EnqueueWake(w)
    BY <1>8, <2>1, SerialAdmission DEF RestorePending
  <2>2. CASE (w \in wakes[RunOf[w]] \/ ActiveHas(w)) /\ ~EnqueueWake(w)
    <3>1. RunOf[w] \in Run
      BY DaemonAssumption
    <3>2. /\ UNCHANGED <<lifecycle, admitting, awaited, wakes, parked, running, pc, batch, attached>>
          /\ \A r \in Run : entry[r] # "absent" => entry'[r] # "absent"
          /\ entry'[RunOf[w]] # "absent"
          /\ accepted' = IF Consumed(w) THEN accepted ELSE accepted \cup {w}
      BY <1>8, <2>2, <3>1 DEF RestorePending, SerialStep, TypeOK
    <3>3. RegisteredInv' /\ StoppingInv'
      BY <3>2, ActivationOfRun DEF SerialStep, Serial, RegisteredInv, StoppingInv, InPending, Unsettled
    <3>4. \A v \in accepted : Kept(v)'
      BY <3>2, DaemonAssumption DEF SerialStep, Serial, Kept, ActiveHas, TypeOK
    <3>5. ASSUME ~Consumed(w), w \notin accepted PROVE Kept(w)'
      <4>1. CASE w \in wakes[RunOf[w]]
        BY <3>2, <4>1 DEF Kept
      <4>2. CASE ActiveHas(w)
        <5> DEFINE a == running[RunOf[w]]
        <5>1. a \in Activation /\ Unsettled(a) /\ w \in batch[a]
          BY <3>1, <4>2 DEF ActiveHas, SerialStep, Serial, RegisteredInv, TypeOK
        <5>2. pc[a] \notin {"settled", "releasing"}
          BY <3>5, <5>1 DEF Consumed, Unsettled
        <5>3. QED
          BY <3>2, <4>2, <5>2 DEF Kept, ActiveHas
      <4>3. QED
        BY <2>2, <4>1, <4>2
    <3>6. QED
      BY <3>2, <3>3, <3>4, <3>5 DEF Serial
  <2>3. QED
    BY <1>8, <2>1, <2>2 DEF RestorePending
<1>9. ASSUME NEW r \in Run, RetryFires(r) PROVE Serial'
  <2>1. /\ UNCHANGED <<host, wakes, parked, running, pc, batch, attached, accepted>>
        /\ \A q \in Run : entry[q] # "absent" => entry'[q] # "absent"
    BY <1>9 DEF RetryFires, SerialStep, TypeOK
  <2>2. QED
    BY <2>1, ActivationOfRun, DaemonAssumption
    DEF SerialStep, Serial, RegisteredInv, StoppingInv, InPending, Unsettled, Kept, ActiveHas, TypeOK
<1>10. ASSUME NEW r \in Run, OtherClaims(r) \/ OtherEnds(r) PROVE Serial'
  BY <1>5, <1>10 DEF OtherClaims, OtherEnds
<1>11. ASSUME NEW a \in Activation, Expires(a) PROVE Serial'
  BY <1>5, <1>11 DEF Expires
<1>12. ASSUME NEW a \in Activation, ActivationStep(a) PROVE Serial'
  <2>2. CASE /\ pc[a] \notin {"settled", "releasing"}
             /\ \E to \in {"verifying", "asserting", "active"} : pc' = [pc EXCEPT ![a] = to]
             /\ UNCHANGED <<host, queue, batch, attached, history>>
    <3>1. /\ \A b \in Activation : Unsettled(b)' <=> Unsettled(b)
          /\ \A b \in Activation : pc[b] \notin {"settled", "releasing"} =>
                                     pc'[b] \notin {"settled", "releasing"}
      BY <2>2 DEF Unsettled, SerialStep, TypeOK
    <3>2. RegisteredInv' /\ StoppingInv'
      BY <2>2, <3>1 DEF SerialStep, Serial, RegisteredInv, StoppingInv, InPending, TypeOK
    <3>3. \A w \in accepted : Kept(w)'
      BY <2>2, <3>1, DaemonAssumption DEF SerialStep, Serial, Kept, ActiveHas, TypeOK
    <3>4. QED
      BY <2>2, <3>2, <3>3 DEF Serial
  <2>3. CASE ClaimAcquired(a) \/ Activate(a)
    BY <2>2, <2>3 DEF ClaimAcquired, Activate
  <2>4. CASE ClaimHeld(a) \/ ClaimRefused(a) \/ ClaimThrows(a)
    BY <2>4, SerialNotAcquired DEF ClaimHeld, ClaimRefused, ClaimThrows
  <2>5. CASE Verified(a)
    <3>1. CASE EndBy(a, CancelledState, "cancelled")
      BY <2>5, <3>1, SerialEndBy, CancelledStateType DEF Verified, Unsettled
    <3>2. CASE ~EndBy(a, CancelledState, "cancelled")
      BY <2>2, <2>5, <3>2 DEF Verified
    <3>3. QED
      BY <3>1, <3>2
  <2>6. CASE NotVerified(a) \/ NotAsserted(a)
    BY <2>6, SerialEndBy DEF NotVerified, NotAsserted, Unsettled
  <2>7. CASE Throws(a)
    BY <2>7, SerialEndBy DEF Throws, Unsettled
  <2>8. CASE Returns(a)
    BY <2>8, SerialReturns
  <2>9. CASE Settle(a)
    BY <2>9, SerialSettle
  <2>10. CASE RenewalLost(a) \/ BeginCommit(a) \/ Committed(a) \/ NotCommitted(a)
    BY <1>5, <2>10 DEF RenewalLost, BeginCommit, Committed, NotCommitted
  <2>11. QED
    BY <1>12, <2>3, <2>4, <2>5, <2>6, <2>7, <2>8, <2>9, <2>10 DEF ActivationStep
<1>13. CASE UNCHANGED vars
  BY <1>5, <1>13 DEF vars
<1>14. QED
  BY <1>1, <1>2, <1>3, <1>4, <1>6, <1>7, <1>8, <1>9, <1>10, <1>11, <1>12, <1>13 DEF Next

-------------------------------------------------------------------------------
(* Coming back to a Run *)

\* The wakes a Run is given again are already in its entry: the entry stays as it is.
LEMMA KnownWake ==
  ASSUME SerialStep, EntryInv, NEW w \in Wake, w \in wakes[RunOf[w]] \/ ActiveHas(w)
  PROVE  entry[RunOf[w]] # "absent" /\ RunOf[w] \in Run
<1>1. RunOf[w] \in Run
  BY DaemonAssumption
<1>2. CASE ActiveHas(w)
  BY <1>1, <1>2 DEF ActiveHas, SerialStep, Serial, RegisteredInv, InPending, TypeOK
<1>3. QED
  BY <1>1, <1>2 DEF EntryInv

\* A claim that is not granted, and an activation that ends, put the entry in a state
\* in which it waits; the entries of other Runs stay.
LEMMA EndsWaiting ==
  ASSUME SerialStep, NEW a \in Activation, NEW s \in {"queued", "held"}, NEW how,
         \/ Unsettled(a) /\ EndBy(a, s, how)
         \/ s = CancelledState /\ NotAcquired(a, how)
  PROVE  /\ Unsettled(a) /\ RunIn(a) \in Run /\ lifecycle' = lifecycle
         /\ wakes' = [wakes EXCEPT ![RunIn(a)] = @ \cup batch[a]]
         /\ entry' = [entry EXCEPT ![RunIn(a)] = s]
         /\ ended' = [ended EXCEPT ![RunIn(a)] = how]
         /\ ready' = ready
         /\ \A b \in Activation : b # a => pc'[b] = pc[b]
         /\ \A b \in Activation : b # a /\ Unsettled(b) => RunIn(b) # RunIn(a)
         /\ \A r \in Run : r # RunIn(a) => running'[r] = running[r] /\ timer'[r] = timer[r]
<1> USE DEF host
<1>1. /\ Unsettled(a) /\ PutBack(a, s) /\ lifecycle' = lifecycle
      /\ ended' = [ended EXCEPT ![RunIn(a)] = how]
      /\ ready' = ready
      /\ \A b \in Activation : b # a => pc'[b] = pc[b]
      /\ \A r \in Run : r # RunIn(a) => running'[r] = running[r] /\ timer'[r] = timer[r]
  BY DEF EndBy, NotAcquired, Forget, Unsettled, SerialStep, TypeOK
<1>2. \A b \in Activation : b # a /\ Unsettled(b) => RunIn(b) # RunIn(a)
  BY <1>1, OnePerRun DEF SerialStep, Serial
<1>3. QED
  BY <1>1, <1>2, SerialPutBack, ActivationOfRun

\* The end of the release: what becomes of the entry.
LEMMA SettledEntry ==
  ASSUME SerialStep, NEW a \in Activation, Settle(a)
  PROVE  LET r == RunIn(a) IN
         /\ Unsettled(a) /\ pc[a] = "releasing" /\ r \in Run
         /\ UNCHANGED <<lifecycle, wakes, ended>>
         /\ running' = [running EXCEPT ![r] = None]
         /\ pc' = [pc EXCEPT ![a] = "settled"]
         /\ \A q \in Run : q # r => entry'[q] = entry[q] /\ timer'[q] = timer[q]
         /\ wakes[r] = {} => entry'[r] \in {"absent", "held"}
         /\ wakes[r] # {} /\ lifecycle # "running" => entry'[r] = "queued"
         /\ wakes[r] # {} /\ lifecycle = "running" =>
              \/ entry'[r] = "queued" /\ ready' = WithReady(r) /\ ~retired[a] /\ entry[r] # "held"
              \/ entry'[r] = "held" /\ ready' = ready /\ timer'[r] = "entry" /\ retired[a]
              \/ entry'[r] = "held" /\ ready' = ready /\ timer'[r] = timer[r] /\ ~retired[a]
                   /\ entry[r] = "held"
         /\ wakes[r] = {} => ready' = ready
<1>1. /\ Unsettled(a) /\ pc[a] = "releasing" /\ RunIn(a) \in Run /\ Forget(a)
      /\ UNCHANGED <<wakes, ended>>
  BY ActivationOfRun DEF Settle, Unsettled
<1>2. InPending(a)
  BY <1>1 DEF SerialStep, Serial, RegisteredInv
<1>3. /\ running' = [running EXCEPT ![RunIn(a)] = None]
      /\ pc' = [pc EXCEPT ![a] = "settled"]
      /\ lifecycle' = lifecycle
  BY <1>1 DEF Forget
<1>4. \A q \in Run : q # RunIn(a) => entry'[q] = entry[q] /\ timer'[q] = timer[q]
  BY <1>1 DEF Settle, SerialStep, TypeOK
<1>5. CASE wakes[RunIn(a)] = {}
  <2>1. entry'[RunIn(a)] \in {"absent", "held"} /\ ready' = ready
    BY <1>1, <1>2, <1>5 DEF Settle, SerialStep, TypeOK
  <2>2. QED
    BY <1>1, <1>3, <1>4, <1>5, <2>1
<1>6. CASE wakes[RunIn(a)] # {} /\ lifecycle # "running"
  <2>1. entry'[RunIn(a)] = "queued"
    BY <1>1, <1>2, <1>6 DEF Settle, SerialStep, TypeOK
  <2>2. QED
    BY <1>1, <1>3, <1>4, <1>6, <2>1
<1>7. CASE wakes[RunIn(a)] # {} /\ lifecycle = "running"
  <2> DEFINE r == RunIn(a)
  <2>1. CASE ~retired[a] /\ entry[r] # "held"
    <3>1. entry'[r] = "queued" /\ ready' = WithReady(r)
      BY <1>1, <1>2, <1>7, <2>1 DEF Settle, SerialStep, TypeOK
    <3>2. QED
      BY <1>1, <1>3, <1>4, <1>7, <2>1, <3>1
  <2>2. CASE retired[a]
    <3>1. entry'[r] = "held" /\ ready' = ready /\ timer'[r] = "entry"
      BY <1>1, <1>2, <1>7, <2>2 DEF Settle, SerialStep, TypeOK
    <3>2. QED
      BY <1>1, <1>3, <1>4, <1>7, <2>2, <3>1
  <2>3. CASE ~retired[a] /\ entry[r] = "held"
    <3>1. entry'[r] = "held" /\ ready' = ready /\ timer'[r] = timer[r]
      BY <1>1, <1>2, <1>7, <2>3 DEF Settle, SerialStep, TypeOK
    <3>2. QED
      BY <1>1, <1>3, <1>4, <1>7, <2>3, <3>1
  <2>4. QED
    BY <2>1, <2>2, <2>3
<1>8. QED
  BY <1>5, <1>6, <1>7

\* The steps of an activation that change none of what is said here but its `pc`.
Advances(a) == Activate(a) \/ ClaimAcquired(a) \/ (Verified(a) /\ pc'[a] = "asserting")

\* What is left alone by the steps that schedule nothing.
Idles == UNCHANGED <<lifecycle, entry, wakes, ready, running, timer, pc, ended>>

\* A step of an activation in one of five forms.
LEMMA ActivationForms ==
  ASSUME SerialStep, NEW a \in Activation, ActivationStep(a)
  PROVE  \/ Idles /\ UNCHANGED pumping
         \/ Advances(a)
         \/ Unsettled(a) /\ (\/ EndBy(a, CancelledState, "cancelled") /\ (aborted[a] \/ lifecycle # "running")
                             \/ EndBy(a, "held", "lost") /\ retired'[a]
                             \/ EndBy(a, "held", "failed") /\ retired'[a] = retired[a])
         \/ \E how \in {"held", "refused", "failed"} : NotAcquired(a, how)
         \/ /\ pc[a] = "active" /\ pc' = [pc EXCEPT ![a] = "releasing"]
            /\ ended' = [ended EXCEPT ![RunIn(a)] = "completed"]
            /\ UNCHANGED <<host, queue, aborted, retired>>
         \/ Settle(a)
<1> USE DEF host, queue, history, Idles
<1>1. CASE ClaimAcquired(a) \/ Activate(a)
  BY <1>1 DEF Advances
<1>2. CASE ClaimHeld(a) \/ ClaimRefused(a) \/ ClaimThrows(a)
  BY <1>2 DEF ClaimHeld, ClaimRefused, ClaimThrows
<1>3. CASE Verified(a)
  <2>1. CASE aborted[a] \/ lifecycle # "running"
    BY <1>3, <2>1 DEF Verified, Unsettled
  <2>2. CASE ~(aborted[a] \/ lifecycle # "running")
    BY <1>3, <2>2 DEF Verified, Advances, SerialStep, TypeOK
  <2>3. QED
    BY <2>1, <2>2
<1>4. CASE NotVerified(a) \/ NotAsserted(a)
  BY <1>4 DEF NotVerified, NotAsserted, RecordLeaseFailure, Unsettled, SerialStep, TypeOK
<1>5. CASE RenewalLost(a) \/ BeginCommit(a) \/ Committed(a) \/ NotCommitted(a)
  BY <1>5 DEF RenewalLost, BeginCommit, Committed, NotCommitted
<1>6. CASE Returns(a)
  BY <1>6 DEF Returns, Unsettled
<1>7. CASE Throws(a)
  <2>1. CASE retired[a]
    BY <1>7, <2>1 DEF Throws, Unsettled
  <2>2. CASE ~retired[a]
    BY <1>7, <2>2 DEF Throws, Unsettled
  <2>3. QED
    BY <2>1, <2>2
<1>8. QED
  BY <1>1, <1>2, <1>3, <1>4, <1>5, <1>6, <1>7 DEF ActivationStep

\* An activation that gets on changes no scheduling.
LEMMA AdvancesFrame ==
  ASSUME SerialStep, NEW a \in Activation, Advances(a)
  PROVE  /\ UNCHANGED <<host, queue, aborted, retired, ended>>
         /\ pc[a] \notin {"settled", "releasing"} /\ pc'[a] \notin {"settled", "releasing"}
         /\ \A b \in Activation : b # a => pc'[b] = pc[b]
  BY DEF Advances, Activate, ClaimAcquired, Verified, EndBy, history, host, queue, SerialStep, TypeOK

\* Every step keeps the relation of entries and activations.
LEMMA NextEntry ==
  ASSUME SerialStep, EntryInv, [Next]_vars
  PROVE  EntryInv'
<1> USE DEF host, queue, activations, history
<1>1. CASE Start
  <2>1. /\ \A r \in Run : entry[r] = "absent" /\ wakes[r] = {}
        /\ \A a \in Activation : ~Unsettled(a)
    BY <1>1 DEF Start, SerialStep, Serial, StoppingInv, EntryInv
  <2>2. \A r \in Run : /\ entry'[r] # "running"
                       /\ wakes'[r] # {} => entry'[r] # "absent"
    BY <1>1, <2>1 DEF Start
  <2>3. QED
    BY <1>1, <2>1, <2>2, ActivationOfRun DEF Start, EntryInv, Unsettled
<1>2. CASE Stop
  BY <1>2 DEF Stop, EntryInv, Unsettled
<1>3. CASE FinishStop
  <2>1. \A a \in Activation : ~Unsettled(a)
    BY <1>3 DEF FinishStop, SerialStep, Serial, StoppingInv
  <2>2. QED
    BY <1>3, <2>1 DEF FinishStop, EntryInv, Unsettled
<1>4. CASE Pump
  <2>1. CASE lifecycle = "running"
    <3>1. PICK k \in 0 .. Len(ready) : Launch(StartedBy(k))
      BY <1>4, <2>1 DEF Pump
    <3> DEFINE started == StartedBy(k)
    <3>0. started \subseteq Run
      BY DEF StartedBy, SerialStep, TypeOK
    <3>2. \A r \in started : Fresh(r) \in Activation /\ RunIn(Fresh(r)) = r
      BY <3>0, <3>1, FreshIsFree DEF Launch
    <3>3. ASSUME NEW r \in Run
          PROVE  /\ wakes'[r] # {} => entry'[r] # "absent"
                 /\ entry'[r] = "running" => running'[r] # None
      <4>1. CASE r \in started
        BY <3>1, <3>2, <4>1, DaemonAssumption DEF Launch
      <4>2. CASE r \notin started
        BY <3>1, <4>2 DEF Launch, EntryInv
      <4>3. QED
        BY <4>1, <4>2
    <3>4. ASSUME NEW a \in Activation, Unsettled(a)', pc'[a] # "releasing"
          PROVE  entry'[RunIn(a)] = "running"
      <4>1. CASE RunIn(a) \in started
        BY <3>1, <4>1, ActivationOfRun DEF Launch
      <4>2. CASE RunIn(a) \notin started
        <5>1. pc'[a] = pc[a]
          BY <3>1, <3>2, <4>2 DEF Launch
        <5>2. entry'[RunIn(a)] = entry[RunIn(a)]
          BY <3>1, <4>2, ActivationOfRun DEF Launch
        <5>3. QED
          BY <3>4, <5>1, <5>2 DEF EntryInv, Unsettled
      <4>3. QED
        BY <4>1, <4>2
    <3>5. lifecycle' = "running"
      BY <1>4, <2>1 DEF Pump
    <3>6. QED
      BY <3>3, <3>4, <3>5 DEF EntryInv
  <2>2. CASE lifecycle # "running"
    BY <1>4, <2>2 DEF Pump, EntryInv, Unsettled
  <2>3. QED
    BY <2>1, <2>2
<1>5. CASE UNCHANGED <<lifecycle, entry, wakes, running, pc>>
  BY <1>5 DEF EntryInv, Unsettled
<1>6. ASSUME NEW w \in Wake, EnqueueWake(w), lifecycle = "running", UNCHANGED <<lifecycle, pc>>
      PROVE  EntryInv'
  <2>1. /\ \A r \in Run : entry[r] # "absent" => entry'[r] # "absent"
        /\ entry'[RunOf[w]] # "absent"
        /\ \A r \in Run : entry'[r] = "running" <=> entry[r] = "running"
        /\ \A r \in Run : r # RunOf[w] => wakes'[r] = wakes[r]
        /\ running' = running
    BY <1>6, DaemonAssumption DEF EnqueueWake, SerialStep, TypeOK
  <2>2. QED
    BY <1>6, <2>1, ActivationOfRun DEF EntryInv, Unsettled
<1>7. ASSUME NEW w \in Wake, Admitted(w) PROVE EntryInv'
  BY <1>5, <1>6, <1>7 DEF Admitted, ParkWake
<1>8. ASSUME NEW w \in Wake, RestorePending(w) PROVE EntryInv'
  <2>1. CASE EnqueueWake(w)
    BY <1>6, <1>8, <2>1 DEF RestorePending
  <2>2. CASE w \in wakes[RunOf[w]] \/ ActiveHas(w)
    <3>1. entry' = entry
      BY <1>8, <2>2, KnownWake DEF RestorePending, SerialStep, TypeOK
    <3>2. QED
      BY <1>5, <1>8, <2>2, <3>1 DEF RestorePending
  <2>3. QED
    BY <1>8, <2>1, <2>2 DEF RestorePending
<1>9. ASSUME NEW r \in Run, RetryFires(r) PROVE EntryInv'
  <2>1. CASE entry' = [entry EXCEPT ![r] = "queued"] /\ entry[r] = "held" /\ lifecycle = "running"
    BY <1>9, <2>1, ActivationOfRun DEF RetryFires, EntryInv, Unsettled, SerialStep, TypeOK
  <2>2. CASE UNCHANGED entry
    BY <1>5, <1>9, <2>2 DEF RetryFires
  <2>3. QED
    BY <1>9, <2>1, <2>2 DEF RetryFires
<1>10. ASSUME NEW a \in Activation, NEW s \in {"queued", "held"}, NEW how,
              \/ Unsettled(a) /\ EndBy(a, s, how)
              \/ s = CancelledState /\ NotAcquired(a, how)
       PROVE  EntryInv'
  <2>1. /\ Unsettled(a) /\ RunIn(a) \in Run /\ lifecycle' = lifecycle
        /\ wakes' = [wakes EXCEPT ![RunIn(a)] = @ \cup batch[a]]
        /\ entry' = [entry EXCEPT ![RunIn(a)] = s]
        /\ \A b \in Activation : b # a => pc'[b] = pc[b]
        /\ \A b \in Activation : b # a /\ Unsettled(b) => RunIn(b) # RunIn(a)
        /\ \A r \in Run : r # RunIn(a) => running'[r] = running[r]
    BY <1>10, EndsWaiting
  <2>2. pc'[a] \in {"settled", "releasing"}
    BY <1>10 DEF EndBy, NotAcquired, Forget, SerialStep, TypeOK
  <2>3. lifecycle # "stopped"
    BY <2>1 DEF SerialStep, Serial, StoppingInv
  <2>4. \A r \in Run : /\ wakes'[r] # {} => entry'[r] # "absent"
                       /\ entry'[r] = "running" => running'[r] # None
    BY <2>1 DEF EntryInv, SerialStep, TypeOK
  <2>5. ASSUME NEW b \in Activation, Unsettled(b)', pc'[b] # "releasing"
        PROVE  entry'[RunIn(b)] = "running"
    <3>1. b # a /\ pc'[b] = pc[b]
      BY <2>1, <2>2, <2>5 DEF Unsettled
    <3>2. entry'[RunIn(b)] = entry[RunIn(b)]
      BY <2>1, <2>5, <3>1, ActivationOfRun DEF Unsettled, SerialStep, TypeOK
    <3>3. QED
      BY <2>5, <3>1, <3>2 DEF EntryInv, Unsettled
  <2>6. QED
    BY <2>1, <2>3, <2>4, <2>5 DEF EntryInv
<1>11. ASSUME NEW a \in Activation, ActivationStep(a) PROVE EntryInv'
  <2>1. CASE Idles
    BY <1>5, <2>1 DEF Idles
  <2>2. CASE Advances(a)
    BY <2>2, AdvancesFrame DEF EntryInv, Unsettled
  <2>3. CASE \/ Unsettled(a) /\ \E s \in {"queued", "held"} : \E how : EndBy(a, s, how)
             \/ \E how : NotAcquired(a, how)
    BY <1>10, <2>3, CancelledStateType
  <2>4. CASE pc' = [pc EXCEPT ![a] = "releasing"] /\ pc[a] = "active" /\ UNCHANGED <<host, queue>>
    BY <2>4 DEF EntryInv, Unsettled, SerialStep, TypeOK
  <2>5. CASE Settle(a)
    <3>1. lifecycle # "stopped"
      BY <2>5, SettledEntry DEF SerialStep, Serial, StoppingInv
    <3>2. \A b \in Activation : b # a /\ Unsettled(b) => RunIn(b) # RunIn(a)
      BY <2>5, SettledEntry, OnePerRun DEF SerialStep, Serial
    <3>3. entry'[RunIn(a)] # "running" /\ (wakes[RunIn(a)] # {} => entry'[RunIn(a)] # "absent")
      BY <2>5, SettledEntry
    <3>4. /\ RunIn(a) \in Run
          /\ UNCHANGED <<lifecycle, wakes>>
          /\ running' = [running EXCEPT ![RunIn(a)] = None]
          /\ pc' = [pc EXCEPT ![a] = "settled"]
          /\ \A q \in Run : q # RunIn(a) => entry'[q] = entry[q]
      BY <2>5, SettledEntry
    <3>5. \A r \in Run : /\ wakes'[r] # {} => entry'[r] # "absent"
                         /\ entry'[r] = "running" => running'[r] # None
      BY <3>3, <3>4 DEF EntryInv, SerialStep, TypeOK
    <3>6. ASSUME NEW b \in Activation, Unsettled(b)', pc'[b] # "releasing"
          PROVE  entry'[RunIn(b)] = "running"
      <4>1. b # a /\ pc'[b] = pc[b] /\ Unsettled(b)
        BY <3>4, <3>6 DEF Unsettled, SerialStep, TypeOK
      <4>2. QED
        BY <3>2, <3>4, <3>6, <4>1, ActivationOfRun DEF EntryInv
    <3>7. QED
      BY <3>1, <3>4, <3>5, <3>6 DEF EntryInv
  <2>6. QED
    BY <1>11, <2>1, <2>2, <2>3, <2>4, <2>5, ActivationForms, CancelledStateType
<1>12. QED
  BY <1>1, <1>2, <1>3, <1>4, <1>5, <1>7, <1>8, <1>9, <1>11
  DEF Next, WakeUp, NotQueued, OtherClaims, OtherEnds, Expires, vars

\* What a step of an activation does to its marks: an abort comes with a loss, and a
\* loss is forgotten when the activation settles.
LEMMA ActivationMarks ==
  ASSUME SerialStep, NEW a \in Activation, ActivationStep(a), NEW b \in Activation
  PROVE  /\ lifecycle' = lifecycle
         /\ aborted'[b] => aborted[b] \/ retired'[b]
         /\ retired[b] => retired'[b] \/ (~aborted'[b] /\ pc'[b] = "settled")
         /\ pc'[b] = "settled" => pc[b] = "settled" \/ ~aborted'[b]
<1> USE DEF host, queue, SerialStep, TypeOK
<1>1. CASE ClaimAcquired(a)
  BY <1>1 DEF ClaimAcquired
<1>2. CASE ClaimHeld(a) \/ ClaimRefused(a) \/ ClaimThrows(a)
  BY <1>2 DEF ClaimHeld, ClaimRefused, ClaimThrows, NotAcquired, Forget
<1>3. CASE Verified(a)
  BY <1>3 DEF Verified, EndBy
<1>4. CASE NotVerified(a) \/ NotAsserted(a)
  BY <1>4 DEF NotVerified, NotAsserted, RecordLeaseFailure, EndBy
<1>5. CASE RenewalLost(a) \/ NotCommitted(a)
  BY <1>5 DEF RenewalLost, NotCommitted, RecordLeaseFailure
<1>6. CASE Activate(a) \/ BeginCommit(a) \/ Committed(a)
  BY <1>6 DEF Activate, BeginCommit, Committed
<1>7. CASE Returns(a)
  BY <1>7 DEF Returns, EndBy
<1>8. CASE Throws(a)
  BY <1>8 DEF Throws, EndBy
<1>9. CASE Settle(a)
  BY <1>9 DEF Settle, Forget
<1>10. QED
  BY <1>1, <1>2, <1>3, <1>4, <1>5, <1>6, <1>7, <1>8, <1>9 DEF ActivationStep

\* Every step keeps what is known of aborted and of ended activations.
LEMMA NextRetired ==
  ASSUME SerialStep, EntryInv, RetiredInv, [Next]_vars
  PROVE  RetiredInv'
<1> USE DEF host, queue, activations, history
<1>1. CASE Start \/ FinishStop
  <2>1. \A a \in Activation : ~Unsettled(a)
    BY <1>1 DEF Start, FinishStop, SerialStep, Serial, StoppingInv
  <2>2. UNCHANGED <<pc, aborted, retired>>
    BY <1>1 DEF Start, FinishStop
  <2>3. QED
    BY <2>1, <2>2 DEF RetiredInv, Unsettled
<1>2. CASE Stop
  <2>1. \A a \in Activation : ~Unsettled(a) => aborted'[a] = aborted[a]
    BY <1>2 DEF Stop, SerialStep, Serial, RegisteredInv, TypeOK
  <2>2. QED
    BY <1>2, <2>1 DEF Stop, RetiredInv, Unsettled
<1>3. CASE Pump
  <2>1. CASE lifecycle = "running"
    <3>1. PICK k \in 0 .. Len(ready) : Launch(StartedBy(k))
      BY <1>3, <2>1 DEF Pump
    <3> DEFINE started == StartedBy(k)
    <3>2. \A a \in Activation : pc'[a] \in {"settled", "releasing"} => pc'[a] = pc[a]
      BY <3>1 DEF Launch
    <3>3. \A r \in Run : entry'[r] = "held" => entry[r] = "held"
      BY <3>1 DEF Launch
    <3>4. UNCHANGED <<lifecycle, aborted, retired, ended>>
      BY <1>3 DEF Pump
    <3>5. QED
      BY <3>2, <3>3, <3>4, ActivationOfRun DEF RetiredInv, Unsettled
  <2>2. CASE lifecycle # "running"
    BY <1>3, <2>2 DEF Pump, RetiredInv, Unsettled
  <2>3. QED
    BY <2>1, <2>2
<1>4. CASE UNCHANGED <<lifecycle, entry, pc, aborted, retired, ended>>
  BY <1>4 DEF RetiredInv, Unsettled
<1>5. ASSUME UNCHANGED <<lifecycle, pc, aborted, retired, ended>>,
             \A r \in Run : entry'[r] = "held" => entry[r] = "held"
      PROVE  RetiredInv'
  BY <1>5, ActivationOfRun DEF RetiredInv, Unsettled
<1>6. ASSUME NEW w \in Wake, Admitted(w) PROVE RetiredInv'
  <2>1. UNCHANGED <<lifecycle, pc, aborted, retired, ended>>
    BY <1>6 DEF Admitted
  <2>2. \A r \in Run : entry'[r] = "held" => entry[r] = "held"
    BY <1>6 DEF Admitted, EnqueueWake, ParkWake, SerialStep, TypeOK
  <2>3. QED
    BY <1>5, <2>1, <2>2
<1>7. ASSUME NEW w \in Wake, RestorePending(w) PROVE RetiredInv'
  <2>1. UNCHANGED <<lifecycle, pc, aborted, retired, ended>>
    BY <1>7 DEF RestorePending
  <2>2. \A r \in Run : entry'[r] = "held" => entry[r] = "held"
    BY <1>7 DEF RestorePending, EnqueueWake, SerialStep, TypeOK
  <2>3. QED
    BY <1>5, <2>1, <2>2
<1>8. ASSUME NEW r \in Run, RetryFires(r) PROVE RetiredInv'
  <2>1. UNCHANGED <<lifecycle, pc, aborted, retired, ended>>
    BY <1>8 DEF RetryFires
  <2>2. \A q \in Run : entry'[q] = "held" => entry[q] = "held"
    BY <1>8 DEF RetryFires, SerialStep, TypeOK
  <2>3. QED
    BY <1>5, <2>1, <2>2
<1>9. ASSUME NEW a \in Activation, ActivationStep(a) PROVE RetiredInv'
  <2>1. \A b \in Activation : aborted'[b] /\ (lifecycle' = "running" \/ ~Unsettled(b)') => retired'[b]
    BY <1>9, ActivationMarks DEF RetiredInv, Unsettled
  <2> SUFFICES ASSUME lifecycle' = "running", NEW b \in Activation, pc'[b] = "releasing",
                      entry'[RunIn(b)] = "held", ~retired'[b]
               PROVE  ended'[RunIn(b)] = "failed"
    BY <2>1 DEF RetiredInv
  <2>2. lifecycle = "running" /\ ~retired[b]
    BY <1>9, ActivationMarks
  <2>3. CASE UNCHANGED <<entry, ended>> /\ pc[b] = "releasing"
    BY <2>2, <2>3 DEF RetiredInv
  <2>4. CASE Idles
    BY <2>3, <2>4 DEF Idles
  <2>5. CASE Advances(a)
    BY <2>3, <2>5, AdvancesFrame
  <2>6. ASSUME NEW s \in {"queued", "held"}, NEW how,
               \/ Unsettled(a) /\ EndBy(a, s, how)
               \/ s = CancelledState /\ NotAcquired(a, how),
               b # a
        PROVE  ended'[RunIn(b)] = "failed"
    <3>1. pc[b] = "releasing" /\ RunIn(b) # RunIn(a)
      BY <2>6, EndsWaiting DEF Unsettled
    <3>2. entry'[RunIn(b)] = entry[RunIn(b)] /\ ended'[RunIn(b)] = ended[RunIn(b)]
      BY <2>6, <3>1, EndsWaiting, ActivationOfRun DEF SerialStep, TypeOK
    <3>3. QED
      BY <2>2, <3>1, <3>2 DEF RetiredInv
  <2>7. CASE Unsettled(a) /\ (\/ EndBy(a, CancelledState, "cancelled") /\ (aborted[a] \/ lifecycle # "running")
                              \/ EndBy(a, "held", "lost") /\ retired'[a]
                              \/ EndBy(a, "held", "failed") /\ retired'[a] = retired[a])
    <3>1. CASE b # a
      BY <2>6, <2>7, <3>1, CancelledStateType
    <3>2. CASE b = a
      <4>1. ~aborted[a]
        BY <2>2, <3>2 DEF RetiredInv
      <4>2. Unsettled(a) /\ EndBy(a, "held", "failed")
        BY <2>2, <2>7, <3>2, <4>1
      <4>3. QED
        BY <3>2, <4>2, EndsWaiting DEF SerialStep, TypeOK
    <3>3. QED
      BY <3>1, <3>2
  <2>8. CASE \E how \in {"held", "refused", "failed"} : NotAcquired(a, how)
    <3>1. b # a
      BY <2>8 DEF NotAcquired, Forget, SerialStep, TypeOK
    <3>2. QED
      BY <2>6, <2>8, <3>1, CancelledStateType
  <2>9. CASE /\ pc[a] = "active" /\ pc' = [pc EXCEPT ![a] = "releasing"]
             /\ ended' = [ended EXCEPT ![RunIn(a)] = "completed"]
             /\ UNCHANGED <<host, queue, aborted, retired>>
    <3>1. entry[RunIn(a)] = "running"
      BY <2>9 DEF EntryInv, Unsettled
    <3>2. RunIn(b) # RunIn(a) /\ pc[b] = "releasing"
      BY <2>9, <3>1 DEF SerialStep, TypeOK
    <3>3. QED
      BY <2>2, <2>9, <3>2, ActivationOfRun DEF RetiredInv, SerialStep, TypeOK
  <2>10. CASE Settle(a)
    <3>1. b # a /\ pc[b] = "releasing"
      BY <2>10, SettledEntry DEF SerialStep, TypeOK
    <3>2. RunIn(b) # RunIn(a)
      BY <2>10, <3>1, SettledEntry, OnePerRun DEF Unsettled, SerialStep, Serial
    <3>3. entry'[RunIn(b)] = entry[RunIn(b)] /\ ended' = ended
      BY <2>10, <3>2, SettledEntry, ActivationOfRun
    <3>4. QED
      BY <2>2, <3>1, <3>3 DEF RetiredInv
  <2>11. QED
    BY <1>9, <2>4, <2>5, <2>7, <2>8, <2>9, <2>10, ActivationForms
<1>10. QED
  BY <1>1, <1>2, <1>3, <1>4, <1>6, <1>7, <1>8, <1>9
  DEF Next, WakeUp, NotQueued, OtherClaims, OtherEnds, Expires, vars

\* A Run put into the queue is in it, with those that were.
LEMMA WithReadyHas ==
  ASSUME ready \in Seq(Run), NEW r \in Run, NEW q \in Run
  PROVE  Queued(ready, q) \/ q = r => Queued(WithReady(r), q)
<1>1. CASE Queued(ready, r)
  BY <1>1 DEF WithReady
<1>2. CASE ~Queued(ready, r)
  <2>1. /\ DOMAIN Append(ready, r) = 1 .. Len(ready) + 1
        /\ Append(ready, r)[Len(ready) + 1] = r
        /\ \A i \in 1 .. Len(ready) : Append(ready, r)[i] = ready[i]
        /\ Len(ready) \in Nat /\ DOMAIN ready = 1 .. Len(ready)
    OBVIOUS
  <2>2. WithReady(r) = Append(ready, r)
    BY <1>2 DEF WithReady
  <2>3. QED
    BY <2>1, <2>2 DEF Queued
<1>3. QED
  BY <1>1, <1>2

\* The Runs of a queue are in what it is appended to.
LEMMA QueuedConcat ==
  ASSUME NEW s \in Seq(Run), NEW n \in Nat, NEW t \in [1 .. n -> Run], NEW r \in Run, Queued(t, r)
  PROVE  Queued(s \o t, r)
<1>1. PICK i \in 1 .. n : t[i] = r
  BY DEF Queued
<1>2. t \in Seq(Run) /\ Len(t) = n /\ Len(s) \in Nat
  BY FunctionIsSeq, LenProperties
<1>3. Len(s) + i \in DOMAIN (s \o t) /\ (s \o t)[Len(s) + i] = r
  BY <1>1, <1>2, ConcatProperties
<1>4. QED
  BY <1>3 DEF Queued

\* A pass leaves a Run that waits in the queue only when all places are taken.
LEMMA PumpQueue ==
  ASSUME SerialStep, Pump, lifecycle = "running", NEW r \in Run,
         entry[r] = "queued", wakes[r] # {}, Queued(ready, r), entry'[r] = "queued"
  PROVE  Queued(ready, r)' /\ Full'
<1>1. PICK k \in 0 .. Len(ready) :
        /\ Takes(k)
        /\ ready' = SubSeq(ready, k + 1, Len(ready))
        /\ Launch(StartedBy(k))
  BY DEF Pump
<1>2. PICK i \in 1 .. Len(ready) : ready[i] = r
  BY LenProperties DEF Queued, SerialStep, TypeOK
<1>3. Len(ready) \in Nat
  BY LenProperties DEF SerialStep, TypeOK
<1>4. i > k
  <2>1. SUFFICES ASSUME i <= k PROVE FALSE
    BY <1>2, <1>3
  <2>2. i \in 1 .. k /\ Startable(r)
    BY <1>3, <2>1 DEF Startable
  <2>3. r \in StartedBy(k)
    BY <1>2, <2>2 DEF StartedBy
  <2>4. QED
    BY <1>1, <2>3 DEF Launch
<1>5. Queued(ready, r)'
  <2>1. /\ Len(ready') = Len(ready) - k
        /\ \A j \in 1 .. Len(ready) - k : ready'[j] = ready[k + j]
    BY <1>1, <1>3, SubSeqProperties DEF SerialStep, TypeOK
  <2>2. i - k \in 1 .. Len(ready') /\ ready'[i - k] = r
    BY <1>2, <1>3, <1>4, <2>1
  <2>3. DOMAIN ready' = 1 .. Len(ready')
    BY LenProperties DEF SerialStep, TypeOK
  <2>4. QED
    BY <2>2, <2>3 DEF Queued
<1>6. Cardinality(Occupied(k)) >= MaxConcurrentActivations
  BY <1>1, <1>2, <1>3, <1>4 DEF Takes
<1>7. {q \in Run : running'[q] # None} = Occupied(k)
  <2>1. StartedBy(k) \subseteq Run
    BY DEF StartedBy, SerialStep, TypeOK
  <2>2. \A q \in StartedBy(k) : running'[q] # None
    BY <1>1, <2>1, FreshIsFree, DaemonAssumption DEF Launch
  <2>3. \A q \in Run : q \notin StartedBy(k) => running'[q] = running[q]
    BY <1>1 DEF Launch
  <2>4. QED
    BY <2>1, <2>2, <2>3 DEF Occupied
<1>8. QED
  BY <1>5, <1>6, <1>7 DEF Full

\* Every step keeps the queued Runs in the queue.
LEMMA NextQueue ==
  ASSUME SerialStep, EntryInv, QueueInv, [Next]_vars
  PROVE  QueueInv'
<1> USE DEF host, queue, activations, history
<1> SUFFICES ASSUME lifecycle' = "running", NEW q \in Run, entry'[q] = "queued", wakes'[q] # {}
             PROVE  Queued(ready, q)' /\ (pumping' \/ Full')
  BY DEF QueueInv
<1>1. CASE Start
  <2> DEFINE back == {r \in Run : parked[r] # {}}
  <2>1. entry[q] = "absent"
    BY <1>1 DEF Start, EntryInv
  <2>2. q \in back /\ pumping'
    BY <1>1, <2>1 DEF Start
  <2>3. PICK order \in [1 .. Cardinality(back) -> back] : Queued(order, q) /\ ready' = ready \o order
    BY <1>1, <2>2 DEF Start
  <2>4. Cardinality(back) \in Nat
    BY DaemonAssumption, FS_Subset, FS_CardinalityType
  <2>5. order \in [1 .. Cardinality(back) -> Run]
    OBVIOUS
  <2>6. Queued(ready', q)
    BY <2>3, <2>4, <2>5, QueuedConcat DEF SerialStep, TypeOK
  <2>7. QED
    BY <2>2, <2>6 DEF Queued
<1>2. CASE Stop \/ FinishStop
  BY <1>2 DEF Stop, FinishStop
<1>3. CASE Pump
  <2>1. lifecycle = "running"
    BY <1>3 DEF Pump
  <2>2. PICK k \in 0 .. Len(ready) : Launch(StartedBy(k))
    BY <1>3, <2>1 DEF Pump
  <2>3. entry[q] = "queued" /\ wakes[q] # {}
    BY <2>2 DEF Launch
  <2>4. QED
    BY <1>3, <2>1, <2>3, PumpQueue DEF QueueInv
<1>4. CASE UNCHANGED <<lifecycle, entry, wakes, ready, pumping, running>>
  BY <1>4 DEF QueueInv, Queued, Full
<1>5. ASSUME NEW w \in Wake, EnqueueWake(w), lifecycle = "running"
      PROVE  Queued(ready, q)' /\ pumping'
  <2>1. pumping'
    BY <1>5 DEF EnqueueWake, SchedulePump
  <2>2. CASE q # RunOf[w]
    <3>1. entry[q] = "queued" /\ wakes[q] # {}
      BY <1>5, <2>2 DEF EnqueueWake, SerialStep, TypeOK
    <3>2. Queued(ready, q)
      BY <1>5, <3>1 DEF QueueInv
    <3>3. ready' = ready \/ ready' = WithReady(RunOf[w])
      BY <1>5 DEF EnqueueWake
    <3>4. Queued(ready', q)
      BY <3>2, <3>3, WithReadyHas, DaemonAssumption DEF SerialStep, TypeOK
    <3>5. QED
      BY <2>1, <3>4 DEF Queued
  <2>3. CASE q = RunOf[w]
    <3>1. ready' = WithReady(q)
      BY <1>5, <2>3 DEF EnqueueWake
    <3>2. Queued(ready', q)
      BY <3>1, WithReadyHas DEF SerialStep, TypeOK
    <3>3. QED
      BY <2>1, <3>2 DEF Queued
  <2>4. QED
    BY <2>2, <2>3
<1>6. ASSUME NEW w \in Wake, Admitted(w) PROVE Queued(ready, q)' /\ (pumping' \/ Full')
  BY <1>5, <1>6 DEF Admitted
<1>7. ASSUME NEW w \in Wake, RestorePending(w) PROVE Queued(ready, q)' /\ (pumping' \/ Full')
  <2>1. CASE EnqueueWake(w)
    BY <1>5, <1>7, <2>1 DEF RestorePending
  <2>2. CASE w \in wakes[RunOf[w]] \/ ActiveHas(w)
    <3>1. entry' = entry
      BY <1>7, <2>2, KnownWake DEF RestorePending, SerialStep, TypeOK
    <3>2. QED
      BY <1>4, <1>7, <2>2, <3>1 DEF RestorePending
  <2>3. QED
    BY <1>7, <2>1, <2>2 DEF RestorePending
<1>8. ASSUME NEW r \in Run, RetryFires(r) PROVE Queued(ready, q)' /\ (pumping' \/ Full')
  <2>1. CASE /\ lifecycle = "running" /\ entry' = [entry EXCEPT ![r] = "queued"]
             /\ ready' = WithReady(r) /\ SchedulePump
    <3>1. q # r => entry[q] = "queued" /\ wakes[q] # {}
      BY <1>8, <2>1 DEF RetryFires, SerialStep, TypeOK
    <3>2. Queued(ready, q) \/ q = r
      BY <2>1, <3>1 DEF QueueInv
    <3>3. Queued(ready', q)
      BY <2>1, <3>2, WithReadyHas DEF SerialStep, TypeOK
    <3>4. QED
      BY <2>1, <3>3 DEF Queued, SchedulePump
  <2>2. CASE UNCHANGED <<entry, ready, pumping>>
    BY <1>4, <1>8, <2>2 DEF RetryFires
  <2>3. QED
    BY <1>8, <2>1, <2>2 DEF RetryFires
<1>9. ASSUME NEW a \in Activation, ActivationStep(a)
      PROVE  Queued(ready, q)' /\ (pumping' \/ Full')
  <2>1. lifecycle = "running"
    BY <1>9, ActivationMarks
  <2>2. CASE Idles /\ UNCHANGED pumping
    BY <1>4, <2>2 DEF Idles
  <2>3. CASE Advances(a)
    BY <1>4, <2>3, AdvancesFrame
  <2>4. ASSUME NEW s, NEW how, s = "held",
               \/ Unsettled(a) /\ EndBy(a, s, how)
               \/ s = CancelledState /\ NotAcquired(a, how)
        PROVE  entry[q] = "queued" /\ wakes[q] # {} /\ Queued(ready', q)
    <3>1. /\ RunIn(a) \in Run /\ ready' = ready
          /\ wakes' = [wakes EXCEPT ![RunIn(a)] = @ \cup batch[a]]
          /\ entry' = [entry EXCEPT ![RunIn(a)] = s]
      BY <2>4, EndsWaiting
    <3>2. entry[q] = "queued" /\ wakes[q] # {}
      BY <2>4, <3>1 DEF SerialStep, TypeOK
    <3>3. QED
      BY <2>1, <3>1, <3>2 DEF QueueInv
  <2>5. CancelledState = "held"
    BY <2>1 DEF CancelledState
  <2>6. CASE Unsettled(a) /\ \E how : EndBy(a, "held", how)
    <3>1. entry[q] = "queued" /\ wakes[q] # {} /\ Queued(ready', q)
      BY <2>4, <2>6
    <3>2. pumping' = pumping /\ running' = running
      BY <2>6 DEF EndBy
    <3>3. QED
      BY <2>1, <3>1, <3>2 DEF QueueInv, Queued, Full
  <2>7. CASE \E how : NotAcquired(a, how)
    <3>1. Queued(ready', q)
      BY <2>4, <2>5, <2>7
    <3>2. pumping'
      BY <2>1, <2>7 DEF NotAcquired, Forget, SchedulePump
    <3>3. QED
      BY <3>1, <3>2 DEF Queued
  <2>8. CASE UNCHANGED <<host, queue>>
    BY <1>4, <2>8
  <2>9. CASE Settle(a)
    <3>1. pumping'
      BY <2>1, <2>9 DEF Settle, Forget, SchedulePump
    <3>2. Queued(ready', q)
      <4>1. /\ RunIn(a) \in Run /\ wakes' = wakes
            /\ q # RunIn(a) => entry'[q] = entry[q]
            /\ ready' = ready \/ ready' = WithReady(RunIn(a))
            /\ q = RunIn(a) => ready' = WithReady(q)
        BY <2>1, <2>9, SettledEntry
      <4>2. Queued(ready, q) \/ q = RunIn(a)
        BY <2>1, <4>1 DEF QueueInv
      <4>3. QED
        BY <4>1, <4>2, WithReadyHas DEF SerialStep, TypeOK
    <3>3. QED
      BY <3>1, <3>2 DEF Queued
  <2>10. QED
    BY <1>9, <2>2, <2>3, <2>5, <2>6, <2>7, <2>8, <2>9, ActivationForms
<1>10. QED
  BY <1>1, <1>2, <1>3, <1>4, <1>6, <1>7, <1>8, <1>9
  DEF Next, WakeUp, NotQueued, OtherClaims, OtherEnds, Expires, vars

\* Every step leaves a way back to the Runs that are held.
LEMMA NextHeld ==
  ASSUME SerialStep, EntryInv, RetiredInv, HeldInv, [Next]_vars
  PROVE  HeldInv'
<1> USE DEF host, queue, activations, history
<1> SUFFICES ASSUME lifecycle' = "running", NEW q \in Run, entry'[q] = "held", wakes'[q] # {}
             PROVE  running'[q] # None \/ timer'[q] = "entry" \/ ended'[q] \in {"failed", "refused"}
  BY DEF HeldInv
<1>1. CASE Start
  BY <1>1 DEF Start, EntryInv
<1>2. CASE Stop \/ FinishStop
  BY <1>2 DEF Stop, FinishStop
<1>3. CASE Pump
  <2>1. lifecycle = "running"
    BY <1>3 DEF Pump
  <2>2. PICK k \in 0 .. Len(ready) : Launch(StartedBy(k))
    BY <1>3, <2>1 DEF Pump
  <2>3. /\ entry[q] = "held" /\ wakes[q] # {}
        /\ running'[q] = running[q] /\ timer'[q] = timer[q]
    BY <2>2 DEF Launch
  <2>4. QED
    BY <1>3, <2>1, <2>3 DEF HeldInv, Pump
<1>4. CASE /\ lifecycle = "running" /\ entry[q] = "held" /\ wakes[q] # {}
           /\ running'[q] = running[q] /\ timer'[q] = timer[q] /\ ended'[q] = ended[q]
  BY <1>4 DEF HeldInv
<1>5. CASE UNCHANGED <<lifecycle, entry, wakes, running, timer, ended>>
  BY <1>4, <1>5
<1>6. ASSUME NEW w \in Wake, EnqueueWake(w), lifecycle = "running", UNCHANGED ended
      PROVE  running'[q] # None \/ timer'[q] = "entry" \/ ended'[q] \in {"failed", "refused"}
  <2>1. q # RunOf[w]
    BY <1>6 DEF EnqueueWake, SerialStep, TypeOK
  <2>2. QED
    BY <1>4, <1>6, <2>1 DEF EnqueueWake, SerialStep, TypeOK
<1>7. ASSUME NEW w \in Wake, Admitted(w)
      PROVE  running'[q] # None \/ timer'[q] = "entry" \/ ended'[q] \in {"failed", "refused"}
  BY <1>6, <1>7 DEF Admitted
<1>8. ASSUME NEW w \in Wake, RestorePending(w)
      PROVE  running'[q] # None \/ timer'[q] = "entry" \/ ended'[q] \in {"failed", "refused"}
  <2>1. CASE EnqueueWake(w)
    BY <1>6, <1>8, <2>1 DEF RestorePending
  <2>2. CASE w \in wakes[RunOf[w]] \/ ActiveHas(w)
    <3>1. entry' = entry
      BY <1>8, <2>2, KnownWake DEF RestorePending, SerialStep, TypeOK
    <3>2. QED
      BY <1>5, <1>8, <2>2, <3>1 DEF RestorePending
  <2>3. QED
    BY <1>8, <2>1, <2>2 DEF RestorePending
<1>9. ASSUME NEW r \in Run, RetryFires(r)
      PROVE  running'[q] # None \/ timer'[q] = "entry" \/ ended'[q] \in {"failed", "refused"}
  <2>1. /\ lifecycle = "running" /\ entry[q] = "held" /\ wakes[q] # {}
        /\ running' = running /\ ended' = ended
    BY <1>9 DEF RetryFires, SerialStep, TypeOK
  <2>2. CASE q = r
    <3>1. timer[q] # "entry"
      BY <1>9, <2>1, <2>2 DEF RetryFires, SerialStep, TypeOK
    <3>2. QED
      BY <2>1, <3>1 DEF HeldInv
  <2>3. CASE q # r
    BY <1>4, <1>9, <2>1, <2>3 DEF RetryFires, SerialStep, TypeOK
  <2>4. QED
    BY <2>2, <2>3
<1>10. ASSUME NEW a \in Activation, ActivationStep(a)
       PROVE  running'[q] # None \/ timer'[q] = "entry" \/ ended'[q] \in {"failed", "refused"}
  <2>1. lifecycle = "running"
    BY <1>10, ActivationMarks
  <2>2. CASE Idles
    BY <1>5, <2>2 DEF Idles
  <2>3. CASE Advances(a)
    BY <1>5, <2>3, AdvancesFrame
  <2>4. ASSUME NEW s \in {"queued", "held"}, NEW how,
               \/ Unsettled(a) /\ EndBy(a, s, how)
               \/ s = CancelledState /\ NotAcquired(a, how),
               q # RunIn(a)
        PROVE  running'[q] # None \/ timer'[q] = "entry" \/ ended'[q] \in {"failed", "refused"}
    <3>1. /\ RunIn(a) \in Run
          /\ wakes' = [wakes EXCEPT ![RunIn(a)] = @ \cup batch[a]]
          /\ entry' = [entry EXCEPT ![RunIn(a)] = s]
          /\ ended' = [ended EXCEPT ![RunIn(a)] = how]
          /\ running'[q] = running[q] /\ timer'[q] = timer[q]
      BY <2>4, EndsWaiting
    <3>2. QED
      BY <1>4, <2>1, <2>4, <3>1 DEF SerialStep, TypeOK
  <2>5. CASE Unsettled(a) /\ \E s \in {"queued", "held"} : \E how : EndBy(a, s, how)
    <3>1. running'[RunIn(a)] # None
      BY <2>5, DaemonAssumption DEF EndBy, SerialStep, Serial, RegisteredInv
    <3>2. QED
      BY <2>4, <2>5, <3>1
  <2>6. CASE \E how \in {"held", "refused", "failed"} : NotAcquired(a, how)
    <3>1. PICK how \in {"held", "refused", "failed"} : NotAcquired(a, how)
      BY <2>6
    <3>2. CASE q = RunIn(a)
      <4>1. CASE how = "held"
        <5>1. attached[a]
          BY <3>1 DEF NotAcquired, SerialStep, Serial, RegisteredInv, InPending, Unsettled
        <5>2. QED
          BY <2>1, <3>1, <3>2, <4>1, <5>1 DEF NotAcquired, SerialStep, TypeOK
      <4>2. CASE how # "held"
        BY <3>1, <3>2, <4>2 DEF NotAcquired, SerialStep, TypeOK
      <4>3. QED
        BY <4>1, <4>2
    <3>3. CASE q # RunIn(a)
      BY <2>4, <3>1, <3>3, CancelledStateType
    <3>4. QED
      BY <3>2, <3>3
  <2>7. CASE /\ pc[a] = "active" /\ ended' = [ended EXCEPT ![RunIn(a)] = "completed"]
             /\ UNCHANGED <<host, queue>>
    <3>1. running[RunIn(a)] # None
      BY <2>7, DaemonAssumption DEF SerialStep, Serial, RegisteredInv, Unsettled
    <3>2. QED
      BY <1>4, <2>1, <2>7, <3>1 DEF SerialStep, TypeOK
  <2>8. CASE Settle(a)
    <3>1. CASE q # RunIn(a)
      BY <1>4, <2>1, <2>8, <3>1, SettledEntry DEF SerialStep, TypeOK
    <3>2. CASE q = RunIn(a)
      <4>1. /\ pc[a] = "releasing" /\ ended' = ended
            /\ \/ timer'[q] = "entry"
               \/ ~retired[a] /\ entry[q] = "held"
        BY <2>1, <2>8, <3>2, SettledEntry
      <4>2. QED
        BY <2>1, <3>2, <4>1 DEF RetiredInv
    <3>3. QED
      BY <3>1, <3>2
  <2>9. QED
    BY <1>10, <2>2, <2>3, <2>5, <2>6, <2>7, <2>8, ActivationForms, CancelledStateType
<1>11. QED
  BY <1>1, <1>2, <1>3, <1>5, <1>7, <1>8, <1>9, <1>10
  DEF Next, WakeUp, NotQueued, OtherClaims, OtherEnds, Expires, vars

-------------------------------------------------------------------------------
\* The inductive invariant holds at the start.
LEMMA InitIInv == Init => IInv
<1> SUFFICES ASSUME Init PROVE IInv
  OBVIOUS
<1>1. TypeOK
  BY InitType
<1>2. AuthorityInv
  BY DEF Init, AuthorityInv
<1>3. RegisteredInv /\ StoppingInv
  BY DEF Init, RegisteredInv, StoppingInv, Unsettled
<1>4. ComingBack
  BY DaemonAssumption DEF Init, ComingBack, EntryInv, RetiredInv, QueueInv, HeldInv, Unsettled
<1>5. QED
  BY <1>1, <1>2, <1>3, <1>4 DEF Init, IInv, Serial

\* Two activations of a Run once overlapped have overlapped for ever.
LEMMA OverlapStays ==
  ASSUME TypeOK, overlapped, [Next]_vars
  PROVE  overlapped'
<1> USE DEF host, queue, activations, history
<1>1. CASE Start \/ Stop \/ FinishStop \/ UNCHANGED vars
  BY <1>1 DEF Start, Stop, FinishStop, vars
<1>2. CASE Pump
  BY <1>2 DEF Pump, Launch
<1>3. CASE \E w \in Wake : WakeUp(w) \/ NotQueued(w) \/ Admitted(w) \/ RestorePending(w)
  BY <1>3 DEF WakeUp, NotQueued, Admitted, RestorePending
<1>4. CASE \E r \in Run : RetryFires(r) \/ OtherClaims(r) \/ OtherEnds(r)
  BY <1>4 DEF RetryFires, OtherClaims, OtherEnds
<1>5. ASSUME NEW a \in Activation, ActivationStep(a) \/ Expires(a) PROVE overlapped'
  BY <1>5 DEF ActivationStep, Expires, ClaimAcquired, ClaimHeld, ClaimRefused, ClaimThrows,
              NotAcquired, Forget, Verified, NotVerified, RenewalLost, Activate, NotAsserted,
              BeginCommit, Committed, NotCommitted, Returns, Throws, EndBy, Settle
<1>6. QED
  BY <1>1, <1>2, <1>3, <1>4, <1>5 DEF Next

\* Every step keeps the inductive invariant.
LEMMA NextIInv == IInv /\ [Next]_vars => IInv'
<1> SUFFICES ASSUME IInv, [Next]_vars PROVE IInv'
  OBVIOUS
<1>1. TypeOK' /\ AuthorityInv'
  BY NextType, NextAuthority DEF IInv
<1>2. CASE overlapped
  BY <1>1, <1>2, OverlapStays DEF IInv
<1>3. CASE ~overlapped /\ ~overlapped'
  <2>1. SerialStep /\ ComingBack
    BY <1>1, <1>3 DEF IInv, SerialStep
  <2>2. ComingBack'
    BY <2>1, NextEntry, NextRetired, NextQueue, NextHeld DEF ComingBack
  <2>3. QED
    BY <1>1, <2>1, <2>2, NextSerial DEF IInv
<1>4. QED
  BY <1>1, <1>2, <1>3 DEF IInv

\* The invariant of every behaviour.
LEMMA Inductive == Spec => []IInv
  BY InitIInv, NextIInv, PTL DEF Spec

-------------------------------------------------------------------------------
\* The state of the scheduler and its activations has its type in every behaviour.
THEOREM TypeCorrect == Spec => []TypeOK
<1>1. IInv => TypeOK
  BY DEF IInv
<1>2. QED
  BY <1>1, Inductive, PTL

\* An admitted wake is in its Run's entry, with its activation or parked until an
\* activation has completed with it, however many Runs and places there are.
THEOREM NoWakeLost == Spec => []WakeKept
<1>1. IInv => WakeKept
  BY DEF IInv, Serial, Kept, WakeKept
<1>2. QED
  BY <1>1, Inductive, PTL

\* The host comes back to every Run with wakes: a queued one is in the queue with a pass
\* due or all places taken, a held one has an activation, a retry timer, or failed.
THEOREM NothingForgotten == Spec => []NoRunForgotten
<1>1. IInv => NoRunForgotten
  <2> SUFFICES ASSUME IInv, lifecycle = "running", ~overlapped, NEW r \in Run, wakes[r] # {}
               PROVE  CASE entry[r] = "queued" ->
                             Queued(ready, r) /\ (pumping \/ Full)
                        [] entry[r] = "held" ->
                             \/ running[r] # None
                             \/ timer[r] = "entry"
                             \/ ended[r] \in {"failed", "refused"}
                        [] OTHER -> running[r] # None
    BY DEF NoRunForgotten, Full
  <2>1. EntryInv /\ QueueInv /\ HeldInv
    BY DEF IInv, ComingBack
  <2>2. CASE entry[r] = "queued"
    BY <2>1, <2>2 DEF QueueInv
  <2>3. CASE entry[r] = "held"
    BY <2>1, <2>3 DEF HeldInv
  <2>4. CASE entry[r] = "running"
    BY <2>1, <2>4 DEF EntryInv
  <2>5. entry[r] # "absent" /\ entry[r] \in {"absent", "queued", "running", "held"}
    BY <2>1 DEF EntryInv, IInv, TypeOK
  <2>6. QED
    BY <2>2, <2>3, <2>4, <2>5
<1>2. QED
  BY <1>1, Inductive, PTL

\* A stopped host has no activation under way and no admission.
THEOREM StopWaits == Spec => []StopIsBarrier
<1>1. IInv => StopIsBarrier
  BY DEF IInv, Serial, StoppingInv, StopIsBarrier
<1>2. QED
  BY <1>1, Inductive, PTL

\* No commit begins under a lease that was reported lost.
THEOREM LostLeaseCommitsNothing == Spec => NoCommitAfterLoss
<1>1. IInv /\ [Next]_vars =>
        [\A a \in Activation : retired[a] /\ ~committing[a] => ~committing'[a]]_vars
  BY NextAuthority DEF IInv
<1>2. QED
  BY <1>1, Inductive, PTL DEF Spec, NoCommitAfterLoss
===============================================================================
