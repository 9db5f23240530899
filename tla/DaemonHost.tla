------------------------------ MODULE DaemonHost ------------------------------
(***************************************************************************)
(* The daemon host: it admits wakes of Runs, activates each Run with the   *)
(* wakes that wait for it under an execution lease, and gives the wakes of *)
(* an activation that failed back to the Run.                              *)
(*                                                                         *)
(* The host is one thread. Its methods run to their next await, and what   *)
(* it awaits (the admission of a wake, the lease store, the activator)     *)
(* answers at any time and in any order; each action below is the code     *)
(* between two awaits. The lease store is reduced to who holds a Run.      *)
(*                                                                         *)
(* Left out: attachments, events and waiters for idleness, which change no *)
(* scheduling, and the order of the wakes that are given to an activation. *)
(***************************************************************************)
EXTENDS Naturals, FiniteSets, Sequences

CONSTANTS
  Run,                        \* Runs
  Wake,                       \* wakes, each with its own dedupe key and input
  RunOf,                      \* the Run each wake is for
  MaxConcurrentActivations,   \* Runs activated at once
  MaxUnsettled,               \* unfinished activations of one Run (bound)
  Other,                      \* the lease is held by another host
  None                        \* nobody holds the lease, no activation runs

\* An activation is identified by its Run and a number, which is used again when
\* the activation has settled.
Activation == Run \X (1 .. MaxUnsettled)

\* The Run of an activation.
RunIn(a) == a[1]

ASSUME DaemonAssumption ==
  /\ IsFiniteSet(Run)
  /\ RunOf \in [Wake -> Run]
  /\ MaxConcurrentActivations \in Nat \ {0}
  /\ MaxUnsettled \in Nat \ {0}
  /\ Other \notin Activation /\ None \notin Activation /\ Other # None

VARIABLES
  lifecycle,   \* status of the host
  admitting,   \* wakes whose durable admission is under way
  awaited,     \* activations that stop() waits for
  entry,       \* state of the Run in `pending`, "absent" when it is not there
  wakes,       \* wakes of that entry
  parked,      \* wakes kept while the host is stopped
  ready,       \* queue of Runs to activate
  pumping,     \* a pump is scheduled
  running,     \* the registered activation of each Run
  timer,       \* retry timer of each Run, and whether it is for the Run's entry
  pc,          \* what each activation awaits
  batch,       \* wakes given to it
  attached,    \* it refers to the Run's present entry, not to a dropped one
  aborted,     \* its signal is aborted
  authority,   \* its commit authority is valid
  retired,     \* its lease is reported lost and a retry is due
  committing,  \* a guarded commit of its activator is under way
  lease,       \* who holds the execution lease of each Run
  accepted,    \* history: admitted wakes no completed activation has taken
  overlapped,  \* history: a Run was activated while another activation of it was unsettled
  ended        \* history: how the last attempt to activate a Run ended

host == <<lifecycle, admitting, awaited>>
queue == <<entry, wakes, parked, ready, pumping, running, timer>>
activations == <<pc, batch, attached, aborted, authority, retired, committing>>
history == <<accepted, overlapped, ended>>
vars == <<host, queue, activations, lease, history>>

Unsettled(a) == pc[a] # "settled"

TypeOK ==
  /\ lifecycle \in {"stopped", "running", "stopping"}
  /\ admitting \subseteq Wake
  /\ awaited \subseteq Activation
  /\ entry \in [Run -> {"absent", "queued", "running", "held"}]
  /\ wakes \in [Run -> SUBSET Wake]
  /\ parked \in [Run -> SUBSET Wake]
  /\ ready \in Seq(Run)
  /\ pumping \in BOOLEAN
  /\ running \in [Run -> Activation \cup {None}]
  /\ timer \in [Run -> {"none", "entry", "dropped"}]
  /\ pc \in [Activation -> {"settled", "claiming", "verifying", "asserting",
                            "active", "releasing"}]
  /\ batch \in [Activation -> SUBSET Wake]
  /\ attached \in [Activation -> BOOLEAN]
  /\ aborted \in [Activation -> BOOLEAN]
  /\ authority \in [Activation -> BOOLEAN]
  /\ retired \in [Activation -> BOOLEAN]
  /\ committing \in [Activation -> BOOLEAN]
  /\ lease \in [Run -> Activation \cup {Other, None}]
  /\ accepted \subseteq Wake
  /\ overlapped \in BOOLEAN
  /\ ended \in [Run -> {"never", "completed", "cancelled", "failed", "lost", "refused", "held"}]

Init ==
  /\ lifecycle = "stopped"
  /\ admitting = {}
  /\ awaited = {}
  /\ entry = [r \in Run |-> "absent"]
  /\ wakes = [r \in Run |-> {}]
  /\ parked = [r \in Run |-> {}]
  /\ ready = << >>
  /\ pumping = FALSE
  /\ running = [r \in Run |-> None]
  /\ timer = [r \in Run |-> "none"]
  /\ pc = [a \in Activation |-> "settled"]
  /\ batch = [a \in Activation |-> {}]
  /\ attached = [a \in Activation |-> FALSE]
  /\ aborted = [a \in Activation |-> FALSE]
  /\ authority = [a \in Activation |-> TRUE]
  /\ retired = [a \in Activation |-> FALSE]
  /\ committing = [a \in Activation |-> FALSE]
  /\ lease = [r \in Run |-> None]
  /\ accepted = {}
  /\ overlapped = FALSE
  /\ ended = [r \in Run |-> "never"]

-------------------------------------------------------------------------------
(* The queue of Runs *)

Queued(q, r) == \E i \in DOMAIN q : q[i] = r

\* The queue with r in it.
WithReady(r) == IF Queued(ready, r) THEN ready ELSE Append(ready, r)

\* pump(): schedule a pass over the queue unless one is scheduled.
SchedulePump == pumping' = (pumping \/ lifecycle = "running")

\* A pass over the queue starts r.
Startable(r) == entry[r] \notin {"absent", "running"} /\ wakes[r] # {}

StartedBy(k) == {ready[i] : i \in {j \in 1 .. k : Startable(ready[j])}}

Occupied(k) == {r \in Run : running[r] # None} \cup StartedBy(k)

\* A pass takes the first k Runs off the queue: all of it, or as many as fill the places.
Takes(k) ==
  /\ k = Len(ready) \/ Cardinality(Occupied(k)) >= MaxConcurrentActivations
  /\ \A j \in 0 .. k - 1 : Cardinality(Occupied(j)) < MaxConcurrentActivations

\* The activation that is given to Run r next.
Fresh(r) == CHOOSE a \in {r} \X (1 .. MaxUnsettled) : ~Unsettled(a)

\* Run r has such an activation, within the bound.
Bounded(r) == \E a \in {r} \X (1 .. MaxUnsettled) : ~Unsettled(a)

\* The Runs in `started` leave `pending` for an activation with the wakes that waited.
\* Whether a Run has another activation that is not yet settled is not asked.
Launch(started) ==
  LET new == {Fresh(r) : r \in started} IN
  /\ \A r \in started : Bounded(r)
  /\ running' = [r \in Run |-> IF r \in started THEN Fresh(r) ELSE running[r]]
  /\ entry' = [r \in Run |-> IF r \in started THEN "running" ELSE entry[r]]
  /\ wakes' = [r \in Run |-> IF r \in started THEN {} ELSE wakes[r]]
  /\ timer' = [r \in Run |-> IF r \in started THEN "none" ELSE timer[r]]
  /\ pc' = [a \in Activation |-> IF a \in new THEN "claiming" ELSE pc[a]]
  /\ batch' = [a \in Activation |-> IF a \in new THEN wakes[RunIn(a)] ELSE batch[a]]
  /\ attached' = [a \in Activation |-> a \in new \/ attached[a]]
  /\ overlapped' = (overlapped \/ \E a \in Activation : RunIn(a) \in started /\ Unsettled(a))

\* The pass: activate Runs from the front of the queue while there are places.
Pump ==
  /\ pumping
  /\ pumping' = FALSE
  /\ IF lifecycle = "running"
     THEN \E k \in 0 .. Len(ready) :
            /\ Takes(k)
            /\ ready' = SubSeq(ready, k + 1, Len(ready))
            /\ Launch(StartedBy(k))
     ELSE UNCHANGED <<ready, running, entry, wakes, timer, pc, batch, attached, overlapped>>
  /\ UNCHANGED <<host, parked, aborted, authority, retired, committing, lease, accepted, ended>>

-------------------------------------------------------------------------------
(* Wakes *)

\* wake(): the durable admission of w begins.
WakeUp(w) ==
  /\ lifecycle = "running"
  /\ w \notin admitting
  /\ admitting' = admitting \cup {w}
  /\ UNCHANGED <<lifecycle, awaited, queue, activations, lease, history>>

\* The admission fails, or finds an input that needs no activation.
NotQueued(w) ==
  /\ w \in admitting
  /\ admitting' = admitting \ {w}
  /\ UNCHANGED <<lifecycle, awaited, queue, activations, lease, history>>

\* The registered activation of w's Run was given w.
ActiveHas(w) ==
  /\ running[RunOf[w]] # None
  /\ w \in batch[running[RunOf[w]]]

\* enqueueWake: put w into the entry of its Run, and the Run into the queue.
EnqueueWake(w) ==
  LET r == RunOf[w] IN
  /\ wakes' = [wakes EXCEPT ![r] = IF ActiveHas(w) THEN @ ELSE @ \cup {w}]
  /\ IF entry[r] = "running"
     THEN UNCHANGED <<entry, ready, timer>>
     ELSE /\ entry' = [entry EXCEPT ![r] = "queued"]
          /\ ready' = WithReady(r)
          /\ timer' = IF entry[r] = "held" THEN [timer EXCEPT ![r] = "none"] ELSE timer
  /\ SchedulePump
  /\ UNCHANGED <<parked, running>>

\* parkWake: the host is stopping, w waits for the next start.
ParkWake(w) ==
  /\ parked' = [parked EXCEPT ![RunOf[w]] = @ \cup {w}]
  /\ UNCHANGED <<entry, wakes, ready, pumping, running, timer>>

\* A completed activation that is not yet settled has taken w.
Consumed(w) == \E a \in Activation : pc[a] = "releasing" /\ w \in batch[a] \ accepted

\* The admission of w has succeeded.
Admitted(w) ==
  /\ w \in admitting
  /\ admitting' = admitting \ {w}
  /\ accepted' = IF Consumed(w) THEN accepted ELSE accepted \cup {w}
  /\ IF lifecycle = "running" THEN EnqueueWake(w) ELSE ParkWake(w)
  /\ UNCHANGED <<lifecycle, awaited, activations, lease, overlapped, ended>>

\* restorePending: w is an input of the ledger that is still to be taken. A wake
\* the host knows already changes nothing, not even for a held Run.
RestorePending(w) ==
  LET r == RunOf[w] IN
  /\ lifecycle = "running"
  /\ accepted' = IF Consumed(w) THEN accepted ELSE accepted \cup {w}
  /\ IF w \in wakes[r] \/ ActiveHas(w)
     THEN /\ entry' = [entry EXCEPT ![r] = IF @ = "absent" THEN "queued" ELSE @]
          /\ UNCHANGED <<wakes, parked, ready, pumping, running, timer>>
     ELSE EnqueueWake(w)
  /\ UNCHANGED <<host, activations, lease, overlapped, ended>>

\* RetryFires as it would be if it left the Run held until the next wake.
FaultyRetryFires(r) ==
  /\ timer[r] # "none"
  /\ timer' = [timer EXCEPT ![r] = "none"]
  /\ UNCHANGED <<host, entry, wakes, parked, ready, pumping, running, activations, lease, history>>

\* The retry timer of Run r fires.
RetryFires(r) ==
  /\ timer[r] # "none"
  /\ timer' = [timer EXCEPT ![r] = "none"]
  /\ IF lifecycle = "running" /\ timer[r] = "entry" /\ entry[r] = "held" /\ wakes[r] # {}
     THEN /\ entry' = [entry EXCEPT ![r] = "queued"]
          /\ ready' = WithReady(r)
          /\ SchedulePump
     ELSE UNCHANGED <<entry, ready, pumping>>
  /\ UNCHANGED <<host, wakes, parked, running, activations, lease, history>>

-------------------------------------------------------------------------------
(* Start and stop *)

\* start(): parked wakes return, their Runs in the order they were parked.
Start ==
  LET back == {r \in Run : parked[r] # {}} IN
  /\ lifecycle = "stopped"
  /\ lifecycle' = "running"
  /\ entry' = [r \in Run |-> IF r \in back THEN "queued" ELSE entry[r]]
  /\ wakes' = [r \in Run |-> wakes[r] \cup parked[r]]
  /\ parked' = [r \in Run |-> {}]
  /\ \E order \in [1 .. Cardinality(back) -> back] :
       /\ \A r \in back : Queued(order, r)
       /\ ready' = ready \o order
  /\ pumping' = TRUE
  /\ UNCHANGED <<admitting, awaited, running, timer, activations, lease, history>>

\* stop(): no more retries; every registered activation is told to end.
Stop ==
  LET told == {running[r] : r \in Run} \ {None} IN
  /\ lifecycle = "running"
  /\ lifecycle' = "stopping"
  /\ awaited' = told
  /\ timer' = [r \in Run |-> "none"]
  /\ aborted' = [a \in Activation |-> a \in told \/ aborted[a]]
  /\ UNCHANGED <<admitting, entry, wakes, parked, ready, pumping, running,
                 pc, batch, attached, authority, retired, committing, lease, history>>

\* finishStop as it would be if it did not wait for admissions that had begun.
FaultyFinishStop ==
  /\ lifecycle = "stopping"
  /\ awaited = {}
  /\ lifecycle' = "stopped"
  /\ parked' = wakes
  /\ entry' = [r \in Run |-> "absent"]
  /\ wakes' = [r \in Run |-> {}]
  /\ ready' = << >>
  /\ attached' = [a \in Activation |-> attached[a] /\ wakes[RunIn(a)] # {}]
  /\ UNCHANGED <<admitting, awaited, pumping, running, timer,
                 pc, batch, aborted, authority, retired, committing, lease, history>>

\* finishStop: the activations have settled and the admissions too. What waits is
\* parked; an entry without wakes is dropped.
FinishStop ==
  /\ lifecycle = "stopping"
  /\ awaited = {}
  /\ admitting = {}
  /\ lifecycle' = "stopped"
  /\ parked' = [r \in Run |-> parked[r] \cup wakes[r]]
  /\ entry' = [r \in Run |-> "absent"]
  /\ wakes' = [r \in Run |-> {}]
  /\ ready' = << >>
  /\ attached' = [a \in Activation |-> attached[a] /\ wakes[RunIn(a)] # {}]
  /\ UNCHANGED <<admitting, awaited, pumping, running, timer,
                 pc, batch, aborted, authority, retired, committing, lease, history>>

-------------------------------------------------------------------------------
(* An activation *)

\* Its entry is the one of its Run in `pending`.
InPending(a) == attached[a] /\ entry[RunIn(a)] # "absent"

\* prependUniqueWakes: the entry gets the wakes of a back and is in state s. The
\* entry may have been parked, or dropped, in which case nobody sees it again.
PutBack(a, s) ==
  LET r == RunIn(a) IN
  /\ wakes' = IF InPending(a) THEN [wakes EXCEPT ![r] = @ \cup batch[a]] ELSE wakes
  /\ entry' = IF InPending(a) THEN [entry EXCEPT ![r] = s] ELSE entry
  /\ parked' = IF attached[a] /\ ~InPending(a)
               THEN [parked EXCEPT ![r] = @ \cup batch[a]] ELSE parked

\* The state of an entry whose activation was cancelled.
CancelledState == IF lifecycle = "running" THEN "held" ELSE "queued"

\* The promise of a is settled; its number is free.
Forget(a) ==
  /\ pc' = [pc EXCEPT ![a] = "settled"]
  /\ batch' = [batch EXCEPT ![a] = {}]
  /\ aborted' = [aborted EXCEPT ![a] = FALSE]
  /\ authority' = [authority EXCEPT ![a] = TRUE]
  /\ retired' = [retired EXCEPT ![a] = FALSE]
  /\ running' = [running EXCEPT ![RunIn(a)] = None]
  /\ awaited' = awaited \ {a}
  /\ SchedulePump
  /\ UNCHANGED <<lifecycle, admitting, committing, accepted, overlapped>>

\* The claim is answered: the lease is granted.
ClaimAcquired(a) ==
  /\ pc[a] = "claiming"
  /\ lease[RunIn(a)] = None
  /\ lease' = [lease EXCEPT ![RunIn(a)] = a]
  /\ pc' = [pc EXCEPT ![a] = "verifying"]
  /\ UNCHANGED <<host, queue, batch, attached, aborted, authority, retired, committing, history>>

\* The claim is answered without a lease, or throws: the wakes go back and the
\* activation ends at once. Only a holder's expiry is worth a timer.
NotAcquired(a, how) ==
  LET r == RunIn(a) IN
  /\ pc[a] = "claiming"
  /\ PutBack(a, CancelledState)
  /\ timer' = IF how = "held" /\ lifecycle = "running"
              THEN [timer EXCEPT ![r] = IF attached[a] THEN "entry" ELSE "dropped"]
              ELSE timer
  /\ ended' = [ended EXCEPT ![r] = how]
  /\ Forget(a)
  /\ attached' = [attached EXCEPT ![a] = FALSE]
  /\ UNCHANGED ready

\* Somebody holds the lease, perhaps an activation of this host.
ClaimHeld(a) ==
  /\ lease[RunIn(a)] # None
  /\ NotAcquired(a, "held")
  /\ UNCHANGED lease

\* The store's clock is behind its watermark.
ClaimRefused(a) ==
  /\ NotAcquired(a, "refused")
  /\ UNCHANGED lease

\* The store fails; it may have granted the lease, which nobody then uses.
ClaimThrows(a) ==
  /\ NotAcquired(a, "failed")
  /\ \/ UNCHANGED lease
     \/ lease[RunIn(a)] = None /\ lease' = [lease EXCEPT ![RunIn(a)] = Other]

\* The activation ends, with its wakes back in the entry, and gives up the lease.
EndBy(a, s, how) ==
  /\ PutBack(a, s)
  /\ pc' = [pc EXCEPT ![a] = "releasing"]
  /\ ended' = [ended EXCEPT ![RunIn(a)] = how]
  /\ UNCHANGED <<host, ready, pumping, running, timer, batch, attached, committing,
                 lease, accepted, overlapped>>

\* recordLeaseFailure as it would be if it only reported the loss.
FaultyRecordLeaseFailure(a) ==
  /\ retired' = [retired EXCEPT ![a] = TRUE]
  /\ UNCHANGED authority

\* recordLeaseFailure: the loss is reported, to be retried, and nothing more is
\* committed.
RecordLeaseFailure(a) ==
  /\ authority' = [authority EXCEPT ![a] = FALSE]
  /\ retired' = [retired EXCEPT ![a] = TRUE]

\* The fresh lease is verified. Unless the host is stopping it is asserted again,
\* with its renewal running.
Verified(a) ==
  /\ pc[a] = "verifying"
  /\ lease[RunIn(a)] = a
  /\ IF aborted[a] \/ lifecycle # "running"
     THEN /\ EndBy(a, CancelledState, "cancelled")
          /\ UNCHANGED <<aborted, authority, retired>>
     ELSE /\ pc' = [pc EXCEPT ![a] = "asserting"]
          /\ UNCHANGED <<host, queue, batch, attached, aborted, authority, retired, committing,
                         lease, history>>

\* The lease is found lost, or the store fails.
NotVerified(a) ==
  /\ pc[a] = "verifying"
  /\ RecordLeaseFailure(a)
  /\ EndBy(a, "held", "lost")
  /\ UNCHANGED aborted

\* A renewal is refused or fails, with the activation or its commits under way.
RenewalLost(a) ==
  /\ pc[a] \in {"asserting", "active"}
  /\ RecordLeaseFailure(a)
  /\ aborted' = [aborted EXCEPT ![a] = TRUE]
  /\ UNCHANGED <<host, queue, pc, batch, attached, committing, lease, history>>

\* assertLease holds and the activator is called.
Activate(a) ==
  /\ pc[a] = "asserting"
  /\ lease[RunIn(a)] = a
  /\ pc' = [pc EXCEPT ![a] = "active"]
  /\ UNCHANGED <<host, queue, batch, attached, aborted, authority, retired, committing, lease, history>>

\* assertLease fails before the activator is called.
NotAsserted(a) ==
  /\ pc[a] = "asserting"
  /\ RecordLeaseFailure(a)
  /\ aborted' = [aborted EXCEPT ![a] = TRUE]
  /\ EndBy(a, "held", "lost")

\* The activator calls commitLease, which has not been revoked.
BeginCommit(a) ==
  /\ pc[a] = "active"
  /\ ~committing[a]
  /\ authority[a]
  /\ committing' = [committing EXCEPT ![a] = TRUE]
  /\ UNCHANGED <<host, queue, pc, batch, attached, aborted, authority, retired, lease, history>>

\* The store has run the commit under the lease.
Committed(a) ==
  /\ committing[a]
  /\ lease[RunIn(a)] = a
  /\ committing' = [committing EXCEPT ![a] = FALSE]
  /\ UNCHANGED <<host, queue, pc, batch, attached, aborted, authority, retired, lease, history>>

\* The lease is lost, or the commit throws: whether it is durable is unknown.
NotCommitted(a) ==
  /\ committing[a]
  /\ committing' = [committing EXCEPT ![a] = FALSE]
  /\ RecordLeaseFailure(a)
  /\ aborted' = [aborted EXCEPT ![a] = TRUE]
  /\ UNCHANGED <<host, queue, pc, batch, attached, lease, history>>

\* Returns as it would be if a lost lease did not cancel.
FaultyReturns(a) ==
  /\ pc[a] = "active"
  /\ ~committing[a]
  /\ IF lifecycle # "running"
     THEN EndBy(a, CancelledState, "cancelled")
     ELSE /\ pc' = [pc EXCEPT ![a] = "releasing"]
          /\ ended' = [ended EXCEPT ![RunIn(a)] = "cancelled"]
          /\ UNCHANGED <<host, queue, batch, attached, committing, lease, accepted, overlapped>>
  /\ UNCHANGED <<aborted, authority, retired>>

\* The activator returns. If it was cancelled its wakes go back.
Returns(a) ==
  /\ pc[a] = "active"
  /\ ~committing[a]
  /\ IF aborted[a] \/ lifecycle # "running"
     THEN /\ EndBy(a, CancelledState, "cancelled")
          /\ UNCHANGED <<aborted, authority, retired>>
     ELSE /\ pc' = [pc EXCEPT ![a] = "releasing"]
          /\ accepted' = accepted \ batch[a]
          /\ ended' = [ended EXCEPT ![RunIn(a)] = "completed"]
          /\ UNCHANGED <<host, queue, batch, attached, aborted, authority, retired, committing,
                         lease, overlapped>>

\* The activator throws: its wakes go back and wait for another wake.
Throws(a) ==
  /\ pc[a] = "active"
  /\ ~committing[a]
  /\ EndBy(a, "held", IF retired[a] THEN "lost" ELSE "failed")
  /\ UNCHANGED <<aborted, authority, retired>>

\* Settle as it would be if a failed lease were retried like a failed activator.
FaultySettle(a) ==
  LET r == RunIn(a)
      waits == InPending(a) /\ wakes[r] # {}
      again == waits /\ lifecycle = "running" /\ entry[r] # "held"
      drop == InPending(a) /\ wakes[r] = {} /\ entry[r] # "held"
  IN
  /\ pc[a] = "releasing"
  /\ \E left \in {None, Other} :
       lease' = [lease EXCEPT ![r] = IF @ = a THEN left ELSE @]
  /\ entry' = [entry EXCEPT ![r] =
                 IF drop THEN "absent"
                 ELSE IF again \/ (waits /\ lifecycle # "running") THEN "queued" ELSE @]
  /\ timer' = [timer EXCEPT ![r] = IF drop THEN "none" ELSE @]
  /\ ready' = IF again THEN WithReady(r) ELSE ready
  /\ attached' = [b \in Activation |-> attached[b] /\ b # a /\ ~(drop /\ RunIn(b) = r)]
  /\ Forget(a)
  /\ UNCHANGED <<wakes, parked, ended>>

\* The lease is released, or its release fails and it stays until it expires, like
\* a stranger's; the activation settles: its Run
\* is queued when wakes came meanwhile, retried when the lease failed, and left
\* alone when it is held.
Settle(a) ==
  LET r == RunIn(a)
      waits == InPending(a) /\ wakes[r] # {}
      again == waits /\ lifecycle = "running" /\ ~retired[a] /\ entry[r] # "held"
      drop == InPending(a) /\ wakes[r] = {} /\ entry[r] # "held"
  IN
  /\ pc[a] = "releasing"
  /\ \E left \in {None, Other} :
       lease' = [lease EXCEPT ![r] = IF @ = a THEN left ELSE @]
  /\ entry' = [entry EXCEPT ![r] =
                 IF drop THEN "absent"
                 ELSE IF again \/ (waits /\ lifecycle # "running") THEN "queued"
                 ELSE IF waits THEN "held" ELSE @]
  /\ timer' = [timer EXCEPT ![r] =
                 IF waits /\ lifecycle = "running" /\ retired[a] THEN "entry"
                 ELSE IF drop THEN "none" ELSE @]
  /\ ready' = IF again THEN WithReady(r) ELSE ready
  /\ attached' = [b \in Activation |-> attached[b] /\ b # a /\ ~(drop /\ RunIn(b) = r)]
  /\ Forget(a)
  /\ UNCHANGED <<wakes, parked, ended>>

-------------------------------------------------------------------------------
(* Other hosts, and time *)

\* Another host is granted the lease of Run r.
OtherClaims(r) ==
  /\ lease[r] = None
  /\ lease' = [lease EXCEPT ![r] = Other]
  /\ UNCHANGED <<host, queue, activations, history>>

\* The other host releases it, or it expires.
OtherEnds(r) ==
  /\ lease[r] = Other
  /\ lease' = [lease EXCEPT ![r] = None]
  /\ UNCHANGED <<host, queue, activations, history>>

\* The lease of an activation expires under it.
Expires(a) ==
  /\ lease[RunIn(a)] = a
  /\ lease' = [lease EXCEPT ![RunIn(a)] = None]
  /\ UNCHANGED <<host, queue, activations, history>>

\* The code between the awaits of an activation.
ActivationStep(a) ==
  \/ ClaimAcquired(a) \/ ClaimHeld(a) \/ ClaimRefused(a) \/ ClaimThrows(a)
  \/ Verified(a) \/ NotVerified(a)
  \/ RenewalLost(a)
  \/ Activate(a) \/ NotAsserted(a)
  \/ BeginCommit(a) \/ Committed(a) \/ NotCommitted(a)
  \/ Returns(a) \/ Throws(a)
  \/ Settle(a)

Next ==
  \/ Start \/ Stop \/ FinishStop
  \/ Pump
  \/ \E w \in Wake : WakeUp(w) \/ NotQueued(w) \/ Admitted(w) \/ RestorePending(w)
  \/ \E r \in Run : RetryFires(r) \/ OtherClaims(r) \/ OtherEnds(r)
  \/ \E a \in Activation : ActivationStep(a) \/ Expires(a)

(***************************************************************************)
(* Fairness: what is scheduled runs, a call of the lease store is answered, *)
(* and an activator that is called ends. Strong fairness for the good      *)
(* answers: a store that is asked again and again does not fail each time, *)
(* and a lease that is free again and again is not always another's first. *)
(***************************************************************************)
Fairness ==
  /\ WF_vars(Pump)
  /\ \A r \in Run : WF_vars(RetryFires(r)) /\ WF_vars(OtherEnds(r))
  /\ \A a \in Activation :
       /\ WF_vars(ClaimHeld(a) \/ ClaimRefused(a) \/ ClaimThrows(a))
       /\ WF_vars(NotVerified(a))
       /\ WF_vars(NotAsserted(a))
       /\ WF_vars(Committed(a) \/ NotCommitted(a))
       /\ WF_vars(Settle(a))
       /\ SF_vars(ClaimAcquired(a))
       /\ SF_vars(Verified(a))
       /\ SF_vars(Activate(a))
       /\ SF_vars(Returns(a) \/ Throws(a))

Spec == Init /\ [][Next]_vars

FairSpec == Spec /\ Fairness

-------------------------------------------------------------------------------
(* Properties *)

\* "One Run has at most one activation in this host" (the comment above the class,
\* and what serializing a Run in pump is for).
OneActivationPerRun ==
  \A r \in Run : \A a, b \in {r} \X (1 .. MaxUnsettled) :
    Unsettled(a) /\ Unsettled(b) => a = b

\* An admitted wake is not lost: until an activation has completed with it, it is
\* in the entry of its Run, parked, or with the Run's registered activation. (Not
\* so once two activations of a Run have overlapped: the first to settle drops the
\* entry the other still refers to.)
WakeKept ==
  overlapped \/ \A w \in accepted :
    LET r == RunOf[w] IN
    \/ w \in wakes[r] /\ entry[r] # "absent"
    \/ w \in parked[r] /\ lifecycle # "running"
    \/ ActiveHas(w) /\ pc[running[r]] \notin {"settled", "releasing"}

\* While the host runs it comes back to every Run with wakes: through its queue, at
\* the end of its activation or by its retry timer. The Runs that are left held are
\* those whose activator or claim failed and those the store's clock refused.
NoRunForgotten ==
  lifecycle = "running" /\ ~overlapped =>
    \A r \in Run : wakes[r] # {} =>
      CASE entry[r] = "queued" ->
             /\ Queued(ready, r)
             /\ \/ pumping
                \/ Cardinality({q \in Run : running[q] # None}) >= MaxConcurrentActivations
        [] entry[r] = "held" ->
             \/ running[r] # None
             \/ timer[r] = "entry"
             \/ ended[r] \in {"failed", "refused"}
        [] OTHER -> running[r] # None

\* stop() is a barrier: in a stopped host no activation goes on and no admission is
\* under way, so that a start, perhaps by another process, finds every wake.
StopIsBarrier ==
  lifecycle = "stopped" /\ ~overlapped =>
    /\ admitting = {}
    /\ \A a \in Activation : ~Unsettled(a)

\* What an activation does after its lease was reported lost, by a renewal, an
\* assertion or a commit that threw, is not committed: no commit begins then, though
\* the store may still hold the lease and the abort listeners still write.
NoCommitAfterLoss ==
  [][\A a \in Activation : retired[a] /\ ~committing[a] => ~committing'[a]]_vars

Handed(w) == \E a \in Activation : w \in batch[a] /\ pc[a] = "active"

LeftHeld(r) ==
  /\ entry[r] = "held" /\ timer[r] = "none" /\ running[r] = None
  /\ ended[r] \in {"failed", "refused"}

\* A wake that waits is given to an activator, whatever becomes of leases, once other
\* hosts leave its Run alone, unless this host stops or the Run is left held.
WakeActivated ==
  \A w \in Wake :
    <>[](lease[RunOf[w]] # Other) =>
      (w \in wakes[RunOf[w]] ~>
         Handed(w) \/ lifecycle # "running" \/ LeftHeld(RunOf[w]) \/ overlapped)
===============================================================================
