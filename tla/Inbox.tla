-------------------------------- MODULE Inbox --------------------------------
(***************************************************************************)
(* The A2A inbox of a Run (A2AInbox, InboxProjector): lanes send each      *)
(* other messages, a lane claims those it will work on for a limited time, *)
(* and handles them. Every change is an event of the Run's ledger; the     *)
(* inbox decides on a projection of them, which a new process rebuilds.    *)
(*                                                                         *)
(* Commands run one at a time (runExclusive). A command decides what to    *)
(* append from the projection at its start and then appends it event by    *)
(* event, and the process may die, or the ledger fail, at each of them.    *)
(* Repetitions, with the same content or another, are found by the         *)
(* idempotency key of the event (LedgerState.prepare).                     *)
(***************************************************************************)
EXTENDS Naturals, Sequences, FiniteSets, SequencesExt

CONSTANTS
  Message,        \* message ids
  Logical(_),     \* what a message says, the same when a sender repeats it under another id
  Advice,         \* messages that propose advice
  Topic(_),       \* source lane and dedupe key of an advice
  ExpiresAt(_),   \* time from which a message is not delivered
  Lane,           \* lanes that claim
  ClaimId,        \* claim ids callers use
  Disposition,    \* what advice is acknowledged with
  LeaseTime,      \* claimLeaseMs
  ClaimLimit,     \* messages of one claim
  MaxTime,        \* the clock reads 0..MaxTime (bound)
  MaxClaims,      \* claims in the ledger (bound)
  MaxStops,       \* deaths of the process and failures of the ledger (bound)
  NoClaim,        \* the message is not claimed
  NoAck           \* the advice is not acknowledged

ASSUME InboxAssumption ==
  /\ Advice \subseteq Message
  /\ LeaseTime \in Nat \ {0}
  /\ ClaimLimit \in Nat \ {0}
  /\ MaxTime \in Nat
  /\ MaxClaims \in Nat
  /\ MaxStops \in Nat
  /\ \A m \in Message : ExpiresAt(m) \in Nat
  /\ NoAck \notin Disposition

VARIABLES
  now,      \* the clock
  up,       \* a process has the inbox open and its ledger takes appends
  ledger,   \* the message events of the Run
  records,  \* InboxProjector: what the events say of each message
  todo,     \* events the command under way has still to append
  stops     \* deaths and failures so far

vars == <<now, up, ledger, records, todo, stops>>

Claim == [id : ClaimId, lane : Lane, at : 0 .. MaxTime, attempt : 1 .. MaxClaims]
ASSUME ClaimAssumption == NoClaim \notin Claim

Event ==
  [type : {"sent"}, message : Message]
    \cup [type : {"claimed"}, message : Message, claim : Claim]
    \cup [type : {"reclaimed"}, message : Message, claim : Claim]
    \cup [type : {"handled"}, message : Message, lane : Lane]
    \cup [type : {"acknowledged"}, message : Advice, disposition : Disposition]

Record == [status : {"unsent", "pending", "claimed", "handled"},
           claim : Claim \cup {NoClaim},
           attempts : 0 .. MaxClaims,
           ack : Disposition \cup {NoAck}]

TypeOK ==
  /\ now \in 0 .. MaxTime
  /\ up \in BOOLEAN
  /\ ledger \in Seq(Event)
  /\ records \in [Message -> Record]
  /\ todo \in Seq(Event)
  /\ stops \in 0 .. MaxStops

-------------------------------------------------------------------------------
(* The projection *)

Empty == [m \in Message |->
            [status |-> "unsent", claim |-> NoClaim, attempts |-> 0, ack |-> NoAck]]

\* applySent: the first message with this content; a repetition is ignored.
ApplySent(r, m) ==
  IF \E n \in Message : Logical(n) = Logical(m) /\ r[n].status # "unsent"
    THEN r
    ELSE [r EXCEPT ![m].status = "pending"]

\* applyClaimed: the projection counts the attempts itself.
ApplyClaimed(r, m, claim) ==
  IF r[m].status = "handled"
    THEN r
    ELSE [r EXCEPT ![m].status = "claimed",
                   ![m].attempts = @ + 1,
                   ![m].claim = [claim EXCEPT !.attempt = r[m].attempts + 1]]

\* Definitions marked "Faulty" are mistakes this code could have made. No
\* behaviour of the module uses them; they show what the properties reject.

\* Faulty: the count of attempts starts again.
FaultyApplyReclaimed(r, m) ==
  [r EXCEPT ![m].status = "pending", ![m].claim = NoClaim, ![m].attempts = 0]

\* applyReclaimed: the claim goes, the count of attempts stays.
ApplyReclaimed(r, m) ==
  [r EXCEPT ![m].status = "pending", ![m].claim = NoClaim]

Apply(r, e) ==
  CASE e.type = "sent"         -> ApplySent(r, e.message)
    [] e.type = "claimed"      -> ApplyClaimed(r, e.message, e.claim)
    [] e.type = "reclaimed"    -> ApplyReclaimed(r, e.message)
    [] e.type = "handled"      -> [r EXCEPT ![e.message].status = "handled"]
    [] e.type = "acknowledged" -> [r EXCEPT ![e.message].ack = e.disposition]

\* An event the projector does not throw on.
Applicable(r, e) ==
  /\ e.type # "sent" => r[e.message].status # "unsent"
  /\ e.type = "reclaimed" => /\ r[e.message].status = "claimed"
                             /\ r[e.message].claim = e.claim
  /\ e.type = "handled" => /\ r[e.message].status = "claimed"
                           /\ r[e.message].claim.lane = e.lane

\* rehydrate: the projection after each of the events, in the order of their
\* offsets, and after all of them.
Projections(events) ==
  LET after[i \in 0 .. Len(events)] ==
        IF i = 0 THEN Empty ELSE Apply(after[i - 1], events[i])
  IN  after

Replay(events) == Projections(events)[Len(events)]

-------------------------------------------------------------------------------
(* The ledger *)

\* The idempotency key, and what the fingerprint compares under it.
Key(e) ==
  CASE e.type = "sent"         -> <<"send", Logical(e.message)>>
    [] e.type = "claimed"      -> <<"claim", e.claim.id, e.message, e.claim.attempt>>
    [] e.type = "reclaimed"    -> <<"reclaim", e.message, e.claim.id>>
    [] e.type = "handled"      -> <<"handle", e.message>>
    [] e.type = "acknowledged" -> <<"ack", e.message>>

SameCommand(e, f) ==
  IF e.type = "claimed" THEN e.claim.lane = f.claim.lane ELSE e = f

Earlier(e) == {i \in DOMAIN ledger : Key(ledger[i]) = Key(e)}

Claims == Cardinality({i \in DOMAIN ledger : ledger[i].type = "claimed"})

Init ==
  /\ now = 0
  /\ up = TRUE
  /\ ledger = << >>
  /\ records = Empty
  /\ todo = << >>
  /\ stops = 0

-------------------------------------------------------------------------------
(* Commands. Those that change nothing are steps of nobody. *)

Ready == up /\ todo = << >>

Begin(events) ==
  /\ todo' = events
  /\ UNCHANGED <<now, up, ledger, records, stops>>

Expired(m) == ExpiresAt(m) <= now

\* sendCommand: new content, in time, and no advice on the topic is still open.
Send(m) ==
  /\ Ready
  /\ \A n \in Message : Logical(n) = Logical(m) => records[n].status = "unsent"
  /\ ~Expired(m)
  /\ m \in Advice =>
       \A n \in Advice : Topic(n) = Topic(m) => records[n].status = "unsent" \/ Expired(n)
  /\ Begin(<<[type |-> "sent", message |-> m]>>)

\* Faulty: a claim is no obstacle, however young.
FaultyClaimable(m) == records[m].status \in {"pending", "claimed"} /\ ~Expired(m)

\* isClaimable
Claimable(m) ==
  /\ records[m].status \in {"pending", "claimed"}
  /\ ~Expired(m)
  /\ records[m].claim # NoClaim => records[m].claim.at + LeaseTime <= now

\* Faulty: attempts count from 0.
FaultyNextAttempt(m) == IF records[m].claim = NoClaim THEN 0 ELSE records[m].claim.attempt + 1

NextAttempt(m) == IF records[m].claim = NoClaim THEN 1 ELSE records[m].claim.attempt + 1

ClaimEvent(m, id, lane) ==
  [type |-> "claimed", message |-> m,
   claim |-> [id |-> id, lane |-> lane, at |-> now, attempt |-> NextAttempt(m)]]

\* claimCommand: some of what the caller's filters and limit leave. A claim id
\* that a message carries gets that message again.
ClaimSome(id, lane) ==
  /\ Ready
  /\ \A m \in Message : records[m].claim # NoClaim => records[m].claim.id # id
  /\ \E some \in SUBSET {m \in Message : Claimable(m)} :
       /\ Cardinality(some) \in 1 .. ClaimLimit
       /\ Claims + Cardinality(some) <= MaxClaims
       /\ \E order \in SetToSeqs(some) :
            Begin([i \in DOMAIN order |-> ClaimEvent(order[i], id, lane)])

\* reclaimCommand: recovery takes the message from a process that is gone.
Reclaim(m) ==
  /\ Ready
  /\ records[m].status = "claimed"
  /\ Begin(<<[type |-> "reclaimed", message |-> m, claim |-> records[m].claim]>>)

\* Faulty: any lane handles what some lane has claimed.
FaultyHeldBy(m, lane) == records[m].status = "claimed"

HeldBy(m, lane) == records[m].status = "claimed" /\ records[m].claim.lane = lane

\* handleCommand: whoever is the lane of the current claim, whichever claim it had.
Handle(m, lane) ==
  /\ Ready
  /\ HeldBy(m, lane)
  /\ Begin(<<[type |-> "handled", message |-> m, lane |-> lane]>>)

\* acknowledgeAdviceCommand: the answer and the receipt are two events; when only
\* the first was appended, repeating the command appends the second.
Acknowledge(m, lane, disposition) ==
  LET answer == [type |-> "acknowledged", message |-> m, disposition |-> disposition]
      receipt == [type |-> "handled", message |-> m, lane |-> lane]
  IN  /\ Ready
      /\ HeldBy(m, lane)
      /\ \/ /\ records[m].ack = disposition
            /\ Begin(<<receipt>>)
         \/ /\ records[m].ack = NoAck
            /\ ~Expired(m)
            /\ Begin(<<answer, receipt>>)

\* Faulty: the event of a repeated append is applied once more.
FaultyAppendNext ==
  /\ up
  /\ todo # << >>
  /\ LET e == Head(todo)
     IN  /\ ledger' = IF Earlier(e) = {} THEN Append(ledger, e) ELSE ledger
         /\ records' = Apply(records, e)
         /\ todo' = Tail(todo)
  /\ UNCHANGED <<now, up, stops>>

\* append, for the next event of the command.
AppendNext ==
  /\ up
  /\ todo # << >>
  /\ LET e == Head(todo)
     IN  IF Earlier(e) = {}
           THEN /\ ledger' = Append(ledger, e)
                /\ records' = Apply(records, e)
                /\ todo' = Tail(todo)
           ELSE /\ todo' = IF \A i \in Earlier(e) : SameCommand(ledger[i], e)
                             THEN Tail(todo)
                             ELSE << >>
                /\ UNCHANGED <<ledger, records>>
  /\ UNCHANGED <<now, up, stops>>

\* The process dies or the ledger fails. The event it was appending may be there.
Stop ==
  /\ up
  /\ stops < MaxStops
  /\ stops' = stops + 1
  /\ up' = FALSE
  /\ \/ UNCHANGED ledger
     \/ /\ todo # << >>
        /\ Earlier(Head(todo)) = {}
        /\ ledger' = Append(ledger, Head(todo))
  /\ todo' = << >>
  /\ UNCHANGED <<now, records>>

\* A new process opens the ledger and rebuilds the projection.
Restart ==
  /\ ~up
  /\ up' = TRUE
  /\ records' = Replay(ledger)
  /\ UNCHANGED <<now, ledger, todo, stops>>

Tick ==
  /\ now < MaxTime
  /\ now' = now + 1
  /\ UNCHANGED <<up, ledger, records, todo, stops>>

Next ==
  \/ \E m \in Message : Send(m) \/ Reclaim(m)
  \/ \E id \in ClaimId, lane \in Lane : ClaimSome(id, lane)
  \/ \E m \in Message, lane \in Lane : Handle(m, lane)
  \/ \E m \in Advice, lane \in Lane, d \in Disposition : Acknowledge(m, lane, d)
  \/ AppendNext \/ Stop \/ Restart \/ Tick

Spec == Init /\ [][Next]_vars

-------------------------------------------------------------------------------
(* Properties *)

ClaimOf(m, i) == ledger[i].type = "claimed" /\ ledger[i].message = m

\* The Run can always be opened again: the projector accepts every event of the
\* ledger in its place, and what the running inbox decides on is what a new
\* process would rebuild, also after a repeated or conflicting append and a
\* command that broke off between its events (apply, rehydrate, append).
Rehydratable ==
  /\ LET after == Projections(ledger)
     IN  \A i \in DOMAIN ledger : Applicable(after[i - 1], ledger[i])
  /\ up => records = Replay(ledger)

\* The attempt a claimant is told is the number of times the message has been
\* claimed, also after a reclaim and a restart: a worker that is told 1 starts
\* without looking for the work of a predecessor (WorkerTaskExecutor.execute).
AttemptCountsClaims ==
  up => \A m \in Message :
          records[m].status = "claimed" =>
            records[m].claim.attempt = Cardinality({i \in DOMAIN ledger : ClaimOf(m, i)})

\* While the lease of a claim lasts nobody else is given the message, unless it
\* was reclaimed, whichever process decided (isClaimable, rehydrate).
LeaseRespected ==
  \A m \in Message : \A i, j \in DOMAIN ledger :
    /\ i < j
    /\ ClaimOf(m, i)
    /\ ClaimOf(m, j)
    /\ \A k \in i .. j : ledger[k].type = "reclaimed" => ledger[k].message # m
    => ledger[i].claim.at + LeaseTime <= ledger[j].claim.at

\* What the last event on a message, answers to advice aside, says of it.
LastEvent(m) ==
  LET its == {i \in DOMAIN ledger : ledger[i].message = m /\ ledger[i].type # "acknowledged"}
  IN  IF its = {} THEN [type |-> "none"] ELSE ledger[CHOOSE i \in its : \A j \in its : j <= i]

StatusAfter == [none |-> "unsent", sent |-> "pending", reclaimed |-> "pending",
                claimed |-> "claimed", handled |-> "handled"]

Queue == INSTANCE DeliveryQueue WITH
           status <- [m \in Message |-> StatusAfter[LastEvent(m).type]],
           holder <- [m \in Message |-> CASE LastEvent(m).type = "claimed" -> LastEvent(m).claim.lane
                                          [] LastEvent(m).type = "handled" -> LastEvent(m).lane
                                          [] OTHER -> NoClaim],
           Nobody <- NoClaim

\* The events of the ledger are steps of a delivery queue: content is accepted
\* once, only the lane of the last claim handles, and handled is final.
ImplementsDeliveryQueue == Queue!Spec
===============================================================================
