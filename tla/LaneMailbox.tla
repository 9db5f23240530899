----------------------------- MODULE LaneMailbox -----------------------------
(***************************************************************************)
(* How a lane consumes its mail (LaneMailbox, together with the step loop  *)
(* of MainLoop and the inbox): before each step of the model the mailbox   *)
(* claims messages and gives them to the step; once step.completed, which  *)
(* names them, is durable, it handles them. A receipt may be refused, and  *)
(* is tried again at a later step, once in each repair; a claim or a step  *)
(* may fail, the claims of a step may lapse under it, a new activation     *)
(* begins with a new mailbox, and the process may die between any two      *)
(* events of the ledger.                                                   *)
(*                                                                         *)
(* The inbox is what module Inbox is shown to implement, DeliveryQueue,    *)
(* with the lapse of claims added. Only messages of the kinds and senders  *)
(* the mailbox accepts are modelled.                                       *)
(***************************************************************************)
EXTENDS Naturals, FiniteSets

CONSTANTS
  Message,      \* messages to this lane
  NextTurn,     \* those of them with delivery "next-turn"
  lane,         \* this lane
  MaxMessages,  \* maxMessagesPerBoundary
  MaxRefusals,  \* receipts that cannot be appended (bound)
  MaxFailures,  \* claims and steps that fail (bound)
  MaxCrashes,   \* deaths of the process (bound)
  Nobody        \* the message is not claimed

ASSUME MailboxAssumption ==
  /\ NextTurn \subseteq Message
  /\ MaxMessages \in Nat \ {0}
  /\ MaxRefusals \in Nat
  /\ MaxFailures \in Nat
  /\ MaxCrashes \in Nat
  /\ Nobody # lane

VARIABLES
  status,     \* inbox: state of each message
  holder,     \* inbox: lane of its current claim
  lapsed,     \* inbox: claimed messages whose claim has outlived its lease
  completed,  \* ledger: number of step.completed events that name the message
  committed,  \* mailbox: ids that are in a durable step but not yet handled
  todo,       \* those of them the repair under way has still to try
  pc,         \* where the lane is in its step
  step,       \* 1 for the first step of a turn, 2 for any later one
  chosen,     \* messages beforeStep is about to claim
  boundary,   \* messages claimed for the step
  refusals,   \* refused receipts so far
  failures,   \* failed claims and steps so far
  crashes     \* deaths so far

inbox == <<status, holder, lapsed>>
mailbox == <<committed, todo>>
bounds == <<refusals, failures, crashes>>
vars == <<inbox, completed, mailbox, pc, step, chosen, boundary, bounds>>

\* Every message here says something else; Inbox has dealt with repetitions.
Logical(m) == m

Queue == INSTANCE DeliveryQueue WITH Lane <- {lane}

TypeOK ==
  /\ status \in [Message -> {"unsent", "pending", "claimed", "handled"}]
  /\ holder \in [Message -> {lane, Nobody}]
  /\ lapsed \subseteq Message
  /\ completed \in [Message -> Nat]
  /\ committed \subseteq Message
  /\ todo \subseteq committed
  /\ pc \in {"idle", "before", "claiming", "running", "completed", "after"}
  /\ step \in 1 .. 2
  /\ chosen \subseteq Message
  /\ boundary \subseteq Message
  /\ refusals \in 0 .. MaxRefusals
  /\ failures \in 0 .. MaxFailures
  /\ crashes \in 0 .. MaxCrashes

Init ==
  /\ Queue!Init
  /\ lapsed = {}
  /\ completed = [m \in Message |-> 0]
  /\ committed = {}
  /\ todo = {}
  /\ pc = "idle"
  /\ step = 1
  /\ chosen = {}
  /\ boundary = {}
  /\ refusals = 0
  /\ failures = 0
  /\ crashes = 0

-------------------------------------------------------------------------------
(* The inbox *)

Send(m) ==
  /\ Queue!Accept(m)
  /\ UNCHANGED <<lapsed, completed, mailbox, pc, step, chosen, boundary, bounds>>

\* claimLeaseMs have passed since the claim.
Lapse(m) ==
  /\ status[m] = "claimed"
  /\ lapsed' = lapsed \cup {m}
  /\ UNCHANGED <<status, holder, completed, mailbox, pc, step, chosen, boundary, bounds>>

-------------------------------------------------------------------------------
(* The step *)

\* The messages that step.completed events name (projectCommittedBoundaryMessageIds).
Projected == {m \in Message : completed[m] > 0}

\* A new activation has a mailbox of its own, which knows the durable steps.
NewMailbox ==
  /\ pc = "idle"
  /\ committed' = Projected
  /\ UNCHANGED <<inbox, completed, todo, pc, step, chosen, boundary, bounds>>

\* repairCommitted, which runs in beforeStep and in afterStep, tries each id once:
\* those of handled messages, and of messages this lane has claimed.
ToRepair(ids) ==
  {m \in ids : status[m] = "handled" \/ (status[m] = "claimed" /\ holder[m] = lane)}

\* beforeStep begins, with a repair.
BeginStep ==
  /\ pc = "idle"
  /\ pc' = "before"
  /\ todo' = ToRepair(committed)
  /\ UNCHANGED <<inbox, completed, committed, step, chosen, boundary, bounds>>

\* Definitions marked "Faulty" are mistakes this code could have made. No
\* behaviour of the module uses them; they show what the properties reject.

\* Faulty: an id is tried once, whether its receipt is appended or not.
FaultyRepair(m) ==
  /\ m \in todo
  /\ todo' = todo \ {m}
  /\ committed' = committed \ {m}
  /\ \/ status[m] = "handled" /\ UNCHANGED <<inbox, refusals>>
     \/ Queue!Finish(m, lane) /\ lapsed' = lapsed \ {m} /\ UNCHANGED refusals
     \/ /\ status[m] = "claimed"
        /\ refusals < MaxRefusals
        /\ refusals' = refusals + 1
        /\ UNCHANGED inbox
  /\ UNCHANGED <<completed, pc, step, chosen, boundary, failures, crashes>>

\* A message of a durable step is handled, or has been. When its receipt cannot be
\* appended the error is caught, the id kept, and the repair goes on.
Repair(m) ==
  /\ m \in todo
  /\ todo' = todo \ {m}
  /\ \/ /\ status[m] = "handled"
        /\ committed' = committed \ {m}
        /\ UNCHANGED <<inbox, refusals>>
     \/ /\ Queue!Finish(m, lane)
        /\ lapsed' = lapsed \ {m}
        /\ committed' = committed \ {m}
        /\ UNCHANGED refusals
     \/ /\ status[m] = "claimed"
        /\ refusals < MaxRefusals
        /\ refusals' = refusals + 1
        /\ UNCHANGED <<inbox, committed>>
  /\ UNCHANGED <<completed, pc, step, chosen, boundary, failures, crashes>>

\* Faulty: the ids whose receipts are missing are offered again.
FaultyCandidateCommitted(m) ==
  /\ status[m] \in {"pending", "claimed"}
  /\ m \in NextTurn => step = 1

\* Faulty: only messages nobody has claimed are looked at.
FaultyCandidatePending(m) ==
  /\ status[m] = "pending"
  /\ m \notin committed
  /\ m \in NextTurn => step = 1

\* boundaryCandidates: unhandled, deliverable at this step, in no durable step.
Candidate(m) ==
  /\ status[m] \in {"pending", "claimed"}
  /\ m \notin committed
  /\ m \in NextTurn => step = 1

\* What the inbox lets the mailbox claim of them.
Claimable == {m \in Message : Candidate(m) /\ (status[m] = "claimed" => m \in lapsed)}

\* The claim picks as many of them as a boundary takes.
Choose ==
  /\ pc = "before"
  /\ todo = {}
  /\ \E some \in SUBSET Claimable :
       /\ Cardinality(some) <= MaxMessages
       /\ some = Claimable \/ Cardinality(some) = MaxMessages
       /\ chosen' = some
  /\ pc' = "claiming"
  /\ UNCHANGED <<inbox, completed, mailbox, step, boundary, bounds>>

ClaimNext(m) ==
  /\ pc = "claiming"
  /\ m \in chosen
  /\ Queue!Take(m, lane)
  /\ lapsed' = lapsed \ {m}
  /\ chosen' = chosen \ {m}
  /\ boundary' = boundary \cup {m}
  /\ UNCHANGED <<completed, mailbox, pc, step, bounds>>

\* A claim cannot be appended; those before it stay. The error fails the step, or
\* the host catches it and the step runs without messages.
ClaimFails ==
  /\ pc = "claiming"
  /\ chosen # {}
  /\ failures < MaxFailures
  /\ failures' = failures + 1
  /\ chosen' = {}
  /\ boundary' = {}
  /\ \/ pc' = "running" /\ UNCHANGED step
     \/ pc' = "idle" /\ step' \in 1 .. 2
  /\ UNCHANGED <<inbox, completed, mailbox, refusals, crashes>>

\* The model runs with the messages in its context.
Run ==
  /\ pc = "claiming"
  /\ chosen = {}
  /\ pc' = "running"
  /\ UNCHANGED <<inbox, completed, mailbox, step, chosen, boundary, bounds>>

\* step.completed is appended; it names the messages of the boundary.
Complete ==
  /\ pc = "running"
  /\ completed' = [m \in Message |-> completed[m] + IF m \in boundary THEN 1 ELSE 0]
  /\ pc' = "completed"
  /\ UNCHANGED <<inbox, mailbox, step, chosen, boundary, bounds>>

\* afterStep: the ids are remembered, and then a repair begins.
AfterStep ==
  /\ pc = "completed"
  /\ committed' = committed \cup boundary
  /\ todo' = ToRepair(committed')
  /\ boundary' = {}
  /\ pc' = "after"
  /\ UNCHANGED <<inbox, completed, step, chosen, bounds>>

\* The next step follows, or the turn ends and another begins.
EndStep ==
  /\ pc = "after"
  /\ todo = {}
  /\ pc' = "idle"
  /\ step' \in 1 .. 2
  /\ UNCHANGED <<inbox, completed, mailbox, chosen, boundary, bounds>>

\* Faulty: afterStep is called for a failed step, too.
FaultyFailStep ==
  /\ pc = "running"
  /\ failures < MaxFailures
  /\ failures' = failures + 1
  /\ committed' = committed \cup boundary
  /\ todo' = ToRepair(committed')
  /\ boundary' = {}
  /\ pc' = "after"
  /\ UNCHANGED <<inbox, completed, step, chosen, refusals, crashes>>

\* The model or a tool fails: step.failed ends the activation, the claims stay.
\* It is resumed at its next step, or another turn begins.
FailStep ==
  /\ pc = "running"
  /\ failures < MaxFailures
  /\ failures' = failures + 1
  /\ boundary' = {}
  /\ pc' = "idle"
  /\ step' \in 1 .. 2
  /\ UNCHANGED <<inbox, completed, mailbox, chosen, refusals, crashes>>

\* The process dies. A new one knows the durable steps and the inbox.
Crash ==
  /\ crashes < MaxCrashes
  /\ crashes' = crashes + 1
  /\ committed' = Projected
  /\ todo' = {}
  /\ chosen' = {}
  /\ boundary' = {}
  /\ pc' = "idle"
  /\ step' \in 1 .. 2
  /\ UNCHANGED <<inbox, completed, refusals, failures>>

Next ==
  \/ \E m \in Message : Send(m) \/ Lapse(m) \/ Repair(m) \/ ClaimNext(m)
  \/ NewMailbox \/ BeginStep \/ Choose \/ ClaimFails \/ Run
  \/ Complete \/ AfterStep \/ EndStep \/ FailStep \/ Crash

\* Time passes, and a step that has begun goes on. Nothing makes the lane begin
\* another step or another turn.
Fairness ==
  /\ \A m \in Message : WF_vars(Lapse(m)) /\ WF_vars(Repair(m)) /\ WF_vars(ClaimNext(m))
  /\ WF_vars(Choose)
  /\ WF_vars(Run)
  /\ WF_vars(AfterStep)
  /\ WF_vars(EndStep)

Spec == Init /\ [][Next]_vars /\ Fairness

-------------------------------------------------------------------------------
(* Properties *)

\* A message enters the durable conversation once: whatever claims lapse while a
\* step runs or its receipt is refused, and wherever the process dies between the
\* step, its receipt and its repair, no second completed step names it
\* (boundaryCandidates, afterStep, projectCommittedBoundaryMessageIds).
CommittedOnce == \A m \in Message : completed[m] <= 1

\* A message is not handled before a durable step has consumed it, so none is
\* lost with a step that failed or a process that died.
HandledWasCommitted == \A m \in Message : status[m] = "handled" => completed[m] = 1

\* The mailbox forgets an id it must not deliver again only when the inbox will
\* not offer it again, however often its receipt is refused and whatever steps and
\* activations follow (repairCommitted, the constructor).
CommittedIsRemembered ==
  \A m \in Message :
    completed[m] > 0 => m \in committed \/ status[m] = "handled" \/ pc = "completed"

\* As long as the lane goes on to begin turns and complete their steps, every
\* message is handled in the end, whatever claims were left by failed steps and
\* dead processes, when its receipt is refused finitely often.
EventuallyHandled ==
  []<><<Complete /\ step = 1>>_vars =>
    \A m \in Message : status[m] = "pending" ~> status[m] = "handled"
===============================================================================
