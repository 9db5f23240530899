-------------------------- MODULE LaneMailboxProofs --------------------------
(***************************************************************************)
(* Proofs about LaneMailbox for every set of messages, boundary size and   *)
(* number of refusals, failures and crashes: a message enters the          *)
(* conversation once, and is handled only after it has.                    *)
(*                                                                         *)
(* The argument: a message in a durable step is in the mailbox's committed *)
(* set until it is handled (in its boundary, between the append and        *)
(* afterStep), also while its receipt is refused and the next steps begin; *)
(* and a message in neither has never been in a durable step, so what the  *)
(* mailbox chooses, claims and gives to a step is always new. What a       *)
(* repair has still to try is part of the committed set.                   *)
(***************************************************************************)
EXTENDS LaneMailbox, TLAPS

\* What a boundary and a choice consist of: claimed, or claimable, messages that
\* no durable step names yet. Repairs run before the choice and after the step.
BoundaryInv ==
  /\ todo # {} => pc \in {"before", "after"}
  /\ boundary # {} => pc \in {"claiming", "running", "completed"}
  /\ chosen # {} => pc = "claiming"
  /\ \A m \in boundary : status[m] = "claimed"
                         /\ completed[m] = IF pc = "completed" THEN 1 ELSE 0
  /\ \A m \in chosen : status[m] \in {"pending", "claimed"} /\ completed[m] = 0

\* Where a message of a durable step is.
CommittedInv ==
  /\ \A m \in committed : completed[m] > 0
  /\ \A m \in Message :
       completed[m] > 0 =>
         \/ m \in committed
         \/ status[m] = "handled"
         \/ pc = "completed" /\ m \in boundary

\* The inductive invariant.
IInv == TypeOK /\ BoundaryInv /\ CommittedInv /\ CommittedOnce /\ HandledWasCommitted

\* It holds at the start.
LEMMA InitIInv == Init => IInv
  BY MailboxAssumption
  DEF Init, Queue!Init, IInv, TypeOK, BoundaryInv, CommittedInv, CommittedOnce,
      HandledWasCommitted

\* Every action keeps the inductive invariant.
LEMMA NextIInv == IInv /\ [Next]_vars => IInv'
<1> SUFFICES ASSUME IInv, [Next]_vars PROVE IInv'
  OBVIOUS
<1> USE DEF IInv, TypeOK, BoundaryInv, CommittedInv, CommittedOnce, HandledWasCommitted,
            inbox, mailbox, bounds
<1>1. ASSUME NEW m \in Message, Send(m) PROVE IInv'
  BY <1>1 DEF Send, Queue!Accept
<1>2. ASSUME NEW m \in Message, Lapse(m) PROVE IInv'
  BY <1>2 DEF Lapse
<1>3. ASSUME NEW m \in Message, Repair(m) PROVE IInv'
  <2>1. m \in committed /\ completed[m] > 0 /\ completed[m] = 1
    BY <1>3 DEF Repair
  <2>2. CASE status[m] = "handled" /\ committed' = committed \ {m} /\ UNCHANGED <<inbox, refusals>>
    BY <1>3, <2>2 DEF Repair
  <2>3. CASE /\ Queue!Finish(m, lane) /\ lapsed' = lapsed \ {m}
             /\ committed' = committed \ {m} /\ UNCHANGED refusals
    <3>1. TypeOK'
      BY <1>3, <2>3 DEF Repair, Queue!Finish
    <3>2. BoundaryInv'
      <4>1. \A n \in Message : n # m => status'[n] = status[n]
        BY <2>3 DEF Queue!Finish
      <4>2. m \notin boundary /\ m \notin chosen
        BY <1>3, <2>1 DEF Repair
      <4>3. QED
        BY <1>3, <4>1, <4>2 DEF Repair
    <3>3. CommittedInv' /\ CommittedOnce' /\ HandledWasCommitted'
      BY <1>3, <2>1, <2>3 DEF Repair, Queue!Finish
    <3>4. QED
      BY <3>1, <3>2, <3>3
  <2>4. CASE /\ status[m] = "claimed" /\ refusals < MaxRefusals
             /\ refusals' = refusals + 1 /\ UNCHANGED <<inbox, committed>>
    BY <1>3, <2>4, MailboxAssumption DEF Repair
  <2>5. QED
    BY <1>3, <2>2, <2>3, <2>4 DEF Repair
<1>4. ASSUME NEW m \in Message, ClaimNext(m) PROVE IInv'
  BY <1>4 DEF ClaimNext, Queue!Take
<1>5. CASE BeginStep
  BY <1>5 DEF BeginStep, ToRepair
<1>6. CASE Choose
  BY <1>6 DEF Choose, Claimable, Candidate
<1>7. CASE Run
  BY <1>7 DEF Run
<1>8. CASE Complete
  BY <1>8 DEF Complete
<1>9. CASE AfterStep
  BY <1>9 DEF AfterStep, ToRepair
<1>10. CASE EndStep
  BY <1>10 DEF EndStep
<1>11. CASE FailStep
  BY <1>11, MailboxAssumption DEF FailStep
<1>12. CASE Crash
  BY <1>12, MailboxAssumption DEF Crash, Projected
<1>13. CASE UNCHANGED vars
  BY <1>13 DEF vars
<1>14. CASE NewMailbox
  BY <1>14 DEF NewMailbox, Projected
<1>15. CASE ClaimFails
  BY <1>15, MailboxAssumption DEF ClaimFails
<1>16. QED
  BY <1>1, <1>2, <1>3, <1>4, <1>5, <1>6, <1>7, <1>8, <1>9, <1>10, <1>11, <1>12, <1>13,
     <1>14, <1>15
  DEF Next

\* The invariant of every behaviour.
LEMMA Inductive == Spec => []IInv
  BY InitIInv, NextIInv, PTL DEF Spec

-------------------------------------------------------------------------------
\* The state of mailbox, step and inbox has its type in every behaviour.
THEOREM TypeCorrect == Spec => []TypeOK
<1>1. IInv => TypeOK
  BY DEF IInv
<1>2. QED
  BY <1>1, Inductive, PTL

\* No message is named by two step.completed events, whatever lapses, fails, is
\* refused or dies in between.
THEOREM Once == Spec => []CommittedOnce
<1>1. IInv => CommittedOnce
  BY DEF IInv
<1>2. QED
  BY <1>1, Inductive, PTL

\* A message that the mailbox has handled is in a durable step.
THEOREM NothingLost == Spec => []HandledWasCommitted
<1>1. IInv => HandledWasCommitted
  BY DEF IInv
<1>2. QED
  BY <1>1, Inductive, PTL

\* The ids of durable steps are remembered until they are handled, also when a
\* receipt is refused and other steps begin.
THEOREM Remembered == Spec => []CommittedIsRemembered
<1>1. IInv => CommittedIsRemembered
  BY DEF IInv, CommittedInv, CommittedIsRemembered
<1>2. QED
  BY <1>1, Inductive, PTL
===============================================================================
