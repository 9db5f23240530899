-------------------------- MODULE SessionTurnsProofs --------------------------
(***************************************************************************)
(* Proofs about SessionTurns for all sets of inputs and operations, any    *)
(* number of steps and any number of attachments.                          *)
(*                                                                         *)
(* The argument has four parts. The slot: at most one promotion is under   *)
(* way, it belongs to whoever may start an execution, and no method of the *)
(* admission chain that records a boundary runs beside it. The operations: *)
(* what the executor holds agrees with the ledger, so an operation whose   *)
(* verdict is "cancelled before execution" has not started and, its        *)
(* execution being fenced or aborted, never will. The turns: a turn that   *)
(* exists while its input is pending is under promotion, or was torn. The  *)
(* open turns: the projection names the open turn that is active, and      *)
(* whoever may let a turn begin has found no other one open or halted; an  *)
(* attachment halts it, for the record of an older interruption is refused *)
(* and never taken for this one.                                           *)
(***************************************************************************)
EXTENDS SessionTurns, FiniteSetTheorems, TLAPS

\* An execution has the slot with its turn, between two turns without one.
SlotInv ==
  /\ at \in {"start", "step", "model", "request", "tools", "complete", "settle"} =>
       active # None /\ execution = active
  /\ at \in {"after", "promoting"} => active = None /\ execution # None
  /\ execution = None => at = "none"
  /\ session \in {"away", "closed"} =>
       active = None /\ execution = None /\ promo = None /\ adm = "idle"

\* A promotion is made by the execution that has the slot or by the head of the chain;
\* when it began, and since, no operation was unknown.
PromotionInv ==
  /\ promo # None =>
       /\ active = None /\ Unknown = {}
       /\ \/ promo.by = "execution" /\ at = "promoting"
          \/ promo.by = "chain" /\ adm = "promote" /\ at = "none" /\ execution = None
  /\ at = "promoting" => promo # None /\ promo.by = "execution"
  /\ adm = "promote" => promo # None /\ promo.by = "chain"
  /\ adm \in {"next", "resolved"} => execution = None

\* close has told the active turn to end, and only the execution itself can end it. What
\* cancel retired does nothing more.
BoundaryInv ==
  /\ adm \in {"close", "closeBoundary"} => session = "closing"
  /\ adm = "close" /\ awaited => active = None \/ aborted
  /\ adm = "closeBoundary" => /\ active = None \/ aborted
                              /\ at \notin {"after", "promoting"}
  /\ adm = "boundary" => /\ at = "none"
                         /\ \A o \in Op : opc[o] \in {"idle", "loose", "orphan"}
  /\ adm \in {"boundary", "closeBoundary"} => subject # None
  /\ adm \notin {"boundary", "closeBoundary"} => \A o \in Op : verdict[o] = "none"
  /\ BoundaryAccepted

\* The executor and the ledger agree on what has started.
OperationInv == \A o \in Op :
  /\ opTurn[o] = None => op[o] = "none" /\ opc[o] = "idle"
  /\ opc[o] \in {"starting", "running", "loose", "orphan"} => o \in started
  /\ opc[o] \in {"call", "ready", "admitted"} => o \notin started
  /\ o \in started => op[o] \in {"started", "unknown"} \cup Outcome
  /\ o \in called => o \in started
  /\ verdict[o] # "none" => opTurn[o] # None

\* An operation that is, or is to be, recorded as cancelled before execution was never
\* called; if it is in the executor still, close has aborted its execution.
SpareInv == \A o \in Op :
  verdict[o] = "spare" \/ o \in spared =>
    /\ o \notin called /\ opTurn[o] # None
    /\ opc[o] = "idle" \/ (adm = "closeBoundary" /\ opc[o] \in {"call", "ready", "admitted"})

\* The turns that exist, and those whose input is still pending.
TurnInv ==
  /\ active # None => turn[active] # "none"
  /\ execution # None => turn[execution] # "none"
  /\ subject # None => turn[subject] # "none"
  /\ promo # None /\ promo.begun =>
       /\ input[promo.input] = "pending"
       /\ turn[promo.input] # "none"
       /\ promo.input \in torn \/ turn[promo.input] = "active"
  /\ \A i \in Input : input[i] # "delivered" /\ turn[i] # "none" =>
       i \in torn \/ (promo # None /\ promo.begun /\ promo.input = i)

\* What a replay of the ledger tells of each turn. The record of an interruption is older
\* than the step from which the turn has gone on: an attachment that meets it is refused.
StatusInv ==
  /\ activeTurnId # None => turn[activeTurnId] = "active"
  /\ \A t \in Input :
       /\ turn[t] \in Terminal => turn[t] \in outcomes[t]
       /\ turn[t] = "none" => interruption[t] = None
       /\ resumed[t] \subseteq 1 .. (topStep[t] + 1)
       /\ lastStep[t] <= topStep[t] \/ lastStep[t] \in resumed[t]
       /\ interruption[t] # None => interruption[t] <= topStep[t] \/ interruption[t] \in resumed[t]
       /\ turn[t] = "active" /\ interruption[t] # None => interruption[t] < lastStep[t]

\* The turns that OneOpenTurn counts.
Open == {t \in Input \ Reopened : turn[t] \in Halted \cup {"active"}}

\* Whoever may make a turn begin, or halt, does so when no other turn is open.
OpenInv ==
  /\ \A s, t \in Open : s = t
  /\ \A h \in HaltedTurns : Open \subseteq {h}
  /\ active # None => Open \subseteq {active}
  /\ activeTurnId # None => Open \subseteq {activeTurnId}
  /\ promo # None => HaltedTurns = {} /\ Open \subseteq {promo.input}
  /\ adm = "closeBoundary" => Open \subseteq {subject}

\* An open turn that is active is the one the projection names; while a session has the
\* Run, it is executed or about to be.
ActiveInv ==
  /\ \A s \in Open : turn[s] = "active" =>
       /\ s = activeTurnId
       /\ \/ s = active
          \/ promo # None /\ promo.begun
          \/ session \in {"away", "closed"}
  /\ at = "settle" => turn[active] # "active" \/ outcomes[active] \cap Terminal # {}
  /\ adm = "boundary" => active = subject

\* The inductive invariant.
IInv == /\ TypeOK /\ SlotInv /\ PromotionInv /\ BoundaryInv /\ OperationInv /\ SpareInv /\ TurnInv
        /\ StatusInv /\ OpenInv /\ ActiveInv

-------------------------------------------------------------------------------
(* Types *)

\* A turn that ends keeps the types of the turns.
LEMMA EndTurnType ==
  ASSUME TypeOK, NEW t \in Input, NEW kind \in Terminal \cup {"unresolved"}, EndTurn(t, kind)
  PROVE  /\ turn' \in [Input -> {"none", "active"} \cup Halted \cup Terminal]
         /\ activeTurnId' \in Input \cup {None}
         /\ lastStep' \in [Input -> Nat]
         /\ outcomes' \in [Input -> SUBSET (Terminal \cup {"unresolved"})]
         /\ UNCHANGED <<topStep, interruption, resumed>>
<1>1. UNCHANGED <<topStep, interruption, resumed>>
  BY DEF EndTurn
<1>2. CASE kind \in outcomes[t]
  BY <1>1, <1>2 DEF EndTurn, TypeOK
<1>3. CASE kind \notin outcomes[t]
  <2>1. SettleTurn(t, kind) /\ outcomes' = [outcomes EXCEPT ![t] = @ \cup {kind}]
    BY <1>3 DEF EndTurn
  <2>2. turn' \in [Input -> {"none", "active"} \cup Halted \cup Terminal]
    BY <2>1 DEF SettleTurn, TypeOK, Halted
  <2>6. activeTurnId' \in Input \cup {None}
    BY <2>1 DEF SettleTurn, Deactivated, TypeOK
  <2>3. lastStep' \in [Input -> Nat]
    BY <2>1 DEF SettleTurn, TypeOK
  <2>4. outcomes' \in [Input -> SUBSET (Terminal \cup {"unresolved"})]
    BY <2>1 DEF TypeOK
  <2>5. QED
    BY <1>1, <2>2, <2>3, <2>4, <2>6
<1>4. QED
  BY <1>2, <1>3

\* So does one that goes on, and its execution.
LEMMA ResumeTurnType ==
  ASSUME TypeOK, NEW t \in Input, ResumeTurn(t)
  PROVE  /\ turn' \in [Input -> {"none", "active"} \cup Halted \cup Terminal]
         /\ activeTurnId' \in Input \cup {None}
         /\ lastStep' \in [Input -> Nat]
         /\ resumed' \in [Input -> SUBSET Nat]
         /\ UNCHANGED <<topStep, interruption, outcomes>>
         /\ active' = t /\ aborted' = FALSE /\ execution' = t /\ at' = "start" /\ awaited' = FALSE
  BY DEF ResumeTurn, BeginExecution, TypeOK

\* Inputs that are taken keep the types of the inputs.
LEMMA TakenType ==
  ASSUME TypeOK, NEW S, NEW how \in {"delivered", "withdrawn"}, Taken(S, how)
  PROVE  /\ input' \in [Input -> {"new", "submitting", "pending", "delivered", "withdrawn"}]
         /\ ahead' \in [Input -> SUBSET Input]
         /\ target' \in [Input -> Input \cup {None}]
  BY DEF Taken, TypeOK

\* The fence, and a boundary's verdict, have the types of their variables.
LEMMA FencedType == TypeOK =>
  Fenced \in [Op -> {"idle", "call", "ready", "admitted", "starting", "running", "loose", "orphan"}]
  BY DEF Fenced, TypeOK

\* A boundary's verdict has its type.
LEMMA VerdictType == \A t : Verdict(t) \in [Op -> {"none", "spare", "fail", "unknown", "recorded"}]
  BY DEF Verdict

\* The controller that lets go of the Run keeps the types of the process.
LEMMA DetachedType ==
  ASSUME TypeOK, NEW s \in {"away", "closed"},
         NEW calls \in [Op -> {"idle", "call", "ready", "admitted", "starting", "running",
                               "loose", "orphan"}],
         Detached(s, calls),
         input' \in [Input -> {"new", "submitting", "pending", "delivered", "withdrawn"}],
         target' \in [Input -> Input \cup {None}],
         turn' \in [Input -> {"none", "active"} \cup Halted \cup Terminal],
         activeTurnId' \in Input \cup {None},
         lastStep' \in [Input -> Nat],
         outcomes' \in [Input -> SUBSET (Terminal \cup {"unresolved"})],
         UNCHANGED <<ahead, topStep, interruption, resumed, op, opTurn, started,
                     called, spared, attachments, refused>>
  PROVE  TypeOK'
<1>1. torn' \subseteq Input
  BY DEF Detached, TypeOK, Promotion
<1>2. verdict' \in [Op -> {"none", "spare", "fail", "unknown", "recorded"}]
  BY DEF Detached
<1>3. QED
  BY <1>1, <1>2 DEF Detached, SlotFree, TypeOK

\* The next fact of an operation in the executor has its type.
LEMMA RecordsType ==
  ASSUME TypeOK, NEW o \in Op, NEW from,
         NEW to \in {"idle", "ready", "admitted", "starting"},
         NEW fact \in {"requested", "admitted", "started", "failed", "succeeded"},
         Records(o, from, to, fact)
  PROVE  /\ op' \in [Op -> {"none", "requested", "admitted", "started", "unknown"} \cup Outcome]
         /\ opc' \in [Op -> {"idle", "call", "ready", "admitted", "starting", "running",
                             "loose", "orphan"}]
  BY DEF Records, TypeOK, Outcome

\* The slot's types, and that of a slot that is free.
SlotType ==
  /\ active \in Input \cup {None}
  /\ aborted \in BOOLEAN
  /\ execution \in Input \cup {None}
  /\ at \in {"none", "start", "step", "model", "request", "tools", "complete",
             "settle", "after", "promoting"}
  /\ awaited \in BOOLEAN

\* A slot that is released has its types.
LEMMA ReleaseSlotType == TypeOK /\ ReleaseSlot => SlotType'
  BY DEF ReleaseSlot, SlotFree, TypeOK, SlotType

\* A promotion that begins, or gets on, has its type.
LEMMA PromotionType ==
  /\ \A i \in Input, by \in {"execution", "chain"} :
       [input |-> i, by |-> by, begun |-> FALSE] \in Promotion
  /\ \A p \in Promotion : [p EXCEPT !.begun = TRUE] \in Promotion /\ p.input \in Input
  BY DEF Promotion

\* Every action of the process and the inputs keeps the types.
LEMMA SessionType ==
  ASSUME TypeOK,
         \/ Attach \/ AttachRefused \/ Crash \/ ResumeCurrent \/ Resolved \/ CancelBegin
         \/ RetiredSettles \/ CloseBegin \/ Promote
         \/ \E i \in Input : SubmitBegin(i) \/ SubmitAdmit(i) \/ Withdraw(i) \/ Replace(i)
  PROVE  TypeOK'
<1> USE DEF inputs, turns, operations, slot, chain, process, history, ledger
<1>1. CASE Attach
  <2>1. /\ turn' \in [Input -> {"none", "active"} \cup Halted \cup Terminal]
        /\ activeTurnId' \in Input \cup {None}
        /\ interruption' \in [Input -> Nat \cup {None}]
    BY <1>1 DEF Attach, TypeOK, Halted
  <2>2. QED
    BY <1>1, <2>1, SessionAssumption DEF Attach, TypeOK
<1>2. CASE AttachRefused
  BY <1>2 DEF AttachRefused, TypeOK
<1>3. CASE Crash
  <2>1. /\ input' \in [Input -> {"new", "submitting", "pending", "delivered", "withdrawn"}]
        /\ target' \in [Input -> Input \cup {None}]
    BY <1>3 DEF Crash, TypeOK
  <2>2. QED
    BY <1>3, <2>1, DetachedType DEF Crash, TypeOK
<1>4. CASE ResumeCurrent
  <2>1. CASE \E t \in HaltedTurns : ResumeTurn(t)
    BY <1>4, <2>1, ResumeTurnType DEF ResumeCurrent, HaltedTurns, TypeOK
  <2>2. CASE \E i \in Input : promo' = [input |-> i, by |-> "chain", begun |-> FALSE]
    <3>1. promo' \in Promotion
      BY <2>2, PromotionType
    <3>2. CASE UNCHANGED <<turns, slot>> /\ adm' = "promote"
      BY <1>4, <3>1, <3>2 DEF ResumeCurrent, TypeOK
    <3>3. QED
      BY <1>4, <2>1, <3>2 DEF ResumeCurrent
  <2>3. QED
    BY <1>4, <2>1, <2>2 DEF ResumeCurrent
<1>5. CASE Resolved
  <2>1. CASE \E t \in Input : ResumeTurn(t)
    BY <1>5, <2>1, ResumeTurnType DEF Resolved, TypeOK
  <2>2. CASE UNCHANGED <<turns, slot>>
    BY <1>5, <2>2 DEF Resolved, TypeOK
  <2>3. QED
    BY <1>5, <2>1, <2>2 DEF Resolved
<1>6. CASE CancelBegin
  <2>0. aborted' \in BOOLEAN /\ awaited' \in BOOLEAN /\ adm' \in {"cancel", "next"}
    BY <1>6 DEF CancelBegin, TypeOK
  <2>1. CASE \E t \in HaltedTurns : EndTurn(t, "cancelled")
    <3>1. PICK t \in HaltedTurns : EndTurn(t, "cancelled")
      BY <2>1
    <3>2. /\ turn' \in [Input -> {"none", "active"} \cup Halted \cup Terminal]
          /\ activeTurnId' \in Input \cup {None}
          /\ lastStep' \in [Input -> Nat]
          /\ outcomes' \in [Input -> SUBSET (Terminal \cup {"unresolved"})]
          /\ UNCHANGED <<topStep, interruption, resumed>>
      BY <3>1, EndTurnType DEF HaltedTurns, Terminal
    <3>3. QED
      BY <1>6, <2>0, <3>2 DEF CancelBegin, TypeOK
  <2>2. CASE UNCHANGED turns
    BY <1>6, <2>0, <2>2 DEF CancelBegin, TypeOK
  <2>3. QED
    BY <1>6, <2>1, <2>2 DEF CancelBegin
<1>7. CASE RetiredSettles \/ CloseBegin
  <2>1. CASE RetiredSettles
    BY <2>1, ReleaseSlotType DEF RetiredSettles, SlotType, TypeOK
  <2>2. CASE CloseBegin
    BY <2>2 DEF CloseBegin, TypeOK
  <2>3. QED
    BY <1>7, <2>1, <2>2
<1>8. CASE PromoteStart
  <2>1. promo \in Promotion
    BY <1>8 DEF PromoteStart, TypeOK
  <2>2. CASE input[promo.input] = "pending"
    <3>1. promo' \in Promotion
      BY <1>8, <2>1, <2>2, PromotionType DEF PromoteStart
    <3>2. /\ turn' \in [Input -> {"none", "active"} \cup Halted \cup Terminal]
          /\ activeTurnId' \in Input \cup {None}
      BY <1>8, <2>1, <2>2, PromotionType DEF PromoteStart, TypeOK
    <3>3. QED
      BY <1>8, <2>2, <3>1, <3>2 DEF PromoteStart, TypeOK
  <2>3. CASE NotPromoted /\ UNCHANGED <<turn, activeTurnId>>
    <3>1. SlotType' /\ promo' = None
          /\ adm' \in {"idle", "submit", "promote", "next", "resolved", "cancel", "boundary",
                      "close", "closeBoundary"}
      BY <2>3, ReleaseSlotType DEF NotPromoted, SlotType, TypeOK
    <3>2. QED
      BY <1>8, <2>3, <3>1 DEF PromoteStart, SlotType, TypeOK
  <2>4. QED
    BY <1>8, <2>2, <2>3 DEF PromoteStart
<1>9. CASE PromoteDeliver
  <2>1. promo.input \in Input
    BY <1>9 DEF PromoteDeliver, TypeOK, Promotion
  <2>2. QED
    BY <1>9, <2>1, TakenType DEF PromoteDeliver, BeginExecution, TypeOK
<1>10. CASE AfterExecution
  <2>1. CASE ReleaseSlot /\ UNCHANGED promo
    BY <1>10, <2>1, ReleaseSlotType DEF AfterExecution, SlotType, TypeOK
  <2>2. CASE promo' \in Promotion /\ at' = "promoting" /\ UNCHANGED <<active, aborted, execution, awaited>>
    BY <1>10, <2>2 DEF AfterExecution, TypeOK
  <2>3. QED
    BY <1>10, <2>1, <2>2, PromotionType DEF AfterExecution
<1>11. CASE PromoteNext
  <2>1. promo' \in Promotion \cup {None} /\ adm' \in {"idle", "promote"}
    BY <1>11, PromotionType DEF PromoteNext, TypeOK
  <2>2. QED
    BY <1>11, <2>1 DEF PromoteNext, TypeOK
<1>12. ASSUME NEW i \in Input, SubmitBegin(i) PROVE TypeOK'
  <2>1. /\ input' \in [Input -> {"new", "submitting", "pending", "delivered", "withdrawn"}]
        /\ target' \in [Input -> Input \cup {None}]
    BY <1>12 DEF SubmitBegin, TypeOK
  <2>2. /\ turn' \in [Input -> {"none", "active"} \cup Halted \cup Terminal]
        /\ activeTurnId' \in Input \cup {None}
        /\ lastStep' \in [Input -> Nat]
        /\ outcomes' \in [Input -> SUBSET (Terminal \cup {"unresolved"})]
        /\ UNCHANGED <<topStep, interruption, resumed>>
    <3>1. CASE \E t \in InterruptedTurns : EndTurn(t, "cancelled")
      BY <3>1, EndTurnType DEF InterruptedTurns, Terminal
    <3>2. CASE UNCHANGED turns
      BY <3>2 DEF TypeOK
    <3>3. QED
      BY <1>12, <3>1, <3>2 DEF SubmitBegin
  <2>3. QED
    BY <1>12, <2>1, <2>2 DEF SubmitBegin, TypeOK
<1>13. ASSUME NEW i \in Input, SubmitAdmit(i) PROVE TypeOK'
  <2>1. promo' \in Promotion \cup {None} /\ adm' \in {"idle", "promote"}
    BY <1>13, PromotionType DEF SubmitAdmit, TypeOK
  <2>2. /\ input' \in [Input -> {"new", "submitting", "pending", "delivered", "withdrawn"}]
        /\ ahead' \in [Input -> SUBSET Input]
    BY <1>13 DEF SubmitAdmit, TypeOK, Pending
  <2>3. QED
    BY <1>13, <2>1, <2>2 DEF SubmitAdmit, TypeOK
<1>14. ASSUME NEW i \in Input, Withdraw(i) PROVE TypeOK'
  BY <1>14, TakenType DEF Withdraw, TypeOK
<1>15. ASSUME NEW i \in Input, Replace(i) PROVE TypeOK'
  BY <1>15 DEF Replace, TypeOK
<1>16. QED
  BY <1>1, <1>2, <1>3, <1>4, <1>5, <1>6, <1>7, <1>8, <1>9, <1>10, <1>11, <1>12, <1>13,
     <1>14, <1>15 DEF Promote

\* Every action of an execution, and of the tools, keeps the types.
LEMMA ExecutionType ==
  ASSUME TypeOK, SlotInv,
         Execute \/ \E o \in Op : ResolveOperation(o) \/ ToolReturns(o) \/ StrayReturns(o)
  PROVE  TypeOK'
<1> USE DEF inputs, turns, operations, slot, chain, process, history, ledger
<1>1. CASE StepStart
  <2>1. topStep' \in [Input -> Nat]
    <3>1. topStep' = [topStep EXCEPT ![execution] = topStep[execution] + 1]
      BY <1>1 DEF StepStart
    <3>2. execution \in Input
      BY <1>1 DEF StepStart, Goes, SlotInv, TypeOK
    <3>3. QED
      BY <3>1, <3>2 DEF TypeOK
  <2>2. QED
    BY <1>1, <2>1, TakenType DEF StepStart, Goes, TypeOK
<1>2. CASE ModelAnswers
  <2>1. lastStep' \in [Input -> Nat] /\ at' \in {"complete", "step"}
    BY <1>2 DEF ModelAnswers, Goes, TypeOK
  <2>2. QED
    BY <1>2, <2>1 DEF ModelAnswers, TypeOK
<1>3. CASE ModelCalls
  <2>1. PICK calls \in SUBSET Op :
          /\ opc' = [o \in Op |-> IF o \in calls THEN "call" ELSE opc[o]]
          /\ opTurn' = [o \in Op |-> IF o \in calls THEN execution ELSE opTurn[o]]
    BY <1>3 DEF ModelCalls
  <2>2. QED
    BY <1>3, <2>1 DEF ModelCalls, Goes, TypeOK
<1>4. CASE RequestsDone
  BY <1>4 DEF RequestsDone, Goes, TypeOK
<1>5. CASE ToolsDone
  <2>1. lastStep' \in [Input -> Nat]
    BY <1>5 DEF ToolsDone, TypeOK
  <2>2. QED
    BY <1>5, <2>1 DEF ToolsDone, Goes, TypeOK
<1>6. CASE TurnWaits \/ TurnCompletes \/ TurnThrows
  <2>1. execution \in Input
    BY <1>6 DEF TurnWaits, TurnCompletes, TurnThrows, Goes, SlotInv, TypeOK
  <2>2. /\ turn' \in [Input -> {"none", "active"} \cup Halted \cup Terminal]
        /\ activeTurnId' \in Input \cup {None}
        /\ lastStep' \in [Input -> Nat]
        /\ outcomes' \in [Input -> SUBSET (Terminal \cup {"unresolved"})]
        /\ UNCHANGED <<topStep, interruption, resumed>>
    <3>1. CASE \E kind \in Terminal : EndTurn(execution, kind)
      BY <2>1, <3>1, EndTurnType
    <3>2. CASE /\ \E kind \in {"waiting", "interrupted"} : SettleTurn(execution, kind)
               /\ UNCHANGED <<topStep, interruption, resumed, outcomes>>
      BY <2>1, <3>2 DEF SettleTurn, Deactivated, TypeOK, Halted
    <3>3. QED
      BY <1>6, <3>1, <3>2 DEF TurnWaits, TurnCompletes, TurnThrows, Terminal
  <2>3. /\ opc' \in [Op -> {"idle", "call", "ready", "admitted", "starting", "running",
                            "loose", "orphan"}]
        /\ at' = "settle"
        /\ UNCHANGED <<inputs, operations, session, active, aborted, execution, awaited,
                       chain, history>>
    BY <1>6 DEF TurnWaits, TurnCompletes, TurnThrows, Goes, TypeOK
  <2>4. QED
    BY <2>2, <2>3 DEF TypeOK
<1>7. CASE TurnSettles
  <2>1. SlotType'
    BY <1>7 DEF TurnSettles, SlotType, TypeOK
  <2>2. QED
    BY <1>7, <2>1 DEF TurnSettles, SlotType, TypeOK
<1>8. ASSUME NEW o \in Op,
             RequestTool(o) \/ AdmitTool(o) \/ StartTool(o) \/ NotCalled(o) \/ ToolReturns(o)
      PROVE  TypeOK'
  <2>1. /\ op' \in [Op -> {"none", "requested", "admitted", "started", "unknown"} \cup Outcome]
        /\ opc' \in [Op -> {"idle", "call", "ready", "admitted", "starting", "running",
                            "loose", "orphan"}]
    BY <1>8, RecordsType DEF RequestTool, AdmitTool, StartTool, NotCalled, ToolReturns, Outcome
  <2>2. started' \subseteq Op
        /\ UNCHANGED <<inputs, turns, opTurn, session, slot, chain, history>>
    BY <1>8 DEF RequestTool, AdmitTool, StartTool, NotCalled, ToolReturns, TypeOK
  <2>3. QED
    BY <2>1, <2>2 DEF TypeOK
<1>9. ASSUME NEW o \in Op, CallTool(o) \/ StrayReturns(o) PROVE TypeOK'
  BY <1>9 DEF CallTool, StrayReturns, TypeOK
<1>10. ASSUME NEW o \in Op, ResolveOperation(o) PROVE TypeOK'
  <2>1. op' \in [Op -> {"none", "requested", "admitted", "started", "unknown"} \cup Outcome]
    BY <1>10 DEF ResolveOperation, TypeOK, Outcome
  <2>2. QED
    BY <1>10, <2>1 DEF ResolveOperation, TypeOK
<1>11. QED
  BY <1>1, <1>2, <1>3, <1>4, <1>5, <1>6, <1>7, <1>8, <1>9, <1>10 DEF Execute

\* Every step of cancel and close keeps the types.
LEMMA SettleType ==
  ASSUME TypeOK, BoundaryInv, Settle
  PROVE  TypeOK'
<1> USE DEF inputs, turns, operations, slot, chain, process, history, ledger
<1>1. CASE CancelSettled \/ CancelRefused \/ CloseStart
  <2>1. /\ adm' \in {"idle", "close"} /\ subject' \in Input \cup {None}
        /\ verdict' \in [Op -> {"none", "spare", "fail", "unknown", "recorded"}]
        /\ aborted' \in BOOLEAN /\ awaited' \in BOOLEAN
        /\ UNCHANGED <<ledger, session, active, execution, at, promo, opc, history>>
    BY <1>1 DEF CancelSettled, CancelRefused, CloseStart, TypeOK
  <2>2. QED
    BY <2>1 DEF TypeOK
<1>2. CASE CancelGraceEnds
  <2>1. /\ adm' \in {"idle", "boundary"} /\ subject' \in Input \cup {None} /\ at' \in {at, "none"}
        /\ UNCHANGED <<ledger, session, active, aborted, execution, awaited, promo, history>>
    BY <1>2 DEF CancelGraceEnds, TypeOK
  <2>2. /\ verdict' \in [Op -> {"none", "spare", "fail", "unknown", "recorded"}]
        /\ opc' \in [Op -> {"idle", "call", "ready", "admitted", "starting", "running",
                            "loose", "orphan"}]
    <3>1. CASE active = None
      BY <1>2, <3>1 DEF CancelGraceEnds, TypeOK
    <3>2. CASE active # None
      BY <1>2, <3>2, VerdictType, FencedType DEF CancelGraceEnds
    <3>3. QED
      BY <3>1, <3>2
  <2>3. QED
    BY <2>1, <2>2 DEF TypeOK
<1>3. CASE CancelRecorded
  <2>1. subject \in Input
    BY <1>3 DEF CancelRecorded, BoundaryInv, TypeOK
  <2>2. EndTurn(subject, "cancelled")
    BY <1>3 DEF CancelRecorded
  <2>3. /\ turn' \in [Input -> {"none", "active"} \cup Halted \cup Terminal]
        /\ activeTurnId' \in Input \cup {None}
        /\ lastStep' \in [Input -> Nat]
        /\ outcomes' \in [Input -> SUBSET (Terminal \cup {"unresolved"})]
        /\ UNCHANGED <<topStep, interruption, resumed>>
    BY <2>1, <2>2, EndTurnType DEF Terminal
  <2>4. SlotType' /\ verdict' \in [Op -> {"none", "spare", "fail", "unknown", "recorded"}]
    BY <1>3 DEF CancelRecorded, SlotFree, SlotType
  <2>5. QED
    BY <1>3, <2>3, <2>4 DEF CancelRecorded, SlotType, TypeOK
<1>4. CASE CloseGraceEnds
  <2>1. CASE Detached("closed", Fenced)
    BY <1>4, <2>1, DetachedType, FencedType DEF CloseGraceEnds, TypeOK
  <2>2. CASE active # None
    BY <1>4, <2>2, VerdictType DEF CloseGraceEnds, TypeOK
  <2>3. QED
    BY <1>4, <2>1, <2>2 DEF CloseGraceEnds
<1>5. CASE CloseSettled \/ CloseRefused
  BY <1>5, DetachedType, FencedType DEF CloseSettled, CloseRefused, TypeOK
<1>6. CASE CloseRecorded
  <2>1. subject \in Input
    BY <1>6 DEF CloseRecorded, BoundaryInv, TypeOK
  <2>2. /\ turn' \in [Input -> {"none", "active"} \cup Halted \cup Terminal]
        /\ activeTurnId' \in Input \cup {None}
        /\ lastStep' \in [Input -> Nat]
        /\ outcomes' \in [Input -> SUBSET (Terminal \cup {"unresolved"})]
        /\ UNCHANGED <<topStep, interruption, resumed>>
    BY <1>6, <2>1, EndTurnType DEF CloseRecorded, Terminal
  <2>3. QED
    BY <1>6, <2>2, DetachedType, FencedType DEF CloseRecorded, TypeOK
<1>7. ASSUME NEW o \in Op, BoundaryRecords(o) PROVE TypeOK'
  <2>1. /\ op' \in [Op -> {"none", "requested", "admitted", "started", "unknown"} \cup Outcome]
        /\ verdict' \in [Op -> {"none", "spare", "fail", "unknown", "recorded"}]
        /\ spared' \subseteq Op
    BY <1>7 DEF BoundaryRecords, TypeOK, Outcome
  <2>2. QED
    BY <1>7, <2>1 DEF BoundaryRecords, TypeOK
<1>8. QED
  BY <1>1, <1>2, <1>3, <1>4, <1>5, <1>6, <1>7 DEF Settle

\* Every step keeps the types.
LEMMA NextType == TypeOK /\ SlotInv /\ BoundaryInv /\ [Next]_vars => TypeOK'
<1>1. TypeOK /\ UNCHANGED vars => TypeOK'
  BY DEF TypeOK, vars, ledger, process, history, slot, chain
<1>2. QED
  BY <1>1, SessionType, ExecutionType, SettleType DEF Next

-------------------------------------------------------------------------------
(* The slot and the promotion *)

\* What a step leaves alone keeps the slot's invariant, and every step keeps it.
LEMMA NextSlot == TypeOK /\ SlotInv /\ PromotionInv /\ BoundaryInv /\ [Next]_vars =>
                    SlotInv' /\ PromotionInv'
<1> DEFINE Goal == SlotInv' /\ PromotionInv'
<1> SUFFICES ASSUME TypeOK, SlotInv, PromotionInv, BoundaryInv, [Next]_vars PROVE Goal
  OBVIOUS
<1> USE SessionAssumption DEF SlotInv, PromotionInv, inputs, turns, operations, slot, chain, ledger
<1>1. CASE /\ \A o \in Op : op'[o] = "unknown" => op[o] = "unknown"
           /\ UNCHANGED <<session, active, execution, at, promo, adm>>
  BY <1>1 DEF Unknown
<1>2. CASE Attach
  BY <1>2 DEF Attach, Unknown
<1>3. CASE Crash
  BY <1>3 DEF Crash, Detached, SlotFree
<1>4. ASSUME NEW t \in Input, ResumeTurn(t), execution = None, adm # "promote", Unknown = {},
             session \in {"open", "closing"}, adm' = "idle", UNCHANGED <<session, promo, op>>
      PROVE  Goal
  BY <1>4 DEF ResumeTurn, BeginExecution, Unknown, TypeOK
<1>5. ASSUME NEW i \in Input, promo' = [input |-> i, by |-> "chain", begun |-> FALSE],
             active = None, execution = None, Unknown = {}, session \in {"open", "closing"},
             adm' = "promote", UNCHANGED <<session, op, active, execution, at>>
      PROVE  Goal
  <2>1. promo' # None /\ promo'.by = "chain"
    BY <1>5, PromotionType
  <2>2. QED
    BY <1>5, <2>1 DEF Unknown
<1>6. CASE ResumeCurrent
  <2>1. CASE HaltedTurns # {}
    <3>1. PICK t \in Input : ResumeTurn(t)
      BY <1>6, <2>1 DEF ResumeCurrent, HaltedTurns
    <3>2. QED
      BY <1>4, <1>6, <2>1, <3>1 DEF ResumeCurrent
  <2>2. CASE HaltedTurns = {}
    BY <1>5, <1>6, <2>2 DEF ResumeCurrent
  <2>3. QED
    BY <2>1, <2>2
<1>7. CASE Resolved
  <2>1. CASE \E t \in Input : ResumeTurn(t) /\ Unknown = {} /\ adm' = "idle"
    BY <1>4, <1>7, <2>1 DEF Resolved, TypeOK
  <2>2. CASE UNCHANGED slot /\ adm' \in {"next", "idle"}
    BY <1>7, <2>2 DEF Resolved, Unknown
  <2>3. QED
    BY <1>7, <2>1, <2>2 DEF Resolved
<1>8. CASE CancelBegin
  BY <1>8 DEF CancelBegin, Unknown
<1>9. CASE RetiredSettles
  BY <1>9 DEF RetiredSettles, ReleaseSlot, SlotFree, Unknown
<1>10. CASE CloseBegin
  BY <1>10 DEF CloseBegin, Unknown
<1>11. CASE PromoteStart
  <2>1. promo \in Promotion
    BY <1>11 DEF PromoteStart, TypeOK
  <2>2. CASE promo' = [promo EXCEPT !.begun = TRUE] /\ UNCHANGED <<slot, adm>>
    <3>1. promo' # None /\ promo'.by = promo.by
      BY <2>1, <2>2, PromotionType DEF Promotion
    <3>2. QED
      BY <1>11, <2>2, <3>1 DEF PromoteStart, Unknown
  <2>3. CASE NotPromoted
    BY <1>11, <2>3 DEF PromoteStart, NotPromoted, ReleaseSlot, SlotFree, Unknown
  <2>4. QED
    BY <1>11, <2>2, <2>3 DEF PromoteStart
<1>12. CASE PromoteDeliver
  <2>1. promo.input # None
    BY <1>12, PromotionType DEF PromoteDeliver, TypeOK
  <2>2. QED
    BY <1>12, <2>1 DEF PromoteDeliver, BeginExecution, Unknown
<1>13. CASE AfterExecution
  <2>1. CASE ReleaseSlot /\ UNCHANGED promo
    BY <1>13, <2>1 DEF AfterExecution, ReleaseSlot, SlotFree, Unknown
  <2>2. CASE \E i \in Input : /\ ~Blocked
                              /\ promo' = [input |-> i, by |-> "execution", begun |-> FALSE]
                              /\ at' = "promoting" /\ UNCHANGED <<active, execution>>
    <3>1. PICK i \in Input : promo' = [input |-> i, by |-> "execution", begun |-> FALSE]
      BY <2>2
    <3>2. promo' # None /\ promo'.by = "execution"
      BY <3>1, PromotionType
    <3>3. QED
      BY <1>13, <2>2, <3>2 DEF AfterExecution, Blocked, Unknown
  <2>3. QED
    BY <1>13, <2>1, <2>2 DEF AfterExecution
<1>14. CASE PromoteNext
  <2>1. CASE adm' = "idle" /\ UNCHANGED promo
    BY <1>14, <2>1 DEF PromoteNext, Unknown
  <2>2. CASE \E i \in Input : /\ active = None /\ ~Blocked /\ adm' = "promote"
                              /\ promo' = [input |-> i, by |-> "chain", begun |-> FALSE]
    BY <1>5, <1>14, <2>2 DEF PromoteNext, Blocked, TypeOK
  <2>3. QED
    BY <1>14, <2>1, <2>2 DEF PromoteNext
<1>15. ASSUME NEW i \in Input, SubmitBegin(i) PROVE Goal
  BY <1>15 DEF SubmitBegin, Unknown
<1>16. ASSUME NEW i \in Input, SubmitAdmit(i) PROVE Goal
  <2>1. CASE adm' = "idle" /\ UNCHANGED promo
    BY <1>16, <2>1 DEF SubmitAdmit, Unknown
  <2>2. CASE adm' = "promote" /\ active = None /\ execution = None /\ ~Blocked
             /\ promo' = [input |-> i, by |-> "chain", begun |-> FALSE]
    BY <1>5, <1>16, <2>2 DEF SubmitAdmit, Blocked, TypeOK
  <2>3. QED
    BY <1>16, <2>1, <2>2 DEF SubmitAdmit
<1>17. CASE \E i \in Input : Withdraw(i) \/ Replace(i)
  BY <1>1, <1>17 DEF Withdraw, Replace, process
<1>18. CASE StepStart \/ ModelAnswers \/ ModelCalls \/ RequestsDone \/ ToolsDone
            \/ TurnWaits \/ TurnCompletes \/ TurnThrows
  BY <1>18 DEF StepStart, ModelAnswers, ModelCalls, RequestsDone, ToolsDone, TurnWaits,
               TurnCompletes, TurnThrows, Goes, Unknown
<1>19. CASE TurnSettles
  BY <1>19 DEF TurnSettles, Unknown
<1>20. ASSUME NEW o \in Op, \/ RequestTool(o) \/ AdmitTool(o) \/ StartTool(o) \/ CallTool(o)
                            \/ NotCalled(o) \/ ToolReturns(o) \/ StrayReturns(o)
       PROVE  Goal
  <2>1. \A p \in Op : op'[p] = "unknown" => op[p] = "unknown"
    BY <1>20 DEF RequestTool, AdmitTool, StartTool, CallTool, NotCalled, ToolReturns, StrayReturns,
                 Records, Outcome, TypeOK
  <2>2. UNCHANGED <<session, active, execution, at, promo, adm>>
    BY <1>20 DEF RequestTool, AdmitTool, StartTool, CallTool, NotCalled, ToolReturns, StrayReturns
  <2>3. QED
    BY <1>1, <2>1, <2>2
<1>21. ASSUME NEW o \in Op, ResolveOperation(o) PROVE Goal
  <2>1. \A p \in Op : op'[p] = "unknown" => op[p] = "unknown"
    BY <1>21 DEF ResolveOperation, TypeOK
  <2>2. QED
    BY <1>21, <2>1 DEF ResolveOperation, Unknown
<1>22. CASE CancelSettled \/ CancelRefused \/ CloseStart
  BY <1>22 DEF CancelSettled, CancelRefused, CloseStart, Unknown
<1>23. CASE CancelGraceEnds
  BY <1>23 DEF CancelGraceEnds, Unknown
<1>24. CASE CancelRecorded
  BY <1>24 DEF CancelRecorded, SlotFree, BoundaryInv, Unknown
<1>25. CASE CloseSettled \/ CloseRecorded \/ CloseRefused
  BY <1>25 DEF CloseSettled, CloseRecorded, CloseRefused, Detached, SlotFree
<1>26. CASE CloseGraceEnds
  BY <1>26 DEF CloseGraceEnds, Detached, SlotFree, Unknown
<1>27. ASSUME NEW o \in Op, BoundaryRecords(o) PROVE Goal
  <2>1. promo = None
    BY <1>27 DEF BoundaryRecords, BoundaryInv
  <2>2. QED
    BY <1>27, <2>1 DEF BoundaryRecords
<1>28. CASE AttachRefused \/ UNCHANGED vars
  BY <1>1, <1>28 DEF AttachRefused, vars, process
<1>29. QED
  BY <1>2, <1>3, <1>6, <1>7, <1>8, <1>9, <1>10, <1>11, <1>12, <1>13, <1>14, <1>15, <1>16, <1>17,
     <1>18, <1>19, <1>20, <1>21, <1>22, <1>23, <1>24, <1>25, <1>26, <1>27, <1>28
  DEF Next, Execute, Promote, Settle

-------------------------------------------------------------------------------
(* Boundaries *)

\* What the fence leaves in the executor, and what a verdict is about.
LEMMA FencedAtRest == TypeOK => \A o \in Op :
  /\ Fenced[o] \in {"idle", "loose", "orphan"}
  /\ Fenced[o] \in {"loose", "orphan"} => opc[o] \in {"running", "loose", "orphan"}
  BY DEF Fenced, TypeOK

\* A verdict is about operations that the ledger has without an outcome.
LEMMA VerdictAbout == \A t : \A o \in Op :
  /\ Verdict(t)[o] # "none" => opTurn[o] = t /\ op[o] \in {"requested", "admitted", "started"}
  /\ Verdict(t)[o] = "spare" => op[o] \in {"requested", "admitted"}
  BY DEF Verdict

\* Every step keeps what is said of cancel and close.
LEMMA NextBoundary ==
  TypeOK /\ SlotInv /\ PromotionInv /\ BoundaryInv /\ [Next]_vars => BoundaryInv'
<1> SUFFICES ASSUME TypeOK, SlotInv, PromotionInv, BoundaryInv, [Next]_vars PROVE BoundaryInv'
  OBVIOUS
<1> USE SessionAssumption
    DEF BoundaryInv, BoundaryAccepted, inputs, turns, operations, slot, chain, ledger
<1>1. CASE UNCHANGED <<adm, session, awaited, active, aborted, at, subject, verdict, opc, op>>
  BY <1>1 DEF ToRecord, Recordable
<1>2. CASE adm' \notin {"close", "boundary", "closeBoundary"} /\ \A o \in Op : verdict'[o] = "none"
  BY <1>2
<1>3. CASE Attach \/ Crash \/ CloseSettled \/ CloseRecorded \/ CloseRefused
  BY <1>2, <1>3 DEF Attach, Crash, CloseSettled, CloseRecorded, CloseRefused, Detached, SlotInv
<1>4. CASE ResumeCurrent \/ Resolved \/ CancelBegin \/ PromoteNext
  BY <1>2, <1>4 DEF ResumeCurrent, Resolved, CancelBegin, PromoteNext
<1>5. CASE \E i \in Input : SubmitBegin(i) \/ SubmitAdmit(i) \/ Withdraw(i) \/ Replace(i)
  BY <1>1, <1>2, <1>5 DEF SubmitBegin, SubmitAdmit, Withdraw, Replace, process
<1>6. CASE \E o \in Op : ResolveOperation(o)
  BY <1>2, <1>6 DEF ResolveOperation
<1>7. CASE RetiredSettles
  BY <1>7 DEF RetiredSettles, ReleaseSlot, SlotFree, ToRecord, Recordable
<1>8. CASE CloseBegin
  BY <1>8 DEF CloseBegin, ToRecord, Recordable
<1>9. CASE PromoteStart
  <2>1. CASE UNCHANGED <<slot, adm>>
    BY <1>1, <1>9, <2>1 DEF PromoteStart
  <2>2. CASE NotPromoted
    <3>1. CASE promo.by = "chain"
      BY <1>2, <1>9, <2>2, <3>1 DEF PromoteStart, NotPromoted, PromotionInv
    <3>2. CASE promo.by # "chain"
      BY <1>9, <2>2, <3>2 DEF PromoteStart, NotPromoted, ReleaseSlot, SlotFree, PromotionInv
    <3>3. QED
      BY <3>1, <3>2
  <2>3. QED
    BY <1>9, <2>1, <2>2 DEF PromoteStart
<1>10. CASE PromoteDeliver
  BY <1>10 DEF PromoteDeliver, BeginExecution, PromotionInv
<1>11. CASE AfterExecution
  BY <1>11 DEF AfterExecution, ReleaseSlot, SlotFree, SlotInv
<1>12. CASE StepStart \/ ModelAnswers \/ ModelCalls \/ RequestsDone \/ ToolsDone
            \/ TurnWaits \/ TurnCompletes \/ TurnThrows
  <2>1. /\ at # "none" /\ at' \notin {"none", "after", "promoting"}
        /\ UNCHANGED <<adm, session, awaited, active, aborted, subject, verdict>>
    BY <1>12 DEF StepStart, ModelAnswers, ModelCalls, RequestsDone, ToolsDone, TurnWaits,
                 TurnCompletes, TurnThrows, Goes
  <2>2. QED
    BY <2>1
<1>13. CASE TurnSettles
  BY <1>13 DEF TurnSettles
<1>14. ASSUME NEW o \in Op, RequestTool(o) \/ AdmitTool(o) \/ StartTool(o) \/ CallTool(o)
                            \/ NotCalled(o)
       PROVE  BoundaryInv'
  <2>1. at # "none" /\ UNCHANGED <<adm, session, awaited, active, aborted, at, subject, verdict>>
    BY <1>14 DEF RequestTool, AdmitTool, StartTool, CallTool, NotCalled
  <2>2. QED
    BY <2>1
<1>15. ASSUME NEW o \in Op, ToolReturns(o) PROVE BoundaryInv'
  <2>1. /\ opc[o] = "running"
        /\ UNCHANGED <<adm, session, awaited, active, aborted, at, subject, verdict>>
    BY <1>15 DEF ToolReturns, Records
  <2>2. QED
    BY <2>1
<1>16. ASSUME NEW o \in Op, StrayReturns(o) PROVE BoundaryInv'
  BY <1>16 DEF StrayReturns, ToRecord, Recordable, TypeOK
<1>17. CASE CancelSettled \/ CancelRefused \/ CancelRecorded
  BY <1>2, <1>17 DEF CancelSettled, CancelRefused, CancelRecorded
<1>18. CASE CloseStart
  <2>1. /\ adm' = "close" /\ session' = "closing" /\ UNCHANGED <<active, subject, verdict>>
        /\ active # None => aborted'
    BY <1>18 DEF CloseStart
  <2>2. QED
    BY <1>18, <2>1 DEF CloseStart
<1>19. CASE CancelGraceEnds
  <2>1. CASE active = None
    BY <1>2, <1>19, <2>1 DEF CancelGraceEnds
  <2>2. CASE active # None
    <3>1. /\ adm' = "boundary" /\ at' = "none" /\ subject' # None
          /\ \A o \in Op : opc'[o] \in {"idle", "loose", "orphan"}
      BY <1>19, <2>2, FencedAtRest DEF CancelGraceEnds
    <3>2. \A o \in Op : verdict'[o] # "none" => op'[o] \in {"requested", "admitted", "started"}
      BY <1>19, <2>2, VerdictAbout DEF CancelGraceEnds
    <3>3. BoundaryAccepted'
      BY <3>2 DEF ToRecord, Recordable, Outcome
    <3>4. QED
      BY <3>1, <3>3
  <2>3. QED
    BY <2>1, <2>2
<1>20. CASE CloseGraceEnds
  <2>1. CASE active = None
    BY <1>2, <1>20, <2>1 DEF CloseGraceEnds, Detached
  <2>2. CASE active # None
    BY <1>20, <2>2 DEF CloseGraceEnds, SlotInv
  <2>3. QED
    BY <2>1, <2>2
<1>21. ASSUME NEW o \in Op, BoundaryRecords(o) PROVE BoundaryInv'
  <2>1. /\ adm \in {"boundary", "closeBoundary"}
        /\ UNCHANGED <<adm, session, awaited, active, aborted, at, subject, opc>>
    BY <1>21 DEF BoundaryRecords
  <2>2. \A p \in ToRecord' : p \in ToRecord /\ op'[p] = op[p]
    BY <1>21 DEF BoundaryRecords, ToRecord, TypeOK
  <2>3. BoundaryAccepted'
    BY <2>1, <2>2 DEF Recordable
  <2>4. QED
    BY <2>1, <2>3
<1>22. CASE AttachRefused \/ UNCHANGED vars
  BY <1>1, <1>22 DEF AttachRefused, vars, process
<1>23. QED
  BY <1>3, <1>4, <1>5, <1>6, <1>7, <1>8, <1>9, <1>10, <1>11, <1>12, <1>13, <1>14, <1>15, <1>16,
     <1>17, <1>18, <1>19, <1>20, <1>21, <1>22
  DEF Next, Execute, Promote, Settle

-------------------------------------------------------------------------------
(* Operations *)

\* Every step keeps the agreement between the executor and the ledger.
LEMMA NextOperation ==
  TypeOK /\ SlotInv /\ BoundaryInv /\ OperationInv /\ [Next]_vars => OperationInv'
<1> SUFFICES ASSUME TypeOK, SlotInv, BoundaryInv, OperationInv, [Next]_vars PROVE OperationInv'
  OBVIOUS
<1> USE SessionAssumption
    DEF OperationInv, inputs, turns, operations, slot, chain, ledger, history
<1>1. CASE /\ \A o \in Op : /\ opc'[o] \in {opc[o], "idle"}
                            /\ verdict'[o] \in {verdict[o], "none"}
           /\ UNCHANGED <<op, opTurn, started, called>>
  BY <1>1
<1>2. CASE UNCHANGED <<op, opTurn, started, called, verdict, opc>>
  BY <1>2
<1>3. CASE Attach \/ AttachRefused \/ UNCHANGED vars
  BY <1>2, <1>3 DEF Attach, AttachRefused, vars, process
<1>4. CASE Crash
  BY <1>1, <1>4 DEF Crash, Detached
<1>5. CASE ResumeCurrent \/ Resolved \/ CancelBegin \/ RetiredSettles \/ CloseBegin \/ Promote
  BY <1>2, <1>5 DEF ResumeCurrent, Resolved, CancelBegin, RetiredSettles, CloseBegin, Promote,
                    PromoteStart, PromoteDeliver, AfterExecution, PromoteNext
<1>6. CASE \E i \in Input : SubmitBegin(i) \/ SubmitAdmit(i) \/ Withdraw(i) \/ Replace(i)
  BY <1>2, <1>6 DEF SubmitBegin, SubmitAdmit, Withdraw, Replace, process
<1>7. CASE StepStart \/ ModelAnswers \/ RequestsDone \/ ToolsDone \/ TurnWaits \/ TurnCompletes
           \/ TurnSettles
  BY <1>2, <1>7 DEF StepStart, ModelAnswers, RequestsDone, ToolsDone, TurnWaits, TurnCompletes,
                    TurnSettles
<1>8. CASE TurnThrows
  BY <1>1, <1>8 DEF TurnThrows
<1>9. CASE ModelCalls
  <2>1. PICK calls \in SUBSET {o \in Op : opTurn[o] = None} :
          /\ opc' = [o \in Op |-> IF o \in calls THEN "call" ELSE opc[o]]
          /\ opTurn' = [o \in Op |-> IF o \in calls THEN execution ELSE opTurn[o]]
    BY <1>9 DEF ModelCalls
  <2>2. execution # None /\ UNCHANGED <<op, started, called, verdict>>
    BY <1>9 DEF ModelCalls, Goes, SlotInv
  <2>3. QED
    BY <2>1, <2>2 DEF Outcome
<1>10. ASSUME NEW o \in Op, RequestTool(o) \/ AdmitTool(o) PROVE OperationInv'
  <2>1. /\ opc[o] \in {"call", "ready"}
        /\ opc' = [opc EXCEPT ![o] = opc'[o]] /\ opc'[o] \in {"ready", "admitted"}
        /\ op' = [op EXCEPT ![o] = op'[o]]
        /\ UNCHANGED <<opTurn, started, called, verdict>>
    BY <1>10 DEF RequestTool, AdmitTool, Records, TypeOK
  <2>2. QED
    BY <2>1 DEF TypeOK
<1>11. ASSUME NEW o \in Op, StartTool(o) PROVE OperationInv'
  BY <1>11 DEF StartTool, Records, TypeOK
<1>12. ASSUME NEW o \in Op, CallTool(o) \/ StrayReturns(o) PROVE OperationInv'
  BY <1>12 DEF CallTool, StrayReturns, TypeOK
<1>13. ASSUME NEW o \in Op, NotCalled(o) \/ ToolReturns(o) PROVE OperationInv'
  <2>1. /\ opc[o] # "idle" /\ opc' = [opc EXCEPT ![o] = "idle"]
        /\ op' = [op EXCEPT ![o] = op'[o]] /\ op'[o] \in Outcome
        /\ UNCHANGED <<opTurn, started, called, verdict>>
    BY <1>13 DEF NotCalled, ToolReturns, Records, TypeOK, Outcome
  <2>2. QED
    BY <2>1 DEF TypeOK
<1>14. ASSUME NEW o \in Op, ResolveOperation(o) PROVE OperationInv'
  BY <1>14 DEF ResolveOperation, PendingOperations, Outcome, TypeOK
<1>15. CASE CancelSettled \/ CancelRefused \/ CancelRecorded \/ CloseStart
  BY <1>1, <1>15 DEF CancelSettled, CancelRefused, CancelRecorded, CloseStart
<1>16. CASE CancelGraceEnds \/ CloseGraceEnds
  <2>1. UNCHANGED <<op, opTurn, started, called>>
    BY <1>16 DEF CancelGraceEnds, CloseGraceEnds
  <2>2. \A o \in Op : verdict'[o] # "none" => opTurn[o] # None
    BY <1>16, VerdictAbout DEF CancelGraceEnds, CloseGraceEnds, Detached
  <2>3. opc' \in {opc, Fenced}
    BY <1>16 DEF CancelGraceEnds, CloseGraceEnds, Detached
  <2>4. QED
    BY <2>1, <2>2, <2>3, FencedAtRest
<1>17. CASE CloseSettled \/ CloseRecorded \/ CloseRefused
  <2>1. /\ UNCHANGED <<op, opTurn, started, called>>
        /\ opc' = Fenced /\ \A o \in Op : verdict'[o] = "none"
    BY <1>17 DEF CloseSettled, CloseRecorded, CloseRefused, Detached
  <2>2. QED
    BY <2>1, FencedAtRest
<1>18. ASSUME NEW o \in Op, BoundaryRecords(o) PROVE OperationInv'
  <2>1. /\ verdict[o] # "none" /\ op' = [op EXCEPT ![o] = op'[o]] /\ op'[o] \in {"unknown", "failed"}
        /\ verdict' = [verdict EXCEPT ![o] = verdict'[o]]
        /\ UNCHANGED <<opTurn, started, called, opc>>
    BY <1>18 DEF BoundaryRecords, ToRecord, TypeOK
  <2>2. QED
    BY <2>1 DEF Outcome, TypeOK
<1>19. QED
  BY <1>3, <1>4, <1>5, <1>6, <1>7, <1>8, <1>9, <1>10, <1>11, <1>12, <1>13, <1>14, <1>15, <1>16,
     <1>17, <1>18
  DEF Next, Execute, Settle

\* Every step keeps spared operations out of the executor.
LEMMA NextSpare ==
  TypeOK /\ SlotInv /\ PromotionInv /\ BoundaryInv /\ OperationInv /\ SpareInv /\ [Next]_vars =>
    SpareInv'
<1> SUFFICES ASSUME TypeOK, SlotInv, PromotionInv, BoundaryInv, OperationInv, SpareInv, [Next]_vars
             PROVE  SpareInv'
  OBVIOUS
<1> USE SessionAssumption DEF SpareInv, inputs, turns, operations, slot, chain, ledger, history
<1>1. CASE /\ \A o \in Op : opc'[o] \in {opc[o], "idle"} /\ verdict'[o] \in {verdict[o], "none"}
           /\ adm = "closeBoundary" => adm' = adm
           /\ UNCHANGED <<opTurn, called, spared>>
  BY <1>1
<1>2. CASE UNCHANGED <<opTurn, called, spared, verdict, opc>> /\ (adm = "closeBoundary" => adm' = adm)
  BY <1>2
<1>3. CASE Attach \/ AttachRefused \/ UNCHANGED vars
  BY <1>2, <1>3 DEF Attach, AttachRefused, vars, process
<1>4. CASE Crash
  BY <1>4 DEF Crash, Detached
<1>5. CASE ResumeCurrent \/ Resolved \/ CancelBegin \/ RetiredSettles \/ CloseBegin \/ AfterExecution
           \/ PromoteNext
  BY <1>2, <1>5 DEF ResumeCurrent, Resolved, CancelBegin, RetiredSettles, CloseBegin,
                    AfterExecution, PromoteNext
<1>6. CASE PromoteStart \/ PromoteDeliver
  BY <1>2, <1>6 DEF PromoteStart, PromoteDeliver, NotPromoted, PromotionInv
<1>7. CASE \E i \in Input : SubmitBegin(i) \/ SubmitAdmit(i) \/ Withdraw(i) \/ Replace(i)
  BY <1>2, <1>7 DEF SubmitBegin, SubmitAdmit, Withdraw, Replace, process
<1>8. CASE StepStart \/ ModelAnswers \/ RequestsDone \/ ToolsDone \/ TurnWaits \/ TurnCompletes
           \/ TurnSettles
  BY <1>2, <1>8 DEF StepStart, ModelAnswers, RequestsDone, ToolsDone, TurnWaits, TurnCompletes,
                    TurnSettles
<1>9. CASE TurnThrows
  BY <1>1, <1>9 DEF TurnThrows
<1>10. CASE ModelCalls
  <2>1. PICK calls \in SUBSET {o \in Op : opTurn[o] = None} :
          /\ opc' = [o \in Op |-> IF o \in calls THEN "call" ELSE opc[o]]
          /\ opTurn' = [o \in Op |-> IF o \in calls THEN execution ELSE opTurn[o]]
    BY <1>10 DEF ModelCalls
  <2>2. UNCHANGED <<called, spared, verdict, adm>>
    BY <1>10 DEF ModelCalls
  <2>3. QED
    BY <2>1, <2>2
<1>11. ASSUME NEW o \in Op, RequestTool(o) \/ AdmitTool(o) \/ StartTool(o) \/ CallTool(o)
       PROVE  SpareInv'
  <2>1. /\ adm # "closeBoundary" /\ opc[o] # "idle"
        /\ opc' = [opc EXCEPT ![o] = opc'[o]]
        /\ \A p \in Op \ {o} : p \in called' <=> p \in called
        /\ UNCHANGED <<opTurn, spared, verdict, adm>>
    BY <1>11 DEF RequestTool, AdmitTool, StartTool, CallTool, Records, SlotInv, BoundaryInv, TypeOK
  <2>2. verdict[o] # "spare" /\ o \notin spared
    BY <2>1
  <2>3. QED
    BY <2>1, <2>2 DEF TypeOK
<1>12. ASSUME NEW o \in Op, NotCalled(o) \/ ToolReturns(o) \/ StrayReturns(o) PROVE SpareInv'
  BY <1>1, <1>12 DEF NotCalled, ToolReturns, StrayReturns, Records, TypeOK
<1>13. ASSUME NEW o \in Op, ResolveOperation(o) PROVE SpareInv'
  BY <1>2, <1>13 DEF ResolveOperation
<1>14. CASE CancelSettled \/ CancelRefused \/ CancelRecorded \/ CloseStart
  BY <1>1, <1>14 DEF CancelSettled, CancelRefused, CancelRecorded, CloseStart
<1>15. ASSUME NEW t \in Input, NEW o \in Op, Verdict(t)[o] = "spare"
       PROVE  o \notin called /\ opTurn[o] # None /\ opc[o] \in {"idle", "call", "ready", "admitted"}
  <2>1. op[o] \in {"requested", "admitted"} /\ opTurn[o] = t
    BY <1>15, VerdictAbout
  <2>2. o \notin started
    BY <2>1 DEF OperationInv, Outcome
  <2>3. QED
    BY <2>1, <2>2 DEF OperationInv, TypeOK
<1>16. \A o \in Op : opc[o] \in {"idle", "call", "ready", "admitted"} => Fenced[o] = "idle"
  BY FencedAtRest
<1>17. CASE CancelGraceEnds
  <2>1. CASE active = None
    BY <1>2, <1>17, <2>1 DEF CancelGraceEnds
  <2>2. CASE active # None
    <3>1. /\ active \in Input /\ adm = "cancel" /\ verdict' = Verdict(active) /\ opc' = Fenced
          /\ UNCHANGED <<opTurn, called, spared>>
      BY <1>17, <2>2 DEF CancelGraceEnds, TypeOK
    <3>2. QED
      BY <1>15, <1>16, <3>1
  <2>3. QED
    BY <2>1, <2>2
<1>18. CASE CloseGraceEnds
  <2>1. CASE active = None
    BY <1>16, <1>18, <2>1 DEF CloseGraceEnds, Detached
  <2>2. CASE active # None
    <3>1. /\ active \in Input /\ adm = "close" /\ adm' = "closeBoundary" /\ verdict' = Verdict(active)
          /\ UNCHANGED <<opTurn, called, spared, opc>>
      BY <1>18, <2>2 DEF CloseGraceEnds, TypeOK
    <3>2. QED
      BY <1>15, <3>1
  <2>3. QED
    BY <2>1, <2>2
<1>19. CASE CloseSettled \/ CloseRecorded \/ CloseRefused
  <2>1. /\ UNCHANGED <<opTurn, called, spared>>
        /\ opc' = Fenced /\ \A o \in Op : verdict'[o] = "none"
    BY <1>19 DEF CloseSettled, CloseRecorded, CloseRefused, Detached
  <2>2. QED
    BY <1>16, <2>1
<1>20. ASSUME NEW o \in Op, BoundaryRecords(o) PROVE SpareInv'
  <2>1. /\ UNCHANGED <<opTurn, called, opc, adm>>
        /\ \A p \in Op : verdict'[p] = "spare" => verdict[p] = "spare"
        /\ \A p \in Op : p \in spared' => p \in spared \/ verdict[p] = "spare"
    BY <1>20 DEF BoundaryRecords, TypeOK
  <2>2. QED
    BY <2>1
<1>21. QED
  BY <1>3, <1>4, <1>5, <1>6, <1>7, <1>8, <1>9, <1>10, <1>11, <1>12, <1>13, <1>14, <1>17, <1>18,
     <1>19, <1>20
  DEF Next, Execute, Promote, Settle

-------------------------------------------------------------------------------
(* Turns *)

\* An outcome, and a turn that goes on, changes no turn but its own.
LEMMA TurnFrame ==
  ASSUME TypeOK, NEW t \in Input, turn[t] # "none",
         \/ \E kind \in Terminal \cup {"unresolved"} : EndTurn(t, kind)
         \/ \E kind \in {"waiting", "interrupted"} : SettleTurn(t, kind)
         \/ ResumeTurn(t)
  PROVE  \A i \in Input : (turn'[i] # "none" <=> turn[i] # "none") /\ (i # t => turn'[i] = turn[i])
  BY DEF EndTurn, SettleTurn, ResumeTurn, Terminal, TypeOK

\* An active turn is not a halted one.
LEMMA HaltedTurn == \A t \in HaltedTurns : t \in Input /\ turn[t] # "none" /\ turn[t] # "active"
  BY DEF HaltedTurns, Halted

\* Every step keeps the relation between the turns and their inputs.
LEMMA NextTurn ==
  TypeOK /\ SlotInv /\ PromotionInv /\ BoundaryInv /\ TurnInv /\ StatusInv /\ [Next]_vars => TurnInv'
<1> SUFFICES ASSUME TypeOK, SlotInv, PromotionInv, BoundaryInv, TurnInv, StatusInv, [Next]_vars
             PROVE  TurnInv'
  OBVIOUS
<1> USE SessionAssumption DEF TurnInv, inputs, turns, operations, slot, chain, ledger, history
<1>1. CASE /\ \A i \in Input : (turn'[i] # "none" <=> turn[i] # "none")
                               /\ (turn[i] = "active" => turn'[i] = "active")
           /\ active' \in {active, None} /\ execution' \in {execution, None}
           /\ subject' \in {subject, active, None}
           /\ UNCHANGED <<input, promo, torn>>
  BY <1>1, PromotionType DEF TypeOK
<1>2. CASE UNCHANGED <<input, turn, active, execution, subject, promo, torn>>
  BY <1>2
<1>3. CASE AttachRefused \/ UNCHANGED vars
  BY <1>2, <1>3 DEF AttachRefused, vars, process
<1>4. CASE Attach
  <2>1. \A i \in Input : turn'[i] # "none" <=> turn[i] # "none"
    BY <1>4 DEF Attach, StatusInv, TypeOK
  <2>2. promo = None
    BY <1>4 DEF Attach, SlotInv
  <2>3. QED
    BY <1>4, <2>1, <2>2 DEF Attach, TypeOK
<1>5. ASSUME NEW s, NEW calls, Detached(s, calls),
             \A i \in Input : turn'[i] # "none" <=> turn[i] # "none",
             \A i \in Input : input'[i] = "delivered" <=> input[i] = "delivered"
      PROVE  TurnInv'
  BY <1>5 DEF Detached, SlotFree
<1>6. CASE Crash
  <2>1. \A i \in Input : input'[i] = "delivered" <=> input[i] = "delivered"
    BY <1>6 DEF Crash, TypeOK
  <2>2. QED
    BY <1>5, <1>6, <2>1 DEF Crash
<1>7. ASSUME NEW t \in Input, turn[t] # "none", ResumeTurn(t), promo = None,
             UNCHANGED <<input, subject, promo, torn>>
      PROVE  TurnInv'
  <2>1. \A i \in Input : turn'[i] # "none" <=> turn[i] # "none"
    BY <1>7, TurnFrame
  <2>2. QED
    BY <1>7, <2>1 DEF ResumeTurn, BeginExecution, TypeOK
<1>8. CASE ResumeCurrent
  <2>1. CASE HaltedTurns # {}
    <3>1. PICK t \in HaltedTurns : ResumeTurn(t)
      BY <1>8, <2>1 DEF ResumeCurrent
    <3>2. promo = None
      BY <1>8 DEF ResumeCurrent, PromotionInv, SlotInv
    <3>3. QED
      BY <1>7, <1>8, <2>1, <3>1, <3>2, HaltedTurn DEF ResumeCurrent
  <2>2. CASE HaltedTurns = {}
    <3>1. promo = None /\ promo'.begun = FALSE
      BY <1>8, <2>2 DEF ResumeCurrent, PromotionInv, SlotInv
    <3>2. QED
      BY <1>8, <2>2, <3>1 DEF ResumeCurrent
  <2>3. QED
    BY <2>1, <2>2
<1>9. CASE Resolved
  <2>1. CASE \E t \in Input : turn[t] = "unresolved" /\ ResumeTurn(t)
    <3>1. execution = None /\ promo = None
      BY <1>9 DEF Resolved, PromotionInv, SlotInv
    <3>2. QED
      BY <1>7, <1>9, <2>1, <3>1 DEF Resolved
  <2>2. CASE UNCHANGED <<turns, slot>>
    BY <1>2, <1>9, <2>2 DEF Resolved
  <2>3. QED
    BY <1>9, <2>1, <2>2 DEF Resolved
<1>10. CASE CancelBegin
  <2>1. CASE UNCHANGED turns
    BY <1>2, <1>10, <2>1 DEF CancelBegin
  <2>2. CASE execution = None
    <3>1. PICK t \in HaltedTurns : EndTurn(t, "cancelled")
      BY <1>10, <2>2 DEF CancelBegin
    <3>2. \A i \in Input : turn'[i] # "none" <=> turn[i] # "none"
      BY <3>1, TurnFrame, HaltedTurn DEF Terminal
    <3>3. promo = None
      BY <1>10, <2>2 DEF CancelBegin, PromotionInv, SlotInv
    <3>4. QED
      BY <1>10, <3>2, <3>3 DEF CancelBegin, TypeOK
  <2>3. QED
    BY <1>10, <2>1, <2>2 DEF CancelBegin
<1>11. CASE RetiredSettles \/ CloseBegin \/ CancelSettled \/ CancelRefused \/ CloseStart
  BY <1>1, <1>11 DEF RetiredSettles, ReleaseSlot, SlotFree, CloseBegin, CancelSettled,
                     CancelRefused, CloseStart
<1>12. CASE PromoteStart
  <2>1. promo \in Promotion /\ promo.input \in Input
    BY <1>12, PromotionType DEF PromoteStart, TypeOK
  <2>2. CASE input[promo.input] = "pending"
    <3>1. /\ turn' = [turn EXCEPT ![promo.input] = IF @ = "none" THEN "active" ELSE @]
          /\ promo' = [promo EXCEPT !.begun = TRUE]
          /\ UNCHANGED <<input, active, execution, subject, torn>>
      BY <1>12, <2>1, <2>2 DEF PromoteStart, TypeOK
    <3>2. promo'.input = promo.input /\ promo'.begun /\ promo' # None
      BY <2>1, <3>1, PromotionType DEF Promotion
    <3>3. turn[promo.input] = "none" \/ promo.input \in torn
      BY <1>12, <2>1, <2>2 DEF PromoteStart
    <3>4. /\ turn'[promo.input] # "none"
          /\ turn'[promo.input] = "active" \/ promo.input \in torn
          /\ \A i \in Input \ {promo.input} : turn'[i] = turn[i]
      BY <2>1, <3>1, <3>3 DEF TypeOK
    <3>5. /\ active' # None => turn'[active'] # "none"
          /\ execution' # None => turn'[execution'] # "none"
          /\ subject' # None => turn'[subject'] # "none"
      BY <3>1, <3>4 DEF TypeOK
    <3>6. \A i \in Input : input'[i] # "delivered" /\ turn'[i] # "none" =>
            i \in torn' \/ (promo' # None /\ promo'.begun /\ promo'.input = i)
      BY <1>12, <3>1, <3>2, <3>4 DEF PromoteStart
    <3>7. QED
      BY <2>2, <3>1, <3>2, <3>4, <3>5, <3>6
  <2>3. CASE input[promo.input] # "pending"
    BY <1>12, <2>3 DEF PromoteStart, NotPromoted, ReleaseSlot, SlotFree
  <2>4. QED
    BY <2>2, <2>3
<1>13. CASE PromoteDeliver
  <2>1. promo.input \in Input /\ turn[promo.input] # "none"
    BY <1>13, PromotionType DEF PromoteDeliver, TypeOK
  <2>2. \A i \in Input : input'[i] # "delivered" => input[i] # "delivered" /\ i # promo.input
    BY <1>13 DEF PromoteDeliver, Taken, TypeOK
  <2>3. QED
    BY <1>13, <2>1, <2>2 DEF PromoteDeliver, BeginExecution
<1>14. CASE AfterExecution
  <2>1. CASE ReleaseSlot /\ UNCHANGED promo
    BY <1>1, <1>14, <2>1 DEF AfterExecution, ReleaseSlot, SlotFree
  <2>2. CASE \E i \in Input : promo' = [input |-> i, by |-> "execution", begun |-> FALSE]
             /\ UNCHANGED <<active, execution>>
    <3>1. promo'.begun = FALSE
      BY <2>2
    <3>2. promo = None
      BY <1>14 DEF AfterExecution, PromotionInv, SlotInv
    <3>3. QED
      BY <1>14, <2>2, <3>1, <3>2 DEF AfterExecution
  <2>3. QED
    BY <1>14, <2>1, <2>2 DEF AfterExecution
<1>15. CASE PromoteNext
  <2>1. CASE UNCHANGED promo
    BY <1>2, <1>15, <2>1 DEF PromoteNext
  <2>2. CASE \E i \in Input : promo' = [input |-> i, by |-> "chain", begun |-> FALSE]
    <3>1. promo'.begun = FALSE /\ promo = None
      BY <1>15, <2>2 DEF PromoteNext, PromotionInv, SlotInv
    <3>2. QED
      BY <1>15, <3>1 DEF PromoteNext
  <2>3. QED
    BY <1>15, <2>1, <2>2 DEF PromoteNext
<1>16. ASSUME NEW i \in Input, SubmitBegin(i) PROVE TurnInv'
  <2>1. \A j \in Input : /\ input'[j] # "delivered" <=> input[j] # "delivered"
                         /\ input[j] = "pending" => input'[j] = "pending"
    BY <1>16 DEF SubmitBegin, TypeOK
  <2>2. \A j \in Input : /\ turn'[j] # "none" <=> turn[j] # "none"
                         /\ turn[j] = "active" => turn'[j] = "active"
    <3>1. CASE \E t \in InterruptedTurns : EndTurn(t, "cancelled")
      <4>1. PICK t \in InterruptedTurns : EndTurn(t, "cancelled")
        BY <3>1
      <4>2. t \in Input /\ turn[t] = "interrupted"
        BY DEF InterruptedTurns
      <4>3. QED
        BY <4>1, <4>2, TurnFrame DEF Terminal
    <3>2. CASE UNCHANGED turns
      BY <3>2
    <3>3. QED
      BY <1>16, <3>1, <3>2 DEF SubmitBegin
  <2>3. UNCHANGED <<active, execution, subject, promo, torn>>
    BY <1>16 DEF SubmitBegin
  <2>4. QED
    BY <2>1, <2>2, <2>3, PromotionType DEF TypeOK
<1>17. ASSUME NEW i \in Input, SubmitAdmit(i) PROVE TurnInv'
  <2>1. \A j \in Input : /\ input'[j] # "delivered" <=> input[j] # "delivered"
                         /\ input[j] = "pending" => input'[j] = "pending"
    BY <1>17 DEF SubmitAdmit, TypeOK
  <2>2. UNCHANGED <<turn, active, execution, subject, torn>>
    BY <1>17 DEF SubmitAdmit
  <2>3. CASE execution = None /\ promo' = [input |-> i, by |-> "chain", begun |-> FALSE]
    <3>1. promo = None /\ promo'.begun = FALSE
      BY <1>17, <2>3 DEF SubmitAdmit, PromotionInv, SlotInv
    <3>2. QED
      BY <2>1, <2>2, <3>1
  <2>4. CASE UNCHANGED promo
    BY <2>1, <2>2, <2>4, PromotionType DEF TypeOK
  <2>5. QED
    BY <1>17, <2>3, <2>4 DEF SubmitAdmit
<1>18. ASSUME NEW i \in Input, Withdraw(i) PROVE TurnInv'
  <2>1. /\ promo # None => ~promo.begun
        /\ UNCHANGED <<turn, active, execution, subject, promo, torn>>
    BY <1>18 DEF Withdraw, TransitionFree, process
  <2>2. \A j \in Input : input'[j] # "delivered" => input[j] # "delivered"
    BY <1>18 DEF Withdraw, Taken, TypeOK
  <2>3. QED
    BY <2>1, <2>2
<1>19. ASSUME NEW i \in Input, Replace(i) PROVE TurnInv'
  BY <1>2, <1>19 DEF Replace, process
<1>20. CASE StepStart
  <2>1. /\ promo # None => ~promo.begun
        /\ UNCHANGED <<turn, active, execution, subject, promo, torn>>
    BY <1>20 DEF StepStart, TransitionFree
  <2>2. \A j \in Input : input'[j] # "delivered" => input[j] # "delivered"
    BY <1>20 DEF StepStart, Taken, TypeOK
  <2>3. QED
    BY <2>1, <2>2
<1>21. CASE ModelAnswers \/ ModelCalls \/ RequestsDone \/ ToolsDone
  BY <1>2, <1>21 DEF ModelAnswers, ModelCalls, RequestsDone, ToolsDone
<1>22. CASE TurnWaits \/ TurnCompletes \/ TurnThrows
  <2>1. /\ execution \in Input /\ active = execution
        /\ UNCHANGED <<input, active, execution, subject, promo, torn>>
    BY <1>22 DEF TurnWaits, TurnCompletes, TurnThrows, Goes, SlotInv, TypeOK
  <2>2. \A i \in Input : turn'[i] # "none" <=> turn[i] # "none"
    BY <1>22, <2>1, TurnFrame DEF TurnWaits, TurnCompletes, TurnThrows, Terminal
  <2>3. promo = None
    BY <2>1 DEF PromotionInv
  <2>4. QED
    BY <2>1, <2>2, <2>3 DEF TypeOK
<1>23. CASE TurnSettles
  BY <1>1, <1>23 DEF TurnSettles
<1>24. CASE \E o \in Op : \/ RequestTool(o) \/ AdmitTool(o) \/ StartTool(o) \/ CallTool(o)
                          \/ NotCalled(o) \/ ToolReturns(o) \/ StrayReturns(o) \/ ResolveOperation(o)
                          \/ BoundaryRecords(o)
  BY <1>2, <1>24 DEF RequestTool, AdmitTool, StartTool, CallTool, NotCalled, ToolReturns,
                     StrayReturns, ResolveOperation, BoundaryRecords
<1>25. CASE CancelGraceEnds
  BY <1>1, <1>25 DEF CancelGraceEnds
<1>26. CASE CancelRecorded
  <2>1. subject \in Input /\ EndTurn(subject, "cancelled")
    BY <1>26 DEF CancelRecorded, BoundaryInv, TypeOK
  <2>2. \A i \in Input : turn'[i] # "none" <=> turn[i] # "none"
    BY <2>1, TurnFrame DEF Terminal
  <2>3. promo = None
    BY <1>26 DEF CancelRecorded, PromotionInv, BoundaryInv
  <2>4. QED
    BY <1>26, <2>2, <2>3 DEF CancelRecorded, SlotFree, TypeOK
<1>27. CASE CloseGraceEnds
  <2>1. CASE active = None
    BY <1>5, <1>27, <2>1 DEF CloseGraceEnds
  <2>2. CASE active # None
    BY <1>1, <1>27, <2>2 DEF CloseGraceEnds
  <2>3. QED
    BY <2>1, <2>2
<1>28. CASE CloseSettled \/ CloseRefused
  BY <1>5, <1>28 DEF CloseSettled, CloseRefused
<1>29. CASE CloseRecorded
  <2>1. subject \in Input /\ \E kind \in Terminal \cup {"unresolved"} : EndTurn(subject, kind)
    BY <1>29 DEF CloseRecorded, BoundaryInv, TypeOK, Terminal
  <2>2. \A i \in Input : turn'[i] # "none" <=> turn[i] # "none"
    BY <1>29, <2>1, TurnFrame DEF CloseRecorded, BoundaryInv
  <2>3. QED
    BY <1>5, <1>29, <2>2 DEF CloseRecorded
<1>30. QED
  BY <1>3, <1>4, <1>6, <1>8, <1>9, <1>10, <1>11, <1>12, <1>13, <1>14, <1>15, <1>16, <1>17, <1>18,
     <1>19, <1>20, <1>21, <1>22, <1>23, <1>24, <1>25, <1>26, <1>27, <1>28, <1>29
  DEF Next, Execute, Promote, Settle

-------------------------------------------------------------------------------
(* The status of the turns *)

\* What a step may do to the turns.
LEMMA TurnSteps ==
  ASSUME TypeOK, SlotInv, PromotionInv, BoundaryInv, TurnInv, [Next]_vars
  PROVE  \/ UNCHANGED turns
         \/ Attach \/ PromoteStart \/ StepStart \/ ModelAnswers \/ ToolsDone
         \/ \E t \in Input :
              /\ turn[t] # "none"
              /\ \/ \E kind \in Terminal \cup {"unresolved"} : EndTurn(t, kind)
                 \/ /\ \E kind \in {"waiting", "interrupted"} : SettleTurn(t, kind)
                    /\ UNCHANGED <<topStep, interruption, resumed, outcomes>>
                 \/ turn[t] \in Halted /\ ResumeTurn(t)
<1> USE DEF ledger, turns
<1>1. CASE Crash \/ AttachRefused \/ RetiredSettles \/ CloseBegin \/ UNCHANGED vars
  BY <1>1 DEF Crash, AttachRefused, RetiredSettles, CloseBegin, vars
<1>2. ASSUME NEW i \in Input, SubmitBegin(i) \/ SubmitAdmit(i) \/ Withdraw(i) \/ Replace(i)
      PROVE  \/ UNCHANGED turns
             \/ \E t \in Input : turn[t] # "none" /\ EndTurn(t, "cancelled")
  BY <1>2, HaltedTurn DEF SubmitBegin, SubmitAdmit, Withdraw, Replace, InterruptedTurns
<1>3. CASE ResumeCurrent \/ Resolved
  <2>1. \/ UNCHANGED turns
        \/ \E t \in Input : turn[t] \in Halted /\ ResumeTurn(t)
    BY <1>3 DEF ResumeCurrent, Resolved, HaltedTurns, Halted
  <2>2. QED
    BY <2>1 DEF Halted
<1>4. CASE CancelBegin
  BY <1>4, HaltedTurn DEF CancelBegin, Terminal
<1>5. CASE Execute
  <2>1. CASE TurnWaits \/ TurnCompletes \/ TurnThrows
    <3>1. execution \in Input /\ turn[execution] # "none"
      BY <2>1 DEF TurnWaits, TurnCompletes, TurnThrows, Goes, SlotInv, TurnInv, TypeOK
    <3>2. QED
      BY <2>1, <3>1 DEF TurnWaits, TurnCompletes, TurnThrows, Terminal
  <2>2. QED
    BY <1>5, <2>1 DEF Execute, ModelCalls, RequestsDone, TurnSettles, RequestTool, AdmitTool,
                      StartTool, CallTool, NotCalled
<1>6. CASE Promote
  BY <1>6 DEF Promote, PromoteDeliver, AfterExecution, PromoteNext
<1>7. CASE Settle
  <2>1. CASE CancelRecorded \/ CloseRecorded
    <3>1. subject \in Input /\ turn[subject] # "none"
      BY <2>1 DEF CancelRecorded, CloseRecorded, BoundaryInv, TurnInv, TypeOK
    <3>2. QED
      BY <2>1, <3>1 DEF CancelRecorded, CloseRecorded, Terminal
  <2>2. QED
    BY <1>7, <2>1 DEF Settle, CancelSettled, CancelGraceEnds, CancelRefused, CloseStart,
                      CloseSettled, CloseGraceEnds, CloseRefused, BoundaryRecords
<1>8. CASE \E o \in Op : ResolveOperation(o) \/ ToolReturns(o) \/ StrayReturns(o)
  BY <1>8 DEF ResolveOperation, ToolReturns, StrayReturns
<1>9. QED
  BY <1>1, <1>2, <1>3, <1>4, <1>5, <1>6, <1>7, <1>8 DEF Next, Terminal

\* Every step keeps what the ledger tells of the turns.
LEMMA NextStatus ==
  TypeOK /\ SlotInv /\ PromotionInv /\ BoundaryInv /\ TurnInv /\ StatusInv /\ [Next]_vars => StatusInv'
<1> SUFFICES ASSUME TypeOK, SlotInv, PromotionInv, BoundaryInv, TurnInv, StatusInv, [Next]_vars
             PROVE  StatusInv'
  OBVIOUS
<1> USE SessionAssumption DEF StatusInv
<1>1. CASE UNCHANGED turns
  BY <1>1 DEF turns
<1>2. CASE Attach
  <2>1. CASE activeTurnId = None
    BY <1>2, <2>1 DEF Attach
  <2>2. CASE activeTurnId # None
    <3>1. activeTurnId \in Input /\ turn[activeTurnId] = "active"
      BY <2>2 DEF TypeOK
    <3>2. interruption[activeTurnId] = None
      BY <1>2, <2>2, <3>1 DEF Attach, TypeOK
    <3>3. /\ turn' = [turn EXCEPT ![activeTurnId] = "interrupted"]
          /\ interruption' = [interruption EXCEPT ![activeTurnId] = lastStep[activeTurnId]]
          /\ activeTurnId' = None
          /\ UNCHANGED <<topStep, lastStep, resumed, outcomes>>
      BY <1>2, <2>2, <3>2 DEF Attach
    <3>4. QED
      BY <3>1, <3>3 DEF TypeOK, Terminal
  <2>3. QED
    BY <2>1, <2>2
<1>3. CASE PromoteStart
  <2>1. UNCHANGED <<topStep, lastStep, interruption, resumed, outcomes>>
    BY <1>3 DEF PromoteStart
  <2>2. CASE UNCHANGED <<turn, activeTurnId>>
    BY <2>1, <2>2
  <2>3. CASE /\ turn[promo.input] = "none" /\ turn' = [turn EXCEPT ![promo.input] = "active"]
             /\ activeTurnId' = promo.input
    <3>1. promo.input \in Input
      BY <1>3, PromotionType DEF PromoteStart, TypeOK
    <3>2. QED
      BY <2>1, <2>3, <3>1 DEF TypeOK, Terminal
  <2>4. QED
    BY <1>3, <2>2, <2>3 DEF PromoteStart
<1>4. CASE StepStart \/ ModelAnswers \/ ToolsDone
  <2>1. /\ execution \in Input
        /\ UNCHANGED <<turn, activeTurnId, interruption, resumed, outcomes>>
    BY <1>4 DEF StepStart, ModelAnswers, ToolsDone, Goes, SlotInv, TypeOK
  <2>2. CASE topStep' = [topStep EXCEPT ![execution] = @ + 1] /\ UNCHANGED lastStep
    <3>1. \A t \in Input : topStep'[t] \in Nat /\ topStep[t] <= topStep'[t]
      BY <2>1, <2>2 DEF TypeOK
    <3>2. QED
      BY <2>1, <2>2, <3>1 DEF TypeOK
  <2>3. CASE /\ lastStep' = [lastStep EXCEPT ![execution] =
                               IF @ < topStep[execution] THEN topStep[execution] ELSE @]
             /\ UNCHANGED topStep
    <3>1. \A t \in Input : /\ lastStep'[t] \in Nat /\ lastStep[t] <= lastStep'[t]
                           /\ lastStep'[t] \in {lastStep[t], topStep[t]}
      BY <2>1, <2>3 DEF TypeOK
    <3>2. QED
      BY <2>1, <2>3, <3>1 DEF TypeOK
  <2>4. QED
    BY <1>4, <2>2, <2>3 DEF StepStart, ModelAnswers, ToolsDone
<1>5. ASSUME NEW t \in Input, NEW kind \in Terminal \cup {"unresolved", "waiting", "interrupted"},
             SettleTurn(t, kind), kind \in Terminal => kind \in outcomes'[t],
             \A i \in Input : outcomes[i] \subseteq outcomes'[i],
             UNCHANGED <<topStep, interruption, resumed>>
      PROVE  StatusInv'
  <2>1. /\ turn' = [turn EXCEPT ![t] = kind]
        /\ activeTurnId' \in {activeTurnId, None} /\ activeTurnId' # t
        /\ \A i \in Input : lastStep'[i] \in {lastStep[i], topStep[i]}
        /\ \A i \in Input \ {t} : lastStep'[i] = lastStep[i]
    BY <1>5 DEF SettleTurn, Deactivated, TypeOK
  <2>2. kind \notin {"active", "none"}
    BY <1>5 DEF Terminal
  <2>3. activeTurnId' # None => turn'[activeTurnId'] = "active"
    BY <2>1 DEF TypeOK
  <2>4. ASSUME NEW i \in Input
        PROVE  /\ turn'[i] \in Terminal => turn'[i] \in outcomes'[i]
               /\ turn'[i] = "none" => interruption'[i] = None
    BY <1>5, <2>1, <2>2 DEF TypeOK
  <2>5. ASSUME NEW i \in Input, turn'[i] = "active", interruption'[i] # None
        PROVE  interruption'[i] < lastStep'[i]
    BY <1>5, <2>1, <2>2, <2>5 DEF TypeOK
  <2>6. QED
    BY <1>5, <2>1, <2>3, <2>4, <2>5 DEF TypeOK
<1>6. ASSUME NEW t \in Input, NEW kind \in Terminal \cup {"unresolved"}, EndTurn(t, kind)
      PROVE  StatusInv'
  <2>1. CASE kind \in outcomes[t]
    BY <1>6, <2>1 DEF EndTurn
  <2>2. CASE kind \notin outcomes[t]
    <3>1. /\ outcomes' = [outcomes EXCEPT ![t] = @ \cup {kind}]
          /\ SettleTurn(t, kind) /\ UNCHANGED <<topStep, interruption, resumed>>
      BY <1>6, <2>2 DEF EndTurn
    <3>2. kind \in outcomes'[t] /\ \A i \in Input : outcomes[i] \subseteq outcomes'[i]
      BY <3>1 DEF TypeOK
    <3>3. QED
      BY <1>5, <3>1, <3>2
  <2>3. QED
    BY <2>1, <2>2
<1>7. ASSUME NEW t \in Input, turn[t] \in Halted, ResumeTurn(t) PROVE StatusInv'
  <2> DEFINE from == topStep[t] + 1
  <2>1. CASE from \in resumed[t]
    BY <1>7, <2>1 DEF ResumeTurn
  <2>2. CASE from \notin resumed[t]
    <3>1. /\ turn' = [turn EXCEPT ![t] = "active"]
          /\ activeTurnId' = t
          /\ lastStep' = [lastStep EXCEPT ![t] = IF @ < from THEN from ELSE @]
          /\ resumed' = [resumed EXCEPT ![t] = @ \cup {from}]
          /\ UNCHANGED <<topStep, interruption, outcomes>>
      BY <1>7, <2>2 DEF ResumeTurn
    <3>2. topStep[t] \in Nat /\ from \in 1 .. (topStep[t] + 1)
      BY DEF TypeOK
    <3>3. lastStep[t] <= topStep[t] /\ (interruption[t] # None => interruption[t] <= topStep[t])
      <4>1. \A x \in resumed[t] : x \in Nat /\ x <= topStep[t]
        <5>1. resumed[t] \subseteq 1 .. (topStep[t] + 1) /\ topStep[t] \in Nat
          BY DEF TypeOK
        <5>2. QED
          BY <2>2, <5>1
      <4>2. QED
        BY <4>1
    <3>4. lastStep'[t] = from /\ resumed'[t] = resumed[t] \cup {from} /\ turn'[t] = "active"
      BY <3>1, <3>2, <3>3 DEF TypeOK
    <3>5. \A i \in Input \ {t} : /\ lastStep'[i] = lastStep[i] /\ resumed'[i] = resumed[i]
                                 /\ turn'[i] = turn[i]
      BY <3>1 DEF TypeOK
    <3>6. QED
      BY <3>1, <3>2, <3>3, <3>4, <3>5 DEF TypeOK, Terminal
  <2>3. QED
    BY <2>1, <2>2
<1>8. QED
  BY <1>1, <1>2, <1>3, <1>4, <1>5, <1>6, <1>7, TurnSteps DEF Terminal

-------------------------------------------------------------------------------
(* The open turns *)

\* An open turn is one that is under way or halted and has no end recorded.
LEMMA OpenIs == Open = {t \in Input : turn[t] \in Halted \cup {"active"} /\ outcomes[t] \cap Terminal = {}}
  BY DEF Open, Reopened, Halted, Terminal

\* A step that activates no turn.
Calms ==
  /\ Open' \subseteq Open
  /\ activeTurnId' \in {activeTurnId, None}
  /\ \A s \in Input : /\ outcomes[s] \subseteq outcomes'[s]
                      /\ turn'[s] = "active" => /\ turn[s] = "active"
                                                /\ s = activeTurnId => s = activeTurnId'

\* A step that leaves the turns alone leaves the same ones open and halted.
LEMMA Undisturbed ==
  ASSUME UNCHANGED <<turn, outcomes, activeTurnId>>
  PROVE  Calms /\ Open' = Open /\ HaltedTurns' = HaltedTurns
<1>1. Open' = Open
  BY DEF Open, Reopened
<1>2. HaltedTurns' = HaltedTurns
  BY DEF HaltedTurns
<1>3. QED
  BY <1>1, <1>2 DEF Calms

\* A turn that ends is not open.
LEMMA EndCloses ==
  ASSUME TypeOK, NEW t \in Input, turn[t] # "none", NEW kind \in Terminal, EndTurn(t, kind)
  PROVE  /\ Calms /\ t \notin Open' /\ HaltedTurns' \subseteq HaltedTurns
         /\ outcomes'[t] \cap Terminal # {}
<1>1. CASE kind \in outcomes[t]
  <2>1. UNCHANGED <<turn, outcomes, activeTurnId>>
    BY <1>1 DEF EndTurn
  <2>2. QED
    BY <1>1, <2>1, Undisturbed, OpenIs
<1>2. CASE kind \notin outcomes[t]
  <2>1. /\ turn' = [turn EXCEPT ![t] = kind]
        /\ outcomes' = [outcomes EXCEPT ![t] = @ \cup {kind}]
        /\ activeTurnId' = Deactivated(t)
    BY <1>2 DEF EndTurn, SettleTurn
  <2>2. kind \notin Halted \cup {"active"}
    BY DEF Halted, Terminal
  <2>3. /\ turn'[t] = kind /\ outcomes'[t] = outcomes[t] \cup {kind}
        /\ \A s \in Input \ {t} : turn'[s] = turn[s] /\ outcomes'[s] = outcomes[s]
    BY <2>1 DEF TypeOK
  <2>4. Open' = {s \in Input : turn'[s] \in Halted \cup {"active"} /\ outcomes'[s] \cap Terminal = {}}
    BY DEF Open, Reopened, Halted, Terminal
  <2>5. Open' \subseteq Open /\ t \notin Open'
    BY <2>2, <2>3, <2>4, OpenIs
  <2>6. HaltedTurns' \subseteq HaltedTurns
    BY <2>2, <2>3 DEF HaltedTurns
  <2>7. Calms
    BY <2>1, <2>2, <2>3, <2>5 DEF Calms, Deactivated
  <2>8. QED
    BY <2>3, <2>5, <2>6, <2>7
<1>3. QED
  BY <1>1, <1>2

\* A turn that halts opens no other.
LEMMA HaltKeeps ==
  ASSUME TypeOK, StatusInv, NEW t \in Input, turn[t] # "none",
         \/ EndTurn(t, "unresolved")
         \/ (\E kind \in {"waiting", "interrupted"} : SettleTurn(t, kind)) /\ UNCHANGED outcomes
  PROVE  Calms /\ HaltedTurns' \subseteq HaltedTurns \cup {t}
<1>1. CASE "unresolved" \in outcomes[t] /\ EndTurn(t, "unresolved")
  BY <1>1, Undisturbed DEF EndTurn
<1>2. CASE ~("unresolved" \in outcomes[t] /\ EndTurn(t, "unresolved"))
  <2>1. PICK kind \in Halted : SettleTurn(t, kind)
    BY <1>2 DEF EndTurn, Halted
  <2>2. /\ turn' = [turn EXCEPT ![t] = kind]
        /\ outcomes' \in {outcomes, [outcomes EXCEPT ![t] = @ \cup {"unresolved"}]}
        /\ activeTurnId' = Deactivated(t)
    BY <1>2, <2>1 DEF EndTurn, SettleTurn
  <2>3. /\ turn'[t] = kind /\ outcomes[t] \subseteq outcomes'[t]
        /\ \A s \in Input \ {t} : turn'[s] = turn[s] /\ outcomes'[s] = outcomes[s]
    BY <2>2 DEF TypeOK
  <2>4. Open' = {s \in Input : turn'[s] \in Halted \cup {"active"} /\ outcomes'[s] \cap Terminal = {}}
    BY DEF Open, Reopened, Halted, Terminal
  <2>5. t \in Open' => t \in Open
    <3>1. t \in Open' => outcomes[t] \cap Terminal = {}
      BY <2>3, <2>4
    <3>2. turn[t] \in Terminal => outcomes[t] \cap Terminal # {}
      BY DEF StatusInv
    <3>3. turn[t] \in Terminal \cup Halted \cup {"active"}
      BY DEF TypeOK
    <3>4. QED
      BY <3>1, <3>2, <3>3, OpenIs
  <2>6. Open' \subseteq Open
    BY <2>3, <2>4, <2>5, OpenIs
  <2>7. HaltedTurns' \subseteq HaltedTurns \cup {t}
    BY <2>3 DEF HaltedTurns
  <2>8. Calms
    BY <2>2, <2>3, <2>6 DEF Calms, Deactivated, Halted
  <2>9. QED
    BY <2>7, <2>8
<1>3. QED
  BY <1>1, <1>2

\* A promotion that begins is one.
LEMMA NewPromotion == \A i \in Input, by \in {"execution", "chain"} :
                        [input |-> i, by |-> by, begun |-> FALSE] # None
  BY PromotionType, SessionAssumption

\* Every step keeps at most one turn open.
LEMMA NextOpen ==
  TypeOK /\ SlotInv /\ PromotionInv /\ BoundaryInv /\ TurnInv /\ StatusInv /\ OpenInv /\ ActiveInv
    /\ [Next]_vars => OpenInv' /\ ActiveInv'
<1> SUFFICES ASSUME TypeOK, SlotInv, PromotionInv, BoundaryInv, TurnInv, StatusInv, OpenInv, ActiveInv,
                    [Next]_vars
             PROVE  OpenInv' /\ ActiveInv'
  OBVIOUS
<1> USE SessionAssumption DEF OpenInv, ActiveInv, inputs, turns, operations, slot, chain, ledger, history
<1> DEFINE Kept == UNCHANGED <<turn, outcomes, activeTurnId>>
           SameSession == session' = session \/ (session = "open" /\ session' = "closing")
           SameBoundary == /\ adm' = "boundary" => adm = "boundary" /\ subject' = subject
                           /\ adm' = "closeBoundary" => adm = "closeBoundary" /\ subject' = subject
           NoBoundary == adm' \notin {"boundary", "closeBoundary"}
<1>0. /\ \A s \in Open : s \in Input /\ turn[s] \in Halted \cup {"active"} /\ outcomes[s] \cap Terminal = {}
      /\ \A s \in Open' : s \in Input /\ outcomes'[s] \cap Terminal = {}
      /\ HaltedTurns = {t \in Input : turn[t] \in Halted}
  <2>1. Open' = {t \in Input : turn'[t] \in Halted \cup {"active"} /\ outcomes'[t] \cap Terminal = {}}
    BY DEF Open, Reopened, Halted, Terminal
  <2>2. QED
    BY <2>1, OpenIs DEF HaltedTurns
<1>1. CASE /\ Kept /\ UNCHANGED active /\ SameSession /\ SameBoundary
           /\ promo' = promo \/ (promo' = None /\ ~promo.begun)
           /\ at' = "settle" => at = "settle"
  <2>1. Open' = Open /\ HaltedTurns' = HaltedTurns
    BY <1>1, Undisturbed
  <2>2. QED
    BY <1>1, <2>1
<1>2. CASE /\ Kept /\ active = None /\ active' = None /\ promo = None /\ HaltedTurns = {}
           /\ session' = session /\ session \notin {"away", "closed"} /\ NoBoundary
           /\ promo' # None /\ at' # "settle"
  <2>1. Open = {}
    BY <1>2, <1>0
  <2>2. Open' = Open /\ HaltedTurns' = HaltedTurns
    BY <1>2, Undisturbed
  <2>3. QED
    BY <1>2, <2>1, <2>2
<1>3. CASE /\ Calms /\ active' = None /\ promo' = None /\ NoBoundary /\ at' # "settle"
           /\ session' \in {"away", "closed"}
           /\ \A h \in HaltedTurns' \ HaltedTurns : Open \subseteq {h}
  <2>1. OpenInv'
    BY <1>3 DEF Calms
  <2>2. ActiveInv'
    BY <1>0, <1>3 DEF Calms
  <2>3. QED
    BY <2>1, <2>2
<1>4. CASE AttachRefused \/ UNCHANGED vars \/ RetiredSettles \/ CloseBegin \/ CloseStart \/ CancelSettled
           \/ CancelRefused
  BY <1>1, <1>4 DEF AttachRefused, vars, process, RetiredSettles, ReleaseSlot, SlotFree, CloseBegin,
                    CloseStart, CancelSettled, CancelRefused
<1>5. ASSUME NEW i \in Input, Withdraw(i) \/ Replace(i) PROVE OpenInv' /\ ActiveInv'
  BY <1>1, <1>5 DEF Withdraw, Replace, process
<1>6. CASE StepStart \/ ModelAnswers \/ ModelCalls \/ RequestsDone \/ ToolsDone
  BY <1>1, <1>6 DEF StepStart, ModelAnswers, ModelCalls, RequestsDone, ToolsDone, Goes
<1>7. CASE \E o \in Op : \/ RequestTool(o) \/ AdmitTool(o) \/ StartTool(o) \/ CallTool(o)
                         \/ NotCalled(o) \/ ToolReturns(o) \/ StrayReturns(o) \/ ResolveOperation(o)
                         \/ BoundaryRecords(o)
  BY <1>1, <1>7 DEF RequestTool, AdmitTool, StartTool, CallTool, NotCalled, ToolReturns,
                    StrayReturns, ResolveOperation, BoundaryRecords
<1>8. CASE Attach
  <2>1. /\ active = None /\ active' = None /\ promo = None /\ promo' = None /\ at = "none" /\ at' = "none"
        /\ adm = "idle" /\ adm' = "idle" /\ UNCHANGED outcomes
    BY <1>8 DEF Attach, SlotInv
  <2>2. CASE activeTurnId = None
    <3>1. Open' = Open /\ HaltedTurns' = HaltedTurns /\ Kept
      BY <1>8, <2>1, <2>2, Undisturbed DEF Attach
    <3>2. QED
      BY <1>0, <2>1, <2>2, <3>1
  <2>3. CASE activeTurnId # None
    <3>1. activeTurnId \in Input /\ turn[activeTurnId] = "active"
      BY <2>3 DEF StatusInv, TypeOK
    <3>2. interruption[activeTurnId] = None
      BY <1>8, <2>3, <3>1 DEF Attach, StatusInv, TypeOK
    <3>3. turn' = [turn EXCEPT ![activeTurnId] = "interrupted"] /\ activeTurnId' = None
      BY <1>8, <2>3, <3>2 DEF Attach
    <3>4. /\ turn'[activeTurnId] = "interrupted"
          /\ \A s \in Input \ {activeTurnId} : turn'[s] = turn[s]
      BY <3>1, <3>3 DEF TypeOK
    <3>5. Open' = {t \in Input : turn'[t] \in Halted \cup {"active"} /\ outcomes'[t] \cap Terminal = {}}
      BY DEF Open, Reopened, Halted, Terminal
    <3>6. Open' = Open
      BY <2>1, <3>1, <3>4, <3>5, OpenIs DEF Halted
    <3>7. HaltedTurns' \subseteq HaltedTurns \cup {activeTurnId}
      BY <3>4 DEF HaltedTurns
    <3>8. OpenInv'
      BY <2>1, <2>3, <3>3, <3>6, <3>7
    <3>9. ActiveInv'
      BY <1>0, <2>1, <2>3, <3>3, <3>4, <3>6
    <3>10. QED
      BY <3>8, <3>9
  <2>4. QED
    BY <2>2, <2>3
<1>9. CASE Crash \/ CloseSettled \/ CloseRefused \/ (CloseGraceEnds /\ active = None)
  <2>1. Kept /\ \E s \in {"away", "closed"}, calls \in {Fenced, [o \in Op |-> "idle"]} : Detached(s, calls)
    BY <1>9 DEF Crash, CloseSettled, CloseRefused, CloseGraceEnds
  <2>2. QED
    BY <1>3, <2>1, Undisturbed DEF Detached, SlotFree
<1>10. CASE CloseRecorded
  <2>1. subject \in Input /\ turn[subject] # "none" /\ Open \subseteq {subject}
    BY <1>10 DEF CloseRecorded, BoundaryInv, TurnInv, TypeOK
  <2>2. Detached("closed", Fenced)
    BY <1>10 DEF CloseRecorded
  <2>3. Calms /\ HaltedTurns' \subseteq HaltedTurns \cup {subject}
    <3>1. CASE EndTurn(subject, "unresolved")
      BY <2>1, <3>1, HaltKeeps
    <3>2. CASE EndTurn(subject, "cancelled")
      BY <2>1, <3>2, EndCloses DEF Terminal
    <3>3. QED
      BY <1>10, <3>1, <3>2 DEF CloseRecorded
  <2>4. QED
    BY <1>3, <2>1, <2>2, <2>3 DEF Detached, SlotFree
<1>11. ASSUME NEW t \in Input, turn[t] # "none", EndTurn(t, "cancelled"),
              UNCHANGED <<active, promo, at, session>>, NoBoundary
       PROVE  OpenInv' /\ ActiveInv'
  <2>1. Calms /\ HaltedTurns' \subseteq HaltedTurns
    BY <1>11, EndCloses DEF Terminal
  <2>2. OpenInv'
    BY <1>11, <2>1 DEF Calms
  <2>3. at' = "settle" => active \in Input
    BY <1>11 DEF SlotInv, TypeOK
  <2>4. ActiveInv'
    BY <1>0, <1>11, <2>1, <2>3 DEF Calms
  <2>5. QED
    BY <2>2, <2>4
<1>12. ASSUME NEW i \in Input, SubmitBegin(i) PROVE OpenInv' /\ ActiveInv'
  <2>1. CASE UNCHANGED turns
    BY <1>1, <1>12, <2>1 DEF SubmitBegin
  <2>2. CASE \E t \in InterruptedTurns : EndTurn(t, "cancelled")
    BY <1>11, <1>12, <2>2 DEF SubmitBegin, InterruptedTurns
  <2>3. QED
    BY <1>12, <2>1, <2>2 DEF SubmitBegin
<1>13. CASE CancelBegin
  <2>1. CASE UNCHANGED turns
    BY <1>1, <1>13, <2>1 DEF CancelBegin
  <2>2. CASE \E t \in HaltedTurns : EndTurn(t, "cancelled")
    BY <1>11, <1>13, <2>2, HaltedTurn DEF CancelBegin
  <2>3. QED
    BY <1>13, <2>1, <2>2 DEF CancelBegin
<1>14. ASSUME NEW t \in HaltedTurns, ResumeTurn(t), promo = None, UNCHANGED <<promo, session>>, NoBoundary
       PROVE  OpenInv' /\ ActiveInv'
  <2>1. t \in Input /\ turn[t] \in Halted /\ Open \subseteq {t} /\ turn[t] # "active"
    BY <1>0, <1>14 DEF Halted
  <2>2. active' = t /\ at' = "start" /\ UNCHANGED outcomes
    BY <1>14 DEF ResumeTurn, BeginExecution
  <2>3. CASE Kept
    <3>1. Open' = Open /\ HaltedTurns' = HaltedTurns
      BY <2>3, Undisturbed
    <3>2. QED
      BY <1>14, <2>1, <2>2, <2>3, <3>1
  <2>4. CASE turn' = [turn EXCEPT ![t] = "active"] /\ activeTurnId' = t
    <3>1. turn'[t] = "active" /\ \A s \in Input \ {t} : turn'[s] = turn[s]
      BY <2>1, <2>4 DEF TypeOK
    <3>2. Open' = {s \in Input : turn'[s] \in Halted \cup {"active"} /\ outcomes'[s] \cap Terminal = {}}
      BY DEF Open, Reopened, Halted, Terminal
    <3>3. Open' \subseteq Open
      BY <2>1, <2>2, <3>1, <3>2, OpenIs
    <3>4. HaltedTurns' \subseteq HaltedTurns
      BY <3>1 DEF HaltedTurns, Halted
    <3>5. QED
      BY <1>14, <2>1, <2>2, <2>4, <3>3, <3>4
  <2>5. QED
    BY <1>14, <2>3, <2>4 DEF ResumeTurn
<1>15. ASSUME NEW i \in Input, SubmitAdmit(i) PROVE OpenInv' /\ ActiveInv'
  <2>1. CASE UNCHANGED promo /\ adm' = "idle"
    BY <1>1, <1>15, <2>1 DEF SubmitAdmit
  <2>2. CASE /\ active = None /\ execution = None /\ ~Blocked /\ adm' = "promote"
             /\ promo' = [input |-> i, by |-> "chain", begun |-> FALSE]
    <3>1. adm = "submit" /\ promo' # None /\ at' # "settle"
      <4>1. promo' # None
        BY <2>2, NewPromotion
      <4>2. QED
        BY <1>15, <2>2, <4>1 DEF SubmitAdmit, SlotInv
    <3>2. promo = None /\ session \notin {"away", "closed"}
      BY <2>2, <3>1 DEF PromotionInv, SlotInv
    <3>3. QED
      BY <1>2, <1>15, <2>2, <3>1, <3>2 DEF SubmitAdmit, Blocked
  <2>3. QED
    BY <1>15, <2>1, <2>2 DEF SubmitAdmit
<1>16. CASE ResumeCurrent
  <2>1. promo = None /\ at = "none"
    BY <1>16 DEF ResumeCurrent, PromotionInv, SlotInv
  <2>2. CASE HaltedTurns # {}
    BY <1>14, <1>16, <2>1, <2>2 DEF ResumeCurrent
  <2>3. CASE HaltedTurns = {}
    <3>1. promo' # None /\ adm' = "promote" /\ UNCHANGED <<turns, slot>>
      <4>1. \E i \in Input : promo' = [input |-> i, by |-> "chain", begun |-> FALSE]
        BY <1>16, <2>3 DEF ResumeCurrent
      <4>2. promo' # None
        BY <4>1, NewPromotion
      <4>3. QED
        BY <1>16, <2>3, <4>2 DEF ResumeCurrent
    <3>2. QED
      BY <1>2, <1>16, <2>1, <2>3, <3>1 DEF ResumeCurrent
  <2>4. QED
    BY <2>2, <2>3
<1>17. CASE Resolved
  <2>1. promo = None
    BY <1>17 DEF Resolved, PromotionInv, SlotInv
  <2>2. CASE \E t \in Input : turn[t] = "unresolved" /\ ResumeTurn(t) /\ adm' = "idle"
    <3>1. PICK t \in HaltedTurns : ResumeTurn(t) /\ adm' = "idle"
      BY <2>2 DEF HaltedTurns, Halted
    <3>2. QED
      BY <1>14, <1>17, <2>1, <3>1 DEF Resolved
  <2>3. CASE UNCHANGED <<turns, slot>> /\ adm' \in {"next", "idle"}
    BY <1>1, <1>17, <2>3 DEF Resolved
  <2>4. QED
    BY <1>17, <2>2, <2>3 DEF Resolved
<1>18. CASE AfterExecution \/ PromoteNext
  <2>1. CASE UNCHANGED promo
    BY <1>1, <1>18, <2>1 DEF AfterExecution, PromoteNext, ReleaseSlot, SlotFree
  <2>2. CASE /\ HaltedTurns = {} /\ active = None /\ active' = None
             /\ \E i \in Input, by \in {"execution", "chain"} :
                  promo' = [input |-> i, by |-> by, begun |-> FALSE]
    <3>1. promo' # None /\ at' # "settle" /\ NoBoundary
      <4>1. promo' # None
        BY <2>2, NewPromotion
      <4>2. at' # "settle" /\ adm \notin {"boundary", "closeBoundary"}
        BY <1>18 DEF AfterExecution, PromoteNext, SlotInv, PromotionInv, BoundaryInv, ReleaseSlot, SlotFree
      <4>3. adm' \in {adm, "idle", "promote"}
        BY <1>18 DEF AfterExecution, PromoteNext
      <4>4. QED
        BY <4>1, <4>2, <4>3
    <3>2. promo = None /\ session \notin {"away", "closed"}
      BY <1>18 DEF AfterExecution, PromoteNext, PromotionInv, SlotInv
    <3>3. QED
      BY <1>2, <1>18, <2>2, <3>1, <3>2 DEF AfterExecution, PromoteNext
  <2>3. QED
    BY <1>18, <2>1, <2>2 DEF AfterExecution, PromoteNext, Blocked, SlotInv
<1>19. CASE PromoteStart
  <2>1. /\ promo \in Promotion /\ promo.input \in Input /\ active = None /\ HaltedTurns = {}
        /\ Open \subseteq {promo.input} /\ ~promo.begun /\ at # "settle" /\ NoBoundary
    <3>1. promo \in Promotion /\ promo.input \in Input /\ ~promo.begun
      BY <1>19, PromotionType DEF PromoteStart, TypeOK
    <3>2. active = None /\ HaltedTurns = {} /\ Open \subseteq {promo.input} /\ at \in {"promoting", "none"}
      BY <1>19 DEF PromoteStart, PromotionInv
    <3>3. adm \notin {"boundary", "closeBoundary"}
      BY <1>19 DEF PromoteStart, PromotionInv, BoundaryInv
    <3>4. adm' \in {adm, "idle"}
      BY <1>19 DEF PromoteStart, NotPromoted
    <3>5. QED
      BY <3>1, <3>2, <3>3, <3>4
  <2>2. CASE NotPromoted /\ UNCHANGED <<turn, activeTurnId>>
    BY <1>1, <1>19, <2>1, <2>2 DEF PromoteStart, NotPromoted, ReleaseSlot, SlotFree
  <2>3. CASE promo' = [promo EXCEPT !.begun = TRUE] /\ UNCHANGED <<slot, adm>>
    <3>1. promo'.input = promo.input /\ promo'.begun /\ promo' # None
      BY <2>1, <2>3, PromotionType DEF Promotion
    <3>2. CASE UNCHANGED <<turn, activeTurnId>>
      <4>1. Open' = Open /\ HaltedTurns' = HaltedTurns
        BY <1>19, <3>2, Undisturbed DEF PromoteStart
      <4>2. QED
        BY <1>19, <2>1, <2>3, <3>1, <3>2, <4>1 DEF PromoteStart
    <3>3. CASE /\ turn[promo.input] = "none" /\ turn' = [turn EXCEPT ![promo.input] = "active"]
               /\ activeTurnId' = promo.input
      <4>1. /\ turn'[promo.input] = "active" /\ \A s \in Input \ {promo.input} : turn'[s] = turn[s]
            /\ UNCHANGED outcomes
        BY <1>19, <2>1, <3>3 DEF PromoteStart, TypeOK
      <4>2. Open' = {s \in Input : turn'[s] \in Halted \cup {"active"} /\ outcomes'[s] \cap Terminal = {}}
        BY DEF Open, Reopened, Halted, Terminal
      <4>3. Open' \subseteq {promo.input}
        BY <2>1, <4>1, <4>2, OpenIs
      <4>4. HaltedTurns' = {}
        BY <2>1, <4>1 DEF HaltedTurns, Halted
      <4>5. QED
        BY <1>19, <2>1, <2>3, <3>1, <3>3, <4>3, <4>4 DEF PromoteStart
    <3>4. QED
      BY <1>19, <2>3, <3>2, <3>3 DEF PromoteStart, NotPromoted
  <2>4. QED
    BY <1>19, <2>2, <2>3 DEF PromoteStart
<1>20. CASE PromoteDeliver
  <2>1. /\ active' = promo.input /\ promo' = None /\ at' = "start" /\ Kept /\ NoBoundary
        /\ Open \subseteq {promo.input} /\ UNCHANGED session
    <3>1. adm \notin {"boundary", "closeBoundary"}
      BY <1>20 DEF PromoteDeliver, PromotionInv, BoundaryInv
    <3>2. QED
      BY <1>20, <3>1 DEF PromoteDeliver, BeginExecution
  <2>2. Open' = Open /\ HaltedTurns' = HaltedTurns
    BY <2>1, Undisturbed
  <2>3. QED
    BY <2>1, <2>2
<1>21. CASE TurnWaits \/ TurnCompletes \/ TurnThrows
  <2>1. /\ execution \in Input /\ active = execution /\ turn[execution] # "none" /\ promo = None
        /\ at' = "settle" /\ UNCHANGED <<active, promo, session, adm, subject>>
    BY <1>21 DEF TurnWaits, TurnCompletes, TurnThrows, Goes, SlotInv, TurnInv, PromotionInv, TypeOK
  <2>2. Calms /\ HaltedTurns' \subseteq HaltedTurns \cup {execution}
        /\ (turn'[execution] # "active" \/ outcomes'[execution] \cap Terminal # {})
    <3>1. CASE \E kind \in Terminal : EndTurn(execution, kind)
      BY <2>1, <3>1, EndCloses
    <3>2. CASE (\E kind \in {"waiting", "interrupted"} : SettleTurn(execution, kind)) /\ UNCHANGED outcomes
      <4>1. Calms /\ HaltedTurns' \subseteq HaltedTurns \cup {execution}
        BY <2>1, <3>2, HaltKeeps
      <4>2. turn'[execution] # "active"
        BY <2>1, <3>2 DEF SettleTurn, TypeOK
      <4>3. QED
        BY <4>1, <4>2
    <3>3. QED
      BY <1>21, <3>1, <3>2 DEF TurnWaits, TurnCompletes, TurnThrows, Terminal
  <2>3. OpenInv'
    BY <2>1, <2>2 DEF Calms
  <2>4. ActiveInv'
    BY <1>0, <2>1, <2>2 DEF Calms
  <2>5. QED
    BY <2>3, <2>4
<1>22. CASE TurnSettles
  <2>1. /\ Kept /\ active' = None /\ at' # "settle" /\ active \in Input /\ promo = None
        /\ UNCHANGED <<promo, session, adm, subject>> /\ adm # "boundary"
    BY <1>22 DEF TurnSettles, SlotInv, PromotionInv, BoundaryInv, TypeOK
  <2>2. Open' = Open /\ HaltedTurns' = HaltedTurns
    BY <2>1, Undisturbed
  <2>3. ActiveInv'
    BY <1>0, <1>22, <2>1, <2>2 DEF TurnSettles
  <2>4. QED
    BY <2>1, <2>2, <2>3
<1>23. CASE CancelGraceEnds \/ (CloseGraceEnds /\ active # None)
  <2>1. CASE active = None
    BY <1>1, <1>23, <2>1 DEF CancelGraceEnds
  <2>2. CASE active # None
    <3>1. /\ Kept /\ subject' = active /\ UNCHANGED <<active, promo, session>>
          /\ at' \in {at, "none"}
      BY <1>23, <2>2 DEF CancelGraceEnds, CloseGraceEnds
    <3>2. Open' = Open /\ HaltedTurns' = HaltedTurns
      BY <3>1, Undisturbed
    <3>3. QED
      BY <2>2, <3>1, <3>2
  <2>3. QED
    BY <2>1, <2>2
<1>24. CASE CancelRecorded
  <2>1. /\ subject \in Input /\ turn[subject] # "none" /\ active = subject /\ promo = None
        /\ EndTurn(subject, "cancelled")
    BY <1>24 DEF CancelRecorded, BoundaryInv, TurnInv, PromotionInv, TypeOK
  <2>2. /\ active' = None /\ at' = "none" /\ NoBoundary /\ UNCHANGED <<promo, session>>
    BY <1>24 DEF CancelRecorded, SlotFree
  <2>3. Calms /\ subject \notin Open' /\ HaltedTurns' \subseteq HaltedTurns
    BY <2>1, EndCloses DEF Terminal
  <2>4. OpenInv'
    BY <2>1, <2>2, <2>3 DEF Calms
  <2>5. ActiveInv'
    BY <1>0, <2>1, <2>2, <2>3 DEF Calms
  <2>6. QED
    BY <2>4, <2>5
<1>25. QED
  BY <1>4, <1>5, <1>6, <1>7, <1>8, <1>9, <1>10, <1>12, <1>13, <1>15, <1>16, <1>17, <1>18, <1>19,
     <1>20, <1>21, <1>22, <1>23, <1>24
  DEF Next, Execute, Promote, Settle

-------------------------------------------------------------------------------
(* The theorems *)

\* The inductive invariant holds initially,
LEMMA InitIInv == Init => IInv
<1> SUFFICES ASSUME Init PROVE IInv
  OBVIOUS
<1> USE SessionAssumption DEF Init
<1>1. TypeOK
  <2>1. /\ input \in [Input -> {"new", "submitting", "pending", "delivered", "withdrawn"}]
        /\ ahead \in [Input -> SUBSET Input]
        /\ target \in [Input -> Input \cup {None}]
    OBVIOUS
  <2>2. /\ turn \in [Input -> {"none", "active"} \cup Halted \cup Terminal]
        /\ topStep \in [Input -> Nat] /\ lastStep \in [Input -> Nat]
        /\ interruption \in [Input -> Nat \cup {None}]
        /\ resumed \in [Input -> SUBSET Nat]
        /\ outcomes \in [Input -> SUBSET (Terminal \cup {"unresolved"})]
    OBVIOUS
  <2>7. activeTurnId \in Input \cup {None}
    OBVIOUS
  <2>3. /\ op \in [Op -> {"none", "requested", "admitted", "started", "unknown"} \cup Outcome]
        /\ opTurn \in [Op -> Input \cup {None}]
        /\ verdict \in [Op -> {"none", "spare", "fail", "unknown", "recorded"}]
        /\ opc \in [Op -> {"idle", "call", "ready", "admitted", "starting", "running", "loose",
                           "orphan"}]
    OBVIOUS
  <2>4. /\ active \in Input \cup {None} /\ aborted \in BOOLEAN /\ execution \in Input \cup {None}
        /\ awaited \in BOOLEAN /\ promo \in Promotion \cup {None} /\ subject \in Input \cup {None}
        /\ started \subseteq Op /\ called \subseteq Op /\ spared \subseteq Op /\ torn \subseteq Input
        /\ refused \in BOOLEAN
    OBVIOUS
  <2>5. attachments \in 0 .. MaxAttachments
    OBVIOUS
  <2>6. QED
    BY <2>1, <2>2, <2>3, <2>4, <2>5, <2>7 DEF TypeOK
<1>2. SlotInv /\ PromotionInv
  BY DEF SlotInv, PromotionInv
<1>3. BoundaryInv /\ OperationInv /\ SpareInv /\ TurnInv
  BY DEF BoundaryInv, BoundaryAccepted, OperationInv, SpareInv, TurnInv
<1>4. Open = {} /\ HaltedTurns = {}
  BY DEF Open, HaltedTurns, Halted
<1>5. StatusInv
  BY DEF StatusInv, Terminal
<1>6. OpenInv /\ ActiveInv
  BY <1>4 DEF OpenInv, ActiveInv
<1>7. QED
  BY <1>1, <1>2, <1>3, <1>5, <1>6 DEF IInv

\* every step keeps it,
LEMMA NextIInv == IInv /\ [Next]_vars => IInv'
  BY NextType, NextSlot, NextBoundary, NextOperation, NextSpare, NextTurn, NextStatus, NextOpen DEF IInv

\* and so it always holds.
LEMMA Inductive == Spec => []IInv
  BY InitIInv, NextIInv, PTL DEF Spec

\* The variables keep their types: the runs, whose instances are large, leave that to
\* this proof.
THEOREM TypeCorrect == Spec => []TypeOK
<1>1. IInv => TypeOK
  BY DEF IInv
<1>2. QED
  BY <1>1, Inductive, PTL

\* No tool is called before its tool.started is durable, and none that a forced boundary
\* records as cancelled before execution is ever called.
THEOREM EffectsAreAccounted == Spec => []EffectsAccounted
<1>1. IInv => EffectsAccounted
  BY DEF IInv, EffectsAccounted, OperationInv, SpareInv, TypeOK
<1>2. QED
  BY <1>1, Inductive, PTL

\* The ledger takes every outcome of the boundary that cancel records.
THEOREM CancelIsRecorded == Spec => []BoundaryAccepted
<1>1. IInv => BoundaryAccepted
  BY DEF IInv, BoundaryInv
<1>2. QED
  BY <1>1, Inductive, PTL

\* An input that was withdrawn started no turn, but for a promotion that was cut.
THEOREM WithdrawnStartsNothing == Spec => []WithdrawnNotRun
<1>1. IInv => WithdrawnNotRun
  <2> SUFFICES ASSUME IInv, NEW i \in Input, input[i] = "withdrawn", turn[i] # "none", i \notin torn
               PROVE  FALSE
    BY DEF WithdrawnNotRun
  <2>1. promo # None /\ promo.begun /\ promo.input = i
    BY DEF IInv, TurnInv
  <2>2. QED
    BY <2>1 DEF IInv, TurnInv
<1>2. QED
  BY <1>1, Inductive, PTL

\* At most one turn is under way or halted, apart from those begun again after their end:
\* for any number of inputs, whatever is promoted, resumed, cancelled, cut off or attached.
THEOREM OneTurnOpen == Spec => []OneOpenTurn
<1>1. IInv => OneOpenTurn
  <2> SUFFICES ASSUME \A s, t \in Open : s = t PROVE Cardinality(Open) <= 1
    BY DEF IInv, OpenInv, OneOpenTurn, Open
  <2>1. CASE Open = {}
    BY <2>1, FS_EmptySet
  <2>2. CASE Open # {}
    <3>1. PICK t : t \in Open
      BY <2>2
    <3>2. Open = {t}
      BY <3>1
    <3>3. QED
      BY <3>2, FS_Singleton
  <2>3. QED
    BY <2>1, <2>2
<1>2. QED
  BY <1>1, Inductive, PTL

\* A session gets the Run only when no turn was cut off, or one that was never interrupted
\* by an attachment before: the second time the ledger always refuses, since resuming the
\* turn has raised the step that the record would have to repeat.
THEOREM InterruptedOnce ==
  Spec => [][(session \in {"away", "closed"} /\ session' = "open") =>
               activeTurnId = None \/ interruption[activeTurnId] = None]_vars
<1>1. IInv /\ [Next]_vars =>
        [(session \in {"away", "closed"} /\ session' = "open") =>
           activeTurnId = None \/ interruption[activeTurnId] = None]_vars
  <2> SUFFICES ASSUME IInv, [Next]_vars, session \in {"away", "closed"}, session' = "open",
                      activeTurnId # None, interruption[activeTurnId] # None
               PROVE  FALSE
    OBVIOUS
  <2>1. active = None /\ execution = None /\ promo = None /\ adm = "idle" /\ at = "none"
    BY DEF IInv, SlotInv
  <2>2. Attach
    <3> USE DEF slot, process, chain, ledger, history
    <3>1. ~Execute
      BY <2>1 DEF Execute, StepStart, ModelAnswers, ModelCalls, RequestsDone, ToolsDone, TurnWaits,
                  TurnCompletes, TurnThrows, TurnSettles, RequestTool, AdmitTool, StartTool, CallTool,
                  NotCalled, Goes
    <3>2. ~Promote
      BY <2>1 DEF Promote, PromoteStart, PromoteDeliver, AfterExecution, PromoteNext
    <3>3. ~Settle
      BY <2>1 DEF Settle, CancelSettled, CancelGraceEnds, CancelRecorded, CancelRefused, CloseStart,
                  CloseSettled, CloseGraceEnds, CloseRecorded, CloseRefused, BoundaryRecords
    <3>4. ~\E o \in Op : ResolveOperation(o) \/ ToolReturns(o) \/ StrayReturns(o)
      BY DEF ResolveOperation, ToolReturns, StrayReturns
    <3>5. ~\E i \in Input : SubmitBegin(i) \/ SubmitAdmit(i) \/ Withdraw(i) \/ Replace(i)
      BY <2>1 DEF SubmitBegin, SubmitAdmit, Withdraw, Replace
    <3>6. ~(AttachRefused \/ Crash \/ ResumeCurrent \/ Resolved \/ CancelBegin \/ RetiredSettles
            \/ CloseBegin \/ UNCHANGED vars)
      BY <2>1 DEF AttachRefused, Crash, Detached, ResumeCurrent, Resolved, CancelBegin, RetiredSettles,
                  CloseBegin, vars
    <3>7. QED
      BY <3>1, <3>2, <3>3, <3>4, <3>5, <3>6 DEF Next
  <2>3. /\ activeTurnId \in Input /\ turn[activeTurnId] = "active"
        /\ lastStep[activeTurnId] \in Nat /\ interruption[activeTurnId] \in Nat
    BY DEF IInv, TypeOK, StatusInv
  <2>4. interruption[activeTurnId] < lastStep[activeTurnId]
    BY <2>3 DEF IInv, StatusInv
  <2>5. interruption[activeTurnId] = lastStep[activeTurnId]
    BY <2>2 DEF Attach
  <2>6. QED
    BY <2>3, <2>4, <2>5
<1>2. QED
  BY <1>1, Inductive, PTL DEF Spec

\* A step that makes a turn active delivers the input of a promotion, or resumes a
\* halted turn when no operation is unknown.
LEMMA TurnBegins ==
  ASSUME IInv, [Next]_vars, active = None, active' # None
  PROVE  PromoteDeliver \/ (Unknown = {} /\ turn[active'] \in Halted)
<1> USE DEF slot, process, chain, ledger, inputs, turns, operations
<1>1. CASE ResumeCurrent
  BY <1>1 DEF ResumeCurrent, ResumeTurn, BeginExecution, HaltedTurns
<1>2. CASE Resolved
  BY <1>2 DEF Resolved, ResumeTurn, BeginExecution, Halted
<1>3. CASE PromoteStart \/ AfterExecution \/ PromoteNext
  BY <1>3 DEF PromoteStart, NotPromoted, AfterExecution, PromoteNext, ReleaseSlot
<1>4. CASE Execute
  BY <1>4 DEF Execute, StepStart, ModelAnswers, ModelCalls, RequestsDone, ToolsDone, TurnWaits,
              TurnCompletes, TurnThrows, TurnSettles, RequestTool, AdmitTool, StartTool, CallTool,
              NotCalled
<1>5. CASE Settle
  BY <1>5 DEF Settle, CancelSettled, CancelGraceEnds, CancelRecorded, CancelRefused, CloseStart,
              CloseSettled, CloseGraceEnds, CloseRecorded, CloseRefused, BoundaryRecords, Detached,
              SlotFree
<1>6. CASE \E o \in Op : ResolveOperation(o) \/ ToolReturns(o) \/ StrayReturns(o)
  BY <1>6 DEF ResolveOperation, ToolReturns, StrayReturns
<1>7. CASE \E i \in Input : SubmitBegin(i) \/ SubmitAdmit(i) \/ Withdraw(i) \/ Replace(i)
  BY <1>7 DEF SubmitBegin, SubmitAdmit, Withdraw, Replace
<1>8. CASE Attach \/ AttachRefused \/ Crash \/ CancelBegin \/ RetiredSettles \/ CloseBegin
           \/ UNCHANGED vars
  BY <1>8 DEF Attach, AttachRefused, Crash, Detached, CancelBegin, RetiredSettles, ReleaseSlot,
              CloseBegin, vars
<1>9. QED
  BY <1>1, <1>2, <1>3, <1>4, <1>5, <1>6, <1>7, <1>8 DEF Next, Promote

\* No turn begins while an operation is recorded as unknown, whoever began to promote its
\* input and whatever happened since it looked.
THEOREM UnknownBlocksTurns == Spec => UnknownBlocks
<1>1. IInv /\ [Next]_vars => [active = None /\ active' # None => Unknown = {}]_vars
  BY TurnBegins DEF IInv, PromotionInv, PromoteDeliver
<1>2. QED
  BY <1>1, Inductive, PTL DEF Spec, UnknownBlocks

\* A turn that has ended is not executed again, but for a promotion that was cut.
THEOREM EndedTurnStaysEnded == Spec => EndedTurnNotRun
<1>1. IInv /\ [Next]_vars =>
        [active = None /\ active' # None /\ active' \notin torn => turn[active'] \notin Terminal]_vars
  <2> SUFFICES ASSUME IInv, [Next]_vars, active = None, active' # None, active' \notin torn
               PROVE  turn[active'] \notin Terminal
    OBVIOUS
  <2>1. CASE PromoteDeliver
    BY <2>1 DEF PromoteDeliver, BeginExecution, IInv, TurnInv, Terminal
  <2>2. CASE turn[active'] \in Halted
    BY <2>2 DEF Halted, Terminal
  <2>3. QED
    BY <2>1, <2>2, TurnBegins
<1>2. QED
  BY <1>1, Inductive, PTL DEF Spec, EndedTurnNotRun

===============================================================================
