----------------------------- MODULE SessionTurns -----------------------------
(***************************************************************************)
(* The turns of an interactive session and the tool operations they run:   *)
(* inputs are admitted and promoted to turns, a turn's execution calls     *)
(* tools behind durable lifecycle facts, and cancel, close, resume and the  *)
(* attachment after a crash settle what an execution left behind.          *)
(*                                                                         *)
(* The ledger of the Run outlives the process: the first group of          *)
(* variables is what a replay projects from it, an append is one step.     *)
(* The rest is the state of one process. The controller is one thread;     *)
(* an action is the code between two awaits. Its methods queue in one       *)
(* admission chain, which the execution of a turn does not wait for.        *)
(*                                                                         *)
(* A turn is named by its input, as deriveTurnId does. Left out: goals,     *)
(* teams, worker lanes and their operations, budgets, model facts, the      *)
(* texts of inputs and their revisions, refused duplicates of a submit.     *)
(***************************************************************************)
EXTENDS Naturals, FiniteSets

CONSTANTS
  Input,        \* inputs, each the name of the turn it starts
  Op,           \* tool operations
  SafeOp,       \* operations whose tool declares that it only reads or computes
  MaxStep,      \* steps of a turn (bound)
  MaxAttachments,   \* attachments of the Run to a session (bound)
  None

\* A promotion: its input, who waits for it, and whether its first append is done.
Promotion == [input : Input, by : {"execution", "chain"}, begun : BOOLEAN]

ASSUME SessionAssumption ==
  /\ SafeOp \subseteq Op
  /\ MaxStep \in Nat \ {0}
  /\ MaxAttachments \in Nat
  /\ None \notin Promotion
  /\ None \notin Input \cup Nat

VARIABLES
  input,         \* each input: not yet submitted, in submission, pending, ...
  ahead,         \* of a pending input: the pending ones with a smaller sequence number
  target,        \* the turn a pending input is to steer
  turn,          \* status of each turn
  topStep,       \* highest step started
  lastStep,      \* lastCommittedStep of the projection
  interruption,  \* lastCommittedStep recorded under the key process-interrupted
  resumed,       \* steps recorded under the keys of turn.resumed
  outcomes,      \* outcomes recorded, each under a key of its own
  activeTurnId,  \* the turn that became active last, if it has not left that status since
  op,            \* last fact of each operation
  opTurn,        \* the turn that requested it
  started        \* operations with a durable tool.started

VARIABLES
  session,       \* the controller: "away" when no process has the Run
  active,        \* the active turn
  aborted,       \* its signal is aborted
  execution,     \* the turn whose execution has the slot
  at,            \* where that execution is
  awaited,       \* cancel or close waits for that very execution
  promo,         \* the promotion under way: its input, who asked, how far it is
  adm,           \* what the head of the admission chain does
  subject,       \* the turn a forced boundary is recorded for
  verdict,       \* the outcomes it has still to record
  opc            \* where each operation is in the tool executor

VARIABLES
  called,        \* history: operations whose tool has been called
  spared,        \* history: operations recorded as cancelled before execution
  torn,          \* history: turns started without their input, by a cut promotion
  attachments,   \* history: how often the Run was attached
  refused        \* history: an attachment was refused by the ledger

ledger == <<input, ahead, target, turn, topStep, lastStep, interruption, resumed, outcomes,
            activeTurnId, op, opTurn, started>>
inputs == <<input, ahead, target>>
turns == <<turn, topStep, lastStep, interruption, resumed, outcomes, activeTurnId>>
operations == <<op, opTurn, started>>
slot == <<active, aborted, execution, at, awaited>>
chain == <<promo, adm, subject, verdict>>
process == <<session, slot, chain, opc>>
history == <<called, spared, torn, attachments, refused>>
vars == <<ledger, process, history>>

Terminal == {"completed", "failed", "cancelled"}

Halted == {"waiting", "unresolved", "interrupted"}

Outcome == {"succeeded", "failed"}

TypeOK ==
  /\ input \in [Input -> {"new", "submitting", "pending", "delivered", "withdrawn"}]
  /\ ahead \in [Input -> SUBSET Input]
  /\ target \in [Input -> Input \cup {None}]
  /\ turn \in [Input -> {"none", "active"} \cup Halted \cup Terminal]
  /\ topStep \in [Input -> Nat]
  /\ lastStep \in [Input -> Nat]
  /\ interruption \in [Input -> Nat \cup {None}]
  /\ resumed \in [Input -> SUBSET Nat]
  /\ outcomes \in [Input -> SUBSET (Terminal \cup {"unresolved"})]
  /\ activeTurnId \in Input \cup {None}
  /\ op \in [Op -> {"none", "requested", "admitted", "started", "unknown"} \cup Outcome]
  /\ opTurn \in [Op -> Input \cup {None}]
  /\ started \subseteq Op
  /\ session \in {"away", "open", "closing", "closed"}
  /\ active \in Input \cup {None}
  /\ aborted \in BOOLEAN
  /\ execution \in Input \cup {None}
  /\ at \in {"none", "start", "step", "model", "request", "tools", "complete",
             "settle", "after", "promoting"}
  /\ awaited \in BOOLEAN
  /\ promo \in Promotion \cup {None}
  /\ adm \in {"idle", "submit", "promote", "next", "resolved", "cancel", "boundary",
              "close", "closeBoundary"}
  /\ subject \in Input \cup {None}
  /\ verdict \in [Op -> {"none", "spare", "fail", "unknown", "recorded"}]
  /\ opc \in [Op -> {"idle", "call", "ready", "admitted", "starting", "running", "loose", "orphan"}]
  /\ called \subseteq Op
  /\ spared \subseteq Op
  /\ torn \subseteq Input
  /\ attachments \in 0 .. MaxAttachments
  /\ refused \in BOOLEAN

Init ==
  /\ input = [i \in Input |-> "new"]
  /\ ahead = [i \in Input |-> {}]
  /\ target = [i \in Input |-> None]
  /\ turn = [t \in Input |-> "none"]
  /\ topStep = [t \in Input |-> 0]
  /\ lastStep = [t \in Input |-> 0]
  /\ interruption = [t \in Input |-> None]
  /\ resumed = [t \in Input |-> {}]
  /\ outcomes = [t \in Input |-> {}]
  /\ activeTurnId = None
  /\ op = [o \in Op |-> "none"]
  /\ opTurn = [o \in Op |-> None]
  /\ started = {}
  /\ session = "away"
  /\ active = None
  /\ aborted = FALSE
  /\ execution = None
  /\ at = "none"
  /\ awaited = FALSE
  /\ promo = None
  /\ adm = "idle"
  /\ subject = None
  /\ verdict = [o \in Op |-> "none"]
  /\ opc = [o \in Op |-> "idle"]
  /\ called = {}
  /\ spared = {}
  /\ torn = {}
  /\ attachments = 0
  /\ refused = FALSE

-------------------------------------------------------------------------------
(* What a replay of the ledger tells *)

Unknown == {o \in Op : op[o] = "unknown"}

HaltedTurns == {t \in Input : turn[t] \in Halted}

InterruptedTurns == {t \in Input : turn[t] = "interrupted"}

\* blockingReason as it would be if it did not look at unknown operations.
FaultyBlocked == HaltedTurns # {}

\* blockingReason is defined: nothing is promoted.
Blocked == Unknown # {} \/ HaltedTurns # {}

Pending == {i \in Input : input[i] = "pending"}

\* Input i is the first of the pending ones.
First(i) == input[i] = "pending" /\ ahead[i] = {}

\* The inputs in S are pending no more (projectPendingAdmissions).
Taken(S, how) ==
  /\ input' = [i \in Input |-> IF i \in S THEN how ELSE input[i]]
  /\ ahead' = [i \in Input |-> IF i \in S THEN {} ELSE ahead[i] \ S]
  /\ target' = [i \in Input |-> IF i \in S THEN None ELSE target[i]]

\* The turn t is no longer the active one.
Deactivated(t) == IF activeTurnId = t THEN None ELSE activeTurnId

\* The turn's outcome is appended; all but two record the last step with it.
SettleTurn(t, kind) ==
  /\ turn' = [turn EXCEPT ![t] = kind]
  /\ activeTurnId' = Deactivated(t)
  /\ lastStep' = IF kind \in {"completed", "failed"} THEN lastStep
                 ELSE [lastStep EXCEPT ![t] = topStep[t]]

\* The same under a key that the turn uses once. A key that is in the ledger already is
\* answered with the recorded event, or refused when the payload differs: the turn stays
\* as it is. (Where a refusal fails the method before it changed anything it is a stutter.)
EndTurn(t, kind) ==
  /\ IF kind \in outcomes[t]
     THEN UNCHANGED <<turn, activeTurnId, lastStep, outcomes>>
     ELSE /\ SettleTurn(t, kind)
          /\ outcomes' = [outcomes EXCEPT ![t] = @ \cup {kind}]
  /\ UNCHANGED <<topStep, interruption, resumed>>

-------------------------------------------------------------------------------
(* The execution slot *)

\* startExecution.
BeginExecution(t) ==
  /\ active' = t
  /\ aborted' = FALSE
  /\ execution' = t
  /\ at' = "start"
  /\ awaited' = FALSE

\* The slot has no execution.
SlotFree ==
  /\ execution' = None
  /\ at' = "none"
  /\ awaited' = FALSE

\* The promise of the execution settles and the slot is free.
ReleaseSlot == SlotFree /\ UNCHANGED <<active, aborted>>

\* The fence as it would be if a tool that runs could still record its result.
FaultyFenced == [o \in Op |-> IF opc[o] \in {"running", "loose", "orphan"} THEN opc[o] ELSE "idle"]

\* What becomes of the operations in the executor when their execution is fenced
\* off: a tool that runs goes on, any other call ends at its next append.
Fenced == [o \in Op |-> CASE opc[o] = "running" -> IF aborted THEN "loose" ELSE "orphan"
                          [] opc[o] \in {"loose", "orphan"} -> opc[o]
                          [] OTHER -> "idle"]

\* The controller lets go of the Run.
Detached(s, calls) ==
  /\ session' = s
  /\ active' = None
  /\ aborted' = FALSE
  /\ SlotFree
  /\ promo' = None
  /\ adm' = "idle"
  /\ subject' = None
  /\ verdict' = [o \in Op |-> "none"]
  /\ opc' = calls
  /\ torn' = IF promo # None /\ promo.begun THEN torn \cup {promo.input} ELSE torn

-------------------------------------------------------------------------------
(* The process *)

\* attachRunInternal, recordInterruptedTurnOnAttach: the active turn of the projection is
\* interrupted, under a key that is in the ledger when it was interrupted before.
Attach ==
  /\ session \in {"away", "closed"}
  /\ attachments < MaxAttachments
  /\ attachments' = attachments + 1
  /\ session' = "open"
  /\ IF activeTurnId = None
     THEN UNCHANGED <<turn, activeTurnId, interruption>>
     ELSE LET t == activeTurnId IN
          /\ interruption[t] \in {None, lastStep[t]}
          /\ interruption' = [interruption EXCEPT ![t] = lastStep[t]]
          /\ IF interruption[t] = None
             THEN /\ turn' = [turn EXCEPT ![t] = "interrupted"]
                  /\ activeTurnId' = None
             ELSE UNCHANGED <<turn, activeTurnId>>
  /\ UNCHANGED <<inputs, topStep, lastStep, resumed, outcomes, operations, slot, chain, opc,
                 called, spared, torn, refused>>

\* The ledger refuses the key with another lastCommittedStep, and the attachment fails.
AttachRefused ==
  /\ session \in {"away", "closed"}
  /\ activeTurnId # None
  /\ interruption[activeTurnId] \notin {None, lastStep[activeTurnId]}
  /\ refused' = TRUE
  /\ UNCHANGED <<ledger, process, called, spared, torn, attachments>>

Crash ==
  /\ session # "away"
  /\ input' = [i \in Input |-> IF input[i] = "submitting" THEN "new" ELSE input[i]]
  /\ target' = [i \in Input |-> IF input[i] = "submitting" THEN None ELSE target[i]]
  /\ Detached("away", [o \in Op |-> "idle"])
  /\ UNCHANGED <<ahead, turns, operations, called, spared, attachments, refused>>

-------------------------------------------------------------------------------
(* Inputs *)

\* submit: the next operation of the chain takes input i, to steer the active turn
\* or for a turn of its own. It supersedes an interrupted turn.
SubmitBegin(i) ==
  /\ adm = "idle" /\ session = "open"
  /\ input[i] = "new"
  /\ input' = [input EXCEPT ![i] = "submitting"]
  /\ \E t \in {None, active} : target' = [target EXCEPT ![i] = t]
  /\ adm' = "submit"
  /\ IF active = None /\ Unknown = {} /\ InterruptedTurns # {}
     THEN \E t \in InterruptedTurns : EndTurn(t, "cancelled")
     ELSE UNCHANGED turns
  /\ UNCHANGED <<ahead, operations, session, slot, promo, subject, verdict, opc, history>>

\* It is admitted, and promoted at once when nothing goes on and nothing blocks.
SubmitAdmit(i) ==
  /\ adm = "submit" /\ input[i] = "submitting"
  /\ input' = [input EXCEPT ![i] = "pending"]
  /\ ahead' = [ahead EXCEPT ![i] = Pending]
  /\ IF active = None /\ execution = None /\ ~Blocked
     THEN /\ promo' = [input |-> i, by |-> "chain", begun |-> FALSE]
          /\ adm' = "promote"
     ELSE /\ adm' = "idle"
          /\ UNCHANGED promo
  /\ UNCHANGED <<target, turns, operations, session, slot, subject, verdict, opc, history>>

\* No promotion is between its read and its last append (the chain of
\* runPendingInputTransition).
TransitionFree == promo # None => ~promo.begun

\* withdrawPendingInput as it would be if it did not queue behind a promotion.
FaultyWithdraw(i) ==
  /\ adm = "idle" /\ session = "open"
  /\ input[i] = "pending"
  /\ Taken({i}, "withdrawn")
  /\ UNCHANGED <<turns, operations, process, history>>

\* withdrawPendingInput.
Withdraw(i) ==
  /\ adm = "idle" /\ session = "open"
  /\ TransitionFree
  /\ input[i] = "pending"
  /\ Taken({i}, "withdrawn")
  /\ UNCHANGED <<turns, operations, process, history>>

\* replacePendingInput, as far as it changes the delivery.
Replace(i) ==
  /\ adm = "idle" /\ session = "open"
  /\ TransitionFree
  /\ input[i] = "pending"
  /\ \E t \in {None, active} : target' = [target EXCEPT ![i] = t]
  /\ UNCHANGED <<input, ahead, turns, operations, process, history>>

\* The promotion is over without a turn: its caller is done.
NotPromoted ==
  /\ promo' = None
  /\ IF promo.by = "chain"
     THEN adm' = "idle" /\ UNCHANGED slot
     ELSE ReleaseSlot /\ UNCHANGED adm

\* promotePending: the input is read again, and its turn started unless a promotion
\* that was cut has started it.
PromoteStart ==
  /\ promo # None /\ ~promo.begun
  /\ IF input[promo.input] = "pending"
     THEN /\ promo' = [promo EXCEPT !.begun = TRUE]
          /\ IF turn[promo.input] = "none"
             THEN /\ turn' = [turn EXCEPT ![promo.input] = "active"]
                  /\ activeTurnId' = promo.input
             ELSE UNCHANGED <<turn, activeTurnId>>
          /\ UNCHANGED <<slot, adm>>
     ELSE /\ NotPromoted
          /\ UNCHANGED <<turn, activeTurnId>>
  /\ UNCHANGED <<inputs, topStep, lastStep, interruption, resumed, outcomes, operations,
                 session, subject, verdict, opc, history>>

\* The end of a promotion as it would be if the execution began without the delivery.
FaultyPromoteDeliver ==
  /\ promo # None /\ promo.begun
  /\ promo' = None
  /\ adm' = IF promo.by = "chain" THEN "idle" ELSE adm
  /\ BeginExecution(promo.input)
  /\ UNCHANGED <<inputs, turns, operations, session, subject, verdict, opc, history>>

\* The input is delivered to its turn, whose execution begins.
PromoteDeliver ==
  /\ promo # None /\ promo.begun
  /\ Taken({promo.input}, "delivered")
  /\ promo' = None
  /\ adm' = IF promo.by = "chain" THEN "idle" ELSE adm
  /\ BeginExecution(promo.input)
  /\ UNCHANGED <<turns, operations, session, subject, verdict, opc, history>>

\* promoteNextPending as it would be if it did not ask for a blocker.
FaultyAfterExecution ==
  /\ at = "after"
  /\ IF Pending = {}
     THEN ReleaseSlot /\ UNCHANGED promo
     ELSE /\ \E i \in Input : First(i) /\ promo' = [input |-> i, by |-> "execution", begun |-> FALSE]
          /\ at' = "promoting"
          /\ UNCHANGED <<active, aborted, execution, awaited>>
  /\ UNCHANGED <<ledger, session, adm, subject, verdict, opc, history>>

\* promoteNextPending at the end of an execution: the first pending input, if any.
AfterExecution ==
  /\ at = "after"
  /\ IF Blocked \/ Pending = {}
     THEN ReleaseSlot /\ UNCHANGED promo
     ELSE /\ \E i \in Input : First(i) /\ promo' = [input |-> i, by |-> "execution", begun |-> FALSE]
          /\ at' = "promoting"
          /\ UNCHANGED <<active, aborted, execution, awaited>>
  /\ UNCHANGED <<ledger, session, adm, subject, verdict, opc, history>>

\* promoteNextPending in the admission chain.
PromoteNext ==
  /\ adm = "next"
  /\ IF active # None \/ Blocked \/ Pending = {}
     THEN adm' = "idle" /\ UNCHANGED promo
     ELSE /\ \E i \in Input : First(i) /\ promo' = [input |-> i, by |-> "chain", begun |-> FALSE]
          /\ adm' = "promote"
  /\ UNCHANGED <<ledger, session, slot, subject, verdict, opc, history>>

-------------------------------------------------------------------------------
(* Resuming a turn, resolving an operation *)

\* turn.resumed is appended, unless the ledger has its key, and the turn executed.
ResumeTurn(t) ==
  LET from == topStep[t] + 1 IN
  /\ IF from \in resumed[t]
     THEN UNCHANGED <<turn, activeTurnId, lastStep, resumed>>
     ELSE /\ turn' = [turn EXCEPT ![t] = "active"]
          /\ activeTurnId' = t
          /\ lastStep' = [lastStep EXCEPT ![t] = IF @ < from THEN from ELSE @]
          /\ resumed' = [resumed EXCEPT ![t] = @ \cup {from}]
  /\ UNCHANGED <<topStep, interruption, outcomes>>
  /\ BeginExecution(t)

\* resumeCurrent: an operation recorded as unknown blocks it; without a turn to
\* resume it promotes a pending input.
ResumeCurrent ==
  /\ adm = "idle" /\ session = "open"
  /\ active = None /\ execution = None
  /\ Unknown = {}
  /\ IF HaltedTurns # {}
     THEN /\ \E t \in HaltedTurns : ResumeTurn(t)
          /\ UNCHANGED <<promo, adm>>
     ELSE /\ \E i \in Input : First(i) /\ promo' = [input |-> i, by |-> "chain", begun |-> FALSE]
          /\ adm' = "promote"
          /\ UNCHANGED <<turns, slot>>
  /\ UNCHANGED <<inputs, operations, session, subject, verdict, opc, history>>

\* pendingToolOperations: operations an operator can, and recoverRun must have, resolved.
PendingOperations == {o \in Op : op[o] \in {"unknown", "started", "requested"}}

\* resolveOperation: the operator has it recorded as failed.
ResolveOperation(o) ==
  /\ adm = "idle" /\ session = "open"
  /\ active = None /\ execution = None
  /\ o \in PendingOperations
  /\ op' = [op EXCEPT ![o] = "failed"]
  /\ adm' = "resolved"
  /\ UNCHANGED <<inputs, turns, opTurn, started, session, slot, promo, subject, verdict, opc, history>>

\* With the last unknown operation resolved the turn that waited for it goes on,
\* or a pending input is promoted.
Resolved ==
  /\ adm = "resolved"
  /\ IF Unknown = {} /\ \E t \in Input : turn[t] = "unresolved"
     THEN /\ \E t \in Input : turn[t] = "unresolved" /\ ResumeTurn(t)
          /\ adm' = "idle"
     ELSE /\ adm' = IF Unknown = {} THEN "next" ELSE "idle"
          /\ UNCHANGED <<turns, slot>>
  /\ UNCHANGED <<inputs, operations, session, promo, subject, verdict, opc, history>>

-------------------------------------------------------------------------------
(* The execution of a turn *)

\* Moves of the execution that touch no operation and no input.
Goes(from, to) == at \in from /\ at' = to

\* No call of the execution is in the executor.
ToolsAtRest == \A o \in Op : opTurn[o] = execution => opc[o] \in {"idle", "loose", "orphan"}

\* A step starts and takes the inputs that steer its turn.
StepStart ==
  /\ Goes({"start", "step"}, "model")
  /\ ~aborted /\ topStep[execution] < MaxStep
  /\ TransitionFree
  /\ topStep' = [topStep EXCEPT ![execution] = @ + 1]
  /\ Taken({i \in Input : input[i] = "pending" /\ target[i] = execution}, "delivered")
  /\ UNCHANGED <<turn, activeTurnId, lastStep, interruption, resumed, outcomes, operations,
                 session, active, aborted, execution, awaited, chain, opc, history>>

\* The step is completed: with an answer, which may complete the turn, or with none.
ModelAnswers ==
  /\ \/ Goes({"model"}, "complete")
     \/ Goes({"model"}, "step")
  /\ ~aborted
  /\ lastStep' = [lastStep EXCEPT ![execution] = IF @ < topStep[execution] THEN topStep[execution] ELSE @]
  /\ UNCHANGED <<inputs, turn, activeTurnId, topStep, interruption, resumed, outcomes, operations,
                 session, active, aborted, execution, awaited, chain, opc, history>>

\* The model calls tools.
ModelCalls ==
  /\ Goes({"model"}, "request")
  /\ ~aborted
  /\ \E calls \in SUBSET {o \in Op : opTurn[o] = None} :
       /\ calls # {}
       /\ opc' = [o \in Op |-> IF o \in calls THEN "call" ELSE opc[o]]
       /\ opTurn' = [o \in Op |-> IF o \in calls THEN execution ELSE opTurn[o]]
  /\ UNCHANGED <<inputs, turns, op, started, session, active, aborted, execution, awaited, chain, history>>

\* The loop ends without completing the turn, which waits to be resumed.
TurnWaits ==
  /\ Goes({"step"}, "settle")
  /\ SettleTurn(execution, "waiting")
  /\ UNCHANGED <<inputs, topStep, interruption, resumed, outcomes, operations,
                 session, active, aborted, execution, awaited, chain, opc, history>>

\* "Once append begins, its durable outcome wins over cancellation arriving during
\* commit."
TurnCompletes ==
  /\ Goes({"complete"}, "settle")
  /\ ~aborted /\ "completed" \notin outcomes[execution]
  /\ EndTurn(execution, "completed")
  /\ UNCHANGED <<inputs, operations, session, active, aborted, execution, awaited, chain, opc, history>>

\* Something throws: reading the turn, the model, an append, or the abort where it is
\* seen. Requested operations are then left without an outcome. The catch of runTurn
\* has the turn cancelled, failed, or, by a timeout of the model, interrupted.
TurnThrows ==
  /\ \/ Goes({"start", "model", "complete"}, "settle")
     \/ Goes({"step", "request", "tools"}, "settle") /\ aborted /\ (at = "tools" => ToolsAtRest)
  /\ opc' = [o \in Op |-> IF opc[o] \in {"call", "ready"} THEN "idle" ELSE opc[o]]
  /\ IF aborted THEN EndTurn(execution, "cancelled")
     ELSE \/ EndTurn(execution, "failed")
          \/ /\ at = "model"
             /\ SettleTurn(execution, "interrupted")
             /\ UNCHANGED <<topStep, interruption, resumed, outcomes>>
  /\ UNCHANGED <<inputs, operations, session, active, aborted, execution, awaited, chain, history>>

\* runTurn is over. Unless the controller closes the execution goes on to promote the
\* next input, and holds its slot meanwhile.
TurnSettles ==
  /\ at = "settle"
  /\ active' = None
  /\ aborted' = FALSE
  /\ IF session = "open"
     THEN at' = "after" /\ UNCHANGED <<execution, awaited>>
     ELSE at' = "none" /\ execution' = None /\ awaited' = FALSE
  /\ UNCHANGED <<ledger, session, chain, opc, history>>

-------------------------------------------------------------------------------
(* The tool executor *)

\* An action of operation o in the executor: it is there, and its next fact goes
\* into the ledger. A fact the ledger has no place for is refused.
Records(o, from, to, fact) ==
  /\ opc[o] = from
  /\ opc' = [opc EXCEPT ![o] = to]
  /\ op' = [op EXCEPT ![o] = IF @ \in Outcome THEN @ ELSE fact]

\* tool.requested is appended for every call before one is executed.
RequestTool(o) ==
  /\ at = "request" /\ ~aborted
  /\ Records(o, "call", "ready", "requested")
  /\ UNCHANGED <<inputs, turns, opTurn, started, session, slot, chain, history>>

\* The batch goes to the executor.
RequestsDone ==
  /\ Goes({"request"}, "tools")
  /\ ~aborted
  /\ \A o \in Op : opc[o] # "call"
  /\ UNCHANGED <<ledger, session, active, aborted, execution, awaited, chain, opc, history>>

\* The call passes its checks and is admitted.
AdmitTool(o) ==
  /\ at = "tools" /\ ~aborted
  /\ Records(o, "ready", "admitted", "admitted")
  /\ UNCHANGED <<inputs, turns, opTurn, started, session, slot, chain, history>>

\* tool.started is appended, the last durable boundary before the tool is called.
StartTool(o) ==
  /\ at = "tools" /\ ~aborted
  /\ Records(o, "admitted", "starting", "started")
  /\ started' = started \cup {o}
  /\ UNCHANGED <<inputs, turns, opTurn, session, slot, chain, history>>

\* The tool is called.
CallTool(o) ==
  /\ at = "tools" /\ ~aborted
  /\ opc[o] = "starting"
  /\ opc' = [opc EXCEPT ![o] = "running"]
  /\ called' = called \cup {o}
  /\ UNCHANGED <<ledger, session, slot, chain, spared, torn, attachments, refused>>

\* The call is not admitted, or cancelled before the tool is called.
NotCalled(o) ==
  /\ at = "tools"
  /\ opc[o] = "ready" \/ (aborted /\ opc[o] \in {"admitted", "starting"})
  /\ Records(o, opc[o], "idle", "failed")
  /\ UNCHANGED <<inputs, turns, opTurn, started, session, slot, chain, history>>

\* The tool returns, if it does, and its result is recorded.
ToolReturns(o) ==
  /\ \E result \in Outcome : Records(o, "running", "idle", result)
  /\ UNCHANGED <<inputs, turns, opTurn, started, session, slot, chain, history>>

\* A tool whose execution is gone returns. What it would record is fenced off.
StrayReturns(o) ==
  /\ opc[o] \in {"loose", "orphan"}
  /\ opc' = [opc EXCEPT ![o] = "idle"]
  /\ UNCHANGED <<ledger, session, slot, chain, history>>

\* Every call of the step has its result, and the step is completed.
ToolsDone ==
  /\ Goes({"tools"}, "step")
  /\ ~aborted /\ ToolsAtRest
  /\ lastStep' = [lastStep EXCEPT ![execution] = IF @ < topStep[execution] THEN topStep[execution] ELSE @]
  /\ UNCHANGED <<inputs, turn, activeTurnId, topStep, interruption, resumed, outcomes, operations,
                 session, active, aborted, execution, awaited, chain, opc, history>>

-------------------------------------------------------------------------------
(* Cancel and close *)

\* The verdict as it would be if a started operation counted as one that has not started.
FaultyVerdict(t) == [o \in Op |->
  IF opTurn[o] = t /\ op[o] \in {"requested", "admitted", "started"} THEN "spare" ELSE "none"]

\* recordForcedBoundary reads the ledger: an operation of turn t that has not started
\* was cancelled before execution, one that only reads or computes has failed, of any
\* other the outcome is unknown.
Verdict(t) == [o \in Op |->
  CASE opTurn[o] = t /\ op[o] \in {"requested", "admitted"} -> "spare"
    [] opTurn[o] = t /\ op[o] = "started" -> IF o \in SafeOp THEN "fail" ELSE "unknown"
    [] OTHER -> "none"]

ToRecord == {o \in Op : verdict[o] \in {"spare", "fail", "unknown"}}

\* The ledger takes the outcome that is recorded next for o.
Recordable(o) == op[o] \notin Outcome \cup {"unknown"}

\* cancel: the active turn is told to end, or, when nothing executes, the halted turn
\* is cancelled.
CancelBegin ==
  /\ adm = "idle" /\ session = "open"
  /\ IF execution # None
     THEN /\ aborted' = (active # None)
          /\ awaited' = TRUE
          /\ adm' = "cancel"
          /\ UNCHANGED turns
     ELSE /\ \E t \in HaltedTurns : EndTurn(t, "cancelled")
          /\ adm' = "next"
          /\ UNCHANGED <<aborted, awaited>>
  /\ UNCHANGED <<inputs, operations, session, active, execution, at, promo, subject, verdict, opc, history>>

\* The execution has settled within the grace period.
CancelSettled ==
  /\ adm = "cancel" /\ ~awaited
  /\ adm' = "idle"
  /\ UNCHANGED <<ledger, session, slot, promo, subject, verdict, opc, history>>

\* cancel as it would be if it had no grace period but waited for the execution.
FaultyCancelGraceEnds ==
  /\ adm = "cancel" /\ awaited /\ active = None
  /\ adm' = "idle"
  /\ UNCHANGED <<ledger, slot, session, promo, subject, verdict, opc, history>>

\* The grace period is over. A turn that is still active is retired: none of its
\* writes passes from now on, and its boundary is recorded for it.
CancelGraceEnds ==
  /\ adm = "cancel" /\ awaited
  /\ IF active = None
     THEN /\ adm' = "idle"
          /\ UNCHANGED <<slot, subject, verdict, opc>>
     ELSE /\ adm' = "boundary"
          /\ subject' = active
          /\ verdict' = Verdict(active)
          /\ opc' = Fenced
          /\ at' = "none"
          /\ UNCHANGED <<active, aborted, execution, awaited>>
  /\ UNCHANGED <<ledger, session, promo, history>>

\* One outcome of the boundary, the unknown ones last.
BoundaryRecords(o) ==
  /\ adm \in {"boundary", "closeBoundary"}
  /\ o \in ToRecord /\ Recordable(o)
  /\ verdict[o] = "unknown" => \A p \in ToRecord : verdict[p] = "unknown"
  /\ op' = [op EXCEPT ![o] = IF verdict[o] = "unknown" THEN "unknown" ELSE "failed"]
  /\ spared' = IF verdict[o] = "spare" THEN spared \cup {o} ELSE spared
  /\ verdict' = [verdict EXCEPT ![o] = IF @ = "unknown" THEN "recorded" ELSE "none"]
  /\ UNCHANGED <<inputs, turns, opTurn, started, session, slot, promo, adm, subject, opc,
                 called, torn, attachments, refused>>

\* The end of cancel as it would be if it did not promote the next input.
FaultyCancelRecorded ==
  /\ adm = "boundary" /\ ToRecord = {}
  /\ EndTurn(subject, "cancelled")
  /\ adm' = "idle"
  /\ subject' = None
  /\ verdict' = [o \in Op |-> "none"]
  /\ active' = None
  /\ aborted' = FALSE
  /\ SlotFree
  /\ UNCHANGED <<inputs, operations, session, promo, opc, history>>

\* cancel: the turn is cancelled, and its slot free for the next input.
CancelRecorded ==
  /\ adm = "boundary" /\ ToRecord = {}
  /\ EndTurn(subject, "cancelled")
  /\ adm' = "next"
  /\ subject' = None
  /\ verdict' = [o \in Op |-> "none"]
  /\ active' = None
  /\ aborted' = FALSE
  /\ SlotFree
  /\ UNCHANGED <<inputs, operations, session, promo, opc, history>>

\* The turn has ended before, and the ledger refuses another end: cancel fails with the
\* retired turn in the slot.
CancelRefused ==
  /\ adm = "boundary" /\ ToRecord = {}
  /\ "cancelled" \in outcomes[subject] /\ turn[subject] # "cancelled"
  /\ adm' = "idle"
  /\ subject' = None
  /\ verdict' = [o \in Op |-> "none"]
  /\ UNCHANGED <<ledger, session, slot, promo, opc, history>>

\* The promise of a retired execution settles.
RetiredSettles ==
  /\ execution # None /\ at = "none"
  /\ ReleaseSlot
  /\ UNCHANGED <<ledger, session, chain, opc, history>>

\* close: from now on no method of the controller begins.
CloseBegin ==
  /\ session = "open"
  /\ session' = "closing"
  /\ UNCHANGED <<ledger, slot, chain, opc, history>>

\* Its turn in the chain has come: the active turn is told to end.
CloseStart ==
  /\ session = "closing" /\ adm = "idle"
  /\ adm' = "close"
  /\ aborted' = (active # None)
  /\ awaited' = (execution # None)
  /\ UNCHANGED <<ledger, session, active, execution, at, promo, subject, verdict, opc, history>>

\* The execution it waited for has settled: the session is detached.
CloseSettled ==
  /\ adm = "close" /\ ~awaited
  /\ Detached("closed", Fenced)
  /\ UNCHANGED <<ledger, called, spared, attachments, refused>>

\* The grace period is over. The boundary is recorded while the execution, which is
\* not retired, goes on.
CloseGraceEnds ==
  /\ adm = "close" /\ awaited
  /\ IF active = None
     THEN Detached("closed", Fenced)
     ELSE /\ adm' = "closeBoundary"
          /\ subject' = active
          /\ verdict' = Verdict(active)
          /\ UNCHANGED <<session, slot, promo, opc, torn>>
  /\ UNCHANGED <<ledger, called, spared, attachments, refused>>

\* The boundary is complete: a turn with an unknown outcome waits for it.
CloseRecorded ==
  /\ adm = "closeBoundary" /\ ToRecord = {}
  /\ IF \E o \in Op : verdict[o] = "recorded"
     THEN EndTurn(subject, "unresolved")
     ELSE EndTurn(subject, "cancelled")
  /\ Detached("closed", Fenced)
  /\ UNCHANGED <<inputs, operations, called, spared, attachments, refused>>

\* The ledger refuses an outcome, the execution having recorded its own: the rest of
\* the boundary is not recorded.
CloseRefused ==
  /\ adm = "closeBoundary"
  /\ \E o \in ToRecord : ~Recordable(o)
  /\ Detached("closed", Fenced)
  /\ UNCHANGED <<ledger, called, spared, attachments, refused>>

-------------------------------------------------------------------------------
Execute ==
  \/ StepStart \/ ModelAnswers \/ ModelCalls \/ RequestsDone \/ ToolsDone
  \/ TurnWaits \/ TurnCompletes \/ TurnThrows \/ TurnSettles
  \/ \E o \in Op : RequestTool(o) \/ AdmitTool(o) \/ StartTool(o) \/ CallTool(o) \/ NotCalled(o)

Promote == PromoteStart \/ PromoteDeliver \/ AfterExecution \/ PromoteNext

Settle ==
  \/ CancelSettled \/ CancelGraceEnds \/ CancelRecorded \/ CancelRefused
  \/ CloseStart \/ CloseSettled \/ CloseGraceEnds \/ CloseRecorded \/ CloseRefused
  \/ \E o \in Op : BoundaryRecords(o)

Next ==
  \/ Attach \/ AttachRefused \/ Crash
  \/ \E i \in Input : SubmitBegin(i) \/ SubmitAdmit(i) \/ Withdraw(i) \/ Replace(i)
  \/ ResumeCurrent \/ Resolved \/ CancelBegin \/ RetiredSettles \/ CloseBegin
  \/ Execute \/ Promote \/ Settle
  \/ \E o \in Op : ResolveOperation(o) \/ ToolReturns(o) \/ StrayReturns(o)

Spec == Init /\ [][Next]_vars

\* The controller's own steps go on: its awaits are of the disk or end with a timer.
ControllerFairness == WF_vars(Settle) /\ WF_vars(Promote) /\ WF_vars(Resolved)
                        /\ \A i \in Input : WF_vars(SubmitAdmit(i))

FairSpec == Spec /\ ControllerFairness

\* The model answers and the tools return. The controller cannot count on it.
TurnFairness == WF_vars(Execute) /\ \A o \in Op : WF_vars(ToolReturns(o))

-------------------------------------------------------------------------------
(* Properties *)

\* No tool is called before its tool.started is durable, and none that a forced
\* boundary records as cancelled before execution is ever called.
EffectsAccounted == called \subseteq started /\ spared \cap called = {}

\* While cancel records the boundary of the turn it retired, the ledger has a place
\* for every outcome: nothing the retired execution still does gets in between. (A
\* refusal would leave the retired turn in its slot for ever.)
BoundaryAccepted == adm = "boundary" => \A o \in ToRecord : Recordable(o)

\* No turn begins while an operation is recorded as unknown: the check is made
\* reads and appends before the turn begins, with other methods in between.
UnknownBlocks == [][active = None /\ active' # None => Unknown = {}]_vars

\* A turn that has ended is not executed again, except when its promotion was cut
\* between the start of the turn and the delivery of its input.
EndedTurnNotRun ==
  [][active = None /\ active' # None /\ active' \notin torn => turn[active'] \notin Terminal]_vars

\* Turns whose end is in the ledger and that were begun again.
Reopened == {t \in Input : turn[t] \notin Terminal /\ outcomes[t] \cap Terminal # {}}

\* At most one turn is under way or halted, apart from those begun again after their end.
OneOpenTurn ==
  Cardinality({t \in Input \ Reopened : turn[t] \in Halted \cup {"active"}}) <= 1

\* An input that was withdrawn started no turn, again but for a promotion that was cut.
WithdrawnNotRun == \A i \in Input : input[i] = "withdrawn" => turn[i] = "none" \/ i \in torn

\* The ledger never refuses the attachment of the Run.
Reattachable == ~refused

\* Every method in the admission chain ends, cancel and close also when a tool does not.
ChainMoves == adm # "idle" ~> adm = "idle"

\* If turns go on, an input that is pending while a turn executes is taken, unless the
\* session ends, a halted turn or an unknown operation blocks it, or an input is withdrawn.
InputTaken == TurnFairness => \A i \in Input :
  input[i] = "pending" /\ execution # None /\ session = "open"
    ~> \/ input[i] # "pending" \/ session # "open" \/ Blocked \/ Reopened # {}
       \/ \E j \in Input : input[j] = "withdrawn"

===============================================================================
