---------------------------- MODULE RunTokenBudget ----------------------------
(***************************************************************************)
(* The token budgets of a Run (RunTokenBudget) and the model calls they    *)
(* admit. A lane reserves what a call may use in its own budget and in     *)
(* those above it, up to that of the Run; when the provider has answered,  *)
(* its usage is charged to the ledger and the reservation is settled, or   *)
(* the reservation is cancelled. Lanes differ in the order of the two      *)
(* events that name a usage, the charge and the call's terminal, and in    *)
(* what they do when one of them cannot be appended. A new process rebuilds *)
(* the budgets from the events (recoverRunTokenUsageByLane).               *)
(*                                                                         *)
(* The methods of a budget are synchronous, so each is one step with all   *)
(* the budgets above it; lanes interleave while they await the ledger and  *)
(* the provider. A call's reservation ids are its own.                     *)
(***************************************************************************)
EXTENDS Integers, FiniteSets, Functions

CONSTANTS
  Budget,       \* the budgets of a Run and its lanes
  Above(_),     \* a budget, and those its reservations are also made in
  Limited,      \* budgets with a maxTokens
  MaxTokens(_), \* maxTokens of those
  Call,         \* model calls
  Home(_),      \* the budget of the lane that makes the call
  Input(_),     \* estimated input tokens of the call
  Output(_),    \* output tokens it asks for
  Main,         \* calls of MainLoop
  Advisory,     \* passes of Teto and reflection
  Compaction,   \* attempts of the compaction runtime; other calls are workers'
  Auxiliary,    \* calls that reserve with priority "auxiliary"
  Usage(_),     \* what the provider may report of the call
  Slack,        \* MAIN_ADMISSION_SLACK_TOKENS
  MinCapacity,  \* MAIN_ADMISSION_SLACK_MIN_CAPACITY
  MaxRestarts,  \* new processes (bound)
  NoUsage       \* no usage is known

ASSUME BudgetAssumption ==
  /\ IsFiniteSet(Call)
  /\ \A c \in Call : Home(c) \in Budget /\ Input(c) \in Nat /\ Output(c) \in Nat
  /\ \A b \in Budget : b \in Above(b) /\ Above(b) \subseteq Budget
  /\ \A b \in Budget : \A d \in Above(b) : Above(d) \subseteq Above(b)
  /\ Limited \subseteq Budget
  /\ \A b \in Limited : MaxTokens(b) \in Nat \ {0}
  /\ \A c \in Call : Usage(c) \subseteq Nat
  /\ Slack \in Nat
  /\ MinCapacity \in Nat \ {0}
  /\ MaxRestarts \in Nat
  /\ NoUsage \notin Nat
ASSUME LaneAssumption ==
  /\ Main \cup Advisory \cup Compaction \cup Auxiliary \subseteq Call
  /\ Main \cap Advisory = {} /\ Main \cap Compaction = {} /\ Advisory \cap Compaction = {}

VARIABLES
  reserved,  \* reservations, by call and budget; 0 is none
  settled,   \* actualTokens of settlements, by call and budget
  used,      \* what of a budget's usedTokens stems from a call, by call and budget
  charge,    \* ledger: usage of the call's budget.charged
  terminal,  \* ledger: usage in the call's terminal event
  failed,    \* the ledger has become uncertain and takes no appends
  pc,        \* where the call is
  actual,    \* what the provider reported
  granted,   \* history: size of the call's reservation
  restarts   \* new processes so far

budgets == <<reserved, settled, used>>
ledger == <<charge, terminal, failed>>
vars == <<budgets, ledger, pc, actual, granted, restarts>>

\* "retry": settled, the charge is appended once more; "recovered": the charge of
\* an earlier attempt is appended, and is to be reconciled.
InFlight == {"sent", "answered", "rejected", "terminal", "charged"}
Places == InFlight \cup {"idle", "retry", "recovered", "over"}

TypeOK ==
  /\ reserved \in [Call -> [Budget -> Nat]]
  /\ settled \in [Call -> [Budget -> Nat \cup {NoUsage}]]
  /\ used \in [Call -> [Budget -> Nat]]
  /\ charge \in [Call -> Nat \cup {NoUsage}]
  /\ terminal \in [Call -> Nat \cup {NoUsage}]
  /\ failed \in BOOLEAN
  /\ pc \in [Call -> Places]
  /\ actual \in [Call -> Nat \cup {NoUsage}]
  /\ granted \in [Call -> Nat]
  /\ restarts \in 0 .. MaxRestarts

Init ==
  /\ reserved = [c \in Call |-> [b \in Budget |-> 0]]
  /\ settled = [c \in Call |-> [b \in Budget |-> NoUsage]]
  /\ used = [c \in Call |-> [b \in Budget |-> 0]]
  /\ charge = [c \in Call |-> NoUsage]
  /\ terminal = [c \in Call |-> NoUsage]
  /\ failed = FALSE
  /\ pc = [c \in Call |-> "idle"]
  /\ actual = [c \in Call |-> NoUsage]
  /\ granted = [c \in Call |-> 0]
  /\ restarts = 0

-------------------------------------------------------------------------------
(* The budgets *)

\* The budgets a call is counted in.
Path(c) == Above(Home(c))

InBudget(f, b) == [c \in Call |-> f[c][b]]

Sum(f, b) == SumFunction(InBudget(f, b))

\* Tokens main work may not touch; main may borrow what auxiliary calls hold.
HeldAgainst(b, c) ==
  SumFunctionOnSet(InBudget(reserved, b), IF c \in Auxiliary THEN Call ELSE Call \ Auxiliary)

\* availableTokens, for the priority of c. Below zero is zero in the code; no
\* reservation is that small.
Available(b, c) == MaxTokens(b) - Sum(used, b) - HeldAgainst(b, c)

\* A main lane near the limit may overdraw its own budget.
SlackOf(c) ==
  IF /\ c \in Main \ Auxiliary
     /\ Home(c) \in Limited
     /\ Available(Home(c), c) \in MinCapacity .. Input(c) - 1
    THEN Slack
    ELSE 0

\* What a budget would admit of a reservation for c.
Offer(b, c) == Available(b, c) + IF b = Home(c) THEN SlackOf(c) ELSE 0

\* Definitions marked "Faulty" are mistakes this code could have made. No
\* behaviour of the module uses them; they show what the properties reject.

\* Faulty: only the lane's own budget is asked.
FaultyAdmits(c, n) == Home(c) \in Limited => n <= Offer(Home(c), c)

\* reserve, in every budget or in none.
Admits(c, n) == \A b \in Path(c) \cap Limited : n <= Offer(b, c)

OnPath(c, f, v) == [f EXCEPT ![c] = [b \in Budget |-> IF b \in Path(c) THEN v ELSE f[c][b]]]

\* settle: the usage is counted where the reservation is held, which it replaces.
SettleBudgets(c, u) ==
  /\ reserved' = OnPath(c, reserved, 0)
  /\ used' = [used EXCEPT ![c] = [b \in Budget |->
                IF reserved[c][b] # 0 THEN used[c][b] + u ELSE used[c][b]]]
  /\ settled' = OnPath(c, settled, u)

\* Faulty: the budgets above keep the reservation.
FaultyCancelBudgets(c) ==
  /\ reserved' = [reserved EXCEPT ![c][Home(c)] = 0]
  /\ UNCHANGED <<settled, used>>

\* cancel
CancelBudgets(c) ==
  /\ reserved' = OnPath(c, reserved, 0)
  /\ UNCHANGED <<settled, used>>

\* Faulty: the usage is added as if recovery had not counted it.
FaultyReconcileBudgets(c, u) ==
  LET unknown == {b \in Path(c) : settled[c][b] = NoUsage}
  IN  /\ settled' = [settled EXCEPT ![c] = [b \in Budget |->
                       IF b \in unknown THEN u ELSE settled[c][b]]]
      /\ used' = [used EXCEPT ![c] = [b \in Budget |->
                    IF b \in unknown THEN used[c][b] + u ELSE used[c][b]]]
      /\ UNCHANGED reserved

\* reconcile, with a usage that recovery has counted already: a budget that knows
\* nothing of the call remembers the usage.
ReconcileBudgets(c, u) ==
  /\ settled' = [settled EXCEPT ![c] = [b \in Budget |->
                   IF b \in Path(c) /\ settled[c][b] = NoUsage THEN u ELSE settled[c][b]]]
  /\ UNCHANGED <<reserved, used>>

-------------------------------------------------------------------------------
(* The ledger *)

\* An append fails: nothing is written, or the ledger is left uncertain.
AppendFails(f, c) ==
  \/ UNCHANGED <<charge, terminal, failed>>
  \/ /\ ~failed
     /\ failed' = TRUE
     /\ \/ UNCHANGED <<charge, terminal>>
        \/ f = "charge" /\ charge' = [charge EXCEPT ![c] = actual[c]] /\ UNCHANGED terminal
        \/ f = "terminal" /\ terminal' = [terminal EXCEPT ![c] = actual[c]] /\ UNCHANGED charge

\* Faulty: a call without a charge has its terminal's usage, even if that has none.
FaultyRecovered(c) == IF charge[c] # NoUsage THEN charge[c] ELSE terminal[c]

\* What recovery counts for the call: its charge, or else its terminal.
Recovered(c) == IF charge[c] # NoUsage THEN charge[c]
                ELSE IF terminal[c] # NoUsage THEN terminal[c] ELSE 0

-------------------------------------------------------------------------------
(* A call *)

Goto(c, place) == pc' = [pc EXCEPT ![c] = place]

\* A step of the main loop or a worker fits its output to what is left in its
\* budget and of its own allowance; the others ask for a fixed size.
Reserve(c) ==
  /\ pc[c] = "idle"
  /\ \E n \in Input(c) + 1 .. Input(c) + Output(c) :
       /\ Admits(c, n)
       /\ c \in Advisory \cup Compaction => n = Input(c) + Output(c)
       /\ reserved' = OnPath(c, reserved, n)
       /\ granted' = [granted EXCEPT ![c] = n]
  /\ Goto(c, "sent")
  /\ UNCHANGED <<settled, used, ledger, actual, restarts>>

\* The request cannot be appended, or the provider fails or is aborted and
\* reports no usage.
Dismiss(c) ==
  /\ pc[c] = "sent"
  /\ CancelBudgets(c)
  /\ Goto(c, "over")
  /\ UNCHANGED <<ledger, actual, granted, restarts>>

\* The provider answers, or fails ("rejected") and reports what it used.
Answer(c) ==
  /\ pc[c] = "sent"
  /\ \E u \in Usage(c) : actual' = [actual EXCEPT ![c] = u]
  /\ pc' \in {[pc EXCEPT ![c] = "answered"], [pc EXCEPT ![c] = "rejected"]}
  /\ UNCHANGED <<budgets, ledger, granted, restarts>>

\* The charge comes first, but for compactions and rejected advisory passes.
Chargeable(c) ==
  \/ c \in Compaction /\ pc[c] = "terminal"
  \/ c \notin Compaction /\ pc[c] = "answered"
  \/ c \notin Compaction \cup Advisory /\ pc[c] = "rejected"

\* budget.charged is appended.
Charge(c) ==
  /\ Chargeable(c)
  /\ ~failed
  /\ charge' = [charge EXCEPT ![c] = actual[c]]
  /\ Goto(c, "charged")
  /\ UNCHANGED <<budgets, terminal, failed, actual, granted, restarts>>

\* It cannot be: an answered step drops its reservation, a rejected one and all
\* others keep the usage in memory; an advisory pass tries the charge again.
ChargeFails(c) ==
  /\ Chargeable(c)
  /\ AppendFails("charge", c)
  /\ IF c \notin Advisory \cup Compaction /\ pc[c] = "answered"
       THEN CancelBudgets(c)
       ELSE SettleBudgets(c, actual[c])
  /\ Goto(c, IF c \in Advisory THEN "retry" ELSE "over")
  /\ UNCHANGED <<actual, granted, restarts>>

\* A pass whose answer is rejected keeps its usage in memory before it is charged.
SettleRejected(c) ==
  /\ c \in Advisory
  /\ pc[c] = "rejected"
  /\ SettleBudgets(c, actual[c])
  /\ Goto(c, "retry")
  /\ UNCHANGED <<ledger, actual, granted, restarts>>

RetryCharge(c) ==
  /\ pc[c] = "retry"
  /\ \/ /\ ~failed
        /\ charge' = [charge EXCEPT ![c] = actual[c]]
        /\ UNCHANGED <<terminal, failed>>
     \/ AppendFails("charge", c)
  /\ Goto(c, "over")
  /\ UNCHANGED <<budgets, actual, granted, restarts>>

\* After the charge the reservation is settled.
Settle(c) ==
  /\ pc[c] = "charged"
  /\ SettleBudgets(c, actual[c])
  /\ Goto(c, "over")
  /\ UNCHANGED <<ledger, actual, granted, restarts>>

\* model.completed or observed, the terminal of a call that this process has
\* charged and settled.
Observe(c) ==
  /\ pc[c] = "over"
  /\ c \notin Compaction
  /\ settled[c][Home(c)] # NoUsage
  /\ charge[c] # NoUsage
  /\ terminal[c] = NoUsage
  /\ ~failed
  /\ terminal' = [terminal EXCEPT ![c] = charge[c]]
  /\ UNCHANGED <<budgets, charge, failed, pc, actual, granted, restarts>>

\* A compaction's terminal comes before its charge.
Terminate(c) ==
  /\ c \in Compaction
  /\ pc[c] \in {"answered", "rejected"}
  /\ \/ /\ ~failed
        /\ terminal' = [terminal EXCEPT ![c] = actual[c]]
        /\ Goto(c, "terminal")
        /\ UNCHANGED <<charge, failed, budgets>>
     \/ /\ AppendFails("terminal", c)
        /\ SettleBudgets(c, actual[c])
        /\ Goto(c, "over")
  /\ UNCHANGED <<actual, granted, restarts>>

\* recoverAttempt: the charge of an attempt that has only its terminal.
RecoverAttempt(c) ==
  /\ c \in Compaction
  /\ pc[c] = "over"
  /\ terminal[c] # NoUsage
  /\ charge[c] = NoUsage
  /\ \/ /\ ~failed
        /\ charge' = [charge EXCEPT ![c] = terminal[c]]
        /\ Goto(c, "recovered")
        /\ UNCHANGED <<terminal, failed>>
     \/ AppendFails("charge", c) /\ UNCHANGED pc
  /\ UNCHANGED <<budgets, actual, granted, restarts>>

Reconcile(c) ==
  /\ pc[c] = "recovered"
  /\ ReconcileBudgets(c, charge[c])
  /\ Goto(c, "over")
  /\ UNCHANGED <<ledger, actual, granted, restarts>>

\* A lane is opened again: its budget and those below it are built anew.
Reopen(b) ==
  LET anew == {d \in Budget : b \in Above(d)}
  IN  /\ anew # Budget
      /\ ~failed
      /\ \A c \in Call : b \in Path(c) => pc[c] \in {"idle", "over"}
      /\ settled' = [c \in Call |-> [d \in Budget |->
                       IF d \in anew THEN NoUsage ELSE settled[c][d]]]
      /\ used' = [c \in Call |-> [d \in Budget |->
                    IF d \in anew \cap Path(c) THEN Recovered(c) ELSE used[c][d]]]
      /\ UNCHANGED <<reserved, ledger, pc, actual, granted, restarts>>

\* The process ends, and another one resumes the Run.
Restart ==
  /\ restarts < MaxRestarts
  /\ restarts' = restarts + 1
  /\ failed' = FALSE
  /\ reserved' = [c \in Call |-> [b \in Budget |-> 0]]
  /\ settled' = [c \in Call |-> [b \in Budget |-> NoUsage]]
  /\ used' = [c \in Call |-> [b \in Budget |-> IF b \in Path(c) THEN Recovered(c) ELSE 0]]
  /\ pc' = [c \in Call |-> IF pc[c] = "idle" THEN "idle" ELSE "over"]
  /\ UNCHANGED <<charge, terminal, actual, granted>>

Next ==
  \/ \E c \in Call :
       \/ Reserve(c) \/ Dismiss(c) \/ Answer(c)
       \/ Charge(c) \/ ChargeFails(c) \/ Settle(c)
       \/ SettleRejected(c) \/ RetryCharge(c)
       \/ Observe(c) \/ Terminate(c) \/ RecoverAttempt(c) \/ Reconcile(c)
  \/ \E b \in Budget : Reopen(b)
  \/ Restart

Spec == Init /\ [][Next]_vars

-------------------------------------------------------------------------------
(* Properties *)

\* What a budget should have counted of a call: what the provider reported, once
\* that is settled, or the one usage that the events name, once the call is over.
Owed(c, b) ==
  IF settled[c][b] # NoUsage THEN actual[c]
  ELSE IF pc[c] \in InFlight THEN 0 ELSE Recovered(c)

\* As long as the ledger takes appends, every usage is counted exactly once in
\* every budget it belongs to, whichever of its two events are durable, whichever
\* append failed, and whichever of the budgets were built anew since.
UsageCountedOnce ==
  ~failed => \A c \in Call : \A b \in Path(c) : used[c][b] = Owed(c, b)

\* A call that is over holds no tokens in any budget, by whichever way it ended,
\* and one in flight holds the same in all of its budgets.
CapacityReturned ==
  \A c \in Call : \A b \in Path(c) :
    reserved[c][b] = IF pc[c] \in InFlight THEN granted[c] ELSE 0

\* What a call used beyond its reservation; auxiliary calls have none that binds.
Excess(c, b) ==
  IF c \in Auxiliary THEN used[c][b]
  ELSE IF used[c][b] > granted[c] THEN used[c][b] - granted[c] ELSE 0

\* A limit holds but for what providers used beyond their reservations, what
\* auxiliary calls used of capacity main work had borrowed, and one admission
\* slack: however many calls are in flight, fail or are recovered.
LimitRespected ==
  \A b \in Limited :
    Sum(used, b) + SumFunctionOnSet(InBudget(reserved, b), Call \ Auxiliary)
      <= MaxTokens(b) + Slack + SumFunction([c \in Call |-> Excess(c, b)])
===============================================================================
