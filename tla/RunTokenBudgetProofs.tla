------------------------- MODULE RunTokenBudgetProofs -------------------------
(***************************************************************************)
(* Proofs about RunTokenBudget, for every tree of budgets, set of calls    *)
(* and limits: usages are counted once, reservations are returned, and     *)
(* what has been granted stays within the limit.                           *)
(*                                                                         *)
(* The argument: no budget counts anything of a call in flight, and the    *)
(* events name nothing but what its provider reported. So the usage that   *)
(* a settlement adds is the first, and what a rebuilt budget starts from   *)
(* is either that same usage or nothing. The limit needs the sums over     *)
(* all calls, of what is counted and of what is durable: a process that    *)
(* replaces one with a failed ledger starts from the second.               *)
(***************************************************************************)
EXTENDS RunTokenBudget, FiniteSetTheorems, WellFoundedInduction, TLAPS

\* Where the provider's report is known, and which events name it.
Reported(c) ==
  /\ pc[c] \in {"idle", "sent"} => actual[c] = NoUsage
  /\ pc[c] \in {"answered", "rejected", "terminal", "charged", "retry"} => actual[c] # NoUsage
  /\ pc[c] \in {"idle", "sent", "answered", "rejected"} =>
       charge[c] = NoUsage /\ terminal[c] = NoUsage
  /\ pc[c] = "recovered" => charge[c] # NoUsage
  /\ charge[c] \in {NoUsage, actual[c]}
  /\ terminal[c] \in {NoUsage, actual[c]}

\* A call holds tokens and has no settlement while it is in flight.
Held(c, b) ==
  /\ pc[c] \in InFlight =>
       reserved[c][b] = granted[c] /\ granted[c] # 0 /\ settled[c][b] = NoUsage
  /\ pc[c] \notin InFlight => reserved[c][b] = 0
  /\ pc[c] \in InFlight \cup {"idle"} => used[c][b] = 0 /\ settled[c][b] = NoUsage

\* What is counted; an advisory pass that repeats its charge has settled.
Counted(c, b) ==
  /\ settled[c][b] # NoUsage => settled[c][b] = actual[c]
  /\ pc[c] = "retry" => settled[c][b] # NoUsage
  /\ ~failed => used[c][b] = Owed(c, b)

CallInv(c) == Reported(c) /\ \A b \in Path(c) : Held(c, b) /\ Counted(c, b)

\* The inductive invariant.
IInv == TypeOK /\ \A c \in Call : CallInv(c)

-------------------------------------------------------------------------------
(* Types *)

\* A call's path is a set of budgets that has the budget of its lane.
LEMMA PathIsBudgets ==
  ASSUME NEW c \in Call
  PROVE  Path(c) \subseteq Budget /\ Home(c) \in Path(c)
  BY BudgetAssumption DEF Path

\* What recovery counts is a number.
LEMMA RecoveredType ==
  ASSUME TypeOK, NEW c \in Call
  PROVE  Recovered(c) \in Nat
  BY BudgetAssumption DEF TypeOK, Recovered

\* OnPath keeps the type of a table of calls and budgets.
LEMMA OnPathType ==
  ASSUME NEW S, NEW f \in [Call -> [Budget -> S]], NEW c \in Call, NEW v \in S
  PROVE  OnPath(c, f, v) \in [Call -> [Budget -> S]]
  BY DEF OnPath

\* The methods of a budget keep the types.
LEMMA BudgetsType ==
  ASSUME TypeOK, NEW c \in Call, NEW u \in Nat,
         SettleBudgets(c, u) \/ CancelBudgets(c) \/ ReconcileBudgets(c, u)
  PROVE  /\ reserved' \in [Call -> [Budget -> Nat]]
         /\ settled' \in [Call -> [Budget -> Nat \cup {NoUsage}]]
         /\ used' \in [Call -> [Budget -> Nat]]
<1> USE DEF TypeOK
<1>1. OnPath(c, reserved, 0) \in [Call -> [Budget -> Nat]]
  BY OnPathType
<1>2. OnPath(c, settled, u) \in [Call -> [Budget -> Nat \cup {NoUsage}]]
  BY OnPathType
<1>3. CASE SettleBudgets(c, u)
  BY <1>1, <1>2, <1>3 DEF SettleBudgets
<1>4. CASE CancelBudgets(c)
  BY <1>1, <1>4 DEF CancelBudgets
<1>5. CASE ReconcileBudgets(c, u)
  BY <1>5 DEF ReconcileBudgets
<1> QED BY <1>3, <1>4, <1>5

-------------------------------------------------------------------------------
(* The invariant *)

\* A step of one call leaves the others as they are, and does not mend the ledger.
LEMMA OthersKeep ==
  ASSUME NEW d \in Call, CallInv(d),
         reserved'[d] = reserved[d], settled'[d] = settled[d], used'[d] = used[d],
         charge'[d] = charge[d], terminal'[d] = terminal[d], pc'[d] = pc[d],
         actual'[d] = actual[d], granted'[d] = granted[d],
         failed => failed'
  PROVE  CallInv(d)'
  BY DEF CallInv, Reported, Held, Counted, Owed, Recovered

\* It holds at the start.
LEMMA InitIInv == Init => IInv
<1> SUFFICES ASSUME Init PROVE IInv
  OBVIOUS
<1>1. TypeOK
  <2>1. /\ reserved \in [Call -> [Budget -> Nat]]
        /\ settled \in [Call -> [Budget -> Nat \cup {NoUsage}]]
        /\ used \in [Call -> [Budget -> Nat]]
    BY DEF Init
  <2>2. restarts \in 0 .. MaxRestarts
    BY BudgetAssumption DEF Init
  <2> QED BY <2>1, <2>2 DEF Init, TypeOK, Places
<1>2. ASSUME NEW c \in Call PROVE CallInv(c)
  BY PathIsBudgets DEF Init, CallInv, Reported, Held, Counted, Owed, Recovered, InFlight
<1> QED BY <1>1, <1>2 DEF IInv

\* A call's own steps keep it.
LEMMA CallStep ==
  ASSUME IInv, NEW c \in Call,
         \/ Reserve(c) \/ Dismiss(c) \/ Answer(c)
         \/ Charge(c) \/ ChargeFails(c) \/ Settle(c)
         \/ SettleRejected(c) \/ RetryCharge(c)
         \/ Observe(c) \/ Terminate(c) \/ RecoverAttempt(c) \/ Reconcile(c)
  PROVE  IInv'
<1> DEFINE Others == \A d \in Call \ {c} : CallInv(d)'
<1>t. TypeOK /\ CallInv(c)
  BY DEF IInv
<1>p. Path(c) \subseteq Budget /\ Home(c) \in Path(c)
  BY PathIsBudgets
<1>n. NoUsage \notin Nat
  BY BudgetAssumption
<1> USE DEF budgets, ledger, Goto
<1>1. CASE Reserve(c)
  <2>1. PICK n \in Input(c) + 1 .. Input(c) + Output(c) :
          reserved' = OnPath(c, reserved, n) /\ granted' = [granted EXCEPT ![c] = n]
    BY <1>1 DEF Reserve
  <2>2. n \in Nat \ {0}
    BY BudgetAssumption
  <2>3. TypeOK'
    BY <1>1, <1>t, <2>1, <2>2, OnPathType DEF Reserve, TypeOK, Places, InFlight
  <2>4. CallInv(c)'
    BY <1>1, <1>t, <1>p, <2>1, <2>2
    DEF Reserve, CallInv, Reported, Held, Counted, Owed, OnPath, TypeOK, InFlight
  <2>5. Others
    BY <1>1, <1>t, <2>1, OthersKeep DEF Reserve, IInv, OnPath, TypeOK
  <2> QED BY <2>3, <2>4, <2>5 DEF IInv
<1>2. CASE Dismiss(c)
  <2>1. TypeOK'
    BY <1>2, <1>t, BudgetsType DEF Dismiss, TypeOK, Places
  <2>2. CallInv(c)'
    BY <1>2, <1>t, <1>p
    DEF Dismiss, CancelBudgets, CallInv, Reported, Held, Counted, Owed, Recovered, OnPath,
        TypeOK, InFlight
  <2>3. Others
    BY <1>2, <1>t, OthersKeep DEF Dismiss, CancelBudgets, IInv, OnPath, TypeOK
  <2> QED BY <2>1, <2>2, <2>3 DEF IInv
<1>3. CASE Answer(c)
  <2>1. PICK u \in Usage(c) : actual' = [actual EXCEPT ![c] = u]
    BY <1>3 DEF Answer
  <2>2. u \in Nat
    BY BudgetAssumption
  <2>3. TypeOK'
    BY <1>3, <1>t, <2>1, <2>2 DEF Answer, TypeOK, Places, InFlight
  <2>4. CallInv(c)'
    BY <1>3, <1>t, <1>p, <1>n, <2>1, <2>2
    DEF Answer, CallInv, Reported, Held, Counted, Owed, TypeOK, InFlight
  <2>5. Others
    BY <1>3, <1>t, <2>1, OthersKeep DEF Answer, IInv, TypeOK
  <2> QED BY <2>3, <2>4, <2>5 DEF IInv
<1>4. CASE Charge(c)
  <2>1. TypeOK'
    BY <1>4, <1>t DEF Charge, TypeOK, Places, InFlight
  <2>2. CallInv(c)'
    BY <1>4, <1>t, <1>p
    DEF Charge, Chargeable, CallInv, Reported, Held, Counted, Owed, TypeOK, InFlight
  <2>3. Others
    BY <1>4, <1>t, OthersKeep DEF Charge, IInv, TypeOK
  <2> QED BY <2>1, <2>2, <2>3 DEF IInv
<1>5. CASE ChargeFails(c)
  <2>1. TypeOK'
    BY <1>5, <1>t, BudgetsType
    DEF ChargeFails, Chargeable, AppendFails, CallInv, Reported, TypeOK, Places
  <2>2. CallInv(c)'
    BY <1>5, <1>t, <1>p
    DEF ChargeFails, Chargeable, AppendFails, SettleBudgets, CancelBudgets, CallInv,
        Reported, Held, Counted, Owed, Recovered, OnPath, TypeOK, InFlight
  <2>3. Others
    BY <1>5, <1>t, OthersKeep
    DEF ChargeFails, AppendFails, SettleBudgets, CancelBudgets, IInv, OnPath, TypeOK
  <2> QED BY <2>1, <2>2, <2>3 DEF IInv
<1>6. CASE Settle(c)
  <2>1. TypeOK'
    BY <1>6, <1>t, BudgetsType DEF Settle, CallInv, Reported, TypeOK, Places
  <2>2. CallInv(c)'
    BY <1>6, <1>t, <1>p
    DEF Settle, SettleBudgets, CallInv, Reported, Held, Counted, Owed, OnPath, TypeOK,
        InFlight
  <2>3. Others
    BY <1>6, <1>t, OthersKeep DEF Settle, SettleBudgets, IInv, OnPath, TypeOK
  <2> QED BY <2>1, <2>2, <2>3 DEF IInv
<1>7. CASE SettleRejected(c)
  <2>1. TypeOK'
    BY <1>7, <1>t, BudgetsType DEF SettleRejected, CallInv, Reported, TypeOK, Places
  <2>2. CallInv(c)'
    BY <1>7, <1>t, <1>p
    DEF SettleRejected, SettleBudgets, CallInv, Reported, Held, Counted, Owed, OnPath,
        TypeOK, InFlight
  <2>3. Others
    BY <1>7, <1>t, OthersKeep DEF SettleRejected, SettleBudgets, IInv, OnPath, TypeOK
  <2> QED BY <2>1, <2>2, <2>3 DEF IInv
<1>8. CASE RetryCharge(c)
  <2>1. TypeOK'
    BY <1>8, <1>t DEF RetryCharge, AppendFails, TypeOK, Places
  <2>2. CallInv(c)'
    BY <1>8, <1>t, <1>p
    DEF RetryCharge, AppendFails, CallInv, Reported, Held, Counted, Owed, TypeOK, InFlight
  <2>3. Others
    BY <1>8, <1>t, OthersKeep DEF RetryCharge, AppendFails, IInv, TypeOK
  <2> QED BY <2>1, <2>2, <2>3 DEF IInv
<1>9. CASE Observe(c)
  <2>1. TypeOK'
    BY <1>9, <1>t DEF Observe, TypeOK
  <2>2. CallInv(c)'
    BY <1>9, <1>t, <1>p
    DEF Observe, CallInv, Reported, Held, Counted, Owed, Recovered, TypeOK, InFlight
  <2>3. Others
    BY <1>9, <1>t, OthersKeep DEF Observe, IInv, TypeOK
  <2> QED BY <2>1, <2>2, <2>3 DEF IInv
<1>10. CASE Terminate(c)
  <2>1. TypeOK'
    BY <1>10, <1>t, BudgetsType
    DEF Terminate, AppendFails, CallInv, Reported, TypeOK, Places, InFlight
  <2>2. CallInv(c)'
    BY <1>10, <1>t, <1>p
    DEF Terminate, AppendFails, SettleBudgets, CallInv, Reported, Held, Counted, Owed,
        OnPath, TypeOK, InFlight
  <2>3. Others
    BY <1>10, <1>t, OthersKeep DEF Terminate, AppendFails, SettleBudgets, IInv, OnPath, TypeOK
  <2> QED BY <2>1, <2>2, <2>3 DEF IInv
<1>11. CASE RecoverAttempt(c)
  <2>1. TypeOK'
    BY <1>11, <1>t DEF RecoverAttempt, AppendFails, TypeOK, Places
  <2>2. CallInv(c)'
    BY <1>11, <1>t, <1>p
    DEF RecoverAttempt, AppendFails, CallInv, Reported, Held, Counted, Owed, Recovered,
        TypeOK, InFlight
  <2>3. Others
    BY <1>11, <1>t, OthersKeep DEF RecoverAttempt, AppendFails, IInv, TypeOK
  <2> QED BY <2>1, <2>2, <2>3 DEF IInv
<1>12. CASE Reconcile(c)
  <2>1. charge[c] \in Nat /\ charge[c] = actual[c]
    BY <1>12, <1>t DEF Reconcile, CallInv, Reported, TypeOK
  <2>2. TypeOK'
    BY <1>12, <1>t, <2>1, BudgetsType DEF Reconcile, TypeOK, Places
  <2>3. CallInv(c)'
    BY <1>12, <1>t, <1>p, <1>n, <2>1
    DEF Reconcile, ReconcileBudgets, CallInv, Reported, Held, Counted, Owed, Recovered,
        TypeOK, InFlight
  <2>4. Others
    BY <1>12, <1>t, OthersKeep DEF Reconcile, ReconcileBudgets, IInv, TypeOK
  <2> QED BY <2>2, <2>3, <2>4 DEF IInv
<1> QED BY <1>1, <1>2, <1>3, <1>4, <1>5, <1>6, <1>7, <1>8, <1>9, <1>10, <1>11, <1>12

\* Building the budgets of a lane anew keeps it: what recovery counts of a call
\* that is over is what the call is owed.
LEMMA ReopenStep ==
  ASSUME IInv, NEW b \in Budget, Reopen(b)
  PROVE  IInv'
<1> DEFINE anew == {d \in Budget : b \in Above(d)}
<1>t. TypeOK
  BY DEF IInv
<1>1. TypeOK'
  <2>1. settled' \in [Call -> [Budget -> Nat \cup {NoUsage}]]
    BY <1>t DEF Reopen, TypeOK
  <2>2. used' \in [Call -> [Budget -> Nat]]
    <3>1. ASSUME NEW c \in Call, NEW d \in Budget
          PROVE  (IF d \in anew \cap Path(c) THEN Recovered(c) ELSE used[c][d]) \in Nat
      BY <1>t, RecoveredType DEF TypeOK
    <3>2. used' = [c \in Call |-> [d \in Budget |->
                     IF d \in anew \cap Path(c) THEN Recovered(c) ELSE used[c][d]]]
      BY DEF Reopen
    <3> QED BY <3>1, <3>2
  <2> QED BY <1>t, <2>1, <2>2 DEF Reopen, TypeOK, ledger
<1>2. ASSUME NEW c \in Call PROVE CallInv(c)'
  <2>1. CallInv(c) /\ Path(c) \subseteq Budget
    BY PathIsBudgets DEF IInv
  <2>2. CASE anew \cap Path(c) = {}
    <3>1. \A d \in Path(c) : settled'[c][d] = settled[c][d] /\ used'[c][d] = used[c][d]
      BY <2>1, <2>2 DEF Reopen
    <3> QED
      BY <2>1, <3>1 DEF Reopen, ledger, CallInv, Reported, Held, Counted, Owed, Recovered
  <2>3. CASE anew \cap Path(c) # {}
    <3>1. b \in Path(c)
      BY <2>1, <2>3, BudgetAssumption DEF Path
    <3>2. pc[c] \in {"idle", "over"}
      BY <3>1 DEF Reopen
    <3>3. \A d \in Path(c) :
            \/ settled'[c][d] = settled[c][d] /\ used'[c][d] = used[c][d]
            \/ settled'[c][d] = NoUsage /\ used'[c][d] = Recovered(c)
      BY <2>1 DEF Reopen
    <3> QED
      BY <2>1, <3>2, <3>3
      DEF Reopen, ledger, CallInv, Reported, Held, Counted, Owed, Recovered, InFlight
  <2> QED BY <2>2, <2>3
<1> QED BY <1>1, <1>2 DEF IInv

\* A new process finds in the ledger what every call is owed.
LEMMA RestartStep ==
  ASSUME IInv, Restart
  PROVE  IInv'
<1>t. TypeOK
  BY DEF IInv
<1>1. TypeOK'
  <2>1. /\ reserved' \in [Call -> [Budget -> Nat]]
        /\ settled' \in [Call -> [Budget -> Nat \cup {NoUsage}]]
    BY DEF Restart
  <2>2. used' \in [Call -> [Budget -> Nat]]
    BY <1>t, RecoveredType DEF Restart
  <2>3. restarts' \in 0 .. MaxRestarts
    BY <1>t, BudgetAssumption DEF Restart, TypeOK
  <2> QED BY <1>t, <2>1, <2>2, <2>3 DEF Restart, TypeOK, Places
<1>2. ASSUME NEW c \in Call PROVE CallInv(c)'
  <2>1. CallInv(c) /\ Path(c) \subseteq Budget
    BY PathIsBudgets DEF IInv
  <2> QED
    BY <1>t, <2>1
    DEF Restart, CallInv, Reported, Held, Counted, Owed, Recovered, TypeOK, InFlight
<1> QED BY <1>1, <1>2 DEF IInv

\* Every step keeps it.
LEMMA NextIInv == IInv /\ [Next]_vars => IInv'
<1> SUFFICES ASSUME IInv, [Next]_vars PROVE IInv'
  OBVIOUS
<1>1. CASE \E c \in Call :
             \/ Reserve(c) \/ Dismiss(c) \/ Answer(c)
             \/ Charge(c) \/ ChargeFails(c) \/ Settle(c)
             \/ SettleRejected(c) \/ RetryCharge(c)
             \/ Observe(c) \/ Terminate(c) \/ RecoverAttempt(c) \/ Reconcile(c)
  BY <1>1, CallStep
<1>2. CASE \E b \in Budget : Reopen(b)
  BY <1>2, ReopenStep
<1>3. CASE Restart
  BY <1>3, RestartStep
<1>4. CASE UNCHANGED vars
  BY <1>4 DEF vars, budgets, ledger, IInv, TypeOK, CallInv, Reported, Held, Counted, Owed,
              Recovered
<1> QED BY <1>1, <1>2, <1>3, <1>4 DEF Next

\* The invariant holds in every reachable state.
LEMMA Invariance == Spec => []IInv
<1>1. Init => IInv
  BY InitIInv
<1>2. IInv /\ [Next]_vars => IInv'
  BY NextIInv
<1> QED BY <1>1, <1>2, PTL DEF Spec

-------------------------------------------------------------------------------
(* The theorems *)

\* Counters, reservations and events keep their types; no counter goes below zero.
THEOREM TypeCorrect == Spec => []TypeOK
<1>1. IInv => TypeOK
  BY DEF IInv
<1> QED BY <1>1, Invariance, PTL

\* While the ledger takes appends every usage is counted once in each budget of its
\* call, however calls end, budgets are built anew and processes are replaced.
THEOREM CountedOnce == Spec => []UsageCountedOnce
<1>1. IInv => UsageCountedOnce
  BY DEF IInv, CallInv, Counted, UsageCountedOnce
<1> QED BY <1>1, Invariance, PTL

\* Reserved tokens return to every budget when their call is over, and are held in
\* all of them until then.
THEOREM Returned == Spec => []CapacityReturned
<1>1. IInv => CapacityReturned
  BY DEF IInv, CallInv, Held, CapacityReturned
<1> QED BY <1>1, Invariance, PTL

-------------------------------------------------------------------------------
(* Induction over the subsets of a finite set *)

\* Every non-empty set of natural numbers has a least one.
LEMMA Least ==
  ASSUME NEW S \in SUBSET Nat, S # {}
  PROVE  \E n \in S : \A k \in S : n <= k
<1>1. PICK n \in S : \A k \in S : ~(<<k, n>> \in OpToRel(<, Nat))
  BY NatLessThanWellFounded, WFMin
<1>2. \A k \in S : ~(k < n)
  BY <1>1 DEF OpToRel
<1>3. QED
  BY <1>2

\* A finite set without one of its elements has one element less.
LEMMA RemoveOne ==
  ASSUME NEW S, IsFiniteSet(S), NEW x \in S
  PROVE  Cardinality(S \ {x}) \in Nat /\ Cardinality(S \ {x}) = Cardinality(S) - 1
  BY FS_RemoveElement, FS_CardinalityType

\* Of the subsets that are not in Q there is a smallest one.
LEMMA SmallestSubset ==
  ASSUME NEW S, IsFiniteSet(S), NEW Q, NEW t \in SUBSET S, t \notin Q
  PROVE  \E s \in SUBSET S :
           /\ s \notin Q /\ IsFiniteSet(s)
           /\ \A x \in s : s \ {x} \in Q
<1> DEFINE Size == {n \in Nat : \E s \in SUBSET S : s \notin Q /\ Cardinality(s) = n}
<1>1. \A s \in SUBSET S : IsFiniteSet(s) /\ Cardinality(s) \in Nat
  BY FS_Subset, FS_CardinalityType
<1>2. Cardinality(t) \in Size /\ Size \in SUBSET Nat
  BY <1>1
<1>3. \A s \in SUBSET S : s \notin Q => Cardinality(s) \in Size
  BY <1>1
<1>4. \A n \in Size : \E s \in SUBSET S : s \notin Q /\ Cardinality(s) = n
  OBVIOUS
<1> HIDE DEF Size
<1>5. PICK n \in Size : \A k \in Size : n <= k
  BY <1>2, Least
<1>6. PICK s \in SUBSET S : s \notin Q /\ Cardinality(s) = n
  BY <1>4
<1>7. ASSUME NEW x \in s, s \ {x} \notin Q PROVE FALSE
  <2>1. Cardinality(s \ {x}) \in Nat /\ Cardinality(s \ {x}) = n - 1
    BY <1>1, <1>6, RemoveOne
  <2>2. n <= Cardinality(s \ {x})
    BY <1>3, <1>5, <1>7
  <2>3. n \in Nat
    BY <1>2
  <2>4. QED
    BY <2>1, <2>2, <2>3
<1>8. QED
  BY <1>1, <1>6, <1>7

\* Subsets of a finite set are reached from the empty one by adding elements.
LEMMA StrongSubsetInduction ==
  ASSUME NEW S, IsFiniteSet(S), NEW Q,
         \A s \in SUBSET S : (\A x \in s : s \ {x} \in Q) => s \in Q
  PROVE  S \in Q
<1>1. SUFFICES ASSUME S \notin Q PROVE FALSE
  OBVIOUS
<1>2. PICK s \in SUBSET S : s \notin Q /\ \A x \in s : s \ {x} \in Q
  BY <1>1, SmallestSubset
<1>3. QED
  BY <1>2

\* What holds of the empty set, and of every subset when it holds of the subset less any one
\* element, holds of a finite set.
LEMMA SubsetInduction ==
  ASSUME NEW S, IsFiniteSet(S), NEW Q, {} \in Q,
         \A s \in SUBSET S : \A x \in s : s \ {x} \in Q => s \in Q
  PROVE  S \in Q
<1>1. SUFFICES ASSUME S \notin Q PROVE FALSE
  OBVIOUS
<1>2. PICK s \in SUBSET S : s \notin Q /\ \A x \in s : s \ {x} \in Q
  BY <1>1, SmallestSubset
<1>3. QED
  BY <1>2

-------------------------------------------------------------------------------
(* Sums over a finite set, of numbers a function gives *)

\* The element of s the sum takes first.
Picked(s) == CHOOSE x \in s : TRUE

IsSum(f, w, S) ==
  f = [s \in SUBSET S |-> IF s = {} THEN 0 ELSE w[Picked(s)] + f[s \ {Picked(s)}]]

\* Some function adds up the weights of every subset, so the choice that defines a sum is one.
LEMMA SumExists ==
  ASSUME NEW w, NEW S, IsFiniteSet(S)
  PROVE  \E f : IsSum(f, w, S)
<1> DEFINE Small(n) == {s \in SUBSET S : Cardinality(s) <= n}
           IsPart(f, n) == f = [s \in Small(n) |-> IF s = {} THEN 0 ELSE w[Picked(s)] + f[s \ {Picked(s)}]]
           Missing == {n \in Nat : ~ \E f : IsPart(f, n)}
<1>1. \A s \in SUBSET S : IsFiniteSet(s) /\ Cardinality(s) \in Nat /\ (Cardinality(s) = 0 <=> s = {})
  BY FS_Subset, FS_CardinalityType, FS_EmptySet
<1>2. Missing = {}
  <2>1. SUFFICES ASSUME Missing # {} PROVE FALSE
    OBVIOUS
  <2>2. Missing \in SUBSET Nat
    OBVIOUS
  <2> HIDE DEF Missing
  <2>3. PICK n \in Missing : \A k \in Missing : n <= k
    BY <2>1, <2>2, Least
  <2> USE DEF Missing
  <2>4. n # 0
    <3> DEFINE f == [s \in Small(0) |-> 0]
    <3>1. \A s \in Small(0) : s = {}
      BY <1>1
    <3>2. IsPart(f, 0)
      BY <3>1
    <3>3. QED
      BY <3>2
  <2>5. PICK f : IsPart(f, n - 1)
    <3>1. n - 1 \in Nat /\ ~(n <= n - 1)
      BY <2>3, <2>4
    <3>2. n - 1 \notin Missing
      <4> HIDE DEF Missing
      <4>1. QED
        BY <2>3, <3>1
    <3>3. QED
      BY <3>1, <3>2
  <2> DEFINE g == [s \in Small(n) |-> IF Cardinality(s) <= n - 1 THEN f[s]
                                      ELSE w[Picked(s)] + f[s \ {Picked(s)}]]
  <2>6. ASSUME NEW s \in Small(n), s # {}
        PROVE  /\ s \ {Picked(s)} \in Small(n) /\ s \ {Picked(s)} \in Small(n - 1)
               /\ Cardinality(s \ {Picked(s)}) <= n - 1
    <3>1. Picked(s) \in s
      BY <2>6 DEF Picked
    <3>2. Cardinality(s \ {Picked(s)}) = Cardinality(s) - 1
      BY <1>1, <3>1, FS_RemoveElement
    <3>3. QED
      BY <1>1, <3>2
  <2>7. ASSUME NEW s \in Small(n)
        PROVE  g[s] = IF s = {} THEN 0 ELSE w[Picked(s)] + g[s \ {Picked(s)}]
    <3>1. CASE s = {}
      BY <1>1, <2>4, <2>5, <3>1
    <3>2. CASE s # {} /\ Cardinality(s) <= n - 1
      <4>1. g[s] = f[s] /\ f[s] = w[Picked(s)] + f[s \ {Picked(s)}]
        BY <2>5, <3>2
      <4>2. g[s \ {Picked(s)}] = f[s \ {Picked(s)}]
        BY <2>6, <3>2
      <4>3. QED
        BY <3>2, <4>1, <4>2
    <3>3. CASE s # {} /\ ~(Cardinality(s) <= n - 1)
      BY <2>6, <3>3
    <3>4. QED
      BY <3>1, <3>2, <3>3
  <2>8. g = [s \in Small(n) |-> IF s = {} THEN 0 ELSE w[Picked(s)] + g[s \ {Picked(s)}]]
    BY <2>7
  <2>9. IsPart(g, n)
    BY <2>8
  <2>10. QED
    BY <2>3, <2>9
<1>3. Cardinality(S) \in Nat
  BY <1>1
<1>4. PICK f : IsPart(f, Cardinality(S))
  BY <1>2, <1>3
<1>5. Small(Cardinality(S)) = SUBSET S
  BY FS_Subset
<1>6. IsSum(f, w, S)
  BY <1>4, <1>5 DEF IsSum
<1>7. QED
  BY <1>6

\* Two functions that satisfy the recursion agree where both are defined.
LEMMA SumUnique ==
  ASSUME NEW w, NEW S, NEW f, IsSum(f, w, S),
         NEW T \in SUBSET S, IsFiniteSet(T), NEW g, IsSum(g, w, T)
  PROVE  f[T] = g[T]
<1> DEFINE Q == {s \in SUBSET T : f[s] = g[s]}
<1>1. ASSUME NEW s \in SUBSET T, \A x \in s : s \ {x} \in Q
      PROVE  s \in Q
  <2>1. CASE s = {}
    BY <2>1 DEF IsSum
  <2>2. CASE s # {}
    <3>1. Picked(s) \in s
      BY <2>2 DEF Picked
    <3>2. f[s \ {Picked(s)}] = g[s \ {Picked(s)}]
      BY <1>1, <3>1
    <3>3. QED
      BY <2>2, <3>2 DEF IsSum
  <2>3. QED
    BY <2>1, <2>2
<1> HIDE DEF Q
<1>2. T \in Q
  BY <1>1, StrongSubsetInduction
<1>3. QED
  BY <1>2 DEF Q

\* A sum is the value of such a function.
LEMMA SumIs ==
  ASSUME NEW w, NEW S, IsFiniteSet(S)
  PROVE  \E f : IsSum(f, w, S) /\ SumFunctionOnSet(w, S) = f[S]
<1> DEFINE f == CHOOSE f : IsSum(f, w, S)
<1>1. SumFunctionOnSet(w, S) = f[S]
  BY DEF SumFunctionOnSet, FoldFunctionOnSet, MapThenFoldSet, IsSum, Picked
<1>2. IsSum(f, w, S)
  BY SumExists
<1>3. QED
  BY <1>1, <1>2

\* A sum is the weight of the element that its definition picks and the sum of the others.
LEMMA SumPicked ==
  ASSUME NEW w, NEW S, IsFiniteSet(S)
  PROVE  /\ SumFunctionOnSet(w, {}) = 0
         /\ S # {} => SumFunctionOnSet(w, S) = w[Picked(S)] + SumFunctionOnSet(w, S \ {Picked(S)})
<1>1. SumFunctionOnSet(w, {}) = 0
  <2>1. PICK f : IsSum(f, w, {}) /\ SumFunctionOnSet(w, {}) = f[{}]
    BY SumIs, FS_EmptySet
  <2>2. QED
    BY <2>1 DEF IsSum
<1>2. ASSUME S # {}
      PROVE  SumFunctionOnSet(w, S) = w[Picked(S)] + SumFunctionOnSet(w, S \ {Picked(S)})
  <2> DEFINE T == S \ {Picked(S)}
  <2>1. PICK f : IsSum(f, w, S) /\ SumFunctionOnSet(w, S) = f[S]
    BY SumIs
  <2>2. IsFiniteSet(T) /\ T \in SUBSET S
    BY FS_Subset
  <2> HIDE DEF T
  <2>3. PICK g : IsSum(g, w, T) /\ SumFunctionOnSet(w, T) = g[T]
    BY <2>2, SumIs
  <2>4. f[T] = g[T]
    BY <2>1, <2>2, <2>3, SumUnique
  <2>5. f[S] = w[Picked(S)] + f[T]
    BY <1>2, <2>1 DEF IsSum, T
  <2>6. QED
    BY <2>1, <2>3, <2>4, <2>5 DEF T
<1>3. QED
  BY <1>1, <1>2

\* The sum of no numbers, of one more, and its type.
LEMMA SumEmpty == \A w : SumFunctionOnSet(w, {}) = 0
  BY SumPicked, FS_EmptySet

\* A sum of natural numbers is one.
LEMMA SumType ==
  ASSUME NEW S, IsFiniteSet(S), NEW w, \A x \in S : w[x] \in Nat
  PROVE  SumFunctionOnSet(w, S) \in Nat
<1> DEFINE Q == {s \in SUBSET S : SumFunctionOnSet(w, s) \in Nat}
<1>1. {} \in Q
  BY SumEmpty
<1>2. ASSUME NEW s \in SUBSET S, \A x \in s : s \ {x} \in Q
      PROVE  s \in Q
  <2>1. CASE s = {}
    BY <1>1, <2>1
  <2>2. CASE s # {}
    <3>1. Picked(s) \in s
      BY <2>2 DEF Picked
    <3>2. IsFiniteSet(s)
      BY FS_Subset
    <3>3. SumFunctionOnSet(w, s) = w[Picked(s)] + SumFunctionOnSet(w, s \ {Picked(s)})
      BY <2>2, <3>2, SumPicked
    <3>4. QED
      BY <1>2, <3>1, <3>3
  <2>3. QED
    BY <2>1, <2>2
<1> HIDE DEF Q
<1>3. S \in Q
  BY <1>2, StrongSubsetInduction
<1>4. QED
  BY <1>3 DEF Q

\* Any element may be summed last.
LEMMA SumRemove ==
  ASSUME NEW S, IsFiniteSet(S), NEW w, \A x \in S : w[x] \in Nat, NEW y \in S
  PROVE  SumFunctionOnSet(w, S) = w[y] + SumFunctionOnSet(w, S \ {y})
<1> DEFINE Q == {s \in SUBSET S : \A x \in s :
                   SumFunctionOnSet(w, s) = w[x] + SumFunctionOnSet(w, s \ {x})}
<1>1. \A s \in SUBSET S : IsFiniteSet(s) /\ SumFunctionOnSet(w, s) \in Nat
  BY FS_Subset, SumType
<1>2. ASSUME NEW s \in SUBSET S, \A x \in s : s \ {x} \in Q
      PROVE  s \in Q
  <2> SUFFICES ASSUME NEW x \in s
               PROVE  SumFunctionOnSet(w, s) = w[x] + SumFunctionOnSet(w, s \ {x})
    OBVIOUS
  <2> DEFINE p == Picked(s)
  <2>1. p \in s
    BY DEF Picked
  <2>2. SumFunctionOnSet(w, s) = w[p] + SumFunctionOnSet(w, s \ {p})
    BY <1>1, SumPicked
  <2> HIDE DEF p
  <2>3. CASE x = p
    BY <2>2, <2>3
  <2>4. CASE x # p
    <3> DEFINE r == (s \ {x}) \ {p}
    <3>1. r = (s \ {p}) \ {x} /\ r \in SUBSET S
      OBVIOUS
    <3>2. SumFunctionOnSet(w, s \ {p}) = w[x] + SumFunctionOnSet(w, r)
      <4>1. s \ {p} \in Q /\ x \in s \ {p}
        BY <1>2, <2>1, <2>4
      <4>2. QED
        BY <3>1, <4>1
    <3>3. SumFunctionOnSet(w, s \ {x}) = w[p] + SumFunctionOnSet(w, r)
      <4>1. s \ {x} \in Q /\ p \in s \ {x}
        BY <1>2, <2>1, <2>4
      <4>2. QED
        BY <4>1
    <3>4. w[x] \in Nat /\ w[p] \in Nat /\ SumFunctionOnSet(w, r) \in Nat
      BY <1>1, <2>1, <3>1
    <3> HIDE DEF r
    <3>5. QED
      BY <2>2, <3>2, <3>3, <3>4
  <2>5. QED
    BY <2>3, <2>4
<1> HIDE DEF Q
<1>3. S \in Q
  BY <1>2, StrongSubsetInduction
<1>4. QED
  BY <1>3 DEF Q

\* Sums are taken element by element: the sum of two, the larger of two, and
\* what is added by further elements.
LEMMA SumPlus ==
  ASSUME NEW S, IsFiniteSet(S), NEW u, NEW v, NEW w,
         \A x \in S : u[x] \in Nat /\ v[x] \in Nat /\ w[x] = u[x] + v[x]
  PROVE  SumFunctionOnSet(w, S) = SumFunctionOnSet(u, S) + SumFunctionOnSet(v, S)
<1> DEFINE Q == {s \in SUBSET S : SumFunctionOnSet(w, s) = SumFunctionOnSet(u, s) + SumFunctionOnSet(v, s)}
<1>1. \A x \in S : w[x] \in Nat
  OBVIOUS
<1>2. \A s \in SUBSET S : IsFiniteSet(s) /\ SumFunctionOnSet(u, s) \in Nat /\ SumFunctionOnSet(v, s) \in Nat
  BY FS_Subset, SumType
<1>3. {} \in Q
  BY SumEmpty
<1>4. ASSUME NEW s \in SUBSET S, NEW x \in s, s \ {x} \in Q
      PROVE  s \in Q
  <2>1. /\ SumFunctionOnSet(u, s) = u[x] + SumFunctionOnSet(u, s \ {x})
        /\ SumFunctionOnSet(v, s) = v[x] + SumFunctionOnSet(v, s \ {x})
        /\ SumFunctionOnSet(w, s) = w[x] + SumFunctionOnSet(w, s \ {x})
    BY <1>1, <1>2, SumRemove
  <2>2. SumFunctionOnSet(w, s \ {x}) = SumFunctionOnSet(u, s \ {x}) + SumFunctionOnSet(v, s \ {x})
    BY <1>4
  <2>3. x \in S /\ s \ {x} \in SUBSET S
    OBVIOUS
  <2>4. QED
    BY <1>2, <2>1, <2>2, <2>3
<1> HIDE DEF Q
<1>5. S \in Q
  BY <1>3, <1>4, SubsetInduction
<1>6. QED
  BY <1>5 DEF Q

\* The sum over a part, of lesser weights, is at most the sum.
LEMMA SumMonotone ==
  ASSUME NEW S, IsFiniteSet(S), NEW R \in SUBSET S, NEW v, NEW w,
         \A x \in S : v[x] \in Nat /\ w[x] \in Nat,
         \A x \in R : v[x] <= w[x]
  PROVE  SumFunctionOnSet(v, R) <= SumFunctionOnSet(w, S)
<1> DEFINE Q == {s \in SUBSET S : SumFunctionOnSet(v, s \cap R) <= SumFunctionOnSet(w, s)}
<1>1. \A s \in SUBSET S : IsFiniteSet(s) /\ SumFunctionOnSet(v, s) \in Nat /\ SumFunctionOnSet(w, s) \in Nat
  BY FS_Subset, SumType
<1>2. {} \in Q
  <2>1. {} \cap R = {}
    OBVIOUS
  <2>2. QED
    BY <2>1, SumEmpty
<1>3. ASSUME NEW s \in SUBSET S, NEW x \in s, s \ {x} \in Q
      PROVE  s \in Q
  <2>1. SumFunctionOnSet(w, s) = w[x] + SumFunctionOnSet(w, s \ {x})
    BY <1>1, SumRemove
  <2>2. SumFunctionOnSet(v, (s \ {x}) \cap R) <= SumFunctionOnSet(w, s \ {x})
    BY <1>3
  <2>3. /\ x \in S /\ s \ {x} \in SUBSET S /\ (s \ {x}) \cap R \in SUBSET S
        /\ s \cap R \in SUBSET S
    OBVIOUS
  <2>4. /\ SumFunctionOnSet(w, s \ {x}) \in Nat /\ SumFunctionOnSet(v, (s \ {x}) \cap R) \in Nat
        /\ w[x] \in Nat /\ v[x] \in Nat
    BY <1>1, <2>3
  <2>5. CASE x \in R
    <3>1. (s \cap R) \ {x} = (s \ {x}) \cap R /\ x \in s \cap R
      BY <2>5
    <3>2. SumFunctionOnSet(v, s \cap R) = v[x] + SumFunctionOnSet(v, (s \cap R) \ {x})
      BY <1>1, <2>3, <3>1, SumRemove
    <3>3. QED
      BY <2>1, <2>2, <2>4, <2>5, <3>1, <3>2
  <2>6. CASE x \notin R
    <3>1. s \cap R = (s \ {x}) \cap R
      BY <2>6
    <3>2. QED
      BY <2>1, <2>2, <2>4, <3>1
  <2>7. QED
    BY <2>5, <2>6
<1> HIDE DEF Q
<1>4. S \in Q
  BY <1>2, <1>3, SubsetInduction
<1>5. S \cap R = R
  OBVIOUS
<1>6. QED
  BY <1>4, <1>5 DEF Q

\* Elements that count nothing may be left out.
LEMMA SumSupport ==
  ASSUME NEW S, IsFiniteSet(S), NEW R \in SUBSET S, NEW w,
         \A x \in S : w[x] \in Nat,
         \A x \in S \ R : w[x] = 0
  PROVE  SumFunctionOnSet(w, R) = SumFunctionOnSet(w, S)
<1> DEFINE Q == {s \in SUBSET S : SumFunctionOnSet(w, s \cap R) = SumFunctionOnSet(w, s)}
<1>1. \A s \in SUBSET S : IsFiniteSet(s) /\ SumFunctionOnSet(w, s) \in Nat
  BY FS_Subset, SumType
<1>2. {} \in Q
  <2>1. {} \cap R = {}
    OBVIOUS
  <2>2. QED
    BY <2>1
<1>3. ASSUME NEW s \in SUBSET S, NEW x \in s, s \ {x} \in Q
      PROVE  s \in Q
  <2>1. SumFunctionOnSet(w, s) = w[x] + SumFunctionOnSet(w, s \ {x})
    BY <1>1, SumRemove
  <2>2. SumFunctionOnSet(w, (s \ {x}) \cap R) = SumFunctionOnSet(w, s \ {x})
    BY <1>3
  <2>3. /\ x \in S /\ s \ {x} \in SUBSET S /\ s \cap R \in SUBSET S
    OBVIOUS
  <2>4. CASE x \in R
    <3>1. (s \cap R) \ {x} = (s \ {x}) \cap R /\ x \in s \cap R
      BY <2>4
    <3>2. SumFunctionOnSet(w, s \cap R) = w[x] + SumFunctionOnSet(w, (s \cap R) \ {x})
      BY <1>1, <2>3, <3>1, SumRemove
    <3>3. QED
      BY <2>1, <2>2, <3>1, <3>2
  <2>5. CASE x \notin R
    <3>1. s \cap R = (s \ {x}) \cap R
      BY <2>5
    <3>2. w[x] = 0 /\ SumFunctionOnSet(w, s \ {x}) \in Nat
      BY <1>1, <2>3, <2>5
    <3>3. SumFunctionOnSet(w, s \cap R) = SumFunctionOnSet(w, (s \ {x}) \cap R)
      BY <3>1
    <3>4. QED
      BY <2>1, <2>2, <3>2, <3>3
  <2>6. QED
    BY <2>4, <2>5
<1> HIDE DEF Q
<1>4. S \in Q
  BY <1>2, <1>3, SubsetInduction
<1>5. S \cap R = R
  OBVIOUS
<1>6. QED
  BY <1>4, <1>5 DEF Q

-------------------------------------------------------------------------------
(* The limit *)

\* Calls whose reservations bind main work.
Firm == Call \ Auxiliary

\* The smaller of two numbers.
Lesser(m, n) == IF m <= n THEN m ELSE n

\* What of a call is within its reservation, and what recovery would find of that.
Weight(c, b) == Lesser(used[c][b], granted[c]) + reserved[c][b]
Durable(c, b) == IF b \in Path(c) THEN Lesser(Recovered(c), granted[c]) ELSE 0

\* A call counts in the budgets of its path only.
OffPath(c) == \A b \in Budget \ Path(c) : used[c][b] = 0 /\ reserved[c][b] = 0

\* Both as functions, to be summed.
Weights(b) == [c \in Call |-> Weight(c, b)]
Durables(b) == [c \in Call |-> Durable(c, b)]

\* Both what is counted and what is durable stay within the limit. The second is
\* what a process that replaces one with a failed ledger starts from.
LimitInv ==
  /\ \A c \in Call : OffPath(c)
  /\ \A b \in Limited :
       /\ SumFunctionOnSet(Weights(b), Firm) <= MaxTokens(b) + Slack
       /\ SumFunctionOnSet(Durables(b), Firm) <= MaxTokens(b) + Slack

\* The amounts that the limit is about are natural numbers.
LEMMA WeightTypes ==
  ASSUME TypeOK, NEW c \in Call, NEW b \in Budget
  PROVE  /\ Weight(c, b) \in Nat /\ Durable(c, b) \in Nat
         /\ used[c][b] \in Nat /\ reserved[c][b] \in Nat /\ granted[c] \in Nat
         /\ Recovered(c) \in Nat
<1>1. used[c][b] \in Nat /\ reserved[c][b] \in Nat /\ granted[c] \in Nat
  BY DEF TypeOK
<1>2. Recovered(c) \in Nat
  BY RecoveredType
<1>3. QED
  BY <1>1, <1>2 DEF Weight, Durable, Lesser

\* While the ledger takes appends, nothing of a call is durable that is not counted.
LEMMA DurableIsCounted ==
  ASSUME IInv, ~failed, NEW c \in Call, NEW b \in Budget
  PROVE  Durable(c, b) <= Weight(c, b)
<1>1. TypeOK /\ CallInv(c)
  BY DEF IInv
<1>2. Weight(c, b) \in Nat /\ Recovered(c) \in Nat /\ granted[c] \in Nat /\ used[c][b] \in Nat
      /\ reserved[c][b] \in Nat
  BY <1>1, WeightTypes
<1>3. CASE b \notin Path(c)
  BY <1>2, <1>3 DEF Durable
<1>4. CASE b \in Path(c) /\ pc[c] \in InFlight
  <2>1. reserved[c][b] = granted[c]
    BY <1>1, <1>4 DEF CallInv, Held
  <2>2. QED
    BY <1>2, <2>1 DEF Durable, Weight, Lesser
<1>5. CASE b \in Path(c) /\ pc[c] \notin InFlight
  <2>1. used[c][b] = Owed(c, b)
    BY <1>1, <1>5 DEF CallInv, Counted
  <2>2. Recovered(c) \in {0, actual[c]}
    BY <1>1 DEF CallInv, Reported, Recovered
  <2>3. settled[c][b] # NoUsage => used[c][b] = actual[c]
    BY <2>1 DEF Owed
  <2>4. settled[c][b] = NoUsage => used[c][b] = Recovered(c)
    BY <1>5, <2>1 DEF Owed
  <2>5. Recovered(c) <= used[c][b]
    BY <1>2, <2>2, <2>3, <2>4
  <2>6. QED
    BY <1>2, <2>5 DEF Durable, Weight, Lesser
<1>6. QED
  BY <1>3, <1>4, <1>5

\* The steps of a call after its admission.
Step(c) ==
  \/ Dismiss(c) \/ Answer(c)
  \/ Charge(c) \/ ChargeFails(c) \/ Settle(c)
  \/ SettleRejected(c) \/ RetryCharge(c)
  \/ Observe(c) \/ Terminate(c) \/ RecoverAttempt(c) \/ Reconcile(c)

\* A step of a call changes nothing of the others, keeps, drops or settles its
\* reservation, and makes only durable what it holds or has settled.
LEMMA StepOthers ==
  ASSUME IInv, NEW c \in Call, Step(c)
  PROVE  /\ granted' = granted
         /\ \A d \in Call \ {c} : /\ reserved'[d] = reserved[d] /\ used'[d] = used[d]
                                 /\ charge'[d] = charge[d] /\ terminal'[d] = terminal[d]
<1>1. TypeOK
  BY DEF IInv
<1> USE <1>1 DEF budgets, ledger, TypeOK, OnPath, SettleBudgets, CancelBudgets,
                 ReconcileBudgets, AppendFails
<1>2. CASE Dismiss(c) \/ Answer(c)
  BY <1>2 DEF Dismiss, Answer
<1>3. CASE Charge(c) \/ Observe(c)
  BY <1>3 DEF Charge, Observe
<1>4. CASE ChargeFails(c)
  BY <1>4 DEF ChargeFails
<1>5. CASE Settle(c) \/ SettleRejected(c) \/ Reconcile(c)
  BY <1>5 DEF Settle, SettleRejected, Reconcile
<1>6. CASE RetryCharge(c)
  BY <1>6 DEF RetryCharge
<1>7. CASE Terminate(c)
  BY <1>7 DEF Terminate
<1>8. CASE RecoverAttempt(c)
  BY <1>8 DEF RecoverAttempt
<1>9. QED
  BY <1>2, <1>3, <1>4, <1>5, <1>6, <1>7, <1>8 DEF Step

\* How a settlement changes a budget.
Kept(c, b) == used'[c][b] = used[c][b] /\ reserved'[c][b] \in {reserved[c][b], 0}
Replaced(c, b) ==
  /\ b \in Path(c) /\ reserved[c][b] = granted[c] /\ used[c][b] = 0
  /\ reserved'[c][b] = 0 /\ used'[c][b] \in Nat

\* A settlement puts what it counts in the place of the reservation.
LEMMA SettleEffect ==
  ASSUME IInv, NEW c \in Call, actual[c] \in Nat, NEW b \in Budget, OffPath(c),
         SettleBudgets(c, actual[c]), pc[c] \in InFlight
  PROVE  Kept(c, b) \/ Replaced(c, b)
<1>1. TypeOK /\ CallInv(c)
  BY DEF IInv
<1>2. CASE b \in Path(c)
  <2>1. reserved[c][b] = granted[c] /\ used[c][b] = 0 /\ granted[c] # 0
    BY <1>1, <1>2 DEF CallInv, Held
  <2>2. reserved'[c][b] = 0 /\ used'[c][b] = 0 + actual[c]
    BY <1>1, <1>2, <2>1 DEF SettleBudgets, OnPath, TypeOK
  <2>3. QED
    BY <1>2, <2>1, <2>2 DEF Replaced
<1>3. CASE b \notin Path(c)
  <2>1. reserved[c][b] = 0
    BY <1>3 DEF OffPath
  <2>2. reserved'[c][b] = reserved[c][b] /\ used'[c][b] = used[c][b]
    BY <1>1, <1>3, <2>1 DEF SettleBudgets, OnPath, TypeOK
  <2>3. QED
    BY <2>2 DEF Kept
<1>4. QED
  BY <1>2, <1>3

\* A step of a call leaves what the call weighs, or puts usage in the place of its reservation.
LEMMA StepOwn ==
  ASSUME IInv, NEW c \in Call, OffPath(c), Step(c), NEW b \in Budget
  PROVE  Kept(c, b) \/ Replaced(c, b)
<1>1. TypeOK /\ CallInv(c)
  BY DEF IInv
<1>2. pc[c] \in {"answered", "rejected", "terminal", "charged"} =>
        actual[c] \in Nat /\ pc[c] \in InFlight
  BY <1>1 DEF CallInv, Reported, TypeOK, InFlight
<1>3. CancelBudgets(c) => Kept(c, b)
  BY <1>1 DEF CancelBudgets, Kept, OnPath, TypeOK
<1>4. ReconcileBudgets(c, charge[c]) => Kept(c, b)
  BY DEF ReconcileBudgets, Kept
<1>5. UNCHANGED budgets => Kept(c, b)
  BY DEF budgets, Kept
<1>6. CASE Dismiss(c) \/ Answer(c) \/ Charge(c) \/ Observe(c) \/ RetryCharge(c) \/ RecoverAttempt(c)
           \/ Reconcile(c)
  BY <1>3, <1>4, <1>5, <1>6 DEF Dismiss, Answer, Charge, Observe, RetryCharge, RecoverAttempt, Reconcile
<1>7. CASE ChargeFails(c)
  <2>1. CancelBudgets(c) \/ SettleBudgets(c, actual[c])
    BY <1>7 DEF ChargeFails
  <2>2. pc[c] \in {"answered", "rejected", "terminal"}
    BY <1>7 DEF ChargeFails, Chargeable
  <2>3. QED
    BY <1>2, <1>3, <2>1, <2>2, SettleEffect
<1>8. CASE Settle(c) \/ SettleRejected(c)
  <2>1. SettleBudgets(c, actual[c]) /\ pc[c] \in {"charged", "rejected"}
    BY <1>8 DEF Settle, SettleRejected
  <2>2. QED
    BY <1>2, <2>1, SettleEffect
<1>9. CASE Terminate(c)
  <2>1. pc[c] \in {"answered", "rejected"}
    BY <1>9 DEF Terminate
  <2>2. UNCHANGED budgets \/ SettleBudgets(c, actual[c])
    BY <1>9 DEF Terminate
  <2>3. QED
    BY <1>2, <1>5, <2>1, <2>2, SettleEffect
<1>10. QED
  BY <1>6, <1>7, <1>8, <1>9 DEF Step

\* A step of a call makes its usage durable only while the ledger takes appends, and then a
\* usage that it holds a reservation for, or one that it has counted.
LEMMA StepDurable ==
  ASSUME IInv, NEW c \in Call, Step(c)
  PROVE  \/ Recovered(c)' = Recovered(c)
         \/ ~failed /\ pc[c] \in InFlight /\ Recovered(c)' \in Nat
         \/ ~failed /\ pc[c] = "retry" /\ Recovered(c)' \in {0, actual[c]}
<1>1. TypeOK /\ CallInv(c)
  BY DEF IInv
<1>2. charge'[c] = charge[c] /\ terminal'[c] = terminal[c] => Recovered(c)' = Recovered(c)
  BY DEF Recovered
<1>3. CASE Dismiss(c) \/ Answer(c) \/ Settle(c) \/ SettleRejected(c) \/ Reconcile(c)
  BY <1>2, <1>3 DEF Dismiss, Answer, Settle, SettleRejected, Reconcile, ledger
<1>4. CASE Charge(c) \/ ChargeFails(c) \/ Terminate(c)
  <2>1. pc[c] \in {"answered", "rejected", "terminal"} /\ pc[c] \in InFlight /\ actual[c] \in Nat
    BY <1>1, <1>4 DEF Charge, ChargeFails, Terminate, Chargeable, CallInv, Reported, TypeOK, InFlight
  <2>2. \/ charge' = charge /\ terminal' = terminal
        \/ ~failed /\ charge'[c] \in {charge[c], actual[c]} /\ terminal'[c] \in {terminal[c], actual[c]}
    BY <1>1, <1>4 DEF Charge, ChargeFails, Terminate, AppendFails, TypeOK
  <2>3. QED
    BY <1>1, <1>2, <2>1, <2>2 DEF Recovered, TypeOK
<1>5. CASE RetryCharge(c)
  <2>1. pc[c] = "retry"
    BY <1>5 DEF RetryCharge
  <2>2. \/ charge' = charge /\ terminal' = terminal
        \/ ~failed /\ charge'[c] \in {charge[c], actual[c]} /\ terminal' = terminal
    BY <1>1, <1>5 DEF RetryCharge, AppendFails, TypeOK
  <2>3. QED
    BY <1>1, <1>2, <2>1, <2>2 DEF Recovered, CallInv, Reported
<1>6. CASE Observe(c)
  <2>1. charge[c] # NoUsage /\ charge' = charge
    BY <1>6 DEF Observe
  <2>2. QED
    BY <2>1 DEF Recovered
<1>7. CASE RecoverAttempt(c)
  <2>1. terminal[c] # NoUsage /\ charge[c] = NoUsage
    BY <1>7 DEF RecoverAttempt
  <2>2. charge'[c] \in {charge[c], terminal[c]} /\ terminal' = terminal
    BY <1>1, <1>7, <2>1 DEF RecoverAttempt, AppendFails, CallInv, Reported, TypeOK
  <2>3. QED
    BY <2>1, <2>2 DEF Recovered
<1>8. QED
  BY <1>3, <1>4, <1>5, <1>6, <1>7 DEF Step

\* Sums within the limit stay there when no call counts more.
LEMMA SumKeeps ==
  ASSUME TypeOK, TypeOK', NEW b \in Budget, NEW limit \in Nat,
         NEW v, NEW w, v \in [Call -> Nat], w \in [Call -> Nat],
         \A c \in Call : v[c] <= w[c],
         SumFunctionOnSet(w, Firm) <= limit
  PROVE  SumFunctionOnSet(v, Firm) <= limit
<1>1. IsFiniteSet(Firm) /\ Firm \subseteq Call
  BY BudgetAssumption, FS_Subset DEF Firm
<1>2. \A c \in Firm : v[c] \in Nat /\ w[c] \in Nat /\ v[c] <= w[c]
  BY <1>1
<1>3. SumFunctionOnSet(v, Firm) <= SumFunctionOnSet(w, Firm)
  BY <1>1, <1>2, SumMonotone
<1>4. SumFunctionOnSet(v, Firm) \in Nat /\ SumFunctionOnSet(w, Firm) \in Nat
  BY <1>1, <1>2, SumType
<1>5. QED
  BY <1>3, <1>4

\* The weights are functions to the natural numbers.
LEMMA WeightsType ==
  ASSUME TypeOK, NEW b \in Budget
  PROVE  Weights(b) \in [Call -> Nat] /\ Durables(b) \in [Call -> Nat]
  BY WeightTypes DEF Weights, Durables

\* A limit, and the slack above it, are natural numbers.
LEMMA LimitType ==
  ASSUME NEW b \in Limited
  PROVE  b \in Budget /\ MaxTokens(b) \in Nat /\ Slack \in Nat /\ MaxTokens(b) + Slack \in Nat
  BY BudgetAssumption

\* The invariant is kept by a step after which each call counts no more than
\* before, or than was durable, and likewise what is durable.
LEMMA LimitKeeps ==
  ASSUME TypeOK, TypeOK', LimitInv, \A c \in Call : OffPath(c)',
         \A b \in Budget :
           /\ \/ \A c \in Call : Weight(c, b)' <= Weight(c, b)
              \/ \A c \in Call : Weight(c, b)' <= Durable(c, b)
           /\ \/ \A c \in Call : Durable(c, b)' <= Weight(c, b)
              \/ \A c \in Call : Durable(c, b)' <= Durable(c, b)
  PROVE  LimitInv'
<1>1. ASSUME NEW b \in Limited
      PROVE  /\ SumFunctionOnSet(Weights(b)', Firm) <= MaxTokens(b) + Slack
             /\ SumFunctionOnSet(Durables(b)', Firm) <= MaxTokens(b) + Slack
  <2> DEFINE limit == MaxTokens(b) + Slack
             w == Weights(b)
             d == Durables(b)
  <2>1. b \in Budget /\ limit \in Nat
    BY LimitType
  <2>2. w \in [Call -> Nat] /\ d \in [Call -> Nat]
    BY <2>1, WeightsType
  <2>3. w' \in [Call -> Nat] /\ d' \in [Call -> Nat]
    <3>1. \A c \in Call : Weight(c, b)' \in Nat /\ Durable(c, b)' \in Nat
      <4> TAKE c \in Call
      <4>1. /\ used'[c][b] \in Nat /\ reserved'[c][b] \in Nat /\ granted'[c] \in Nat
            /\ charge'[c] \in Nat \cup {NoUsage} /\ terminal'[c] \in Nat \cup {NoUsage}
        BY <2>1 DEF TypeOK
      <4>2. Recovered(c)' \in Nat
        BY <4>1 DEF Recovered
      <4>3. QED
        BY <4>1, <4>2 DEF Weight, Durable, Lesser
    <3>2. QED
      BY <3>1 DEF Weights, Durables
  <2>4. SumFunctionOnSet(w, Firm) <= limit /\ SumFunctionOnSet(d, Firm) <= limit
    BY DEF LimitInv
  <2>5. \A c \in Call : /\ w[c] = Weight(c, b) /\ w'[c] = Weight(c, b)'
                        /\ d[c] = Durable(c, b) /\ d'[c] = Durable(c, b)'
    BY DEF Weights, Durables
  <2>6. \/ \A c \in Call : w'[c] <= w[c]
        \/ \A c \in Call : w'[c] <= d[c]
    BY <2>1, <2>5
  <2>7. \/ \A c \in Call : d'[c] <= w[c]
        \/ \A c \in Call : d'[c] <= d[c]
    BY <2>1, <2>5
  <2> HIDE DEF w, d, limit
  <2>8. SumFunctionOnSet(w', Firm) <= limit
    BY <2>1, <2>2, <2>3, <2>4, <2>6, SumKeeps
  <2>9. SumFunctionOnSet(d', Firm) <= limit
    BY <2>1, <2>2, <2>3, <2>4, <2>7, SumKeeps
  <2>10. QED
    BY <2>8, <2>9 DEF w, d, limit
<1>2. QED
  BY <1>1 DEF LimitInv

\* A step of a call that is admitted keeps the limit.
LEMMA StepLimit ==
  ASSUME IInv, IInv', LimitInv, NEW c \in Call, Step(c)
  PROVE  LimitInv'
<1>1. TypeOK /\ TypeOK'
  BY DEF IInv
<1>2. /\ granted' = granted
      /\ \A d \in Call \ {c} : /\ reserved'[d] = reserved[d] /\ used'[d] = used[d]
                              /\ charge'[d] = charge[d] /\ terminal'[d] = terminal[d]
  BY StepOthers
<1>3. \A d \in Call : OffPath(d)
  BY DEF LimitInv
<1>4. \A b \in Budget : Kept(c, b) \/ Replaced(c, b)
  BY <1>3, StepOwn
<1>5. \A d \in Call : OffPath(d)'
  <2>1. OffPath(c)'
    <3>1. ASSUME NEW b \in Budget, b \notin Path(c)
          PROVE  used'[c][b] = 0 /\ reserved'[c][b] = 0
      BY <1>3, <1>4, <3>1 DEF OffPath, Kept, Replaced
    <3>2. QED
      BY <3>1 DEF OffPath
  <2>2. QED
    BY <1>2, <1>3, <2>1 DEF OffPath
<1>6. ASSUME NEW b \in Budget
      PROVE  \A d \in Call : Weight(d, b)' <= Weight(d, b)
  <2>1. ASSUME NEW d \in Call \ {c}
        PROVE  Weight(d, b)' <= Weight(d, b)
    <3>1. Weight(d, b)' = Weight(d, b)
      BY <1>2 DEF Weight
    <3>2. QED
      BY <1>1, <1>6, <3>1, WeightTypes
  <2>2. Weight(c, b)' <= Weight(c, b)
    <3>1. used[c][b] \in Nat /\ reserved[c][b] \in Nat /\ granted[c] \in Nat
      BY <1>1, <1>6, WeightTypes
    <3>2. CASE Kept(c, b)
      BY <1>2, <3>1, <3>2 DEF Kept, Weight, Lesser
    <3>3. CASE Replaced(c, b)
      BY <1>2, <3>1, <3>3 DEF Replaced, Weight, Lesser
    <3>4. QED
      BY <1>4, <1>6, <3>2, <3>3
  <2>3. QED
    BY <2>1, <2>2
<1>7. ASSUME NEW b \in Budget
      PROVE  \/ \A d \in Call : Durable(d, b)' <= Weight(d, b)
             \/ \A d \in Call : Durable(d, b)' <= Durable(d, b)
  <2>1. \A d \in Call \ {c} : Durable(d, b)' = Durable(d, b)
    BY <1>2 DEF Durable, Recovered
  <2>2. \A d \in Call : Durable(d, b) \in Nat /\ Weight(d, b) \in Nat
    BY <1>1, <1>7, WeightTypes
  <2>3. CASE Recovered(c)' = Recovered(c)
    <3>1. Durable(c, b)' = Durable(c, b)
      BY <1>2, <2>3 DEF Durable
    <3>2. QED
      BY <2>1, <2>2, <3>1
  <2>4. CASE /\ ~failed
             /\ \/ pc[c] \in InFlight /\ Recovered(c)' \in Nat
                \/ pc[c] = "retry" /\ Recovered(c)' \in {0, actual[c]}
    <3>1. \A d \in Call : Durable(d, b) <= Weight(d, b)
      BY <1>7, <2>4, DurableIsCounted
    <3>2. Durable(c, b)' <= Weight(c, b)
      <4>1. /\ CallInv(c) /\ used[c][b] \in Nat /\ reserved[c][b] \in Nat /\ granted[c] \in Nat
        BY <1>1, <1>7, WeightTypes DEF IInv
      <4>2. CASE b \notin Path(c)
        BY <2>2, <4>2 DEF Durable
      <4>3. CASE b \in Path(c) /\ pc[c] \in InFlight
        <5>1. reserved[c][b] = granted[c] /\ Recovered(c)' \in Nat
          BY <2>4, <4>1, <4>3 DEF CallInv, Held, InFlight
        <5>2. QED
          BY <1>2, <4>1, <4>3, <5>1 DEF Durable, Weight, Lesser
      <4>4. CASE b \in Path(c) /\ pc[c] = "retry"
        <5>1. settled[c][b] # NoUsage /\ used[c][b] = actual[c]
          BY <2>4, <4>1, <4>4 DEF CallInv, Counted, Owed
        <5>2. Recovered(c)' \in {0, used[c][b]}
          BY <2>4, <4>4, <5>1 DEF InFlight
        <5>3. QED
          BY <1>2, <4>1, <4>4, <5>2 DEF Durable, Weight, Lesser
      <4>5. QED
        BY <2>4, <4>2, <4>3, <4>4
    <3>3. QED
      BY <2>1, <2>2, <3>1, <3>2
  <2>5. QED
    BY <2>3, <2>4, StepDurable
<1>8. QED
  BY <1>1, <1>5, <1>6, <1>7, LimitKeeps

\* A reservation that a limited budget admits leaves it within its limit.
LEMMA Admitted ==
  ASSUME IInv, NEW c \in Firm, NEW n \in Nat, Admits(c, n),
         NEW b \in Limited, b \in Path(c)
  PROVE  SumFunctionOnSet(Weights(b), Firm) + n <= MaxTokens(b) + Slack
<1> DEFINE u == InBudget(used, b)
           r == InBudget(reserved, b)
           w == Weights(b)
           s == [d \in Call |-> used[d][b] + reserved[d][b]]
<1>1. TypeOK /\ b \in Budget /\ c \in Call /\ c \notin Auxiliary /\ MaxTokens(b) \in Nat /\ Slack \in Nat
  BY LimitType DEF IInv, Firm
<1>2. IsFiniteSet(Call) /\ IsFiniteSet(Firm) /\ Firm \in SUBSET Call
  BY BudgetAssumption, FS_Subset DEF Firm
<1>3. \A d \in Call : /\ used[d][b] \in Nat /\ reserved[d][b] \in Nat /\ granted[d] \in Nat
                      /\ Weight(d, b) \in Nat
  BY <1>1, WeightTypes
<1>4. \A d \in Call : /\ u[d] \in Nat /\ r[d] \in Nat /\ w[d] \in Nat /\ s[d] \in Nat
                      /\ s[d] = u[d] + r[d] /\ w[d] <= s[d]
  BY <1>3 DEF InBudget, Weights, Weight, Lesser
<1>5. n <= MaxTokens(b) - SumFunctionOnSet(u, Call) - SumFunctionOnSet(r, Firm) + Slack
  <2>1. SlackOf(c) \in {0, Slack}
    BY DEF SlackOf
  <2>2. n <= Offer(b, c)
    BY DEF Admits
  <2>3. Available(b, c) = MaxTokens(b) - SumFunctionOnSet(u, Call) - SumFunctionOnSet(r, Firm)
    BY <1>1 DEF Available, Sum, SumFunction, HeldAgainst, FoldFunction, SumFunctionOnSet, InBudget, Firm
  <2>4. SumFunctionOnSet(u, Call) \in Nat /\ SumFunctionOnSet(r, Firm) \in Nat
    BY <1>2, <1>4, SumType
  <2> HIDE DEF u, r
  <2>5. QED
    BY <1>1, <2>1, <2>2, <2>3, <2>4 DEF Offer
<1> HIDE DEF u, r, w, s
<1>6. /\ SumFunctionOnSet(w, Firm) <= SumFunctionOnSet(s, Firm)
      /\ SumFunctionOnSet(u, Firm) <= SumFunctionOnSet(u, Call)
      /\ SumFunctionOnSet(s, Firm) = SumFunctionOnSet(u, Firm) + SumFunctionOnSet(r, Firm)
  <2>1. \A d \in Firm : /\ u[d] \in Nat /\ r[d] \in Nat /\ w[d] \in Nat /\ s[d] \in Nat
                         /\ s[d] = u[d] + r[d] /\ w[d] <= s[d]
    BY <1>2, <1>4
  <2>2. SumFunctionOnSet(w, Firm) <= SumFunctionOnSet(s, Firm)
    BY <1>2, <2>1, SumMonotone
  <2>3. SumFunctionOnSet(u, Firm) <= SumFunctionOnSet(u, Call)
    <3>1. \A d \in Call : u[d] \in Nat
      BY <1>4
    <3>2. \A d \in Firm : u[d] <= u[d]
      BY <1>2, <3>1
    <3>3. QED
      BY <1>2, <3>1, <3>2, SumMonotone
  <2>4. SumFunctionOnSet(s, Firm) = SumFunctionOnSet(u, Firm) + SumFunctionOnSet(r, Firm)
    BY <1>2, <2>1, SumPlus
  <2>5. QED
    BY <2>2, <2>3, <2>4
<1>7. /\ SumFunctionOnSet(w, Firm) \in Nat /\ SumFunctionOnSet(s, Firm) \in Nat
      /\ SumFunctionOnSet(u, Firm) \in Nat /\ SumFunctionOnSet(u, Call) \in Nat
      /\ SumFunctionOnSet(r, Firm) \in Nat
  BY <1>2, <1>4, SumType
<1>8. SumFunctionOnSet(w, Firm) + n <= MaxTokens(b) + Slack
  BY <1>1, <1>5, <1>6, <1>7
<1>9. QED
  BY <1>8 DEF w

\* An admission keeps it, because it is refused when the sum would exceed it.
LEMMA ReserveLimit ==
  ASSUME IInv, IInv', LimitInv, NEW c \in Call, Reserve(c)
  PROVE  LimitInv'
<1>1. TypeOK /\ TypeOK' /\ CallInv(c) /\ pc[c] = "idle" /\ Path(c) \subseteq Budget
  BY PathIsBudgets DEF IInv, Reserve
<1>2. PICK n \in Input(c) + 1 .. Input(c) + Output(c) :
        Admits(c, n) /\ reserved' = OnPath(c, reserved, n) /\ granted' = [granted EXCEPT ![c] = n]
  BY DEF Reserve
<1>3. n \in Nat
  BY BudgetAssumption
<1>4. /\ used' = used /\ charge' = charge /\ terminal' = terminal
      /\ \A d \in Call \ {c} : granted'[d] = granted[d] /\ reserved'[d] = reserved[d]
      /\ granted'[c] = n
      /\ \A b \in Budget : reserved'[c][b] = IF b \in Path(c) THEN n ELSE reserved[c][b]
  BY <1>1, <1>2 DEF Reserve, ledger, OnPath, TypeOK
<1>5. /\ Recovered(c) = 0 /\ Recovered(c)' = 0
      /\ \A b \in Path(c) : used[c][b] = 0 /\ reserved[c][b] = 0
  BY <1>1, <1>4 DEF CallInv, Reported, Held, Recovered, InFlight
<1>6. \A d \in Call : OffPath(d)
  BY DEF LimitInv
<1>7. \A d \in Call : OffPath(d)'
  BY <1>4, <1>6 DEF OffPath
<1>8. \A b \in Budget : \A d \in Call : Durable(d, b)' = Durable(d, b)
  <2> TAKE b \in Budget
  <2> TAKE d \in Call
  <2>1. CASE d # c
    BY <1>4, <2>1 DEF Durable, Recovered
  <2>2. CASE d = c
    <3>1. granted[c] \in Nat
      BY <1>1 DEF TypeOK
    <3>2. QED
      BY <1>3, <1>4, <1>5, <2>2, <3>1 DEF Durable, Lesser
  <2>3. QED
    BY <2>1, <2>2
<1>9. \A b \in Budget :
        /\ \A d \in Call \ {c} : Weight(d, b)' = Weight(d, b)
        /\ b \in Path(c) => Weight(c, b) = 0 /\ Weight(c, b)' = n
        /\ b \notin Path(c) => Weight(c, b) = 0 /\ Weight(c, b)' = 0
  <2> TAKE b \in Budget
  <2>1. \A d \in Call \ {c} : Weight(d, b)' = Weight(d, b)
    BY <1>4 DEF Weight
  <2>2. granted[c] \in Nat
    BY <1>1 DEF TypeOK
  <2>3. b \in Path(c) => Weight(c, b) = 0 /\ Weight(c, b)' = n
    BY <1>3, <1>4, <1>5, <2>2 DEF Weight, Lesser
  <2>4. b \notin Path(c) => Weight(c, b) = 0 /\ Weight(c, b)' = 0
    BY <1>3, <1>4, <1>6, <2>2 DEF Weight, Lesser, OffPath
  <2>5. QED
    BY <2>1, <2>3, <2>4
<1>10. ASSUME NEW b \in Limited
       PROVE  /\ SumFunctionOnSet(Weights(b)', Firm) <= MaxTokens(b) + Slack
              /\ SumFunctionOnSet(Durables(b)', Firm) <= MaxTokens(b) + Slack
  <2>1. b \in Budget /\ MaxTokens(b) \in Nat /\ Slack \in Nat
    BY LimitType
  <2>2. Durables(b)' = Durables(b)
    BY <1>8, <2>1 DEF Durables
  <2> DEFINE w == Weights(b)
  <2>3. w \in [Call -> Nat] /\ SumFunctionOnSet(w, Firm) <= MaxTokens(b) + Slack
    BY <1>1, <2>1, WeightsType DEF LimitInv
  <2>4. \A d \in Call : w[d] = Weight(d, b) /\ w'[d] = Weight(d, b)'
    BY DEF Weights
  <2>5. IsFiniteSet(Firm) /\ Firm \in SUBSET Call
    BY BudgetAssumption, FS_Subset DEF Firm
  <2>6. CASE b \notin Path(c) \/ c \notin Firm
    <3> HIDE DEF w
    <3>1. \A d \in Firm : w[d] \in Nat /\ w'[d] \in Nat /\ w'[d] = w[d]
      BY <1>9, <2>1, <2>3, <2>4, <2>5, <2>6
    <3>2. \A d \in Firm : w'[d] <= w[d]
      BY <3>1
    <3>3. SumFunctionOnSet(w', Firm) <= SumFunctionOnSet(w, Firm)
      BY <2>5, <3>1, <3>2, SumMonotone
    <3>4. SumFunctionOnSet(w', Firm) \in Nat /\ SumFunctionOnSet(w, Firm) \in Nat
      BY <2>5, <3>1, SumType
    <3>5. SumFunctionOnSet(w', Firm) <= MaxTokens(b) + Slack
      BY <2>1, <2>3, <3>3, <3>4
    <3>6. QED
      BY <2>2, <3>5 DEF w, LimitInv
  <2>7. CASE b \in Path(c) /\ c \in Firm
    <3>1. SumFunctionOnSet(w, Firm) + n <= MaxTokens(b) + Slack
      BY <1>2, <1>3, <2>7, Admitted
    <3> HIDE DEF w
    <3>2. \A d \in Firm \ {c} : w[d] \in Nat /\ w'[d] \in Nat /\ w'[d] = w[d] /\ w'[d] <= w[d]
      BY <1>9, <2>1, <2>3, <2>4, <2>5
    <3>3. w[c] = 0 /\ w'[c] = n
      BY <1>9, <2>1, <2>4, <2>7
    <3>4. \A d \in Firm : w[d] \in Nat /\ w'[d] \in Nat
      BY <1>3, <3>2, <3>3
    <3>5. /\ SumFunctionOnSet(w, Firm) = w[c] + SumFunctionOnSet(w, Firm \ {c})
          /\ SumFunctionOnSet(w', Firm) = w'[c] + SumFunctionOnSet(w', Firm \ {c})
      BY <2>5, <2>7, <3>4, SumRemove
    <3>6. IsFiniteSet(Firm \ {c})
      BY <2>5, FS_Subset
    <3>7. SumFunctionOnSet(w', Firm \ {c}) <= SumFunctionOnSet(w, Firm \ {c})
      BY <3>2, <3>6, SumMonotone
    <3>8. /\ SumFunctionOnSet(w', Firm \ {c}) \in Nat /\ SumFunctionOnSet(w, Firm \ {c}) \in Nat
      BY <3>2, <3>6, SumType
    <3>9. SumFunctionOnSet(w', Firm) <= MaxTokens(b) + Slack
      BY <1>3, <2>1, <3>1, <3>3, <3>5, <3>7, <3>8
    <3>10. QED
      BY <2>2, <3>9 DEF w, LimitInv
  <2>8. QED
    BY <2>6, <2>7
<1>11. QED
  BY <1>7, <1>10 DEF LimitInv

\* Budgets built anew count no more than those they replace.
LEMMA ReopenLimit ==
  ASSUME IInv, IInv', LimitInv, NEW b \in Budget, Reopen(b)
  PROVE  LimitInv'
<1> DEFINE anew == {d \in Budget : b \in Above(d)}
<1>1. /\ TypeOK /\ TypeOK' /\ ~failed
      /\ reserved' = reserved /\ granted' = granted /\ charge' = charge /\ terminal' = terminal
      /\ used' = [c \in Call |-> [d \in Budget |->
                    IF d \in anew \cap Path(c) THEN Recovered(c) ELSE used[c][d]]]
  BY DEF IInv, Reopen, ledger
<1>2. \A c \in Call : OffPath(c)
  BY DEF LimitInv
<1>3. \A c \in Call : OffPath(c)'
  BY <1>1, <1>2 DEF OffPath
<1>4. \A d \in Budget : \A c \in Call : Durable(c, d)' = Durable(c, d)
  BY <1>1 DEF Durable, Recovered
<1>5. ASSUME NEW d \in Budget, NEW c \in Call
      PROVE  Weight(c, d)' <= Weight(c, d)
  <2>1. Weight(c, d) \in Nat /\ used[c][d] \in Nat /\ reserved[c][d] \in Nat /\ granted[c] \in Nat
        /\ Recovered(c) \in Nat
    BY <1>1, WeightTypes
  <2>2. CASE d \notin anew \cap Path(c)
    <3>1. used'[c][d] = used[c][d]
      BY <1>1, <2>2
    <3>2. QED
      BY <1>1, <2>1, <3>1 DEF Weight
  <2>3. CASE d \in anew \cap Path(c)
    <3>1. used'[c][d] = Recovered(c)
      BY <1>1, <2>3
    <3>2. b \in Path(c)
      BY <2>3, BudgetAssumption DEF Path
    <3>3. pc[c] \in {"idle", "over"}
      BY <3>2 DEF Reopen
    <3>4. CallInv(c) /\ d \in Path(c)
      BY <2>3 DEF IInv
    <3>5. reserved[c][d] = 0
      BY <3>3, <3>4 DEF CallInv, Held, InFlight
    <3>6. Durable(c, d) <= Weight(c, d)
      BY <1>1, DurableIsCounted
    <3>7. QED
      BY <1>1, <2>1, <3>1, <3>4, <3>5, <3>6 DEF Weight, Durable, Lesser
  <2>4. QED
    BY <2>2, <2>3
<1>6. \A d \in Budget : \A c \in Call : Durable(c, d) \in Nat
  BY <1>1, WeightTypes
<1>7. \A d \in Budget : \A c \in Call : Durable(c, d)' <= Durable(c, d)
  BY <1>4, <1>6
<1>8. QED
  BY <1>1, <1>3, <1>5, <1>7, LimitKeeps

\* A new process counts what is durable, and has reserved nothing.
LEMMA RestartLimit ==
  ASSUME IInv, IInv', LimitInv, Restart
  PROVE  LimitInv'
<1>1. /\ TypeOK /\ TypeOK'
      /\ granted' = granted /\ charge' = charge /\ terminal' = terminal
      /\ reserved' = [c \in Call |-> [b \in Budget |-> 0]]
      /\ used' = [c \in Call |-> [b \in Budget |-> IF b \in Path(c) THEN Recovered(c) ELSE 0]]
  BY DEF IInv, Restart
<1>2. \A c \in Call : OffPath(c)'
  BY <1>1 DEF OffPath
<1>3. ASSUME NEW b \in Budget, NEW c \in Call
      PROVE  Weight(c, b)' <= Durable(c, b) /\ Durable(c, b)' <= Durable(c, b)
  <2>1. granted[c] \in Nat /\ Recovered(c) \in Nat /\ Durable(c, b) \in Nat
    BY <1>1, WeightTypes
  <2>2. Durable(c, b)' = Durable(c, b)
    BY <1>1 DEF Durable, Recovered
  <2>3. reserved'[c][b] = 0 /\ used'[c][b] = IF b \in Path(c) THEN Recovered(c) ELSE 0
    BY <1>1
  <2>4. QED
    BY <1>1, <2>1, <2>2, <2>3 DEF Weight, Durable, Lesser
<1>4. QED
  BY <1>1, <1>2, <1>3, LimitKeeps

\* It holds initially,
LEMMA InitLimit == Init => LimitInv
<1> SUFFICES ASSUME Init PROVE LimitInv
  OBVIOUS
<1>1. \A c \in Call : OffPath(c)
  BY DEF Init, OffPath
<1>2. IsFiniteSet(Firm) /\ Firm \subseteq Call
  BY BudgetAssumption, FS_Subset DEF Firm
<1>3. ASSUME NEW w, \A c \in Firm : w[c] = 0
      PROVE  SumFunctionOnSet(w, Firm) = 0
  <2>1. {} \in SUBSET Firm /\ \A c \in Firm : w[c] \in Nat
    BY <1>3
  <2>2. SumFunctionOnSet(w, {}) = SumFunctionOnSet(w, Firm)
    BY <1>2, <1>3, <2>1, SumSupport
  <2>3. QED
    BY <2>2, SumEmpty
<1>4. ASSUME NEW b \in Limited
      PROVE  /\ SumFunctionOnSet(Weights(b), Firm) <= MaxTokens(b) + Slack
             /\ SumFunctionOnSet(Durables(b), Firm) <= MaxTokens(b) + Slack
  <2>1. b \in Budget /\ MaxTokens(b) + Slack \in Nat
    BY LimitType
  <2>2. \A c \in Call : Weights(b)[c] = 0
    BY <2>1 DEF Weights, Weight, Lesser, Init
  <2>3. \A c \in Call : Durables(b)[c] = 0
    BY <2>1 DEF Durables, Durable, Recovered, Lesser, Init
  <2>4. SumFunctionOnSet(Weights(b), Firm) = 0 /\ SumFunctionOnSet(Durables(b), Firm) = 0
    BY <1>2, <1>3, <2>2, <2>3
  <2>5. QED
    BY <2>1, <2>4
<1>5. QED
  BY <1>1, <1>4 DEF LimitInv

\* and every step keeps it.
LEMMA NextLimit == IInv /\ IInv' /\ LimitInv /\ [Next]_vars => LimitInv'
<1> SUFFICES ASSUME IInv, IInv', LimitInv, [Next]_vars PROVE LimitInv'
  OBVIOUS
<1>1. ASSUME NEW c \in Call, Reserve(c) PROVE LimitInv'
  BY <1>1, ReserveLimit
<1>2. ASSUME NEW c \in Call, Step(c) PROVE LimitInv'
  BY <1>2, StepLimit
<1>3. ASSUME NEW b \in Budget, Reopen(b) PROVE LimitInv'
  BY <1>3, ReopenLimit
<1>4. CASE Restart
  BY <1>4, RestartLimit
<1>5. CASE UNCHANGED vars
  <2>1. /\ \A b : Weights(b)' = Weights(b) /\ Durables(b)' = Durables(b)
        /\ \A c : OffPath(c)' = OffPath(c)
    BY <1>5 DEF vars, budgets, ledger, Weights, Weight, Durables, Durable, Recovered, OffPath
  <2>2. QED
    BY <2>1 DEF LimitInv
<1>6. QED
  BY <1>1, <1>2, <1>3, <1>4, <1>5 DEF Next, Step

\* What the invariant says of the budgets: usage beyond the reservations is all
\* that exceeds the limit.
LEMMA WithinLimit == IInv /\ LimitInv => LimitRespected
<1> SUFFICES ASSUME IInv, LimitInv, NEW b \in Limited
             PROVE  Sum(used, b) + SumFunctionOnSet(InBudget(reserved, b), Call \ Auxiliary)
                      <= MaxTokens(b) + Slack + SumFunction([c \in Call |-> Excess(c, b)])
  BY DEF LimitRespected
<1> DEFINE u == InBudget(used, b)
           r == InBudget(reserved, b)
           w == Weights(b)
           x == [c \in Call |-> Excess(c, b)]
           v == [c \in Call |-> IF c \in Auxiliary THEN 0 ELSE Lesser(used[c][b], granted[c])]
<1>1. TypeOK /\ b \in Budget /\ MaxTokens(b) \in Nat /\ Slack \in Nat
  BY LimitType DEF IInv
<1>2. IsFiniteSet(Call) /\ IsFiniteSet(Firm) /\ Firm \in SUBSET Call
  BY BudgetAssumption, FS_Subset DEF Firm
<1>3. \A d \in Call : used[d][b] \in Nat /\ reserved[d][b] \in Nat /\ granted[d] \in Nat
  BY <1>1, WeightTypes
<1>4. \A d \in Call : /\ u[d] \in Nat /\ r[d] \in Nat /\ w[d] \in Nat /\ x[d] \in Nat /\ v[d] \in Nat
                      /\ u[d] = v[d] + x[d]
                      /\ d \in Firm => w[d] = v[d] + r[d]
                      /\ d \in Call \ Firm => v[d] = 0
  BY <1>3 DEF InBudget, Weights, Weight, Lesser, Excess, Firm
<1>5. /\ Sum(used, b) = SumFunctionOnSet(u, Call)
      /\ SumFunctionOnSet(InBudget(reserved, b), Call \ Auxiliary) = SumFunctionOnSet(r, Firm)
      /\ SumFunction([c \in Call |-> Excess(c, b)]) = SumFunctionOnSet(x, Call)
  BY DEF Sum, SumFunction, InBudget, Firm
<1>6. SumFunctionOnSet(w, Firm) <= MaxTokens(b) + Slack
  BY DEF LimitInv
<1> HIDE DEF u, r, w, x, v
<1>7. SumFunctionOnSet(u, Call) = SumFunctionOnSet(v, Call) + SumFunctionOnSet(x, Call)
  BY <1>2, <1>4, SumPlus
<1>8. SumFunctionOnSet(w, Firm) = SumFunctionOnSet(v, Firm) + SumFunctionOnSet(r, Firm)
  <2>1. \A d \in Firm : v[d] \in Nat /\ r[d] \in Nat /\ w[d] = v[d] + r[d]
    BY <1>2, <1>4
  <2>2. QED
    BY <1>2, <2>1, SumPlus
<1>9. SumFunctionOnSet(v, Firm) = SumFunctionOnSet(v, Call)
  BY <1>2, <1>4, SumSupport
<1>10. /\ SumFunctionOnSet(v, Call) \in Nat /\ SumFunctionOnSet(x, Call) \in Nat
       /\ SumFunctionOnSet(r, Firm) \in Nat
  BY <1>2, <1>4, SumType
<1>11. SumFunctionOnSet(u, Call) + SumFunctionOnSet(r, Firm) <= MaxTokens(b) + Slack + SumFunctionOnSet(x, Call)
  BY <1>1, <1>6, <1>7, <1>8, <1>9, <1>10
<1>12. QED
  BY <1>5, <1>11

\* No budget counts and holds more than its limit, its slack and what providers
\* used beyond their reservations, for any number of calls, failed appends and
\* replaced processes (LimitRespected).
THEOREM WithinLimits == Spec => []LimitRespected
<1>1. Spec => []LimitInv
  BY InitLimit, NextLimit, Invariance, PTL DEF Spec
<1>2. QED
  BY <1>1, WithinLimit, Invariance, PTL
===============================================================================
