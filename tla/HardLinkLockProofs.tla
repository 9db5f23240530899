-------------------------- MODULE HardLinkLockProofs --------------------------
(***************************************************************************)
(* Proofs about HardLinkLock for every number of processes, attempts and   *)
(* crashes, for the ledger's lock and the lease's: as long as no process   *)
(* has died, the lock excludes.                                            *)
(*                                                                         *)
(* The argument: while all live, nobody finds a dead owner, so nobody gets *)
(* to remove a lock but the one who holds it, and the file at the path is  *)
(* that of the process which holds it or is about to remove it.            *)
(***************************************************************************)
EXTENDS HardLinkLock, TLAPS

\* Until the first crash only owners remove locks, and they own the file there.
OwnersInv ==
  crashed = {} =>
    /\ \A p \in Process : pc[p] \in {"holding", "unlinkOwn"} => lockFile = p
    /\ \A p \in Process : pc[p] \notin {"compare", "unlink"}

\* The inductive invariant.
IInv == TypeOK /\ OwnersInv

\* It holds at the start.
LEMMA InitIInv == Init => IInv
  BY LockAssumption DEF Init, IInv, TypeOK, OwnersInv, Steps

\* A round of the loop, and its end, keep the types of the loop's variables.
LEMMA RetryType ==
  ASSUME TypeOK, NEW p \in Process, Retry(p)
  PROVE  /\ pc' \in [Process -> Steps]
         /\ attempt' \in [Process -> 0 .. MaxAttempts - 1]
         /\ seen' \in [Process -> Process \cup {NoFile}]
         /\ pc' = [pc EXCEPT ![p] = "link"] \/ pc' = [pc EXCEPT ![p] = "idle"]
  BY LockAssumption DEF Retry, Finish, Goto, TypeOK, Steps

\* Every action keeps the inductive invariant.
LEMMA NextIInv == IInv /\ [Next]_vars => IInv'
<1> SUFFICES ASSUME IInv, [Next]_vars PROVE IInv'
  OBVIOUS
<1> USE LockAssumption DEF IInv, TypeOK, OwnersInv, Steps, At
<1>1. ASSUME NEW p \in Process, WriteClaim(p) PROVE IInv'
  BY <1>1 DEF WriteClaim, Goto
<1>2. ASSUME NEW p \in Process, Link(p) PROVE IInv'
  BY <1>2 DEF Link, Finish, Goto
<1>3. ASSUME NEW p \in Process, LinkThenFail(p) PROVE IInv'
  BY <1>3 DEF LinkThenFail, Finish, Goto
<1>4. ASSUME NEW p \in Process, ReadOwner(p) PROVE IInv'
  <2>1. CASE lockFile = NoFile
    BY <1>4, <2>1, RetryType DEF ReadOwner
  <2>2. CASE lockFile # NoFile
    BY <1>4, <2>2 DEF ReadOwner, Goto
  <2>3. QED
    BY <2>1, <2>2
<1>5. ASSUME NEW p \in Process, JudgeOwner(p) PROVE IInv'
  <2>1. CASE ~Alive(seen[p])
    BY <1>5, <2>1 DEF JudgeOwner, Alive, Goto
  <2>2. CASE Alive(seen[p]) /\ WaitForLive
    BY <1>5, <2>2, RetryType DEF JudgeOwner
  <2>3. CASE Alive(seen[p]) /\ ~WaitForLive
    BY <1>5, <2>3 DEF JudgeOwner, Finish, Goto
  <2>4. QED
    BY <2>1, <2>2, <2>3
<1>6. ASSUME NEW p \in Process, CompareStale(p) PROVE IInv'
  <2>1. crashed # {}
    BY <1>6 DEF CompareStale
  <2>2. CASE lockFile = seen[p]
    BY <1>6, <2>1, <2>2 DEF CompareStale, Goto
  <2>3. CASE lockFile # seen[p]
    BY <1>6, <2>1, <2>3, RetryType DEF CompareStale
  <2>4. QED
    BY <2>2, <2>3
<1>7. ASSUME NEW p \in Process, UnlinkStale(p) PROVE IInv'
  <2>1. crashed # {}
    BY <1>7 DEF UnlinkStale
  <2>2. CASE lockFile = NoFile
    BY <1>7, <2>1, <2>2 DEF UnlinkStale, Finish, Goto
  <2>3. CASE lockFile # NoFile
    BY <1>7, <2>1, <2>3, RetryType DEF UnlinkStale
  <2>4. QED
    BY <2>2, <2>3
<1>8. ASSUME NEW p \in Process, CompareOwn(p) PROVE IInv'
  BY <1>8 DEF CompareOwn, Goto
<1>9. ASSUME NEW p \in Process, UnlinkOwn(p) PROVE IInv'
  BY <1>9 DEF UnlinkOwn, Goto
<1>10. ASSUME NEW p \in Process, Crash(p) PROVE IInv'
  BY <1>10 DEF Crash, Finish, Goto
<1>11. CASE UNCHANGED vars
  BY <1>11 DEF vars
<1>12. QED
  BY <1>1, <1>2, <1>3, <1>4, <1>5, <1>6, <1>7, <1>8, <1>9, <1>10, <1>11 DEF Next, Step

\* The invariant of every behaviour.
LEMMA Inductive == Spec => []IInv
  BY InitIInv, NextIInv, PTL DEF Spec

-------------------------------------------------------------------------------
\* The lock file, the loops and the handles have their types in every behaviour.
THEOREM TypeCorrect == Spec => []TypeOK
<1>1. IInv => TypeOK
  BY DEF IInv
<1>2. QED
  BY <1>1, Inductive, PTL

\* Until a process dies, no two hold the lock and the file is the holder's.
THEOREM Exclusion == Spec => []CrashFreeExclusion
<1>1. IInv => CrashFreeExclusion
  BY DEF IInv, OwnersInv, CrashFreeExclusion, MutualExclusion, Holds
<1>2. QED
  BY <1>1, Inductive, PTL
===============================================================================
