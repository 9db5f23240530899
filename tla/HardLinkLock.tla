----------------------------- MODULE HardLinkLock -----------------------------
(***************************************************************************)
(* The lock file that guards a ledger for the life of its writer           *)
(* (acquireWriterLock, releaseWriterLock) and a lease snapshot for one     *)
(* call (acquireLeaseLock, releaseLeaseLock). A contender writes a claim   *)
(* file of its own and hard-links it to the lock path; when the path is    *)
(* taken it reads the owner through an open handle and, if that process is *)
(* dead, removes the lock and tries again. Every file system call is a     *)
(* step of its own.                                                        *)
(*                                                                         *)
(* A claim file is named by the process that wrote it: a process writes a  *)
(* new one for each acquisition, but a dead process writes no more, and    *)
(* only locks of dead owners are compared.                                 *)
(***************************************************************************)
EXTENDS Naturals, FiniteSets

CONSTANTS
  Process,      \* processes of one host that want the lock
  MaxAttempts,  \* LOCK_RETRY_ATTEMPTS for a lease, 3 for a ledger
  WaitForLive,  \* TRUE: wait and retry when the owner lives (lease); FALSE: give up (ledger)
  MaxCrashes,   \* processes that die (bound)
  NoFile        \* nothing at the lock path

ASSUME LockAssumption == /\ MaxAttempts \in Nat \ {0}
                         /\ MaxCrashes \in Nat
                         /\ WaitForLive \in BOOLEAN
                         /\ NoFile \notin Process

VARIABLES
  lockFile,  \* whose claim file is linked at the lock path
  pc,        \* where each process is in acquire or release
  attempt,   \* its loop counter in acquire
  seen,      \* the lock file it holds an open handle of
  crashed    \* processes that have died

vars == <<lockFile, pc, attempt, seen, crashed>>

Steps == {"idle", "link", "read", "judge", "compare", "unlink",
          "holding", "compareOwn", "unlinkOwn"}

TypeOK ==
  /\ lockFile \in Process \cup {NoFile}
  /\ pc \in [Process -> Steps]
  /\ attempt \in [Process -> 0 .. MaxAttempts - 1]
  /\ seen \in [Process -> Process \cup {NoFile}]
  /\ crashed \subseteq Process

Init ==
  /\ lockFile = NoFile
  /\ pc = [p \in Process |-> "idle"]
  /\ attempt = [p \in Process |-> 0]
  /\ seen = [p \in Process |-> NoFile]
  /\ crashed = {}

-------------------------------------------------------------------------------
At(p, step) == p \notin crashed /\ pc[p] = step

\* Definitions marked "Faulty" are mistakes this code could have made. No
\* behaviour of the module uses them; they show what the properties reject.

\* Faulty: every owner is taken for dead.
FaultyAlive(p) == FALSE

\* isProcessAlive: signal 0 reaches the process.
Alive(p) == p \notin crashed

Goto(p, step) == pc' = [pc EXCEPT ![p] = step]

\* The call returns or throws: loop counter and open handle are gone.
Finish(p, step) ==
  /\ Goto(p, step)
  /\ attempt' = [attempt EXCEPT ![p] = 0]
  /\ seen' = [seen EXCEPT ![p] = NoFile]

\* Faulty: one round too many.
FaultyRetry(p) ==
  IF attempt[p] < MaxAttempts
    THEN /\ Goto(p, "link")
         /\ attempt' = [attempt EXCEPT ![p] = @ + 1]
         /\ seen' = [seen EXCEPT ![p] = NoFile]
    ELSE Finish(p, "idle")

\* The next round of the loop, or the error that ends it.
Retry(p) ==
  IF attempt[p] + 1 < MaxAttempts
    THEN /\ Goto(p, "link")
         /\ attempt' = [attempt EXCEPT ![p] = @ + 1]
         /\ seen' = [seen EXCEPT ![p] = NoFile]
    ELSE Finish(p, "idle")

\* A claim file with the owner's pid is written and synced.
WriteClaim(p) ==
  /\ At(p, "idle")
  /\ Goto(p, "link")
  /\ UNCHANGED <<lockFile, attempt, seen, crashed>>

\* link(claim, path): fails when the path exists.
Link(p) ==
  /\ At(p, "link")
  /\ IF lockFile = NoFile
       THEN lockFile' = p /\ Finish(p, "holding")
       ELSE Goto(p, "read") /\ UNCHANGED <<lockFile, attempt, seen>>
  /\ UNCHANGED crashed

\* The link succeeds but unlinking the claim or syncing the directory does not:
\* acquire throws and leaves the lock to a process that lives.
LinkThenFail(p) ==
  /\ At(p, "link")
  /\ lockFile = NoFile
  /\ lockFile' = p
  /\ Finish(p, "idle")
  /\ UNCHANGED crashed

\* The owner is read through a handle; a lock gone meanwhile is another round.
ReadOwner(p) ==
  /\ At(p, "read")
  /\ IF lockFile = NoFile
       THEN Retry(p)
       ELSE seen' = [seen EXCEPT ![p] = lockFile] /\ Goto(p, "judge") /\ UNCHANGED attempt
  /\ UNCHANGED <<lockFile, crashed>>

\* A live owner is waited for or respected.
JudgeOwner(p) ==
  /\ At(p, "judge")
  /\ IF ~Alive(seen[p]) THEN Goto(p, "compare") /\ UNCHANGED <<attempt, seen>>
     ELSE IF WaitForLive THEN Retry(p)
     ELSE Finish(p, "idle")
  /\ UNCHANGED <<lockFile, crashed>>

\* sameFile: is the file at the path still the one whose owner is dead?
CompareStale(p) ==
  /\ At(p, "compare")
  /\ IF lockFile = seen[p]
       THEN Goto(p, "unlink") /\ UNCHANGED <<attempt, seen>>
       ELSE Retry(p)
  /\ UNCHANGED <<lockFile, crashed>>

\* Faulty: the contender retries without removing the lock.
FaultyUnlinkStale(p) ==
  /\ At(p, "unlink")
  /\ Retry(p)
  /\ UNCHANGED <<lockFile, crashed>>

\* unlink(path): whatever is there by now goes; acquire fails when nothing is.
UnlinkStale(p) ==
  /\ At(p, "unlink")
  /\ lockFile' = NoFile
  /\ IF lockFile = NoFile THEN Finish(p, "idle") ELSE Retry(p)
  /\ UNCHANGED crashed

\* Release compares before it unlinks, too.
CompareOwn(p) ==
  /\ At(p, "holding")
  /\ Goto(p, IF lockFile = p THEN "unlinkOwn" ELSE "idle")
  /\ UNCHANGED <<lockFile, attempt, seen, crashed>>

UnlinkOwn(p) ==
  /\ At(p, "unlinkOwn")
  /\ lockFile' = NoFile
  /\ Goto(p, "idle")
  /\ UNCHANGED <<attempt, seen, crashed>>

\* A process dies; the files it made stay.
Crash(p) ==
  /\ p \notin crashed
  /\ Cardinality(crashed) < MaxCrashes
  /\ crashed' = crashed \cup {p}
  /\ Finish(p, "idle")
  /\ UNCHANGED lockFile

\* A process that is inside acquire or release goes on.
Step(p) ==
  \/ Link(p) \/ ReadOwner(p) \/ JudgeOwner(p) \/ CompareStale(p) \/ UnlinkStale(p)
  \/ UnlinkOwn(p)

Next ==
  \E p \in Process :
    Step(p) \/ WriteClaim(p) \/ LinkThenFail(p) \/ CompareOwn(p) \/ Crash(p)

\* Calls once begun run to their end; nobody is obliged to ask for the lock, to
\* give it back or to die.
Fairness == \A p \in Process : WF_vars(Step(p))

Spec == Init /\ [][Next]_vars /\ Fairness

-------------------------------------------------------------------------------
(* Properties *)

\* p has been given the lock and has not begun to remove it.
Holds(p) == p \notin crashed /\ pc[p] = "holding"

\* The lock serializes processes: no two live ones hold it (the comment above
\* FileExecutionLeaseStore, the test "allows only one writer" of the ledger).
MutualExclusion == \A p, q \in Process : Holds(p) /\ Holds(q) => p = q

\* As long as nobody has died, the lock excludes, and the file at the path is
\* that of the holder, however acquisitions, releases and failures interleave.
CrashFreeExclusion ==
  crashed = {} => /\ MutualExclusion
                  /\ \A p \in Process : Holds(p) => lockFile = p

\* The lock of a dead owner does not outlive the next contender: once one that
\* stays alive tries to link, the dead owner's file is gone.
DeadLockRemoved ==
  \A p, q \in Process :
    (At(p, "link") /\ lockFile = q /\ q \in crashed) ~> (lockFile # q \/ p \in crashed)
===============================================================================
