---------------------------- MODULE FencedCommits ----------------------------
(***************************************************************************)
(* What the execution lease store promises to the durable state of a Run:  *)
(* authority is granted one holder at a time, every grant carries the next *)
(* fencing token, and whatever is committed is committed by the holder of  *)
(* the newest grant while that grant has not been retired.                 *)
(***************************************************************************)
EXTENDS Naturals, Sequences

VARIABLES
  granted,   \* number of grants so far, the token of the newest one
  current,   \* token of the grant in force, 0 when none is
  commits    \* tokens under which the commits so far were made, in order

vars == <<granted, current, commits>>

Init ==
  /\ granted = 0
  /\ current = 0
  /\ commits = << >>

\* A new holder. It may replace a grant whose lifetime ended unnoticed.
Grant ==
  /\ granted' = granted + 1
  /\ current' = granted + 1
  /\ UNCHANGED commits

\* The grant in force is given back or found expired.
Retire ==
  /\ current # 0
  /\ current' = 0
  /\ UNCHANGED <<granted, commits>>

\* Only the grant in force commits.
Commit ==
  /\ current # 0
  /\ commits' = Append(commits, current)
  /\ UNCHANGED <<granted, current>>

Next == Grant \/ Retire \/ Commit

Spec == Init /\ [][Next]_vars
===============================================================================
