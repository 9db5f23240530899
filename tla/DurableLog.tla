------------------------------ MODULE DurableLog ------------------------------
(***************************************************************************)
(* What an event ledger promises: a log that grows at its end, in which a  *)
(* key appears at most once, and of which nothing that was acknowledged is *)
(* ever lost or changed. Records behind the acknowledged ones may go, the  *)
(* last ones first. A request that repeats a command is answered with its  *)
(* record; that answer acknowledges nothing, so a record behind the        *)
(* acknowledged ones may go although a request was answered with it.       *)
(***************************************************************************)
EXTENDS Naturals, Sequences

CONSTANTS Command, Key(_)

VARIABLES
  log,      \* the records, in the order of their offsets
  acked,    \* how many of them have been acknowledged
  resolved  \* those of them that requests were answered with

vars == <<log, acked, resolved>>

Init == log = << >> /\ acked = 0 /\ resolved = {}

\* A record with a key the log has not seen goes to the end.
Write(c) ==
  /\ \A i \in 1 .. Len(log) : Key(log[i]) # Key(c)
  /\ log' = Append(log, c)
  /\ UNCHANGED <<acked, resolved>>

\* The last record is acknowledged to its writer, and with it all before it.
Acknowledge ==
  /\ log # << >>
  /\ acked' = Len(log)
  /\ resolved' = resolved \cup {Len(log)}
  /\ UNCHANGED log

\* A request whose key is in the log is answered with the record that has it.
Repeat(i) ==
  /\ i \in 1 .. Len(log)
  /\ resolved' = resolved \cup {i}
  /\ UNCHANGED <<log, acked>>

Lose ==
  /\ \E n \in acked .. Len(log) :
       /\ log' = SubSeq(log, 1, n)
       /\ resolved' = resolved \cap (1 .. n)
  /\ UNCHANGED acked

Next ==
  \/ \E c \in Command : Write(c)
  \/ Acknowledge
  \/ \E i \in 1 .. Len(log) : Repeat(i)
  \/ Lose

Spec == Init /\ [][Next]_vars
===============================================================================
