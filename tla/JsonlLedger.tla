----------------------------- MODULE JsonlLedger -----------------------------
(***************************************************************************)
(* The append-only JSONL ledger (JsonlLedger over LedgerState): a file of  *)
(* newline-terminated records that one process at a time has open, an      *)
(* in-memory state rebuilt from it, writes that may fail half way, and     *)
(* processes and machines that stop at any moment.                         *)
(*                                                                         *)
(* A record is identified with the command that produced it; its offset is *)
(* its position. The exclusion of other writers is the lock's business     *)
(* (module HardLinkLock).                                                  *)
(***************************************************************************)
EXTENDS Naturals, Sequences, FiniteSets

CONSTANTS
  Command,     \* append requests
  Key(_),      \* the idempotency key of a request, in the scope of its Run
  Damaged,     \* a line that does not parse
  NoCommand,   \* no append is under way
  MaxStops     \* crashes of the process and losses of power (bound)

ASSUME StopAssumption == MaxStops \in Nat
ASSUME RecordAssumption == Damaged \notin Command /\ NoCommand \notin Command

VARIABLES
  file,      \* the complete lines of the file
  torn,      \* bytes without a newline follow them
  synced,    \* how many lines the disk is known to have
  status,    \* "closed", "open", or "failed": the write state is uncertain
  events,    \* LedgerState: the events of the open ledger
  writing,   \* the request at the head of the queue, past its checks
  acked,     \* history: the last offset whose append resolved after its sync, or 0
  resolved,  \* history: offsets an append resolved with, its own or an earlier one's
  observed,  \* history: offsets a read returned
  doubted,   \* history: offsets whose append failed or was cut off before its sync
             \* had succeeded, and behind which no sync has succeeded since
  stops      \* crashes and losses of power so far

disk == <<file, torn, synced>>
history == <<acked, resolved, observed, doubted, stops>>
vars == <<disk, status, events, writing, history>>

TypeOK ==
  /\ file \in Seq(Command \cup {Damaged})
  /\ torn \in BOOLEAN
  /\ synced \in 0 .. Len(file)
  /\ status \in {"closed", "open", "failed"}
  /\ events \in Seq(Command)
  /\ writing \in Command \cup {NoCommand}
  /\ acked \in 0 .. synced
  /\ resolved \subseteq Nat
  /\ observed \subseteq Nat
  /\ doubted \subseteq Nat
  /\ stops \in 0 .. MaxStops

Init ==
  /\ file = << >>
  /\ torn = FALSE
  /\ synced = 0
  /\ status = "closed"
  /\ events = << >>
  /\ writing = NoCommand
  /\ acked = 0
  /\ resolved = {}
  /\ observed = {}
  /\ doubted = {}
  /\ stops = 0

-------------------------------------------------------------------------------
\* Definitions marked "Faulty" are mistakes this code could have made. No
\* behaviour of the module uses them; they show what the properties reject.

\* Faulty: only an identical request counts as a repetition.
FaultyRecorded(c) ==
  LET same == {i \in DOMAIN events : events[i] = c}
  IN  IF same = {} THEN 0 ELSE CHOOSE i \in same : TRUE

\* The event an earlier append under the same key left, 0 when there is none.
Recorded(c) ==
  LET same == {i \in DOMAIN events : Key(events[i]) = Key(c)}
  IN  IF same = {} THEN 0 ELSE CHOOSE i \in same : TRUE

Idle == status = "open" /\ writing = NoCommand

\* The line whose sync has not been answered yet.
InFlight == IF writing # NoCommand /\ Len(file) = Len(events) + 1 THEN {Len(file)} ELSE {}

\* Faulty: the torn tail stays in the file.
FaultyOpenKeepsTail ==
  /\ status = "closed"
  /\ \A i \in DOMAIN file : file[i] # Damaged
  /\ status' = "open"
  /\ events' = file
  /\ UNCHANGED <<disk, writing, history>>

\* Faulty: the last whole line is cut off with the torn tail.
FaultyOpenCutsLine ==
  /\ status = "closed"
  /\ status' = "open"
  /\ file' = IF torn /\ Len(file) > synced THEN SubSeq(file, 1, Len(file) - 1) ELSE file
  /\ events' = file'
  /\ torn' = FALSE
  /\ UNCHANGED <<synced, writing, history>>

\* The file is synced: the disk has every line, also those it may not have had.
SyncFile ==
  /\ synced' = Len(file)
  /\ doubted' = {}

\* open: a torn tail is cut off and the rest replayed. A damaged line refuses.
\* Only a file that was cut is synced.
Open ==
  /\ status = "closed"
  /\ \A i \in DOMAIN file : file[i] # Damaged
  /\ status' = "open"
  /\ events' = file
  /\ torn' = FALSE
  /\ IF torn THEN SyncFile ELSE UNCHANGED <<synced, doubted>>
  /\ UNCHANGED <<file, writing, acked, resolved, observed, stops>>

\* Faulty: the repetition does not wait for the append that is under way.
FaultyAppendDuplicate(c) ==
  /\ status = "open"
  /\ c = writing
  /\ Len(file) = Len(events) + 1
  /\ resolved' = resolved \cup {Len(file)}
  /\ UNCHANGED <<disk, status, events, writing, acked, observed, doubted, stops>>

\* append, the key is known with the same content: it resolves with the old
\* event. Nothing is written and nothing synced.
AppendDuplicate(c) ==
  /\ Idle
  /\ Recorded(c) # 0
  /\ events[Recorded(c)] = c
  /\ resolved' = resolved \cup {Recorded(c)}
  /\ UNCHANGED <<disk, status, events, writing, acked, observed, doubted, stops>>

\* append, the key is new. With other content under a known key it throws
\* before anything changes.
AppendNew(c) ==
  /\ Idle
  /\ Recorded(c) = 0
  /\ writing' = c
  /\ UNCHANGED <<disk, status, events, history>>

\* The bytes reach the file, all of them or some. Bytes that were there before
\* without a newline make one damaged line with them.
WriteAll ==
  /\ status = "open"
  /\ writing # NoCommand
  /\ Len(file) = Len(events)
  /\ file' = Append(file, IF torn THEN Damaged ELSE writing)
  /\ torn' = FALSE
  /\ UNCHANGED <<synced, status, events, writing, history>>

\* A write fails, after part of the bytes or none: no append goes on after that.
WriteFails ==
  /\ status = "open"
  /\ writing # NoCommand
  /\ Len(file) = Len(events)
  /\ torn' \in {torn, TRUE}
  /\ status' = "failed"
  /\ writing' = NoCommand
  /\ UNCHANGED <<file, synced, events, history>>

\* Faulty: the caller is answered without a sync.
FaultySync ==
  /\ status = "open"
  /\ writing # NoCommand
  /\ Len(file) = Len(events) + 1
  /\ events' = Append(events, writing)
  /\ acked' = Len(file)
  /\ resolved' = resolved \cup {Len(file)}
  /\ writing' = NoCommand
  /\ UNCHANGED <<disk, status, observed, doubted, stops>>

\* sync succeeds: the event is committed to memory and the caller answered.
Sync ==
  /\ status = "open"
  /\ writing # NoCommand
  /\ Len(file) = Len(events) + 1
  /\ SyncFile
  /\ events' = Append(events, writing)
  /\ acked' = Len(file)
  /\ resolved' = resolved \cup {Len(file)}
  /\ writing' = NoCommand
  /\ UNCHANGED <<file, torn, status, observed, stops>>

\* Faulty: the ledger goes on after a failed sync.
FaultySyncFails ==
  /\ status = "open"
  /\ writing # NoCommand
  /\ Len(file) = Len(events) + 1
  /\ writing' = NoCommand
  /\ UNCHANGED <<disk, status, events, history>>

\* sync fails: the line is in the file, the caller hears an error.
SyncFails ==
  /\ status = "open"
  /\ writing # NoCommand
  /\ Len(file) = Len(events) + 1
  /\ status' = "failed"
  /\ writing' = NoCommand
  /\ doubted' = doubted \cup InFlight
  /\ UNCHANGED <<disk, events, acked, resolved, observed, stops>>

\* read: everything in memory.
Read ==
  /\ Idle
  /\ observed' = observed \cup DOMAIN events
  /\ UNCHANGED <<disk, status, events, writing, acked, resolved, doubted, stops>>

\* flush: the file is synced, behind the appends that were admitted before.
Flush ==
  /\ Idle
  /\ SyncFile
  /\ UNCHANGED <<file, torn, status, events, writing, acked, resolved, observed, stops>>

\* close: the last sync is skipped when the write state is uncertain, and when it
\* fails the file is closed all the same.
Close ==
  /\ Idle \/ status = "failed"
  /\ \/ status = "open" /\ SyncFile
     \/ UNCHANGED <<synced, doubted>>
  /\ status' = "closed"
  /\ events' = << >>
  /\ UNCHANGED <<file, torn, writing, acked, resolved, observed, stops>>

\* The process dies, perhaps in the middle of a write; the file is as it is.
Crash ==
  /\ status # "closed"
  /\ stops < MaxStops
  /\ stops' = stops + 1
  /\ torn' \in IF writing # NoCommand /\ Len(file) = Len(events) THEN BOOLEAN ELSE {torn}
  /\ doubted' = doubted \cup InFlight
  /\ status' = "closed"
  /\ events' = << >>
  /\ writing' = NoCommand
  /\ UNCHANGED <<file, synced, acked, resolved, observed>>

\* The machine loses power: what was not synced may be gone, whole or in part.
PowerLoss ==
  /\ stops < MaxStops
  /\ stops' = stops + 1
  /\ \E n \in synced .. Len(file) :
       /\ file' = SubSeq(file, 1, n)
       /\ torn' \in IF n < Len(file) \/ torn \/ writing # NoCommand THEN BOOLEAN ELSE {FALSE}
       /\ resolved' = resolved \cap (1 .. n)
       /\ observed' = observed \cap (1 .. n)
       /\ doubted' = (doubted \cup InFlight) \cap (1 .. n)
  /\ status' = "closed"
  /\ events' = << >>
  /\ writing' = NoCommand
  /\ UNCHANGED <<synced, acked>>

Next ==
  \/ Open \/ Read \/ Flush \/ Close
  \/ \E c \in Command : AppendDuplicate(c) \/ AppendNew(c)
  \/ WriteAll \/ WriteFails \/ Sync \/ SyncFails
  \/ Crash \/ PowerLoss

Spec == Init /\ [][Next]_vars

-------------------------------------------------------------------------------
(* Properties *)

\* Every line can be replayed: a record torn by a crash or a failed write is
\* never continued by the next one, so no crash makes the Run unreadable (the
\* truncation in open, the poisoned write state in append).
FileReadable == \A i \in DOMAIN file : file[i] # Damaged

\* An open ledger that is between two appends decides on what the file holds:
\* an append whose outcome is uncertain is never followed by another one in the
\* same process (append, #assertHealthy).
MemoryMatchesFile == Idle => events = file /\ ~torn

\* A key is in the file once, however often its command is repeated, in the
\* same process, after a failed sync, after a crash before the answer, or with
\* other content (prepare in LedgerState).
OneRecordPerKey ==
  \A i, j \in DOMAIN file : Key(file[i]) = Key(file[j]) => i = j

\* What a reader was given, or an append resolved with, stays at its offset, synced
\* or not, unless the machine loses power: reopening never takes it back.
ObservedStays ==
  [][PowerLoss \/ \A i \in observed \cup resolved :
                    i \in DOMAIN file' /\ file'[i] = file[i]]_vars

\* What an append resolved with stays also through a loss of power, whether the append
\* wrote the record or repeated an earlier command, with one exception: the append
\* that wrote the record had failed or died before its sync succeeded, and no sync
\* has succeeded since. A repetition resolves with such a record and syncs nothing,
\* nor need close or open have done so (append, open, close).
ResolvedStays ==
  [][\A i \in resolved \ doubted : i \in DOMAIN file' /\ file'[i] = file[i]]_vars

Log == INSTANCE DurableLog WITH log <- file

\* The ledger is a durable log. An append that resolved after its own write and sync
\* has acknowledged its record and all before it: they are there for good, also after
\* a loss of power. An append that resolved as the repetition of an earlier command
\* acknowledges nothing: when its record lies behind the acknowledged ones, a loss of
\* power may take it (ResolvedStays says when that is possible).
ImplementsDurableLog == Log!Spec
===============================================================================
