-------------------------- MODULE JsonlLedgerProofs --------------------------
(***************************************************************************)
(* Proofs about JsonlLedger for every set of requests and keys, and every  *)
(* number of crashes and losses of power: the file stays readable, a key   *)
(* is in it once, what an append resolved with stays except where its      *)
(* record is in doubt, and the ledger implements DurableLog.               *)
(*                                                                         *)
(* The argument: an open ledger knows the file to the last line, because   *)
(* opening removes what is torn and the first uncertain write closes the   *)
(* ledger to further ones; so a record that is written goes behind whole   *)
(* records, and its key has been looked up in all of them. And a line the  *)
(* disk may not have is either in doubt or the one whose sync is awaited,  *)
(* with which no append has resolved yet.                                  *)
(***************************************************************************)
EXTENDS JsonlLedger, TLAPS

UniqueKeys(s) == \A i, j \in 1 .. Len(s) : Key(s[i]) = Key(s[j]) => i = j

NewKey(s, c) == \A i \in 1 .. Len(s) : Key(s[i]) # Key(c)

\* What the open ledger knows of its file, between appends and during one.
OpenInv ==
  /\ status = "open" => ~torn
  /\ status # "open" => writing = NoCommand
  /\ Idle => events = file
  /\ status = "open" /\ writing # NoCommand =>
       \/ events = file /\ NewKey(file, writing)
       \/ file = Append(events, writing)

\* What the file holds, and what callers have been given of it.
FileInv ==
  /\ file \in Seq(Command)
  /\ UniqueKeys(file)
  /\ observed \subseteq 1 .. Len(file)
  /\ resolved \subseteq 1 .. Len(file)

\* A line that the disk may not have is in doubt, or its sync is still awaited.
DoubtInv == \A i \in 1 .. Len(file) : i <= synced \/ i \in doubted \cup InFlight

\* No append has resolved with the line whose sync is awaited.
AnswerInv == resolved \cap InFlight = {}

\* What keeps the file in order, and with the other two the inductive invariant.
OrderInv == TypeOK /\ OpenInv /\ FileInv

IInv == OrderInv /\ DoubtInv /\ AnswerInv

-------------------------------------------------------------------------------
(* Lemmas about sequences of records *)

\* What a sequence of requests is.
LEMMA SequenceFacts ==
  ASSUME NEW s \in Seq(Command)
  PROVE  /\ s \in Seq(Command \cup {Damaged})
         /\ Len(s) \in Nat
         /\ DOMAIN s = 1 .. Len(s)
  OBVIOUS

\* A record with a new key keeps the keys unique, and the records before it.
LEMMA AppendFacts ==
  ASSUME NEW s \in Seq(Command), NEW c \in Command
  PROVE  /\ Append(s, c) \in Seq(Command)
         /\ Len(Append(s, c)) = Len(s) + 1
         /\ \A i \in 1 .. Len(s) : Append(s, c)[i] = s[i]
         /\ UniqueKeys(s) /\ NewKey(s, c) => UniqueKeys(Append(s, c))
<1>1. /\ Append(s, c) \in Seq(Command)
      /\ Len(Append(s, c)) = Len(s) + 1
      /\ \A i \in 1 .. Len(s) : Append(s, c)[i] = s[i]
      /\ Append(s, c)[Len(s) + 1] = c
  OBVIOUS
<1>2. ASSUME UniqueKeys(s), NewKey(s, c) PROVE UniqueKeys(Append(s, c))
  <2> SUFFICES ASSUME NEW i \in 1 .. Len(s) + 1, NEW j \in 1 .. Len(s) + 1,
                      Key(Append(s, c)[i]) = Key(Append(s, c)[j])
               PROVE  i = j
    BY <1>1 DEF UniqueKeys
  <2>1. Len(s) \in Nat
    OBVIOUS
  <2>2. CASE i \in 1 .. Len(s) /\ j \in 1 .. Len(s)
    BY <1>1, <1>2, <2>2 DEF UniqueKeys
  <2>3. CASE i = Len(s) + 1 /\ j \in 1 .. Len(s)
    BY <1>1, <1>2, <2>3 DEF NewKey
  <2>4. CASE j = Len(s) + 1 /\ i \in 1 .. Len(s)
    BY <1>1, <1>2, <2>4 DEF NewKey
  <2>5. QED
    BY <2>1, <2>2, <2>3, <2>4
<1>3. QED
  BY <1>1, <1>2

\* What a loss of power leaves is a sequence of the first records.
LEMMA PrefixFacts ==
  ASSUME NEW s \in Seq(Command), NEW n \in 0 .. Len(s)
  PROVE  /\ SubSeq(s, 1, n) \in Seq(Command)
         /\ Len(SubSeq(s, 1, n)) = n
         /\ UniqueKeys(s) => UniqueKeys(SubSeq(s, 1, n))
<1>1. /\ SubSeq(s, 1, n) \in Seq(Command)
      /\ Len(SubSeq(s, 1, n)) = n
      /\ \A i \in 1 .. n : SubSeq(s, 1, n)[i] = s[i]
  OBVIOUS
<1>2. QED
  BY <1>1 DEF UniqueKeys

\* A key that was not found is new, and one that was found is in the ledger.
LEMMA RecordedFacts ==
  ASSUME NEW c, events \in Seq(Command)
  PROVE  /\ Recorded(c) = 0 => NewKey(events, c)
         /\ Recorded(c) # 0 => Recorded(c) \in 1 .. Len(events)
<1> DEFINE same == {i \in DOMAIN events : Key(events[i]) = Key(c)}
<1>1. DOMAIN events = 1 .. Len(events)
  OBVIOUS
<1>2. CASE same = {}
  BY <1>1, <1>2 DEF Recorded, NewKey
<1>3. CASE same # {}
  <2>1. (CHOOSE i \in same : TRUE) \in same
    BY <1>3
  <2>2. Recorded(c) = CHOOSE i \in same : TRUE
    BY <1>3 DEF Recorded
  <2>3. Recorded(c) \in 1 .. Len(events)
    BY <1>1, <2>1, <2>2
  <2>4. QED
    BY <2>3
<1>4. QED
  BY <1>2, <1>3

-------------------------------------------------------------------------------
(* The inductive invariant *)

\* It holds at the start.
LEMMA InitIInv == Init => IInv
<1> SUFFICES ASSUME Init PROVE IInv
  OBVIOUS
<1>1. file = << >> /\ Len(file) = 0 /\ file \in Seq(Command)
  BY DEF Init
<1>2. TypeOK
  <2>1. file \in Seq(Command \cup {Damaged}) /\ events \in Seq(Command)
    BY DEF Init
  <2>2. synced \in 0 .. Len(file) /\ acked \in 0 .. synced /\ stops \in 0 .. MaxStops
    BY <1>1, StopAssumption DEF Init
  <2>3. QED
    BY <2>1, <2>2 DEF Init, TypeOK
<1>3. OpenInv
  BY DEF Init, OpenInv, Idle
<1>4. FileInv /\ DoubtInv /\ AnswerInv
  BY <1>1 DEF Init, FileInv, UniqueKeys, DoubtInv, AnswerInv
<1>5. QED
  BY <1>2, <1>3, <1>4 DEF IInv, OrderInv

\* Every action keeps the order of the file.
LEMMA NextOrder == OrderInv /\ [Next]_vars => OrderInv'
<1> SUFFICES ASSUME OrderInv, [Next]_vars PROVE OrderInv'
  OBVIOUS
<1> USE StopAssumption, RecordAssumption DEF OrderInv, disk, history
<1>0. Len(file) \in Nat /\ synced \in Nat /\ acked \in Nat /\ InFlight \subseteq Nat
  BY DEF TypeOK, InFlight
<1>1. CASE Open
  <2>1. TypeOK'
    <3>1. events' \in Seq(Command) /\ file' = file
      BY <1>1 DEF Open, SyncFile, FileInv
    <3>2. synced' \in 0 .. Len(file) /\ acked' \in 0 .. synced'
      BY <1>1, <1>0 DEF Open, SyncFile, TypeOK
    <3>3. QED
      BY <1>1, <3>1, <3>2 DEF Open, SyncFile, TypeOK
  <2>2. OpenInv'
    BY <1>1 DEF Open, SyncFile, OpenInv, Idle, TypeOK
  <2>3. FileInv'
    BY <1>1 DEF Open, SyncFile, FileInv
  <2>4. QED
    BY <2>1, <2>2, <2>3
<1>2. CASE Read
  <2>1. events = file
    BY <1>2 DEF Read, OpenInv
  <2>2. observed' \subseteq 1 .. Len(file) /\ observed' \subseteq Nat
    <3>1. observed' = observed \cup DOMAIN file /\ observed \subseteq 1 .. Len(file)
      BY <1>2, <2>1 DEF Read, FileInv
    <3>2. DOMAIN file = 1 .. Len(file)
      BY SequenceFacts DEF FileInv
    <3>3. observed' \subseteq 1 .. Len(file)
      BY <3>1, <3>2
    <3>4. 1 .. Len(file) \subseteq Nat
      BY <1>0
    <3>5. QED
      BY <3>3, <3>4
  <2>5. TypeOK' /\ FileInv'
    <3>1. TypeOK'
      BY <1>2, <2>2 DEF Read, TypeOK
    <3>2. FileInv'
      BY <1>2, <2>2 DEF Read, FileInv
    <3>3. QED
      BY <3>1, <3>2
  <2>3. OpenInv'
    BY <1>2 DEF Read, OpenInv, Idle
  <2>4. QED
    BY <2>3, <2>5
<1>3. CASE Close
  <2>1. TypeOK'
    <3>1. /\ synced' \in {synced, Len(file)} /\ doubted' \in {doubted, {}}
          /\ file' = file /\ torn' = torn /\ status' = "closed" /\ events' = << >>
          /\ UNCHANGED <<writing, acked, resolved, observed, stops>>
      BY <1>3 DEF Close, SyncFile
    <3>2. synced' \in 0 .. Len(file') /\ acked' \in 0 .. synced'
      BY <1>0, <3>1 DEF TypeOK
    <3>3. QED
      BY <3>1, <3>2 DEF TypeOK
  <2>2. OpenInv'
    BY <1>3 DEF Close, SyncFile, OpenInv, Idle
  <2>3. FileInv'
    BY <1>3 DEF Close, SyncFile, FileInv
  <2>4. QED
    BY <2>1, <2>2, <2>3
<1>4. ASSUME NEW c \in Command, AppendDuplicate(c) PROVE OrderInv'
  <2>1. events = file /\ events \in Seq(Command)
    BY <1>4 DEF AppendDuplicate, OpenInv, TypeOK
  <2>2. Recorded(c) \in 1 .. Len(file)
    BY <1>4, <2>1, RecordedFacts DEF AppendDuplicate
  <2>3. TypeOK' /\ FileInv'
    <3>1. resolved' \subseteq 1 .. Len(file) /\ resolved' \subseteq Nat
      <4>1. resolved' = resolved \cup {Recorded(c)} /\ resolved \subseteq 1 .. Len(file)
        BY <1>4 DEF AppendDuplicate, FileInv
      <4>2. resolved' \subseteq 1 .. Len(file)
        BY <2>2, <4>1
      <4>3. 1 .. Len(file) \subseteq Nat
        BY <1>0
      <4>4. QED
        BY <4>2, <4>3
    <3>2. TypeOK'
      BY <1>4, <3>1 DEF AppendDuplicate, TypeOK
    <3>3. FileInv'
      BY <1>4, <3>1 DEF AppendDuplicate, FileInv
    <3>4. QED
      BY <3>2, <3>3
  <2>4. OpenInv'
    BY <1>4 DEF AppendDuplicate, OpenInv, Idle
  <2>5. QED
    BY <2>3, <2>4
<1>5. ASSUME NEW c \in Command, AppendNew(c) PROVE OrderInv'
  <2>1. events = file /\ events \in Seq(Command)
    BY <1>5 DEF AppendNew, OpenInv, TypeOK
  <2>2. NewKey(file, c)
    BY <1>5, <2>1, RecordedFacts DEF AppendNew
  <2>3. TypeOK' /\ FileInv'
    BY <1>5 DEF AppendNew, TypeOK, FileInv
  <2>4. OpenInv'
    BY <1>5, <2>1, <2>2 DEF AppendNew, OpenInv, Idle
  <2>5. QED
    BY <2>3, <2>4
<1>6. CASE WriteAll
  <2>1. writing \in Command /\ ~torn
    BY <1>6 DEF WriteAll, OpenInv, TypeOK
  <2>2. events = file /\ NewKey(file, writing)
    BY <1>6, <2>1, AppendFacts DEF WriteAll, OpenInv, TypeOK
  <2>3. /\ file' = Append(file, writing)
        /\ file' \in Seq(Command)
        /\ Len(file') = Len(file) + 1
        /\ UniqueKeys(file')
    BY <1>6, <2>1, <2>2, AppendFacts DEF WriteAll, FileInv
  <2>4. TypeOK'
    <3>1. file' \in Seq(Command \cup {Damaged}) /\ synced' \in 0 .. Len(file')
      BY <1>6, <2>3, <1>0, SequenceFacts DEF WriteAll, TypeOK
    <3>2. QED
      BY <1>6, <3>1 DEF WriteAll, TypeOK
  <2>5. OpenInv'
    BY <1>6, <2>1, <2>2, <2>3 DEF WriteAll, OpenInv, Idle
  <2>6. FileInv'
    BY <1>6, <2>3, <1>0 DEF WriteAll, FileInv
  <2>7. QED
    BY <2>4, <2>5, <2>6
<1>7. CASE WriteFails
  <2>1. TypeOK' /\ FileInv'
    BY <1>7 DEF WriteFails, TypeOK, FileInv
  <2>2. OpenInv'
    BY <1>7 DEF WriteFails, OpenInv, Idle
  <2>3. QED
    BY <2>1, <2>2
<1>8. CASE Sync
  <2>1. writing \in Command
    BY <1>8 DEF Sync, SyncFile, TypeOK
  <2>2. file = Append(events, writing)
    BY <1>8, <2>1, <1>0 DEF Sync, SyncFile, OpenInv
  <2>3. TypeOK'
    <3>1. synced' = Len(file) /\ acked' = Len(file) /\ events' \in Seq(Command)
      BY <1>8, <2>2 DEF Sync, SyncFile, FileInv
    <3>2. Len(file) \in 1 .. Len(file)
      BY <1>0, <1>8 DEF Sync, TypeOK
    <3>3. synced' \in 0 .. Len(file) /\ acked' \in 0 .. synced'
      BY <1>0, <3>1, <3>2
    <3>4. resolved' = resolved \cup {Len(file)} /\ resolved' \subseteq Nat
      BY <1>0, <1>8 DEF Sync, TypeOK
    <3>5. QED
      BY <1>8, <3>1, <3>3, <3>4 DEF Sync, SyncFile, TypeOK
  <2>4. OpenInv'
    BY <1>8, <2>2 DEF Sync, SyncFile, OpenInv, Idle
  <2>5. FileInv'
    <3>1. Len(file) \in 1 .. Len(file)
      BY <1>0, <1>8 DEF Sync, TypeOK
    <3>2. QED
      BY <1>8, <3>1 DEF Sync, FileInv
  <2>6. QED
    BY <2>3, <2>4, <2>5
<1>9. CASE SyncFails
  <2>1. TypeOK' /\ FileInv'
    BY <1>0, <1>9 DEF SyncFails, TypeOK, FileInv
  <2>2. OpenInv'
    BY <1>9 DEF SyncFails, OpenInv, Idle
  <2>3. QED
    BY <2>1, <2>2
<1>10. CASE Crash
  <2>1. TypeOK'
    BY <1>10, <1>0 DEF Crash, TypeOK
  <2>2. OpenInv'
    BY <1>10 DEF Crash, OpenInv, Idle
  <2>3. FileInv'
    BY <1>10 DEF Crash, FileInv
  <2>4. QED
    BY <2>1, <2>2, <2>3
<1>11. CASE PowerLoss
  <2>1. PICK n \in synced .. Len(file) :
          /\ file' = SubSeq(file, 1, n)
          /\ torn' \in BOOLEAN
          /\ resolved' = resolved \cap (1 .. n)
          /\ observed' = observed \cap (1 .. n)
          /\ doubted' = (doubted \cup InFlight) \cap (1 .. n)
    BY <1>11 DEF PowerLoss, TypeOK
  <2>2. n \in 0 .. Len(file) /\ synced \in 0 .. n
    BY <2>1, <1>0
  <2>3. file' \in Seq(Command) /\ Len(file') = n /\ UniqueKeys(file')
    BY <2>1, <2>2, PrefixFacts DEF FileInv
  <2>4. TypeOK'
    BY <1>11, <1>0, <2>1, <2>2, <2>3 DEF PowerLoss, TypeOK
  <2>5. OpenInv'
    BY <1>11 DEF PowerLoss, OpenInv, Idle
  <2>6. FileInv'
    BY <2>1, <2>3 DEF FileInv
  <2>7. QED
    BY <2>4, <2>5, <2>6
<1>12. CASE Flush
  <2>1. TypeOK'
    BY <1>12, <1>0 DEF Flush, SyncFile, TypeOK
  <2>2. OpenInv' /\ FileInv'
    BY <1>12 DEF Flush, OpenInv, FileInv, Idle
  <2>3. QED
    BY <2>1, <2>2
<1>13. CASE UNCHANGED vars
  BY <1>13 DEF vars, TypeOK, OpenInv, FileInv, Idle
<1>14. QED
  BY <1>1, <1>2, <1>3, <1>4, <1>5, <1>6, <1>7, <1>8, <1>9, <1>10, <1>11, <1>12, <1>13 DEF Next

\* No step leaves a line that the disk may not have without a doubt or an awaited sync.
LEMMA NextDoubt == IInv /\ [Next]_vars => DoubtInv'
<1> SUFFICES ASSUME IInv, [Next]_vars, NEW i \in 1 .. Len(file'),
                    ~(i <= synced'), i \notin doubted'
             PROVE  i \in InFlight'
  BY DEF DoubtInv
<1> USE DEF IInv, OrderInv, TypeOK, disk, history
<1>0. Len(file) \in Nat /\ synced \in Nat /\ InFlight \subseteq {Len(file)}
  BY DEF InFlight
<1>1. CASE Open
  BY <1>0, <1>1 DEF Open, SyncFile, DoubtInv, OpenInv, InFlight
<1>2. CASE Flush
  BY <1>0, <1>2 DEF Flush, SyncFile
<1>3. CASE Close
  BY <1>0, <1>3 DEF Close, SyncFile, DoubtInv, InFlight, Idle, OpenInv
<1>4. CASE WriteAll
  <2>1. writing \in Command /\ ~torn
    BY <1>4 DEF WriteAll, OpenInv
  <2>2. file' = Append(file, writing) /\ Len(file') = Len(file) + 1
    BY <1>4, <2>1, AppendFacts DEF WriteAll, FileInv
  <2>3. InFlight = {} /\ InFlight' = {Len(file) + 1}
    BY <1>0, <1>4, <2>2 DEF WriteAll, InFlight
  <2>4. i \in 1 .. Len(file) \/ i = Len(file) + 1
    BY <1>0, <2>2
  <2>5. QED
    BY <1>4, <2>3, <2>4 DEF WriteAll, DoubtInv
<1>5. CASE WriteFails
  BY <1>0, <1>5 DEF WriteFails, DoubtInv, InFlight
<1>6. CASE Sync
  BY <1>0, <1>6 DEF Sync, SyncFile
<1>7. CASE SyncFails
  BY <1>7 DEF SyncFails, DoubtInv
<1>8. CASE Crash
  BY <1>8 DEF Crash, DoubtInv
<1>9. CASE PowerLoss
  <2>1. PICK n \in synced .. Len(file) :
          file' = SubSeq(file, 1, n) /\ doubted' = (doubted \cup InFlight) \cap (1 .. n)
    BY <1>9 DEF PowerLoss
  <2>2. n \in 0 .. Len(file)
    BY <1>0, <2>1
  <2>3. Len(file') = n
    BY <2>1, <2>2, PrefixFacts DEF FileInv
  <2>4. i \in 1 .. Len(file) /\ i \in 1 .. n
    BY <2>2, <2>3
  <2>5. QED
    BY <1>9, <2>1, <2>4 DEF PowerLoss, DoubtInv
<1>10. ASSUME NEW c \in Command, AppendNew(c) PROVE i \in InFlight'
  BY <1>0, <1>10 DEF AppendNew, Idle, OpenInv, DoubtInv, InFlight
<1>11. CASE Read \/ (\E c \in Command : AppendDuplicate(c)) \/ UNCHANGED vars
  BY <1>11 DEF Read, AppendDuplicate, vars, DoubtInv, InFlight
<1>12. QED
  BY <1>1, <1>2, <1>3, <1>4, <1>5, <1>6, <1>7, <1>8, <1>9, <1>10, <1>11 DEF Next

\* No step resolves an append with a line whose sync is awaited.
LEMMA NextAnswer == IInv /\ [Next]_vars => AnswerInv'
<1> SUFFICES ASSUME IInv, [Next]_vars, NEW i \in resolved', i \in InFlight'
             PROVE  FALSE
  BY DEF AnswerInv
<1> USE DEF IInv, OrderInv, TypeOK, disk, history
<1>0. Len(file) \in Nat /\ resolved \subseteq 1 .. Len(file)
  BY DEF FileInv
<1>1. i = Len(file') /\ writing' # NoCommand /\ Len(file') = Len(events') + 1
  BY DEF InFlight
<1>2. CASE WriteAll
  <2>1. writing \in Command /\ ~torn
    BY <1>2 DEF WriteAll, OpenInv
  <2>2. Len(file') = Len(file) + 1 /\ resolved' = resolved
    BY <1>2, <2>1, AppendFacts DEF WriteAll, FileInv
  <2>3. QED
    BY <1>0, <1>1, <2>2
<1>3. CASE Open \/ Close \/ Flush \/ Read \/ \E c \in Command : AppendDuplicate(c)
  BY <1>1, <1>3 DEF Open, Close, Flush, Read, AppendDuplicate, Idle, OpenInv
<1>4. CASE Sync \/ WriteFails \/ SyncFails \/ Crash \/ PowerLoss
  BY <1>1, <1>4 DEF Sync, WriteFails, SyncFails, Crash, PowerLoss
<1>5. ASSUME NEW c \in Command, AppendNew(c) PROVE FALSE
  BY <1>0, <1>1, <1>5 DEF AppendNew, Idle, OpenInv
<1>6. CASE UNCHANGED vars
  BY <1>6 DEF vars, AnswerInv, InFlight
<1>7. QED
  BY <1>2, <1>3, <1>4, <1>5, <1>6 DEF Next

\* The invariant of every behaviour.
LEMMA Inductive == Spec => []IInv
<1>1. IInv /\ [Next]_vars => IInv'
  BY NextOrder, NextDoubt, NextAnswer DEF IInv
<1>2. QED
  BY <1>1, InitIInv, PTL DEF Spec

-------------------------------------------------------------------------------
(* What follows *)

\* Type correctness (the state of JsonlLedger and its file).
THEOREM TypeCorrect == Spec => []TypeOK
<1>1. IInv => TypeOK
  BY DEF IInv, OrderInv
<1>2. QED
  BY <1>1, Inductive, PTL

\* No crash, failed write or loss of power leaves a line in the file that does
\* not parse (open, append).
THEOREM Readable == Spec => []FileReadable
<1>1. IInv => FileReadable
  BY RecordAssumption DEF IInv, OrderInv, FileInv, FileReadable
<1>2. QED
  BY <1>1, Inductive, PTL

\* Between two appends the memory of the open ledger is the file
\* (append, #assertHealthy).
THEOREM Matches == Spec => []MemoryMatchesFile
<1>1. IInv => MemoryMatchesFile
  BY DEF IInv, OrderInv, OpenInv, Idle, MemoryMatchesFile
<1>2. QED
  BY <1>1, Inductive, PTL

\* A key is in the file once (prepare in LedgerState).
THEOREM OneRecord == Spec => []OneRecordPerKey
<1>1. IInv => OneRecordPerKey
  BY DEF IInv, OrderInv, FileInv, UniqueKeys, OneRecordPerKey
<1>2. QED
  BY <1>1, Inductive, PTL

\* Only a loss of power changes a line that is there.
LEMMA LinesStay ==
  ASSUME IInv, Next, ~PowerLoss, NEW i \in 1 .. Len(file)
  PROVE  i \in DOMAIN file' /\ file'[i] = file[i]
<1>1. Len(file) \in Nat /\ DOMAIN file = 1 .. Len(file)
  BY DEF IInv, OrderInv, TypeOK
<1>2. CASE file' = file
  BY <1>1, <1>2
<1>3. CASE WriteAll
  <2>1. writing \in Command /\ ~torn
    BY <1>3 DEF WriteAll, IInv, OrderInv, TypeOK, OpenInv
  <2>2. file' = Append(file, writing)
    BY <1>3, <2>1 DEF WriteAll
  <2>3. QED
    BY <2>1, <2>2 DEF IInv, OrderInv, FileInv
<1>4. file' = file \/ WriteAll
  BY DEF Next, Open, Read, Flush, Close, AppendDuplicate, AppendNew, WriteFails, Sync,
         SyncFails, Crash, disk
<1>5. QED
  BY <1>2, <1>3, <1>4

\* Only a loss of power takes back what a reader was given or an append resolved with.
THEOREM Stays == Spec => ObservedStays
<1>1. IInv /\ [Next]_vars =>
        [PowerLoss \/ \A i \in observed \cup resolved :
                        i \in DOMAIN file' /\ file'[i] = file[i]]_vars
  <2> SUFFICES ASSUME IInv, Next, ~PowerLoss, NEW i \in observed \cup resolved
               PROVE  i \in DOMAIN file' /\ file'[i] = file[i]
    OBVIOUS
  <2>1. i \in 1 .. Len(file)
    BY DEF IInv, OrderInv, FileInv
  <2>2. QED
    BY <2>1, LinesStay
<1>2. QED
  BY <1>1, Inductive, PTL DEF Spec, ObservedStays

\* What an append resolved with, its own record or an earlier one, is lost to nothing,
\* unless the append that wrote the record failed or was cut off and no sync has
\* succeeded since (append, open, close).
THEOREM Resolved == Spec => ResolvedStays
<1>1. IInv /\ [Next]_vars =>
        [\A i \in resolved \ doubted : i \in DOMAIN file' /\ file'[i] = file[i]]_vars
  <2> SUFFICES ASSUME IInv, Next, NEW i \in resolved \ doubted
               PROVE  i \in DOMAIN file' /\ file'[i] = file[i]
    OBVIOUS
  <2>1. i \in 1 .. Len(file)
    BY DEF IInv, OrderInv, FileInv
  <2>2. CASE PowerLoss
    <3>1. i <= synced
      BY <2>1 DEF IInv, DoubtInv, AnswerInv
    <3>2. PICK n \in synced .. Len(file) : file' = SubSeq(file, 1, n)
      BY <2>2 DEF PowerLoss
    <3>3. synced \in 0 .. Len(file) /\ Len(file) \in Nat
      BY DEF IInv, OrderInv, TypeOK
    <3>4. i \in 1 .. n /\ n \in 0 .. Len(file)
      BY <2>1, <3>1, <3>2, <3>3
    <3>5. file' = SubSeq(file, 1, n) /\ file \in Seq(Command)
      BY <3>2 DEF IInv, OrderInv, FileInv
    <3>6. QED
      BY <3>4, <3>5
  <2>3. CASE ~PowerLoss
    BY <2>1, <2>3, LinesStay
  <2>4. QED
    BY <2>2, <2>3
<1>2. QED
  BY <1>1, Inductive, PTL DEF Spec, ResolvedStays

\* The ledger is a durable log: of what it acknowledged nothing is lost, and what
\* a request is answered with is a record of the log (append, open).
THEOREM Implements == Spec => ImplementsDurableLog
<1>1. Init => Log!Init
  BY DEF Init, Log!Init
<1>2. IInv /\ [Next]_vars => [Log!Next]_(Log!vars)
  <2> SUFFICES ASSUME IInv, Next PROVE Log!Next \/ UNCHANGED <<file, acked, resolved>>
    BY DEF vars, disk, history, Log!vars
  <2>1. CASE WriteAll
    <3>1. writing \in Command /\ ~torn
      BY <2>1 DEF IInv, OrderInv, TypeOK, OpenInv, WriteAll
    <3>2. NewKey(file, writing)
      BY <2>1, <3>1, AppendFacts DEF IInv, OrderInv, TypeOK, OpenInv, WriteAll
    <3>3. Log!Write(writing)
      BY <2>1, <3>1, <3>2 DEF NewKey, WriteAll, history, Log!Write
    <3>4. QED
      BY <3>1, <3>3 DEF Log!Next
  <2>2. CASE Sync
    <3>1. acked' = Len(file) /\ resolved' = resolved \cup {Len(file)} /\ file' = file
      BY <2>2 DEF Sync
    <3>2. file # << >>
      BY <2>2 DEF Sync, IInv, OrderInv, TypeOK
    <3>3. QED
      BY <3>1, <3>2 DEF Log!Next, Log!Acknowledge
  <2>3. CASE PowerLoss
    <3>1. PICK n \in synced .. Len(file) :
            file' = SubSeq(file, 1, n) /\ resolved' = resolved \cap (1 .. n)
      BY <2>3 DEF PowerLoss
    <3>2. n \in acked .. Len(file) /\ acked' = acked
      BY <2>3, <3>1 DEF PowerLoss, IInv, OrderInv, TypeOK
    <3>3. QED
      BY <3>1, <3>2 DEF Log!Next, Log!Lose
  <2>4. ASSUME NEW c \in Command, AppendDuplicate(c) PROVE Log!Next
    <3>1. events = file /\ events \in Seq(Command)
      BY <2>4 DEF AppendDuplicate, IInv, OrderInv, OpenInv, TypeOK
    <3>2. Recorded(c) \in 1 .. Len(file)
      BY <2>4, <3>1, RecordedFacts DEF AppendDuplicate
    <3>3. Log!Repeat(Recorded(c))
      BY <2>4, <3>2 DEF AppendDuplicate, Log!Repeat, disk
    <3>4. QED
      BY <3>2, <3>3 DEF Log!Next
  <2>5. QED
    BY <2>1, <2>2, <2>3, <2>4
    DEF Next, Open, Read, Flush, Close, AppendNew, WriteFails, SyncFails, Crash, disk, history
<1>3. QED
  BY <1>1, <1>2, Inductive, PTL DEF Spec, ImplementsDurableLog, Log!Spec
===============================================================================
