---------------------------- MODULE ExecutionLease ----------------------------
(***************************************************************************)
(* The execution lease store of one Run (FileExecutionLeaseStore, and the  *)
(* MemoryExecutionLeaseStore with the same rules): hosts claim, renew,     *)
(* verify and release a lease that expires on the store's observed clock,  *)
(* and make durable commits fenced by it.                                  *)
(*                                                                         *)
(* Every call runs under the store's file lock and rewrites the snapshot   *)
(* by an atomic rename, so a call is one step; the answer may be lost and  *)
(* the call repeated with the same acquisition or command id. Only a       *)
(* fenced commit holds the lock over several steps, because the caller's   *)
(* operation runs inside it, and its process may die there. The lock       *)
(* itself is the subject of module HardLinkLock.                           *)
(***************************************************************************)
EXTENDS Integers, Sequences

CONSTANTS
  Owner,        \* hosts, jobs and worker processes that may hold the lease
  LeaseId,      \* values of the lease id generator
  MaxAttempts,  \* acquisition ids per owner (bound)
  MaxRenewals,  \* renewal command ids per lease (bound)
  Ttl,          \* requested lifetimes
  MaxTime,      \* readings of the wall clock are 0..MaxTime (bound)
  MaxCommits,   \* durable effects made under the fence (bound)
  NoLease,      \* no lease is active
  NoCommit      \* no fenced commit is in progress

ASSUME TtlAssumption == Ttl \subseteq Nat \ {0}
ASSUME BoundAssumption == /\ MaxAttempts \in Nat
                          /\ MaxRenewals \in Nat
                          /\ MaxTime \in Nat
                          /\ MaxCommits \in Nat

\* The lease as its holder knows it; a fencing token is what a worker knows.
Lease == [owner : Owner, leaseId : LeaseId, token : Nat, expiresAt : Nat]

ASSUME NoLeaseAssumption == NoLease \notin Lease

VARIABLES
  clock,           \* wall clock of the machine, which an operator may set back
  timeHigh,        \* snapshot: latest time the store has observed
  fence,           \* snapshot: highest fencing token granted
  active,          \* snapshot: the stored lease
  issued,          \* snapshot: lease ids ever granted
  claimReceipts,   \* snapshot: result of every claim, by acquisition id
  renewReceipts,   \* snapshot: result of every renewal, by command id
  releaseReceipts, \* snapshot: result of every release, by lease id
  inCommit,        \* the fenced commit that holds the file lock
  known,           \* leases their owners have been told they hold
  commits          \* history: token under which each durable effect was made

snapshot == <<timeHigh, fence, active, issued,
              claimReceipts, renewReceipts, releaseReceipts>>
vars == <<clock, snapshot, inCommit, known, commits>>

Acquisition == Owner \X (1 .. MaxAttempts)
Renewal == LeaseId \X (1 .. MaxRenewals)

ClaimReceipt ==
  [status : {"none", "held", "clock-regressed"}, lease : {NoLease}]
    \cup [status : {"acquired"}, lease : Lease]
RenewReceipt ==
  [status : {"none", "lost"}, lease : {NoLease}]
    \cup [status : {"clock-regressed", "renewed"}, lease : Lease]

NoReceipt == [status |-> "none", lease |-> NoLease]

TypeOK ==
  /\ clock \in 0 .. MaxTime
  /\ timeHigh \in Nat
  /\ fence \in Nat
  /\ active \in Lease \cup {NoLease}
  /\ issued \subseteq LeaseId
  /\ claimReceipts \in [Acquisition -> ClaimReceipt]
  /\ renewReceipts \in [Renewal -> RenewReceipt]
  /\ releaseReceipts \in [LeaseId -> {"none", "released", "lost"}]
  /\ inCommit \in [lease : Lease, now : Nat] \cup {NoCommit}
  /\ known \subseteq Lease
  /\ commits \in Seq(Nat)

Init ==
  /\ clock = 0
  /\ timeHigh = 0
  /\ fence = 0
  /\ active = NoLease
  /\ issued = {}
  /\ claimReceipts = [a \in Acquisition |-> NoReceipt]
  /\ renewReceipts = [c \in Renewal |-> NoReceipt]
  /\ releaseReceipts = [l \in LeaseId |-> "none"]
  /\ inCommit = NoCommit
  /\ known = {}
  /\ commits = << >>

-------------------------------------------------------------------------------
\* Time as a call sees it: never earlier than what any call has seen.
Regressed == clock < timeHigh
Now == IF Regressed THEN timeHigh ELSE clock

\* The stored lease, or none when it has expired; a call deletes it then.
Live == IF active # NoLease /\ active.expiresAt > Now THEN active ELSE NoLease

SameIdentity(l, m) ==
  /\ l.owner = m.owner
  /\ l.leaseId = m.leaseId
  /\ l.token = m.token

IsCurrent(l) == Live # NoLease /\ SameIdentity(Live, l)

\* Definitions marked "Faulty" are mistakes this code could have made. No
\* behaviour of the module uses them; they show what the properties reject.

\* Faulty: a shorter renewal brings the expiry forward.
FaultyExtendedExpiry(l, ttl) == Now + ttl

ExtendedExpiry(l, ttl) ==
  IF Now + ttl > l.expiresAt THEN Now + ttl ELSE l.expiresAt

\* The owner of l hears the answer; what it knew of an older expiry is kept
\* only when that was later.
Learn(l) ==
  LET older == {k \in known : SameIdentity(k, l)}
  IN  IF \E k \in older : k.expiresAt >= l.expiresAt
        THEN known
        ELSE (known \ older) \cup {l}

\* An answer reaches its caller or is lost with it.
Answer(l) == known' \in {known, Learn(l)}

\* What every call does first: advance the time watermark, drop the expired.
Observe == timeHigh' = Now

\* Faulty: the file lock is free while the caller's operation runs.
FaultyUnlocked == TRUE

\* The store is reachable: no process holds its file lock.
Unlocked == inCommit = NoCommit

-------------------------------------------------------------------------------
\* claimNow, the acquisition id has a receipt.
ReplayClaim(a) ==
  LET receipt == claimReceipts[a]
  IN  /\ receipt.status # "none"
      /\ active' = Live
      /\ IF receipt.status = "acquired" /\ IsCurrent(receipt.lease)
           THEN Answer(receipt.lease)
           ELSE UNCHANGED known
      /\ UNCHANGED <<fence, issued, claimReceipts>>

\* claimNow, the Run is held by somebody or the clock runs behind.
RefuseClaim(a) ==
  /\ claimReceipts[a].status = "none"
  /\ Live # NoLease \/ Regressed
  /\ active' = Live
  /\ claimReceipts' =
       [claimReceipts EXCEPT ![a] =
          [status |-> IF Live # NoLease THEN "held" ELSE "clock-regressed",
           lease |-> NoLease]]
  /\ UNCHANGED <<fence, issued, known>>

\* Faulty: the token of the last grant is used again.
FaultyNewLease(o, id, ttl) ==
  [owner |-> o, leaseId |-> id, token |-> IF fence = 0 THEN 1 ELSE fence,
   expiresAt |-> Now + ttl]

\* Faulty: the lifetime is counted backwards.
FaultyExpiresAt(o, id, ttl) ==
  [owner |-> o, leaseId |-> id, token |-> fence + 1, expiresAt |-> Now - ttl]

NewLease(o, id, ttl) ==
  [owner |-> o, leaseId |-> id, token |-> fence + 1, expiresAt |-> Now + ttl]

\* claimNow, a new lease under the next fencing token.
GrantClaim(a, ttl) ==
  /\ claimReceipts[a].status = "none"
  /\ Live = NoLease
  /\ ~Regressed
  /\ \E id \in LeaseId \ issued :
       LET lease == NewLease(a[1], id, ttl)
       IN  /\ active' = lease
           /\ issued' = issued \cup {id}
           /\ claimReceipts' =
                [claimReceipts EXCEPT ![a] = [status |-> "acquired", lease |-> lease]]
           /\ Answer(lease)
  /\ fence' = fence + 1

Claim(a, ttl) ==
  /\ Unlocked
  /\ Observe
  /\ ReplayClaim(a) \/ RefuseClaim(a) \/ GrantClaim(a, ttl)
  /\ UNCHANGED <<clock, renewReceipts, releaseReceipts, inCommit, commits>>

\* Faulty: the recorded lease is put back before anything is compared.
FaultyReplayRenew(l, n) ==
  LET receipt == renewReceipts[<<l.leaseId, n>>]
  IN  /\ receipt.status # "none"
      /\ Observe
      /\ IF receipt.status = "lost"
           THEN active' = Live /\ UNCHANGED known
           ELSE active' = receipt.lease /\ Answer(receipt.lease)
      /\ UNCHANGED renewReceipts

\* renewNow, the command id has a receipt: the recorded answer is repeated
\* only while the lease is current.
ReplayRenew(l, n) ==
  LET receipt == renewReceipts[<<l.leaseId, n>>]
  IN  /\ receipt.status # "none"
      /\ IF receipt.status = "lost"
           THEN UNCHANGED <<timeHigh, active, known>>
           ELSE /\ Observe
                /\ active' = Live
                /\ IF IsCurrent(l) THEN Answer(receipt.lease) ELSE UNCHANGED known
      /\ UNCHANGED renewReceipts

\* renewNow, a new command id.
FirstRenew(l, n, ttl) ==
  LET c == <<l.leaseId, n>>
      extended == [Live EXCEPT !.expiresAt = ExtendedExpiry(Live, ttl)]
      lease == IF ~IsCurrent(l) THEN NoLease
               ELSE IF Regressed THEN Live ELSE extended
      status == IF ~IsCurrent(l) THEN "lost"
                ELSE IF Regressed THEN "clock-regressed" ELSE "renewed"
  IN  /\ renewReceipts[c].status = "none"
      /\ Observe
      /\ active' = IF IsCurrent(l) THEN lease ELSE Live
      /\ renewReceipts' = [renewReceipts EXCEPT ![c] = [status |-> status, lease |-> lease]]
      /\ IF IsCurrent(l) THEN Answer(lease) ELSE UNCHANGED known

Renew(l, n, ttl) ==
  /\ Unlocked
  /\ ReplayRenew(l, n) \/ FirstRenew(l, n, ttl)
  /\ UNCHANGED <<clock, fence, issued, claimReceipts, releaseReceipts, inCommit, commits>>

\* releaseNow. A repeated release command finds its receipt and changes nothing.
Release(l) ==
  /\ Unlocked
  /\ releaseReceipts[l.leaseId] = "none"
  /\ Observe
  /\ active' = IF IsCurrent(l) THEN NoLease ELSE Live
  /\ releaseReceipts' = [releaseReceipts EXCEPT ![l.leaseId] =
                           IF IsCurrent(l) THEN "released" ELSE "lost"]
  /\ UNCHANGED <<clock, fence, issued, claimReceipts, renewReceipts, inCommit, known, commits>>

\* verify, inspect, a fenced commit that finds its lease lost, and a call that
\* fails after it has read the clock: the snapshot is written all the same.
Verify ==
  /\ Unlocked
  /\ Observe
  /\ active' = Live
  /\ UNCHANGED <<clock, fence, issued, claimReceipts, renewReceipts, releaseReceipts,
                 inCommit, known, commits>>

-------------------------------------------------------------------------------
\* runIfCurrent: the lock is taken and the lease found current. The clock
\* reading stays in memory until the operation is over.
RunIfCurrent(l) ==
  /\ Unlocked
  /\ IsCurrent(l)
  /\ inCommit' = [lease |-> l, now |-> Now]
  /\ UNCHANGED <<clock, snapshot, known, commits>>

\* Faulty: an older token passes, too.
FaultyRunIfFencingTokenCurrent(l) ==
  /\ Unlocked
  /\ Live # NoLease
  /\ Live.token >= l.token
  /\ inCommit' = [lease |-> l, now |-> Now]
  /\ UNCHANGED <<clock, snapshot, known, commits>>

\* runIfFencingTokenCurrent: a worker process knows the token alone.
RunIfFencingTokenCurrent(l) ==
  /\ Unlocked
  /\ Live # NoLease
  /\ Live.token = l.token
  /\ inCommit' = [lease |-> l, now |-> Now]
  /\ UNCHANGED <<clock, snapshot, known, commits>>

\* The caller's operation makes something durable.
Operation ==
  /\ inCommit # NoCommit
  /\ Len(commits) < MaxCommits
  /\ commits' = Append(commits, inCommit.lease.token)
  /\ UNCHANGED <<clock, snapshot, inCommit, known>>

\* The operation returned or threw: the snapshot is written and the lock freed.
EndCommit ==
  /\ inCommit # NoCommit
  /\ timeHigh' = inCommit.now
  /\ inCommit' = NoCommit
  /\ UNCHANGED <<clock, fence, active, issued, claimReceipts, renewReceipts,
                 releaseReceipts, known, commits>>

\* The process dies inside its operation. The next contender finds the owner of
\* the lock dead and removes it; the snapshot is the one on disk.
CrashInCommit ==
  /\ inCommit # NoCommit
  /\ inCommit' = NoCommit
  /\ UNCHANGED <<clock, snapshot, known, commits>>

\* The wall clock moves, or is set back.
SetClock ==
  /\ clock' \in (0 .. MaxTime) \ {clock}
  /\ UNCHANGED <<snapshot, inCommit, known, commits>>

Next ==
  \/ \E a \in Acquisition, ttl \in Ttl : Claim(a, ttl)
  \/ \E l \in known, n \in 1 .. MaxRenewals, ttl \in Ttl : Renew(l, n, ttl)
  \/ \E l \in known : Release(l)
  \/ Verify
  \/ \E l \in known : RunIfCurrent(l)
  \/ \E l \in known : RunIfFencingTokenCurrent(l)
  \/ Operation
  \/ EndCommit
  \/ CrashInCommit
  \/ SetClock

Spec == Init /\ [][Next]_vars

-------------------------------------------------------------------------------
(* Properties *)

\* The snapshot holds l, though perhaps past its expiry.
Stored(l) == active # NoLease /\ SameIdentity(active, l)

\* Durable effects made under the fence appear in the order of the grants: once
\* a successor has committed, no predecessor commits any more, however long its
\* operation took, whatever the clock did and whether it knows its identity or
\* only its token (runIfCurrent, runIfFencingTokenCurrent).
CommitsInGrantOrder ==
  \A i, j \in DOMAIN commits : i < j => commits[i] <= commits[j]

\* A fencing token names one acquisition: leases that two owners were told of,
\* or that two claim receipts record, never share a token, across retried
\* claims, lost answers and releases. A worker fenced by its token alone relies
\* on this.
TokensIdentifyLeases ==
  /\ \A l, m \in known : l.token = m.token => SameIdentity(l, m)
  /\ \A a, b \in Acquisition :
       /\ claimReceipts[a].status = "acquired"
       /\ claimReceipts[b].status = "acquired"
       /\ claimReceipts[a].lease.token = claimReceipts[b].lease.token
       => a = b

\* An owner that was told its lease lasts until some time keeps it until the
\* store has observed that time, or until it released it: a shorter renewal, a
\* repeated answer or a clock set back never cuts it short (claimNow, renewNow).
ToldExpiryHonoured ==
  \A l \in known :
    \/ Stored(l) /\ l.expiresAt <= active.expiresAt
    \/ l.expiresAt <= timeHigh
    \/ releaseReceipts[l.leaseId] = "released"

\* A lease that has left the snapshot never returns to it: no late renewal,
\* repeated claim or stale snapshot write brings a dead holder back.
NoResurrection ==
  [][\A l \in known : ~Stored(l) => ~Stored(l)']_vars

Fenced == INSTANCE FencedCommits WITH
            granted <- fence,
            current <- IF active = NoLease THEN 0 ELSE active.token

\* The store implements fenced commits: only the newest grant, while it is in
\* force, makes anything durable through runIfCurrent.
ImplementsFencedCommits == Fenced!Spec
===============================================================================
