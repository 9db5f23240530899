------------------------- MODULE ExecutionLeaseProofs -------------------------
(***************************************************************************)
(* Theorems about the execution lease store, for every number of owners,   *)
(* lease ids, attempts and renewals, every set of lifetimes and every      *)
(* behaviour of the clock.                                                 *)
(***************************************************************************)
EXTENDS ExecutionLease, TLAPS

\* Requests and holders, by their records.
USE DEF Acquisition, Renewal

-------------------------------------------------------------------------------
(* Lemmas about the operators *)

\* The time a call sees is no earlier than any time seen before.
LEMMA NowType ==
  ASSUME TypeOK
  PROVE  Now \in Nat /\ timeHigh <= Now /\ (~Regressed => Now = clock)
BY BoundAssumption DEF TypeOK, Now, Regressed

\* Live is the stored lease, or nothing when there is none or it has expired.
LEMMA LiveCases ==
  ASSUME TypeOK
  PROVE  \/ Live = active /\ active \in Lease /\ active # NoLease
         \/ Live = NoLease /\ (active = NoLease \/ active.expiresAt <= Now)
<1>1. CASE active = NoLease
  BY <1>1 DEF Live
<1>2. CASE active # NoLease
  <2>1. active \in Lease /\ active.expiresAt \in Nat
    BY <1>2 DEF TypeOK, Lease
  <2>2. QED BY <1>2, <2>1, NowType DEF Live
<1>3. QED BY <1>1, <1>2

\* An answer adds at most the lease it carries to what the owners know.
LEMMA AnswerAdds ==
  ASSUME NEW l, Answer(l)
  PROVE  known' \subseteq known \cup {l}
BY DEF Answer, Learn

\* A renewed lease is a lease that lasts no shorter.
LEMMA ExtendedExpiryGrows ==
  ASSUME TypeOK, NEW l \in Lease, NEW ttl \in Ttl
  PROVE  ExtendedExpiry(l, ttl) \in Nat /\ l.expiresAt <= ExtendedExpiry(l, ttl)
BY NowType, TtlAssumption DEF ExtendedExpiry, Lease

-------------------------------------------------------------------------------
(* Type correctness *)

\* A claim keeps the types, whatever it finds.
LEMMA ClaimType ==
  ASSUME TypeOK, NEW a \in Acquisition, NEW ttl \in Ttl, Claim(a, ttl)
  PROVE  TypeOK'
<1> USE NowType, LiveCases
<1>1. timeHigh' \in Nat /\ Live \in Lease \cup {NoLease}
  BY DEF TypeOK, Claim, Observe
<1>2. CASE ReplayClaim(a)
  <2>1. known' \subseteq Lease
    <3>1. CASE claimReceipts[a].status = "acquired" /\ IsCurrent(claimReceipts[a].lease)
      <4>1. claimReceipts[a].lease \in Lease
        BY <3>1 DEF TypeOK, ClaimReceipt
      <4>2. QED BY <4>1, <3>1, <1>2, AnswerAdds DEF ReplayClaim, TypeOK
    <3>2. QED BY <3>1, <1>2 DEF ReplayClaim, TypeOK
  <2>2. QED BY <1>1, <1>2, <2>1 DEF TypeOK, Claim, ReplayClaim
<1>3. CASE RefuseClaim(a)
  BY <1>1, <1>3 DEF TypeOK, Claim, RefuseClaim, ClaimReceipt
<1>4. CASE GrantClaim(a, ttl)
  <2>1. PICK id \in LeaseId \ issued :
          /\ active' = NewLease(a[1], id, ttl)
          /\ issued' = issued \cup {id}
          /\ claimReceipts' = [claimReceipts EXCEPT ![a] =
                [status |-> "acquired", lease |-> NewLease(a[1], id, ttl)]]
          /\ Answer(NewLease(a[1], id, ttl))
    BY <1>4 DEF GrantClaim
  <2>2. NewLease(a[1], id, ttl) \in Lease
    BY TtlAssumption DEF NewLease, Lease, TypeOK
  <2>3. known' \subseteq Lease
    BY <2>1, <2>2, AnswerAdds DEF TypeOK
  <2>4. claimReceipts' \in [Acquisition -> ClaimReceipt]
    BY <2>1, <2>2 DEF TypeOK, ClaimReceipt
  <2>5. fence' \in Nat
    BY <1>4 DEF TypeOK, GrantClaim
  <2>6. QED BY <1>1, <2>1, <2>2, <2>3, <2>4, <2>5 DEF TypeOK, Claim
<1>5. QED BY <1>2, <1>3, <1>4 DEF Claim

\* What a renewal leaves in the snapshot, and what its owner may have heard.
LEMMA RenewType ==
  ASSUME TypeOK, NEW l \in known, NEW n \in 1 .. MaxRenewals, NEW ttl \in Ttl,
         Renew(l, n, ttl)
  PROVE  TypeOK'
<1> DEFINE c == <<l.leaseId, n>>
<1> USE NowType, LiveCases
<1>1. l \in Lease /\ c \in Renewal
  BY DEF TypeOK, Lease
<1>2. CASE ReplayRenew(l, n)
  <2>1. CASE renewReceipts[c].status = "lost"
    BY <1>2, <2>1 DEF TypeOK, Renew, ReplayRenew
  <2>2. CASE renewReceipts[c].status # "lost"
    <3>1. renewReceipts[c].lease \in Lease
      BY <1>1, <1>2, <2>2 DEF TypeOK, RenewReceipt, ReplayRenew
    <3>2. known' \subseteq Lease
      BY <1>2, <2>2, <3>1, AnswerAdds DEF TypeOK, ReplayRenew
    <3>3. timeHigh' \in Nat /\ active' \in Lease \cup {NoLease}
      BY <1>2, <2>2 DEF ReplayRenew, Observe
    <3>4. QED BY <1>2, <3>2, <3>3 DEF TypeOK, Renew, ReplayRenew
  <2>3. QED BY <2>1, <2>2
<1>3. CASE FirstRenew(l, n, ttl)
  <2> DEFINE extended == [Live EXCEPT !.expiresAt = ExtendedExpiry(Live, ttl)]
             lease == IF ~IsCurrent(l) THEN NoLease
                      ELSE IF Regressed THEN Live ELSE extended
             status == IF ~IsCurrent(l) THEN "lost"
                       ELSE IF Regressed THEN "clock-regressed" ELSE "renewed"
  <2>1. IsCurrent(l) => lease \in Lease
    BY ExtendedExpiryGrows DEF IsCurrent, Lease
  <2>2. [status |-> status, lease |-> lease] \in RenewReceipt
    BY <2>1 DEF RenewReceipt
  <2>3. /\ renewReceipts' = [renewReceipts EXCEPT ![c] = [status |-> status, lease |-> lease]]
        /\ active' = IF IsCurrent(l) THEN lease ELSE Live
        /\ timeHigh' = Now
        /\ IF IsCurrent(l) THEN Answer(lease) ELSE UNCHANGED known
    BY <1>3 DEF FirstRenew, Observe
  <2>4. known' \subseteq Lease
    BY <2>1, <2>3, AnswerAdds DEF TypeOK
  <2>5. active' \in Lease \cup {NoLease}
    BY <2>1, <2>3
  <2>6. renewReceipts' \in [Renewal -> RenewReceipt]
    BY <2>2, <2>3 DEF TypeOK
  <2> HIDE DEF extended, lease, status
  <2>7. QED BY <2>3, <2>4, <2>5, <2>6 DEF TypeOK, Renew
<1>4. QED BY <1>2, <1>3 DEF Renew

\* The initial state has the types.
LEMMA InitType == Init => TypeOK
BY BoundAssumption DEF Init, TypeOK, NoReceipt, ClaimReceipt, RenewReceipt

\* Every step keeps the types.
LEMMA NextType == TypeOK /\ [Next]_vars => TypeOK'
<1> SUFFICES ASSUME TypeOK, [Next]_vars PROVE TypeOK'
  OBVIOUS
<1> USE NowType, LiveCases
<1>1. ASSUME NEW a \in Acquisition, NEW ttl \in Ttl, Claim(a, ttl) PROVE TypeOK'
  BY <1>1, ClaimType
<1>2. ASSUME NEW l \in known, NEW n \in 1 .. MaxRenewals, NEW ttl \in Ttl, Renew(l, n, ttl)
      PROVE  TypeOK'
  BY <1>2, RenewType
<1>3. ASSUME NEW l \in known, Release(l) PROVE TypeOK'
  BY <1>3 DEF TypeOK, Release, Observe, Lease
<1>4. CASE Verify
  BY <1>4 DEF TypeOK, Verify, Observe
<1>5. ASSUME NEW l \in known, RunIfCurrent(l) \/ RunIfFencingTokenCurrent(l) PROVE TypeOK'
  BY <1>5 DEF TypeOK, RunIfCurrent, RunIfFencingTokenCurrent, snapshot
<1>6. CASE Operation
  BY <1>6 DEF TypeOK, Operation, snapshot, Lease
<1>7. CASE EndCommit
  BY <1>7 DEF TypeOK, EndCommit
<1>8. CASE CrashInCommit
  BY <1>8 DEF TypeOK, CrashInCommit, snapshot
<1>9. CASE SetClock
  BY <1>9 DEF TypeOK, SetClock, snapshot
<1>10. CASE UNCHANGED vars
  BY <1>10 DEF TypeOK, vars, snapshot
<1>11. QED
  BY <1>1, <1>2, <1>3, <1>4, <1>5, <1>6, <1>7, <1>8, <1>9, <1>10 DEF Next

\* Every variable keeps its type (the snapshot stays decodable).
THEOREM TypeCorrect == Spec => []TypeOK
BY InitType, NextType, PTL DEF Spec

-------------------------------------------------------------------------------
(* The inductive invariant *)

Acquired(a) == claimReceipts[a].status = "acquired"

\* l is, up to its expiry, a lease that some claim receipt records.
Granted(l) == \E a \in Acquisition : Acquired(a) /\ SameIdentity(claimReceipts[a].lease, l)

\* Receipts name distinct grants, under tokens and ids issued so far.
GrantsInv ==
  /\ \A a \in Acquisition :
       Acquired(a) => /\ claimReceipts[a].lease.token # 0
                      /\ claimReceipts[a].lease.token <= fence
                      /\ claimReceipts[a].lease.leaseId \in issued
  /\ \A a, b \in Acquisition :
       /\ Acquired(a) /\ Acquired(b)
       /\ \/ claimReceipts[a].lease.token = claimReceipts[b].lease.token
          \/ claimReceipts[a].lease.leaseId = claimReceipts[b].lease.leaseId
       => a = b

\* Whatever names a lease names a grant; the stored one is the newest, and the
\* commit that holds the lock runs under it.
HoldersInv ==
  /\ active # NoLease => Granted(active) /\ active.token = fence
  /\ \A l \in known : Granted(l)
  /\ \A c \in Renewal :
       renewReceipts[c].lease # NoLease =>
         Granted(renewReceipts[c].lease) /\ renewReceipts[c].lease.leaseId = c[1]
  /\ inCommit # NoCommit =>
       /\ active # NoLease
       /\ inCommit.lease.token = active.token
       /\ timeHigh <= inCommit.now

\* No receipt promises more than the snapshot still grants.
ReceiptExpiryInv ==
  /\ \A a \in Acquisition :
       Acquired(a) /\ Stored(claimReceipts[a].lease) =>
         claimReceipts[a].lease.expiresAt <= active.expiresAt
  /\ \A c \in Renewal :
       renewReceipts[c].lease # NoLease /\ Stored(renewReceipts[c].lease) =>
         renewReceipts[c].lease.expiresAt <= active.expiresAt

CommitsInv ==
  /\ \A i \in DOMAIN commits : commits[i] <= fence
  /\ CommitsInGrantOrder

IInv ==
  /\ TypeOK
  /\ GrantsInv
  /\ HoldersInv
  /\ ReceiptExpiryInv
  /\ ToldExpiryHonoured
  /\ CommitsInv

-------------------------------------------------------------------------------
(* Every step either grants a lease or keeps the grants as they are. *)

\* The stored lease goes on, perhaps for longer, or it is gone because its time
\* was observed or its owner released it.
LeaseKept ==
  \/ /\ active' # NoLease /\ active # NoLease
     /\ SameIdentity(active', active)
     /\ active.expiresAt <= active'.expiresAt
  \/ /\ active' = NoLease
     /\ active # NoLease => \/ active.expiresAt <= timeHigh'
                            \/ releaseReceipts'[active.leaseId] = "released"

\* What an owner hears for the first time is what the snapshot grants.
HeardIsStored ==
  \A l \in known' : \/ l \in known
                    \/ /\ active' # NoLease
                       /\ SameIdentity(active', l)
                       /\ l.expiresAt <= active'.expiresAt

CommitKept ==
  \/ inCommit' = NoCommit
  \/ inCommit' = inCommit /\ active' = active /\ timeHigh' = timeHigh
  \/ /\ active' = active /\ active # NoLease /\ timeHigh' = timeHigh
     /\ inCommit'.lease.token = active.token
     /\ timeHigh <= inCommit'.now

KeepStep ==
  /\ fence' = fence
  /\ issued' = issued
  /\ \A a \in Acquisition : \/ claimReceipts'[a] = claimReceipts[a]
                            \/ ~Acquired(a) /\ ~Acquired(a)'
  /\ \A c \in Renewal : \/ renewReceipts'[c] = renewReceipts[c]
                        \/ renewReceipts'[c].lease = NoLease
                        \/ /\ active' # NoLease
                           /\ renewReceipts'[c].lease = active'
                           /\ active'.leaseId = c[1]
  /\ \A id \in LeaseId : releaseReceipts[id] = "released" => releaseReceipts'[id] = "released"
  /\ timeHigh <= timeHigh'
  /\ LeaseKept
  /\ HeardIsStored
  /\ CommitKept
  /\ \/ commits' = commits
     \/ /\ inCommit # NoCommit /\ active' = active
        /\ commits' = Append(commits, inCommit.lease.token)

GrantStep ==
  \E a \in Acquisition, lease \in Lease :
    /\ ~Acquired(a)
    /\ lease.token = fence + 1
    /\ lease.leaseId \notin issued
    /\ active' = lease
    /\ fence' = fence + 1
    /\ issued' = issued \cup {lease.leaseId}
    /\ claimReceipts' = [claimReceipts EXCEPT ![a] = [status |-> "acquired", lease |-> lease]]
    /\ known' \subseteq known \cup {lease}
    /\ timeHigh <= timeHigh'
    /\ active # NoLease => active.expiresAt <= timeHigh'
    /\ inCommit = NoCommit
    /\ UNCHANGED <<renewReceipts, releaseReceipts, inCommit, commits>>

\* A call that only observes time keeps the stored lease or finds it expired.
LEMMA LiveKept ==
  ASSUME TypeOK, timeHigh' = Now, active' = Live
  PROVE  LeaseKept /\ timeHigh <= timeHigh'
BY NowType, LiveCases DEF LeaseKept, SameIdentity, Lease

\* A claim grants the next token or keeps what is granted.
LEMMA ClaimShape ==
  ASSUME IInv, NEW a \in Acquisition, NEW ttl \in Ttl, Claim(a, ttl)
  PROVE  KeepStep \/ GrantStep
<1> USE DEF IInv
<1>1. TypeOK /\ timeHigh' = Now /\ inCommit = NoCommit /\ inCommit' = NoCommit
  BY DEF Claim, Observe, Unlocked
<1>2. CASE ReplayClaim(a)
  <2>1. LeaseKept /\ timeHigh <= timeHigh'
    BY <1>1, <1>2, LiveKept DEF ReplayClaim
  <2>2. HeardIsStored
    <3>1. CASE claimReceipts[a].status = "acquired" /\ IsCurrent(claimReceipts[a].lease)
      <4> DEFINE lease == claimReceipts[a].lease
      <4>1. known' \subseteq known \cup {lease}
        BY <1>2, <3>1, AnswerAdds DEF ReplayClaim
      <4>2. Live = active /\ active # NoLease /\ SameIdentity(active, lease)
        BY <1>1, <3>1, LiveCases DEF IsCurrent
      <4>3. lease.expiresAt <= active.expiresAt
        BY <3>1, <4>2 DEF ReceiptExpiryInv, Acquired, Stored
      <4>4. active' = active
        BY <1>2, <4>2 DEF ReplayClaim
      <4>5. QED BY <4>1, <4>2, <4>3, <4>4 DEF HeardIsStored
    <3>2. QED BY <1>2, <3>1 DEF ReplayClaim, HeardIsStored
  <2>3. QED BY <1>1, <1>2, <2>1, <2>2 DEF KeepStep, CommitKept, Claim, ReplayClaim
<1>3. CASE RefuseClaim(a)
  <2>1. LeaseKept /\ timeHigh <= timeHigh'
    BY <1>1, <1>3, LiveKept DEF RefuseClaim
  <2>2. \A b \in Acquisition : \/ claimReceipts'[b] = claimReceipts[b]
                               \/ ~Acquired(b) /\ ~Acquired(b)'
    BY <1>1, <1>3 DEF RefuseClaim, Acquired, TypeOK
  <2>3. QED
    BY <1>1, <1>3, <2>1, <2>2 DEF KeepStep, CommitKept, HeardIsStored, Claim, RefuseClaim
<1>4. CASE GrantClaim(a, ttl)
  <2>1. PICK id \in LeaseId \ issued :
          /\ active' = NewLease(a[1], id, ttl)
          /\ issued' = issued \cup {id}
          /\ claimReceipts' = [claimReceipts EXCEPT ![a] =
                [status |-> "acquired", lease |-> NewLease(a[1], id, ttl)]]
          /\ Answer(NewLease(a[1], id, ttl))
    BY <1>4 DEF GrantClaim
  <2> DEFINE lease == NewLease(a[1], id, ttl)
  <2>2. /\ lease \in Lease /\ lease.token = fence + 1 /\ lease.leaseId = id
    BY <1>1, NowType, TtlAssumption DEF NewLease, Lease, TypeOK
  <2>3. known' \subseteq known \cup {lease}
    BY <2>1, AnswerAdds
  <2>4. timeHigh <= timeHigh' /\ (active # NoLease => active.expiresAt <= timeHigh')
    BY <1>1, <1>4, NowType, LiveCases DEF GrantClaim
  <2>5. ~Acquired(a) /\ fence' = fence + 1
    BY <1>4 DEF GrantClaim, Acquired
  <2> HIDE DEF lease
  <2>6. GrantStep
    BY <1>1, <2>1, <2>2, <2>3, <2>4, <2>5 DEF GrantStep, Claim, lease
  <2>7. QED BY <2>6
<1>5. QED BY <1>2, <1>3, <1>4 DEF Claim

\* A renewal keeps what is granted.
LEMMA RenewShape ==
  ASSUME IInv, NEW l \in known, NEW n \in 1 .. MaxRenewals, NEW ttl \in Ttl,
         Renew(l, n, ttl)
  PROVE  KeepStep
<1> DEFINE c == <<l.leaseId, n>>
<1> USE DEF IInv
<1>1. /\ TypeOK /\ inCommit' = NoCommit
      /\ UNCHANGED <<fence, issued, claimReceipts, releaseReceipts, commits>>
  BY DEF Renew, Unlocked
<1>2. l \in Lease /\ c \in Renewal /\ c[1] = l.leaseId
  BY DEF TypeOK, Lease
<1>3. IsCurrent(l) => Live = active /\ active # NoLease /\ SameIdentity(active, l)
  BY <1>1, LiveCases DEF IsCurrent
<1>4. CASE ReplayRenew(l, n)
  <2> DEFINE lease == renewReceipts[c].lease
  <2>1. CASE renewReceipts[c].status = "lost"
    <3>1. UNCHANGED <<timeHigh, active, known, renewReceipts>>
      BY <1>4, <2>1 DEF ReplayRenew
    <3>2. LeaseKept /\ timeHigh <= timeHigh'
      BY <1>1, <3>1 DEF LeaseKept, SameIdentity, TypeOK, Lease
    <3>3. QED BY <1>1, <3>1, <3>2 DEF KeepStep, HeardIsStored, CommitKept
  <2>2. CASE renewReceipts[c].status # "lost"
    <3>1. /\ renewReceipts' = renewReceipts /\ timeHigh' = Now /\ active' = Live
          /\ IF IsCurrent(l) THEN Answer(lease) ELSE UNCHANGED known
      BY <1>4, <2>2 DEF ReplayRenew, Observe
    <3>2. LeaseKept /\ timeHigh <= timeHigh'
      BY <1>1, <3>1, LiveKept
    <3>3. lease \in Lease /\ lease # NoLease
      BY <1>2, <1>4, <2>2, NoLeaseAssumption DEF ReplayRenew, TypeOK, RenewReceipt
    <3>4. ASSUME IsCurrent(l)
          PROVE  SameIdentity(active, lease) /\ lease.expiresAt <= active.expiresAt
      <4>1. Granted(lease) /\ lease.leaseId = l.leaseId
        BY <1>2, <3>3 DEF HoldersInv
      <4>2. Granted(active) /\ active.leaseId = l.leaseId
        BY <1>3, <3>4 DEF HoldersInv, SameIdentity
      <4>3. SameIdentity(active, lease)
        BY <4>1, <4>2 DEF GrantsInv, Granted, SameIdentity
      <4>4. QED BY <1>2, <1>3, <3>3, <3>4, <4>3 DEF ReceiptExpiryInv, Stored
    <3>5. HeardIsStored
      BY <1>3, <3>1, <3>4, AnswerAdds DEF HeardIsStored
    <3>6. QED BY <1>1, <3>1, <3>2, <3>5 DEF KeepStep, CommitKept
  <2>3. QED BY <2>1, <2>2
<1>5. CASE FirstRenew(l, n, ttl)
  <2> DEFINE extended == [Live EXCEPT !.expiresAt = ExtendedExpiry(Live, ttl)]
             lease == IF ~IsCurrent(l) THEN NoLease
                      ELSE IF Regressed THEN Live ELSE extended
             status == IF ~IsCurrent(l) THEN "lost"
                       ELSE IF Regressed THEN "clock-regressed" ELSE "renewed"
  <2>1. /\ renewReceipts' = [renewReceipts EXCEPT ![c] = [status |-> status, lease |-> lease]]
        /\ active' = IF IsCurrent(l) THEN lease ELSE Live
        /\ timeHigh' = Now
        /\ IF IsCurrent(l) THEN Answer(lease) ELSE UNCHANGED known
    BY <1>5 DEF FirstRenew, Observe
  <2>2. timeHigh <= timeHigh'
    BY <1>1, <2>1, NowType
  <2>3. ASSUME IsCurrent(l)
        PROVE  /\ lease \in Lease /\ lease # NoLease
               /\ SameIdentity(lease, active)
               /\ active.expiresAt <= lease.expiresAt
    <3>1. active \in Lease /\ Live = active
      BY <1>1, <1>3, <2>3 DEF TypeOK
    <3>2. CASE Regressed
      BY <2>3, <3>1, <3>2, NoLeaseAssumption DEF SameIdentity, Lease
    <3>3. CASE ~Regressed
      <4>1. lease = [active EXCEPT !.expiresAt = ExtendedExpiry(active, ttl)]
        BY <2>3, <3>1, <3>3
      <4> HIDE DEF lease
      <4>2. QED
        BY <1>1, <3>1, <4>1, ExtendedExpiryGrows, NoLeaseAssumption DEF SameIdentity, Lease
    <3>4. QED BY <3>2, <3>3
  <2>4. ~IsCurrent(l) => lease = NoLease
    OBVIOUS
  <2> HIDE DEF lease, status
  <2>5. LeaseKept
    <3>1. CASE IsCurrent(l)
      BY <1>3, <2>1, <2>3, <3>1 DEF LeaseKept
    <3>2. CASE ~IsCurrent(l)
      BY <1>1, <2>1, <3>2, LiveKept
    <3>3. QED BY <3>1, <3>2
  <2>6. HeardIsStored
    <3>1. CASE IsCurrent(l)
      <4>1. known' \subseteq known \cup {lease} /\ active' = lease
        BY <2>1, <3>1, AnswerAdds
      <4>2. QED BY <2>3, <3>1, <4>1 DEF HeardIsStored, SameIdentity, Lease
    <3>2. QED BY <2>1, <3>1 DEF HeardIsStored
  <2>7. \A d \in Renewal : \/ renewReceipts'[d] = renewReceipts[d]
                           \/ renewReceipts'[d].lease = NoLease
                           \/ /\ active' # NoLease
                              /\ renewReceipts'[d].lease = active'
                              /\ active'.leaseId = d[1]
    <3> SUFFICES ASSUME NEW d \in Renewal
                 PROVE  \/ renewReceipts'[d] = renewReceipts[d]
                        \/ renewReceipts'[d].lease = NoLease
                        \/ /\ active' # NoLease
                           /\ renewReceipts'[d].lease = active'
                           /\ active'.leaseId = d[1]
      OBVIOUS
    <3>1. CASE d # c
      BY <1>1, <2>1, <3>1 DEF TypeOK
    <3>2. CASE d = c
      <4>1. renewReceipts'[d].lease = lease
        BY <1>1, <2>1, <3>2 DEF TypeOK
      <4>2. CASE ~IsCurrent(l)
        BY <2>4, <4>1, <4>2
      <4>3. CASE IsCurrent(l)
        <5>1. active' = lease /\ lease # NoLease /\ lease.leaseId = l.leaseId
          BY <1>3, <2>1, <2>3, <4>3 DEF SameIdentity
        <5>2. QED BY <1>2, <3>2, <4>1, <5>1
      <4>4. QED BY <4>2, <4>3
    <3>3. QED BY <3>1, <3>2
  <2>8. QED BY <1>1, <2>2, <2>5, <2>6, <2>7 DEF KeepStep, CommitKept
<1>6. QED BY <1>4, <1>5 DEF Renew

\* So does a release.
LEMMA ReleaseShape ==
  ASSUME IInv, NEW l \in known, Release(l)
  PROVE  KeepStep
<1>1. TypeOK /\ l \in Lease /\ l.leaseId \in LeaseId
  BY DEF IInv, TypeOK, Lease
<1>2. /\ inCommit' = NoCommit /\ timeHigh' = Now
      /\ active' = IF IsCurrent(l) THEN NoLease ELSE Live
      /\ releaseReceipts[l.leaseId] = "none"
      /\ releaseReceipts' = [releaseReceipts EXCEPT ![l.leaseId] =
                                IF IsCurrent(l) THEN "released" ELSE "lost"]
      /\ UNCHANGED <<fence, issued, claimReceipts, renewReceipts, known, commits>>
  BY DEF Release, Observe, Unlocked
<1>3. LeaseKept /\ timeHigh <= timeHigh'
  <2>1. CASE IsCurrent(l)
    <3>1. active # NoLease /\ active.leaseId = l.leaseId
      BY <1>1, <2>1, LiveCases DEF IsCurrent, SameIdentity
    <3>2. releaseReceipts'[l.leaseId] = "released"
      BY <1>1, <1>2, <2>1 DEF TypeOK
    <3>3. QED BY <1>1, <1>2, <2>1, <3>1, <3>2, NowType DEF LeaseKept
  <2>2. CASE ~IsCurrent(l)
    BY <1>1, <1>2, <2>2, LiveKept
  <2>3. QED BY <2>1, <2>2
<1>4. \A id \in LeaseId : releaseReceipts[id] = "released" => releaseReceipts'[id] = "released"
  BY <1>1, <1>2 DEF TypeOK
<1>5. QED BY <1>2, <1>3, <1>4 DEF KeepStep, HeardIsStored, CommitKept

\* The steps that touch neither receipts nor grants.
LEMMA OtherShape ==
  ASSUME IInv,
         \/ Verify
         \/ \E l \in known : RunIfCurrent(l) \/ RunIfFencingTokenCurrent(l)
         \/ Operation \/ EndCommit \/ CrashInCommit \/ SetClock \/ UNCHANGED vars
  PROVE  KeepStep
<1>1. TypeOK /\ HoldersInv
  BY DEF IInv
<1>2. CASE Verify
  <2>1. LeaseKept /\ timeHigh <= timeHigh'
    BY <1>1, <1>2, LiveKept DEF Verify, Observe
  <2>2. QED BY <1>2, <2>1 DEF KeepStep, HeardIsStored, CommitKept, Verify, Unlocked
<1>3. ASSUME active' = active, timeHigh' = timeHigh
      PROVE  LeaseKept /\ timeHigh <= timeHigh'
  BY <1>1, <1>3 DEF LeaseKept, SameIdentity, TypeOK, Lease
<1>4. ASSUME NEW l \in known, RunIfCurrent(l) \/ RunIfFencingTokenCurrent(l)
      PROVE  KeepStep
  <2>1. UNCHANGED <<clock, snapshot, known, commits>> /\ inCommit' = [lease |-> l, now |-> Now]
    BY <1>4 DEF RunIfCurrent, RunIfFencingTokenCurrent
  <2>2. active # NoLease /\ active.token = l.token
    BY <1>1, <1>4, LiveCases DEF RunIfCurrent, RunIfFencingTokenCurrent, IsCurrent, SameIdentity
  <2>3. timeHigh <= inCommit'.now
    BY <1>1, <2>1, NowType
  <2>4. QED BY <1>3, <2>1, <2>2, <2>3 DEF KeepStep, HeardIsStored, CommitKept, snapshot
<1>5. CASE Operation
  BY <1>3, <1>5 DEF KeepStep, HeardIsStored, CommitKept, Operation, snapshot
<1>6. CASE EndCommit
  <2>1. timeHigh' = inCommit.now /\ timeHigh <= timeHigh' /\ active' = active /\ active # NoLease
    BY <1>1, <1>6 DEF EndCommit, HoldersInv
  <2>2. LeaseKept
    BY <1>1, <2>1 DEF LeaseKept, SameIdentity, TypeOK, Lease
  <2>3. QED BY <1>6, <2>1, <2>2 DEF KeepStep, HeardIsStored, CommitKept, EndCommit
<1>7. CASE CrashInCommit \/ SetClock \/ UNCHANGED vars
  BY <1>3, <1>7 DEF KeepStep, HeardIsStored, CommitKept, CrashInCommit, SetClock, vars, snapshot
<1>8. QED BY <1>2, <1>4, <1>5, <1>6, <1>7

\* So every step is of one of the two kinds.
LEMMA StepShape ==
  ASSUME IInv, [Next]_vars
  PROVE  KeepStep \/ GrantStep
BY ClaimShape, RenewShape, ReleaseShape, OtherShape DEF Next

-------------------------------------------------------------------------------
(* The inductive invariant is preserved by both kinds of step. *)

\* What was granted stays granted while nothing is granted anew.
LEMMA GrantedKept ==
  ASSUME IInv, KeepStep, NEW l, Granted(l)
  PROVE  Granted(l)'
BY DEF Granted, KeepStep, Acquired, SameIdentity

\* A step that grants nothing keeps the inductive invariant.
LEMMA KeepPreserves ==
  ASSUME IInv, TypeOK', KeepStep
  PROVE  IInv'
<1> USE DEF IInv
<1>1. GrantsInv'
  BY DEF GrantsInv, KeepStep, Acquired
<1>2. active' # NoLease => active # NoLease /\ SameIdentity(active', active)
  BY DEF KeepStep, LeaseKept
<1>3. active' # NoLease => Granted(active)' /\ active'.token = fence'
  <2>1. ASSUME active' # NoLease PROVE Granted(active)'
    BY <1>2, <2>1, GrantedKept DEF HoldersInv, Granted, SameIdentity
  <2>2. QED BY <1>2, <2>1 DEF HoldersInv, KeepStep, SameIdentity
<1>4. HoldersInv'
  <2>1. \A l \in known' : Granted(l)'
    BY <1>3, GrantedKept DEF HoldersInv, KeepStep, HeardIsStored, Granted, SameIdentity
  <2>2. ASSUME NEW c \in Renewal, renewReceipts'[c].lease # NoLease
        PROVE  Granted(renewReceipts[c].lease)' /\ renewReceipts'[c].lease.leaseId = c[1]
    <3>1. CASE renewReceipts'[c] = renewReceipts[c]
      <4>1. Granted(renewReceipts[c].lease) /\ renewReceipts[c].lease.leaseId = c[1]
        BY <2>2, <3>1 DEF HoldersInv
      <4>2. QED BY <3>1, <4>1, GrantedKept DEF Granted, KeepStep, Acquired
    <3>2. CASE /\ active' # NoLease
               /\ renewReceipts'[c].lease = active'
               /\ active'.leaseId = c[1]
      BY <1>3, <3>2 DEF Granted
    <3>3. QED BY <2>2, <3>1, <3>2 DEF KeepStep
  <2>3. inCommit' # NoCommit => /\ active' # NoLease
                                /\ inCommit'.lease.token = active'.token
                                /\ timeHigh' <= inCommit'.now
    BY DEF HoldersInv, KeepStep, CommitKept
  <2>4. QED BY <1>3, <2>1, <2>2, <2>3 DEF HoldersInv
<1>5. ASSUME active' # NoLease, NEW l, SameIdentity(active', l)
      PROVE  SameIdentity(active, l) /\ active.expiresAt <= active'.expiresAt
  BY <1>2, <1>5 DEF KeepStep, LeaseKept, SameIdentity
<1>6. /\ active # NoLease => active.expiresAt \in Nat
      /\ active' # NoLease => active'.expiresAt \in Nat
  BY DEF TypeOK, Lease
<1>7. ReceiptExpiryInv'
  <2>1. ASSUME NEW a \in Acquisition, Acquired(a)', Stored(claimReceipts[a].lease)'
        PROVE  claimReceipts'[a].lease.expiresAt <= active'.expiresAt
    <3>1. claimReceipts'[a] = claimReceipts[a] /\ Acquired(a)
      BY <2>1 DEF KeepStep, Acquired
    <3>2. claimReceipts[a].lease.expiresAt \in Nat
      BY <3>1 DEF TypeOK, ClaimReceipt, Acquired, Lease
    <3>3. QED BY <1>2, <1>5, <1>6, <2>1, <3>1, <3>2 DEF ReceiptExpiryInv, Stored
  <2>2. ASSUME NEW c \in Renewal, renewReceipts'[c].lease # NoLease,
               Stored(renewReceipts[c].lease)'
        PROVE  renewReceipts'[c].lease.expiresAt <= active'.expiresAt
    <3>1. CASE renewReceipts'[c] = renewReceipts[c]
      <4>1. renewReceipts[c].lease.expiresAt \in Nat
        BY <2>2, <3>1 DEF TypeOK, RenewReceipt, Lease
      <4>2. QED BY <1>2, <1>5, <1>6, <2>2, <3>1, <4>1 DEF ReceiptExpiryInv, Stored
    <3>2. CASE renewReceipts'[c].lease = active'
      BY <1>6, <2>2, <3>2 DEF Stored
    <3>3. QED BY <2>2, <3>1, <3>2 DEF KeepStep
  <2>3. QED BY <2>1, <2>2 DEF ReceiptExpiryInv
<1>8. ToldExpiryHonoured'
  <2> SUFFICES ASSUME NEW l \in known'
               PROVE  \/ Stored(l)' /\ l.expiresAt <= active'.expiresAt
                      \/ l.expiresAt <= timeHigh'
                      \/ releaseReceipts'[l.leaseId] = "released"
    BY DEF ToldExpiryHonoured
  <2>1. l \in Lease /\ l.expiresAt \in Nat /\ l.leaseId \in LeaseId
    BY DEF TypeOK, Lease
  <2>2. timeHigh \in Nat /\ timeHigh' \in Nat /\ timeHigh <= timeHigh'
    BY DEF TypeOK, KeepStep
  <2>3. CASE l \notin known
    BY <2>3 DEF KeepStep, HeardIsStored, Stored
  <2>4. CASE l \in known /\ Stored(l) /\ l.expiresAt <= active.expiresAt
    <3>1. CASE active' # NoLease
      BY <1>6, <2>1, <2>4, <3>1 DEF KeepStep, LeaseKept, Stored, SameIdentity
    <3>2. CASE active' = NoLease
      <4>1. active # NoLease /\ active.leaseId = l.leaseId
        BY <2>4 DEF Stored, SameIdentity
      <4>2. \/ active.expiresAt <= timeHigh'
            \/ releaseReceipts'[active.leaseId] = "released"
        BY <3>2, <4>1 DEF KeepStep, LeaseKept
      <4>3. QED BY <1>6, <2>1, <2>2, <2>4, <4>1, <4>2
    <3>3. QED BY <3>1, <3>2
  <2>5. CASE l \in known /\ l.expiresAt <= timeHigh
    BY <2>1, <2>2, <2>5
  <2>6. CASE l \in known /\ releaseReceipts[l.leaseId] = "released"
    BY <2>1, <2>6 DEF KeepStep
  <2>7. QED BY <2>3, <2>4, <2>5, <2>6 DEF ToldExpiryHonoured
<1>9. CommitsInv'
  <2>1. CASE commits' = commits
    BY <2>1 DEF CommitsInv, CommitsInGrantOrder, KeepStep
  <2>2. CASE inCommit # NoCommit /\ commits' = Append(commits, inCommit.lease.token)
    <3>1. inCommit.lease.token = fence /\ fence \in Nat /\ fence' = fence
      BY <2>2 DEF HoldersInv, TypeOK, KeepStep
    <3>2. commits \in Seq(Nat) /\ commits' = Append(commits, fence)
      BY <2>2, <3>1 DEF TypeOK
    <3>3. DOMAIN commits' = 1 .. Len(commits) + 1
      BY <3>1, <3>2
    <3>4. \A i \in DOMAIN commits' :
            commits'[i] = IF i = Len(commits) + 1 THEN fence ELSE commits[i]
      BY <3>1, <3>2
    <3>5. \A i \in DOMAIN commits : commits[i] \in Nat
      BY <3>2
    <3>6. QED
      BY <3>1, <3>2, <3>3, <3>4, <3>5 DEF CommitsInv, CommitsInGrantOrder
  <2>3. QED BY <2>1, <2>2 DEF KeepStep
<1>10. QED BY <1>1, <1>4, <1>7, <1>8, <1>9

\* So does a step that grants the next token.
LEMMA GrantPreserves ==
  ASSUME IInv, TypeOK', GrantStep
  PROVE  IInv'
<1> USE DEF IInv
<1>1. PICK a \in Acquisition, lease \in Lease :
        /\ ~Acquired(a)
        /\ lease.token = fence + 1
        /\ lease.leaseId \notin issued
        /\ active' = lease
        /\ fence' = fence + 1
        /\ issued' = issued \cup {lease.leaseId}
        /\ claimReceipts' = [claimReceipts EXCEPT ![a] = [status |-> "acquired", lease |-> lease]]
        /\ known' \subseteq known \cup {lease}
        /\ timeHigh <= timeHigh'
        /\ active # NoLease => active.expiresAt <= timeHigh'
        /\ inCommit = NoCommit
        /\ UNCHANGED <<renewReceipts, releaseReceipts, inCommit, commits>>
  BY DEF GrantStep
<1>2. lease # NoLease /\ lease.token \in Nat /\ lease.expiresAt \in Nat /\ fence \in Nat
  BY NoLeaseAssumption DEF TypeOK, Lease
<1>3. \A b \in Acquisition :
        /\ b = a => claimReceipts'[b] = [status |-> "acquired", lease |-> lease]
        /\ b # a => claimReceipts'[b] = claimReceipts[b]
  BY <1>1 DEF TypeOK
<1>4. \A b \in Acquisition : Acquired(b) =>
        /\ claimReceipts[b].lease \in Lease
        /\ claimReceipts[b].lease.token \in Nat \ {0}
        /\ claimReceipts[b].lease.token <= fence
        /\ claimReceipts[b].lease.leaseId \in issued
  BY DEF TypeOK, ClaimReceipt, Acquired, GrantsInv, Lease
<1>5. GrantsInv'
  <2>1. \A b \in Acquisition : Acquired(b)' =>
          /\ claimReceipts'[b].lease.token # 0
          /\ claimReceipts'[b].lease.token <= fence'
          /\ claimReceipts'[b].lease.leaseId \in issued'
    BY <1>1, <1>2, <1>3, <1>4 DEF Acquired
  <2>2. ASSUME NEW b \in Acquisition, NEW d \in Acquisition, Acquired(b)', Acquired(d)',
               \/ claimReceipts'[b].lease.token = claimReceipts'[d].lease.token
               \/ claimReceipts'[b].lease.leaseId = claimReceipts'[d].lease.leaseId
        PROVE  b = d
    <3>1. CASE b # a /\ d # a
      BY <1>3, <2>2, <3>1 DEF GrantsInv, Acquired
    <3>2. CASE b = a /\ d # a
      BY <1>1, <1>2, <1>3, <1>4, <2>2, <3>2 DEF Acquired
    <3>3. CASE b # a /\ d = a
      BY <1>1, <1>2, <1>3, <1>4, <2>2, <3>3 DEF Acquired
    <3>4. QED BY <3>1, <3>2, <3>3
  <2>3. QED BY <2>1, <2>2 DEF GrantsInv
<1>6. ASSUME NEW l, Granted(l)
      PROVE  Granted(l)' /\ ~SameIdentity(lease, l)
  BY <1>1, <1>2, <1>3, <1>4, <1>6 DEF Granted, Acquired, SameIdentity
<1>7. Granted(lease)'
  BY <1>1, <1>3 DEF Granted, Acquired, SameIdentity
<1>8. HoldersInv'
  <2>1. \A l \in known' : Granted(l)'
    BY <1>1, <1>6, <1>7 DEF HoldersInv
  <2>2. ASSUME NEW c \in Renewal, renewReceipts'[c].lease # NoLease
        PROVE  Granted(renewReceipts[c].lease)' /\ renewReceipts'[c].lease.leaseId = c[1]
    <3>1. Granted(renewReceipts[c].lease) /\ renewReceipts[c].lease.leaseId = c[1]
      BY <1>1, <2>2 DEF HoldersInv
    <3>2. QED BY <1>1, <1>6, <3>1 DEF Granted, Acquired
  <2>3. QED BY <1>1, <1>2, <1>7, <2>1, <2>2 DEF HoldersInv, Granted, Acquired
<1>9. ReceiptExpiryInv'
  <2>1. ASSUME NEW b \in Acquisition, Acquired(b)', Stored(claimReceipts[b].lease)'
        PROVE  claimReceipts'[b].lease.expiresAt <= active'.expiresAt
    <3>1. CASE b = a
      BY <1>1, <1>2, <1>3, <3>1
    <3>2. CASE b # a
      BY <1>1, <1>2, <1>3, <1>4, <2>1, <3>2 DEF Stored, SameIdentity, Acquired
    <3>3. QED BY <3>1, <3>2
  <2>2. ASSUME NEW c \in Renewal, renewReceipts'[c].lease # NoLease,
               Stored(renewReceipts[c].lease)'
        PROVE  renewReceipts'[c].lease.expiresAt <= active'.expiresAt
    <3>1. Granted(renewReceipts[c].lease) /\ SameIdentity(lease, renewReceipts[c].lease)
      BY <1>1, <2>2 DEF HoldersInv, Stored
    <3>2. QED BY <1>6, <3>1
  <2>3. QED BY <2>1, <2>2 DEF ReceiptExpiryInv
<1>10. ToldExpiryHonoured'
  <2> SUFFICES ASSUME NEW l \in known'
               PROVE  \/ Stored(l)' /\ l.expiresAt <= active'.expiresAt
                      \/ l.expiresAt <= timeHigh'
                      \/ releaseReceipts'[l.leaseId] = "released"
    BY DEF ToldExpiryHonoured
  <2>1. CASE l = lease
    BY <1>1, <1>2, <2>1 DEF Stored, SameIdentity
  <2>2. CASE l \in known
    <3>1. l.expiresAt \in Nat /\ timeHigh \in Nat /\ timeHigh' \in Nat
      BY <2>2 DEF TypeOK, Lease
    <3>2. active # NoLease => active.expiresAt \in Nat
      BY DEF TypeOK, Lease
    <3>3. QED BY <1>1, <2>2, <3>1, <3>2 DEF ToldExpiryHonoured, Stored
  <2>3. QED BY <1>1, <2>1, <2>2
<1>11. CommitsInv'
  <2>1. \A i \in DOMAIN commits : commits[i] \in Nat
    BY DEF TypeOK
  <2>2. QED BY <1>1, <1>2, <2>1 DEF CommitsInv, CommitsInGrantOrder
<1>12. QED BY <1>5, <1>8, <1>9, <1>10, <1>11

\* The inductive invariant holds initially,
LEMMA InitIInv == Init => IInv
<1> SUFFICES ASSUME Init PROVE IInv
  OBVIOUS
<1>1. \A a \in Acquisition : ~Acquired(a)
  BY DEF Init, Acquired, NoReceipt
<1>2. \A c \in Renewal : renewReceipts[c].lease = NoLease
  BY DEF Init, NoReceipt
<1>3. TypeOK
  BY InitType
<1>4. CommitsInv
  BY DEF Init, CommitsInv, CommitsInGrantOrder
<1>5. QED
  BY <1>1, <1>2, <1>3, <1>4
  DEF Init, IInv, GrantsInv, HoldersInv, ReceiptExpiryInv, ToldExpiryHonoured

\* every step keeps it,
LEMMA NextIInv == IInv /\ [Next]_vars => IInv'
BY StepShape, KeepPreserves, GrantPreserves, NextType DEF IInv

\* and so it always holds.
LEMMA Inductive == Spec => []IInv
BY InitIInv, NextIInv, PTL DEF Spec

-------------------------------------------------------------------------------
(* The theorems *)

\* Commits appear in the order of the grants (runIfCurrent and
\* runIfFencingTokenCurrent fence every predecessor).
THEOREM CommitOrder == Spec => []CommitsInGrantOrder
<1>1. IInv => CommitsInGrantOrder
  BY DEF IInv, CommitsInv
<1>2. QED BY <1>1, Inductive, PTL

\* A fencing token names one acquisition and one identity (claimNow).
THEOREM TokenUniqueness == Spec => []TokensIdentifyLeases
<1>1. IInv => TokensIdentifyLeases
  BY DEF IInv, HoldersInv, GrantsInv, TokensIdentifyLeases, Granted, Acquired, SameIdentity
<1>2. QED BY <1>1, Inductive, PTL

\* An owner keeps its lease for as long as it was told (claimNow, renewNow).
THEOREM ExpiryHonoured == Spec => []ToldExpiryHonoured
<1>1. IInv => ToldExpiryHonoured
  BY DEF IInv
<1>2. QED BY <1>1, Inductive, PTL

\* A lease that left the snapshot never returns (renewNow, claimNow replays).
THEOREM LostStaysLost == Spec => NoResurrection
<1>1. IInv /\ [Next]_vars => [\A l \in known : ~Stored(l) => ~Stored(l)']_vars
  <2> SUFFICES ASSUME IInv, [Next]_vars, NEW l \in known, ~Stored(l)
               PROVE  ~Stored(l)'
    OBVIOUS
  <2>1. CASE KeepStep
    BY <2>1 DEF KeepStep, LeaseKept, Stored, SameIdentity
  <2>2. CASE GrantStep
    <3>1. PICK b \in Acquisition : Acquired(b) /\ SameIdentity(claimReceipts[b].lease, l)
      BY DEF IInv, HoldersInv, Granted
    <3>2. l.token \in Nat /\ l.token <= fence /\ fence \in Nat
      BY <3>1 DEF IInv, GrantsInv, TypeOK, Lease, SameIdentity
    <3>3. active'.token = fence + 1
      BY <2>2 DEF GrantStep
    <3>4. QED BY <3>2, <3>3 DEF Stored, SameIdentity
  <2>3. QED BY <2>1, <2>2, StepShape
<1>2. QED BY <1>1, Inductive, PTL DEF Spec, NoResurrection

\* The store implements FencedCommits: a step either grants, retires the grant,
\* commits under it, or changes nothing the abstract specification sees.
THEOREM Implements == Spec => ImplementsFencedCommits
<1> DEFINE current == IF active = NoLease THEN 0 ELSE active.token
<1>1. Init => Fenced!Init
  BY DEF Init, Fenced!Init
<1>2. IInv /\ [Next]_vars => [Fenced!Next]_Fenced!vars
  <2> SUFFICES ASSUME IInv, [Next]_vars
               PROVE  [Fenced!Next]_Fenced!vars
    OBVIOUS
  <2>1. CASE GrantStep
    <3>1. PICK lease \in Lease : /\ lease.token = fence + 1 /\ active' = lease
                                /\ fence' = fence + 1 /\ commits' = commits
      BY <2>1 DEF GrantStep
    <3>2. current' = fence + 1
      BY <3>1, NoLeaseAssumption
    <3>3. QED BY <3>1, <3>2 DEF Fenced!Next, Fenced!Grant
  <2>2. CASE KeepStep
    <3>1. active # NoLease => active.token \in Nat /\ current = fence
      BY DEF IInv, TypeOK, Lease, HoldersInv
    <3>2. fence' = fence
      BY <2>2 DEF KeepStep
    <3>3. active' # NoLease => active # NoLease /\ current' = current
      BY <2>2 DEF KeepStep, LeaseKept, SameIdentity
    <3>4. CASE commits' = commits
      <4>1. CASE current' = current
        BY <3>2, <3>4, <4>1 DEF Fenced!vars
      <4>2. CASE current' # current
        <5>1. active' = NoLease /\ active # NoLease /\ current' = 0 /\ current # 0
          BY <3>3, <4>2
        <5>2. QED BY <3>2, <3>4, <5>1 DEF Fenced!Next, Fenced!Retire
      <4>3. QED BY <4>1, <4>2
    <3>5. CASE /\ inCommit # NoCommit /\ active' = active
               /\ commits' = Append(commits, inCommit.lease.token)
      <4>1. active # NoLease /\ current = inCommit.lease.token /\ current' = current
        BY <3>5 DEF IInv, HoldersInv
      <4>2. current # 0
        <5>1. PICK b \in Acquisition : Acquired(b) /\ SameIdentity(claimReceipts[b].lease, active)
          BY <4>1 DEF IInv, HoldersInv, Granted
        <5>2. QED BY <4>1, <5>1 DEF IInv, GrantsInv, SameIdentity
      <4>3. QED BY <3>2, <3>5, <4>1, <4>2 DEF Fenced!Next, Fenced!Commit
    <3>6. QED BY <2>2, <3>4, <3>5 DEF KeepStep
  <2>3. QED BY <2>1, <2>2, StepShape
<1>3. QED BY <1>1, <1>2, Inductive, PTL DEF Spec, ImplementsFencedCommits, Fenced!Spec
===============================================================================
