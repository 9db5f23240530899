# Formal models of Nausicaa

Nausicaa is a TypeScript harness that runs several agent lanes on one durable
Run. What it promises is mostly about durability and exclusivity: one writer per
ledger, one host per Run, one lane per message, nothing acknowledged is lost,
nothing is done twice, whatever fails or is repeated. These are the promises
this directory states in TLA+, checks with TLC on small instances, and proves
with TLAPS for all instances where the prover reaches.

Paths below are relative to the repository; `src/…` is its implementation
directory. `PROJECT.json` maps every definition to the lines it stands for.

## The system and its parts

| Part | State | Operations | What makes it correct |
| --- | --- | --- | --- |
| Execution lease store (`src/runtime/file-execution-lease.ts`, `execution-lease.ts`) | a snapshot file per Run: active lease, fencing watermark, time watermark, receipts | claim, renew, release, verify, runIfCurrent, runIfFencingTokenCurrent | one holder; commits in the order of grants; repeated calls answer the same and revive nothing |
| Hard-link locks (same file, `src/ledger/jsonl.ts`) | a lock file linked from a claim file | acquire, release, removal of a dead owner's lock | no two live processes hold the lock; a dead owner does not block |
| JSONL ledger (`src/ledger/jsonl.ts`, `ledger.ts`) | an append-only file, an in-memory projection | open, append, read, flush, close | readable after any crash; a key once; acknowledged is durable; what a repetition was answered with stays, unless it is in doubt |
| A2A inbox (`src/a2a/inbox.ts`) | messages, claims, receipts, as a projection of ledger events | send, claim, reclaim, handle, acknowledge, rehydrate | accepted once; held by one lane; rebuilt exactly |
| Lane mailbox and step loop (`src/runtime/lane-mailbox.ts`, `main-loop.ts`) | committed message ids, the boundary of the step | beforeStep, afterStep, repair | a message is in one durable step, and in one eventually, also when its receipt is refused |
| Run token budget (`src/runtime/run-token-budget.ts`, `run-token-budget-recovery.ts`) | reservations and settlements, nested by lane | reserve, settle, reconcile, cancel, recover | usage counts once in every budget of a call; tokens return; limits hold |
| Daemon host (`src/runtime/daemon-host.ts`) | pending Runs and wakes, activations, retry timers | enqueue, activate, retry, renew, stop | an admitted wake is not lost; authority ends with the lease |
| Worker process and supervisor (`src/runtime/daemon-worker-server.ts`, `daemon-runtime.ts`, `daemon-supervisor.ts`, `daemon-control.ts`, `daemon-service.ts`) | requests in flight, process handles | start, commit under fence, drain, restart | a replaced worker commits nothing |
| Leased background jobs (`src/runtime/leased-background-job.ts`) | a lease and its renewal loop | run | a result is published under a current lease only |
| Cross-run routing (`src/a2a/cross-run-*.ts`) | outbox facts in the source ledger, messages in the target's | send, admit, deliver, recover | both ledgers agree in the end; one admission per request |
| Task dispatch and worker lanes (`src/runtime/task-dispatcher.ts`, `worker-lane-scheduler.ts`, `worker-task-executor.ts`, `src/ledger/task-graph.ts`) | activations, wake-up timers, tasks | dispatch, enqueue, run once, terminal | outstanding limits; an admitted task is picked up |
| Teams (`src/runtime/team-*.ts`) | wait edges, boundaries, board | send, wait, report | no circular waits; a wait ends |
| Session controller (`src/runtime/session-controller.ts`, `run-runtime.ts`) | pending inputs, the active turn and its execution, the admission chain | attach, submit, withdraw, replace, promote, resume, cancel, close | one turn at a time; what blocks is heeded; cancel and close end and account for every tool |
| Tool operations and recovery (`src/runtime/recovery.ts`, `tool-operation-recovery.ts`, `main-loop.ts`, `src/mowe/executor.ts`) | tool events of the ledger | request, admit, start, call, finish, resolve | a tool that may have run is not recorded as never run, nor passed over |
| Compaction (`src/fukai/`) | attempts and their terminals | execute, recover | one outcome and one charge per attempt |
| Process jobs (`src/tools/process-jobs.ts`) | job records, registry snapshots | start, stop, close, prune | nothing outlives close; limits hold |
| Others | | | artifact store and gc, model retries, tool executor and edges, advisory schedulers, session registry, validation, CLI, configuration, authentication, observability |

They interact by calls and through two shared media. The *ledger* of a Run is
the only durable truth: inbox, mailbox, task graph, tool operations and budgets
are projections of its events and change by appending to it. The *lease* decides
which host process may append: a host claims the Run, opens its ledger under the
writer lock, and every terminal fact of a worker is committed under the fencing
token of the host's lease. Inside a process everything is single-threaded, so
the interleavings are those at an `await` and those between processes.

The hard behaviours are: processes that die between two events or inside a
fenced operation; answers that are lost and commands that are repeated; leases
and claims that expire under a slow holder; a clock that is set back; file
system calls of several processes between two of which anything may happen;
writes that fail half way; machines that lose power. `PROJECT.json` lists them
under `hazards`, each at the line where it bites and with the properties that
catch it.

## Modules

```
FencedCommits  <=(implements)=  ExecutionLease          HardLinkLock
DurableLog     <=(implements)=  JsonlLedger             (exclusion assumed by the two on the left)
DeliveryQueue  <=(implements)=  Inbox
DeliveryQueue  <-(INSTANCE)---  LaneMailbox             RunTokenBudget
DaemonHost (over a lease as ExecutionLease grants it)   SessionTurns (over a ledger as JsonlLedger keeps it)
```

**ExecutionLease** models both stores; they share their rules and the file store
adds the lock and the snapshot. One action per call: `Claim`, `Renew`, `Release`,
`Verify`, `RunIfCurrent`, `RunIfFencingTokenCurrent`. Every call takes the file
lock, advances the time watermark, drops an expired lease and rewrites the
snapshot by a rename, so it is one step. A fenced commit is three: the check
(`RunIfCurrent`), the caller's durable effect (`Operation`) and the write of the
snapshot (`EndCommit`), because the caller's operation runs while the lock is
held and the process may die there (`CrashInCommit`). The answer of a call may
be lost: `Answer` leaves `known`, what owners have been told, as it was. Nobody
forgets a lease it was told of, so every action of an owner that has long lost
its lease is among the behaviours.

**HardLinkLock** models `acquireLeaseLock`, `acquireWriterLock` and their
releases with one action per file system call. `WaitForLive` selects the lease's
form, which waits for a live owner, or the ledger's, which gives up. A lock file
is identified with the process that wrote it, which suffices because only locks
of dead owners are compared, and the dead write no more.

**JsonlLedger** models the file as a sequence of complete lines and a flag for a
torn tail, the prefix the disk is known to have, and the in-memory events. An
append is `AppendNew` (the checks), `WriteAll` or `WriteFails`, `Sync` or
`SyncFails`; `Crash` and `PowerLoss` may come between any two. A line written
behind a torn tail becomes `Damaged`, which is what the bytes would read as.
`Recorded` is the idempotency rule of `LedgerState.prepare`; a request under a known
key resolves with the earlier record and syncs nothing (`AppendDuplicate`). The file
is synced by `Sync`, by `Flush`, by a `Close` whose ledger has not failed, and by an
`Open` that had a tail to cut off, and by nothing else. Two histories tell apart what
callers were given: `resolved` is what appends resolved with, their own record or
an earlier one; `doubted` are the records whose append failed or was cut off before
its sync had succeeded, and behind which no sync has succeeded since. A sync that
succeeds is taken to write everything, also what a failed one left behind. The rest
of the state's validation rejects commands before anything changes, and is left out,
and so is an open that fails half way: it closes the file it has perhaps cut.

**Inbox** models the message events of the ledger, the projector
(`ApplySent`, `ApplyClaimed`, …) and the commands, which decide on the projection
and append one or several events, found again by idempotency key (`Key`,
`SameCommand`). `Stop` may come before or after any append; `Restart` rehydrates.
Which claimable messages a caller's filter admits, and in which order, is left
open. A claim id is not used again once its message was reclaimed; the callers
generate theirs or never reclaim.

**LaneMailbox** composes the mailbox and the step loop with `DeliveryQueue`, the
specification `Inbox` implements. `BeginStep`, `Repair`, `Choose` and `ClaimNext`
are `beforeStep`; `Run`, `Complete` and `FailStep` are the loop around it;
`AfterStep` and `Repair` again are `afterStep`. A repair tries each committed id once
(`todo`, from `ToRepair`): the message has been handled, or it is handled now, or its
receipt is refused, and then the id is kept and the repair goes on with the next
one. So a step may choose its messages while others of a durable step are still
claimed, and their claims may lapse; the filter in `Candidate` keeps them out. A
claim that cannot be appended (`ClaimFails`) fails the step, or the host's scheduler
catches the error and the step runs without messages. A crash leaves the inbox and the
completed steps, from which `projectCommittedBoundaryMessageIds` restores the
committed set (`Projected`), and so does a new activation, which has a mailbox of its own
(`NewMailbox`). Claims lapse at any time, which covers every `claimLeaseMs`. Left out are
an aborted signal, after which the mailbox offers nothing, and an old mailbox that
still repairs while the next activation of its lane has begun.

**RunTokenBudget** models the nested budgets of a Run and the model calls they
admit. A budget's methods are `Admits`, `SettleBudgets`, `CancelBudgets` and
`ReconcileBudgets`; being synchronous each acts in one step on the budget and all
above it. Around them is the life of a call as each kind of lane conducts it:
the main loop and workers charge and then settle, and drop the reservation when
an answered call cannot be charged (`ChargeFails`); advisory passes settle
first when their answer is rejected, and repeat a failed charge (`SettleRejected`,
`RetryCharge`); compactions write their terminal before the charge, and an attempt
found with only a terminal is charged later (`Terminate`, `RecoverAttempt`,
`Reconcile`). The ledger is reduced to the two events that name a call's usage
and to whether it still takes appends, which is what `JsonlLedger` shows of a
failed write. `Reopen` builds a lane's budget anew below a parent that goes on,
`Restart` builds all. What a budget has used is kept by call, so that a double
count has a name; the code keeps the sums. Calls number their own attempts, so a
reservation id is used once; the method's refusals of a repeated id with another
size or usage are left out, and so are the ratio gate of advisory passes and sums
beyond safe integers. What a lane may ask for is any size between one output
token and the full request, which covers the per-turn allowance.

**DaemonHost** models `DaemonHost`. The host is one thread, and its methods
interleave at their awaits, so an action is the code between two of them: the
admission of a wake (`WakeUp`, then `Admitted` with `EnqueueWake` or `ParkWake`),
the pass over the queue (`Pump`, which takes Runs off it as long as there are
places: `Takes`, `Launch`), the claim and its answers (`ClaimAcquired`,
`ClaimHeld`, `ClaimRefused`, `ClaimThrows`), the verification, the activator's
commits and its end, the release of the lease with the clean-up that decides
whether the Run is queued, held or dropped (`Settle`), retry timers, `Start`,
`Stop`, `FinishStop`. An activation is a process with its own `pc`; `running` is the map of
registered activations, which a second activation of the same Run overwrites as in the code.
An entry that was dropped from `pending` may still be referred to by an
activation (`attached`) and is then written in vain. The lease store is reduced to who
holds a Run; `ExecutionLease` shows that this is what it promises. Attachments, the events and
the waiters for idleness change no scheduling and are left out.

**SessionTurns** models the turns of a Run under the session controller, and with
them the tool operations of the main loop and the tool executor. The first group of
variables is what a replay projects from the ledger and survives a `Crash`; the second is the
process: the slot with the active turn and its execution, the head of the
admission chain, one promotion, and where each call is in the executor. The chain
serializes the controller's methods but the execution of a turn runs beside it and promotes the
next input itself (`AfterExecution`); both meet in the slot. A turn is named by
its input, as `deriveTurnId` does. `ahead` gives the order of the pending inputs and
`activeTurnId` is the turn that the projection names as the Run's active one, which an
attachment interrupts.
`EndTurn` is an append under an idempotency key of the turn: a key in the ledger answers with the
recorded event or is refused, and changes nothing. `ResumeTurn`, `Attach` and
`AttachRefused` have keys of their own. A tool call goes through `ModelCalls`,
`RequestTool`, `AdmitTool`, `StartTool`, `CallTool` and `ToolReturns`, or leaves at
`NotCalled`; `TurnThrows` is whatever throws in `runTurn` together with its catch.
`CancelGraceEnds` and `CloseGraceEnds` read the ledger once (`Verdict`) and
`BoundaryRecords` appends one outcome at a time, while the tools (and with close the
execution too) go on: what is still to be recorded may go stale, which is the point of
`BoundaryAccepted` and `CloseRefused`. A tool whose execution is gone is
`loose` when it was told to end, `orphan` when it was not.

**FencedCommits**, **DurableLog** and **DeliveryQueue** are the abstract
specifications. The refinement mappings are at the end of the implementing
modules: the lease store's grant in force is the token in its snapshot, the log
is the file, and the queue's state is what the last event on a message says.

Operators whose name begins with `Faulty` are mistakes the code could have made:
a dropped guard, an answer before its sync, a counter restarted. No behaviour
uses them. Put in the place of the definition that follows them, each makes TLC
report the property it was written against, so no property holds vacuously.

## Runs

| Run | Instance | Shows |
| --- | --- | --- |
| `execution_lease` | 3 owners, 2 leases, 1 acquisition per owner, 1 renewal per lease, lifetimes 1 and 2, clock 0..3 both ways, 2 commits (about 416,000 states up to symmetry) | `CommitsInGrantOrder`, `TokensIdentifyLeases`, `ToldExpiryHonoured`, `NoResurrection`, `ImplementsFencedCommits` |
| `hard_link_lock` | ledger lock, 3 processes, 3 attempts, 2 deaths | `CrashFreeExclusion`, and `DeadLockRemoved` under fairness |
| `hard_link_lock_stale` | lease lock, 3 processes, 2 attempts, 1 death | `MutualExclusion` does not hold, see below |
| `jsonl_ledger` | 4 requests of which two share a key, 3 crashes or losses of power (44,092 states) | `FileReadable`, `MemoryMatchesFile`, `OneRecordPerKey`, `ObservedStays`, `ResolvedStays`, `ImplementsDurableLog` |
| `inbox` | a message repeated under another id, an advice that expires, 2 lanes, 2 claim ids, 3 claims, 1 stop (about 110,000 states up to symmetry) | `Rehydratable`, `AttemptCountsClaims`, `LeaseRespected`, `ImplementsDeliveryQueue` |
| `lane_mailbox` | 3 messages, one only for a turn's first step, boundaries of 2, 2 refused receipts, 1 failed step or claim, 1 crash (49,185 states) | `CommittedOnce`, `HandledWasCommitted`, `CommittedIsRemembered`, and `EventuallyHandled` under fairness |
| `run_token_budget` | a Run and its Teto lane, limits 5 and 4, a step in either, a reflection pass, a compaction, overruns, 1 restart (252,397 states) | `UsageCountedOnce`, `CapacityReturned`, `LimitRespected` |
| `daemon_host` | 1 Run, 2 wakes, 1 place (49,029 states) | `WakeKept`, `NoRunForgotten`, `StopIsBarrier`, `NoCommitAfterLoss`, and `WakeActivated` under fairness |
| `daemon_host_overlap` | 1 Run, 2 wakes, 2 places | `OneActivationPerRun` does not hold, see below |
| `session_turns` | 2 inputs, 1 tool that has effects, 2 steps a turn, 2 attachments (4,597,849 states up to symmetry) | `EffectsAccounted`, `BoundaryAccepted`, `OneOpenTurn`, `WithdrawnNotRun`, `UnknownBlocks`, `EndedTurnNotRun` |
| `session_progress` | 2 inputs, 1 tool that only reads, 1 step, 1 attachment (43,458 states) | `ChainMoves` and `InputTaken` under fairness |
| `session_second_crash` | 1 input, 1 tool, 2 attachments | `Reattachable` does not hold, see below |

`execution_lease`, `jsonl_ledger` and `inbox` also check their type invariant; those of
the other modules are theorems.

Why the bounds are enough for the interesting cases: with two leases and three
owners there is a holder, a successor and a refused contender at once, and a
holder that has lost its lease acts against a successor; clock readings 0..3
with lifetimes 1 and 2 contain expiry, an extension, an extension that is
shorter, and a clock set back behind the watermark. Two deaths among three
processes leave two contenders for a dead owner's lock, and one contender that
outlives two. Three stops let a ledger crash in an append, again while it is
repeated, and once after. Three claims let a message be claimed, lapse or be
reclaimed, be claimed by the other lane and again. Three messages against
boundaries of two leave one waiting, a crash next to a failed step leaves
claims behind twice, and with two refusals a receipt fails after its step and again
before the next one, or two receipts of one repair fail. Four calls of four kinds that ask a limit of 5 for up to 12
tokens compete, borrow from an auxiliary reservation, enter the slack and overrun;
each can fail at every append, and a restart may fall between any two. One place is a
configuration of the daemon host in which two activations of a Run cannot
overlap, so nothing is excused there, and with two wakes one waits, is parked or
comes again while an activation has the other; the refuted overlap needs a second
place. (Two Runs with a wake each on one place, and two places with a single wake, pass
the same invariants; they add the competition for places and take longer.) Two
inputs are one that has the slot and one that queues, steers, is
withdrawn or promoted beside it; one operation
is enough for every race of a call with the boundary that is recorded for it, and two
attachments for a crash in every state the first leaves. The proofs below have no such bounds.

### Fairness

`HardLinkLock` assumes that a call once begun goes on (weak fairness of each
process's next file system call): the code runs it in a loop with nothing to
wait for but those calls. Nobody is obliged to ask for the lock, to release it,
or to die. `LaneMailbox` assumes that time passes (`Lapse`), that a step once
begun goes through its repairs, claims and `afterStep`, all straight-line code,
but not that the model's call ends or that the lane begins another step:
`EventuallyHandled` has the premise that the first step of some turn completes
again and again. A receipt may be refused as often as `MaxRefusals` says, which is any
finite number; each is tried again in the repairs of the next step, and a ledger that
refuses for ever would leave its message claimed and remembered, but not handled.

`DaemonHost` assumes that a scheduled pump and timers run and that every awaited
call is answered (weak fairness), and that neither the lease store nor the activator
withholds its good answer for ever when it is asked again and again (strong
fairness of `ClaimAcquired`, `Verified`, `Activate` and of the activator's end). The
latter is about the environment and not the host: a store that always fails, or
an activator that never ends, starves any scheduler. `WakeActivated` has the premise
that other hosts leave the Run alone from some time on, and excepts a host that stops
and the Runs that the code leaves held (`LeftHeld`).

`SessionTurns` assumes of the controller only that its own steps go on: each of its
awaits is of the disk or ends with a timer, the grace period. That suffices for
`ChainMoves`: cancel and close end even when a tool never returns. `InputTaken` adds,
as its premise and not as an assumption of the run, that the model answers and tools
return. It excepts the end of the session, a turn that halted and blocks
those behind it, and inputs that are withdrawn.

The other modules state safety only.

### What the code does not do

`hard_link_lock_stale` refutes the exclusion which the comment above
`FileExecutionLeaseStore` and the ledger's tests describe. The removal of a dead
owner's lock compares the path with the file whose owner is dead and then unlinks
the path. Two contenders may both compare before either unlinks; the second
unlink then removes the lock the first contender has taken meanwhile, and both
return as holders. It takes a process that died with the lock and two that want
it at once, for instance two hosts after a crash of a third. The lease and ledger
modules assume the lock excludes; what they show is therefore conditional on no
such race, and `CrashFreeExclusion` is the part of the lock's promise that holds
without condition.

`daemon_host_overlap` refutes "One Run has at most one activation in this host". An
activation that failed or was cancelled sets its entry to `held` and then awaits
the release of its lease; a wake in that window queues the Run again, and with a free
place the pump starts a second activation beside the first. What then happens to
the wakes is not what `WakeKept`, `NoRunForgotten` and `StopIsBarrier` say; these
exclude it by the history variable `overlapped`. With
`maxConcurrentActivations` of 1 it cannot happen.

`session_second_crash` refutes that a Run can always be opened again. A turn that was
cut off by a crash, resumed and cut off again is interrupted under the
same key with another `lastCommittedStep`, which the ledger refuses; attaching then
fails, now and later.

Other behaviours met while modelling, which are part of the modules but contradict
nothing that is checked:

- A repeated append resolves with a record that may never have been synced: the sync of
  the append that wrote it failed (`jsonl.ts:296-298`), closing skips the sync after that
  (`:338-340`), and the next open syncs only a file it had to cut (`:255-258`). A loss of power
  then takes back what the repetition was answered with. `ResolvedStays` excepts
  just these records (`doubted`), and `ImplementsDurableLog` counts an append as
  acknowledged only after its own sync.
- A wake that arrives while an activation is failing stays `held` with it and has
  no timer: it waits for the next wake (`LeftHeld`). `restorePending` with a wake the
  host knows does not queue a held Run again.
- After a crash past `tool.started` the turn is `interrupted` and may be resumed:
  `blockingReason` looks at operations that are recorded as `unknown`, and a started
  one is not until something records it.
- A close whose turn comes while an execution hands its slot over can let a turn
  start that it does not abort; its tools are `orphan`, its writes are fenced off.
- The forced boundary of cancel or close appends over an outcome the turn has
  recorded in the meantime. A turn can so be `Reopened`, and a later cancel of it be
  refused with the retired turn in the slot (`CancelRefused`).
- An abort between two `tool.requested` appends leaves the requested operations
  without an outcome.
- An input withdrawn between `promoteNextPending`'s read and `promotePending`'s leaves
  the next pending input waiting for another submit, resume or end of a turn
  (`NotPromoted`).
- A crash between `turn.started` and `input.delivered` leaves a turn whose input
  is pending (`torn`); resuming the turn and promoting the input then both run it.

## Proofs

TLAPS checks the following for every value of the constants, from the constants'
assumptions (`TtlAssumption`, `LockAssumption`, …; all say what the code's
validation of its options says, or that a sentinel is not a value).

| Module | Theorems | Argument |
| --- | --- | --- |
| `ExecutionLeaseProofs` | `TypeCorrect`, `CommitOrder`, `TokenUniqueness`, `ExpiryHonoured`, `LostStaysLost`, `Implements` | `CommitsInGrantOrder` alone is not inductive: that a commit follows all earlier ones rests on every token being at most `fence`, on each known, stored or recorded lease carrying an issued id and its token belonging to one acquisition, and on the commit in progress being that of the stored lease, which nobody can change while the file lock is held. The invariant `IInv` collects these. Each call either keeps what is granted (the stored lease, shrunk or extended, or nothing) or grants the next token; one lemma shows each of the two kinds of step preserves `IInv`, and one lemma per call says which kind it is. |
| `HardLinkLockProofs` | `TypeCorrect`, `Exclusion` | While all processes live nobody finds a dead owner, so no process is ever at the comparison or the removal of a stale lock, and the file at the path belongs to whoever holds it or is about to remove it. |
| `JsonlLedgerProofs` | `TypeCorrect`, `Readable`, `Matches`, `OneRecord`, `Stays`, `Resolved`, `Implements` | An open ledger knows its file to the last line (`OpenInv`): opening cuts the torn tail, and the first uncertain write ends appending. So a new line goes behind whole records, and its key has been looked up in all of them (`FileInv`). A line behind the synced ones is in doubt or the one whose sync is awaited (`DoubtInv`), and with the latter no append has resolved (`AnswerInv`); so a loss of power takes nothing that an append resolved with and that is not in doubt. |
| `LaneMailboxProofs` | `TypeCorrect`, `Once`, `NothingLost`, `Remembered` | A message of a durable step is in the committed set, in the boundary between the append and `afterStep`, or handled (`CommittedInv`), also when its receipt is refused and other steps follow; what is chosen, claimed or given to a step is in none of these (`BoundaryInv`). |
| `RunTokenBudgetProofs` | `TypeCorrect`, `CountedOnce`, `Returned`, `WithinLimits` | No budget counts anything of a call in flight (`Held`), and the events name nothing but what its provider reported (`Reported`). So what a settlement adds is the first that is counted, and what a rebuilt budget starts from is that same usage or nothing (`Counted`). While the ledger is uncertain an event may be there that no budget has counted; only a restart ends that, and rebuilds all. For the limit see below. |
| `DaemonHostProofs` | `TypeCorrect`, `NoWakeLost`, `NothingForgotten`, `StopWaits`, `LostLeaseCommitsNothing` | Without an overlap the unsettled activation of a Run is the registered one, it refers to the Run's entry, and the entry is there as long as it has not ended (`RegisteredInv`, `StoppingInv`). So the wakes an activation gives back reach the entry or the parked ones, and stop has waited for everything that is unsettled. A pass leaves a waiting Run in the queue only when it fills the places, what frees a place schedules a pass, and an activation that leaves its Run held has lost its lease, so that a timer is set when it settles, or has failed (`ComingBack`). That a reported loss has revoked the authority is an invariant of its own (`AuthorityInv`). |
| `SessionTurnsProofs` | `TypeCorrect`, `EffectsAreAccounted`, `CancelIsRecorded`, `WithdrawnStartsNothing`, `UnknownBlocksTurns`, `EndedTurnStaysEnded`, `OneTurnOpen`, `InterruptedOnce` | At most one promotion is under way, it belongs to whoever may start an execution, and no operation was unknown when it began nor is since (`SlotInv`, `PromotionInv`). What cancel retired is fenced, what close records for was aborted (`BoundaryInv`); the executor and the ledger agree on what has started (`OperationInv`), so an operation with the verdict "cancelled before execution" will not be called (`SpareInv`). A turn whose input is not delivered is under promotion or torn (`TurnInv`). For the open turns see below. |
| `InboxProofs` | `Typed`, `AlwaysRehydratable`, `AttemptsAreClaims`, `LeasesApart`, `RefinesDeliveryQueue` | Of a ledger in which every event was acceptable in its place it is shown what its projection says (`LedgerInv`); an acceptable event that is appended keeps that, and what is left of a command stays acceptable, event by event (`TodoInv`). See below. |

**Why the limit holds** (`WithinLimits`). `LimitRespected` bounds a sum over all calls, and
is not inductive. Of each call only what is within its reservation is bounded
(`Weight`: the smaller of usage and grant, and what is still reserved), since a provider
may report more than was granted. A step of a call puts usage in the place of a reservation
and so never adds to the weights; an admission adds its reservation and is refused
when the sum would exceed the limit. The second bound of `LimitInv` is about what is durable:
when the ledger has failed, an append of which no budget knows may be in it, and the process
that restarts counts from the ledger. So the sum of what recovery would find is bounded
too, and while the ledger takes appends it is at most the first. The lemmas about sums
(`SumPicked` to `SumSupport`) show that the fold of the community modules is the sum it is
meant to be: its recursion over finite sets has one solution, because of the subsets on which it
would not there were a smallest.

**Why one turn is open** (`OneTurnOpen`). Turns that were begun again after their end
(`Reopened`) stay out of the count, and they disturb the others: one can stay
`active` in the ledger while the next input is promoted. The invariant therefore says of each party that
may open a turn, or halt one, that no other turn is open (`OpenInv`): the execution, the promotion
under way, the boundary that close records, the turn the projection names in `activeTurnId`,
and every halted turn. An open turn that is active is the one the projection names
(`ActiveInv`), so an attachment halts just that one. That it does so, and does not find its
key in the ledger with the same `lastCommittedStep`, needs a third part (`StatusInv`): the record of an
interruption is older than the step from which the turn went on. `InterruptedOnce` says the same
the other way round: a session gets a Run only if its active turn was not interrupted by an
attachment before. The second time is always refused, not only in the run that refutes `Reattachable`.

**What the inbox projects** (`InboxProofs`). The projection is a recursive function over the
ledger. That the recursion has a solution, and that an append adds one step to it, is shown from
the least place at which it would fail (`ProjectionExists`, `ProjectionsAppend`), the library's
induction being out of the provers' reach. `Rehydratable` needs in addition that the events which a command
has still to append are acceptable behind those it has appended, which a claim of several
messages appends one by one. `LeaseRespected` compares two claims with whatever lies between them; what makes
it inductive is that a message's record remembers its last claim and the end of its lease
(`Remembered`).

Model-checked only: the liveness properties `DeadLockRemoved`, `EventuallyHandled`,
`WakeActivated`, `ChainMoves` and `InputTaken`, which rest on fairness and so on `ENABLED`,
of which the provers know nothing; and the counterexamples to `MutualExclusion`, `OneActivationPerRun`
and `Reattachable`. Every safety property that a passing run checks is a theorem.

## What is not modelled

The domain rules of the ledger (`#validateCandidate`), event validation, file
formats and every text transformation are left out: they reject or reshape data
and keep no state of their own. Inside the modelled parts the following is left out:
of the session controller goals, forks, compaction commands, side
questions, selections, polling and the event cache; of tool operations approvals
and the operations of worker lanes; of the tool executor its pool and
argument checks; of the ledger the domain rules.

Not modelled, though they have state, most important first:

1. **Cross-run routing**, a saga between two ledgers. Every append it repeats is
   idempotent by `OneRecordPerKey`; that both ledgers agree after its recovery is not
   shown. The abstract side is `DurableLog`, twice.
2. **Task dispatch and worker lanes**: outstanding limits, activations that
   coalesce, bounded wake-ups. `LaneMailbox` takes the activations as given.
3. **Teams**: the circularity check of waits and the end of a wait, which need 2.
4. **The worker process, its server and supervisor**: only the commit fence
   (`RunIfFencingTokenCurrent`) and the wakes are modelled.
5. **Leased background jobs**: one timer around `ExecutionLease`; the race of a renewal
   with the end of the handler.
6. **Process jobs**, the **local session registry**, the **advisory schedulers**:
   mostly calls of the operating system and timers of one process.

Not planned: CLI, configuration, authentication, observability, model retries, file
tools, tool edges and context assembly, which are sequential I/O or data
transformations; the artifact collector, whose contract requires that nothing
else runs.
