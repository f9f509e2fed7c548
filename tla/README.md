# A TLA+ verification of SymbolWright

SymbolWright is a TypeScript agent platform: a server that accepts missions and
chat turns, plans and runs autonomous changes to repositories, lets outside
agents act under delegated grants, meters what they spend, and integrates the
work of teams of agents into a repository. This directory holds TLA+ models of
the parts where that goes through several steps, several actors or a restart,
the TLC configurations that check them on small instances, and proofs, checked
by TLAPS, of what holds for every instance. All paths below are relative to
the repository root; `src/x` is its source directory.

## 1. The system

One Node process serves everything (`src/server/symbolwright-chat-server.ts`).
It is single threaded: code runs undisturbed between two awaits, and anything
may happen at an await. State lives in four places: JSON files replaced by
rename (missions, execution records, grants, orchestration records) and logs
that are appended to, one SQLite file (usage), working trees with git, and
memory (locks, counters, tokens waiting for their agent). Crashes lose the last
and may fall between two writes of the others. Two other processes may work on
the same directory: the stdio MCP server (`src/mcp`) and command-line tools such
as `prune-repos`. The operator works in the same repositories.

### Components that are modelled

| Component | State | Operations | What is hard | What makes it correct |
|---|---|---|---|---|
| Autonomous mission execution, `src/autonomy/persistent-mission-executor.ts`, `autonomous-mission-control.ts`, `mission-execution-lock.ts`, `mission-execution-abort-registry.ts`, `persistent-mission-repair-controller.ts`, `autonomous-mission-coordinator.ts` | execution record and repair-loop record on disk; in-memory copy of the run; FIFO lock; abort signal | start, resume, every step of `run`, pause, cancel, retry, shutdown, bounded repair | the run keeps a copy of a record that operators change; some saves take the lock and some do not; stores may fail; the process may die anywhere | a completed record is finished, one task in flight, dependencies first, completed means validated, bounded repairs, every run and request ends |
| The task executor shared by missions, `src/autonomy/server-autonomy-runtime.ts` | the delegate of the mission prepared last | prepare, execute, repair | missions run concurrently, the object is one | a mission works on its own repository |
| Edit transactions, `src/autonomy/transactional-repository-edit.ts`, `agent-loop-edit-executor.ts`, `semantic-edit-orchestrator.ts` | a working tree; the lines of `git status` at the beginning; snapshots; the mission's own files | begin, the agent's turn, inspect, roll back file by file, save | the agent and the operator write to the same tree and its index; an untracked folder is one line and an ignored file none; git may fail; the process may die | a rollback spares earlier work that git names; an undisturbed attempt is atomic and in scope on files that have a line of their own |
| Mission records, `src/mission/mission-service.ts`, `mission-store.ts`, `mission-events.ts`, `src/app/api/mission-routes.ts`, `handleAgent` | `mission.json`, `events.jsonl`; what each browser tab has seen; the locals of agent turns | patch, transitions, resume, reopen, delete, reports, switch of the branch, the messages and tool calls of a turn | tabs send a revision, turns and reports send none; record and log are two writes | no answered change buries what its tab had not seen; the log never claims more than the record |
| Workspace retention, `src/github/external-repository-intake.ts`, `repository-acquisition.ts`, `repository-acquisition-retention.ts`, `src/server/boot-sweep.ts`, `src/cli-prune-repos.ts`, and the files of `src/mission/mission-store.ts` | directories, quarantine, metadata; mission files and their index; the acquisition lock | intake, import, patch, delete; sweep into the quarantine, restore or erase | the prune command is a process of its own; every operation is several writes; crashes | the workspace of a listed mission stays, or can be restored |
| Governed egress, `src/sandbox/sandbox-network-gateway.ts`, `egress-broker.ts`, `egress-policy.ts`, `egress-audit-retention.ts` | sessions with their quotas; the pool; the audit log and its archive; the policy | submit, resolve, exchange, redirect, append, rotate at boot, revoke | a policy revoked at any await, a log that fails, two processes, crashes | who is answered has a record; what is sent is within the policy; nothing after a revocation |
| Usage governance, `src/access/governance-store.ts`, `provider-concurrency-guard.ts`, the agent turns of `src/server/symbolwright-chat-server.ts` and `src/agent/agent-loop.ts` | reservations, totals per day and mission, slot counters | reserve, settle (three statements), expiry sweep, acquire and release of slots | concurrent turns, calls longer or dearer than their reservation, midnight, crash inside a settle | totals equal the settled reservations, no double charge, bounded overshoot, no lost slot |
| Access grants, `src/access/access-grant-service.ts`, `authorization-service.ts`, `device-authorization-service.ts` | a file for each grant, credential, session, approval and device request; one-time tokens in memory | create, rotate, pause, resume, revoke, narrow, delete, authenticate, authorize, approve, poll | every operation is several file writes; a second process; approvals that outlive what they were given for | a stop takes effect at once, one usable token, an approval is used once and while fresh |
| Team integration, `src/orchestration/integration-engine.ts`, `change-candidate-service.ts`, `review-service.ts`, `conflict-detector.ts`, `src/app/api/agent-team-routes.ts` | candidates, reviews, plans; the canonical branch and its working tree | open a worktree, submit, review, accept, reject, prepare, execute, roll back | a plan is a dozen awaited git commands; they may fail; the branch may move; requests may overlap | only reviewed work arrives, all of a plan or nothing, success is real |

They interact through calls. The coordinator runs a mission; its edit and
repair steps are edit transactions around a turn of the agent loop, which asks
the usage guard before each provider call and the authorization service before
each tool call; a browser's turn writes its messages and tool calls to the
mission record; a mission names the workspace it works in, and the sweeps read
those names; a command that needs the outside goes through the egress gateway.
The shared state that matters is inside the components: the execution record
(run loop and control requests), the delegate (all missions), the working tree
(agent and operator), the mission record (tabs and turns), the mission index
(server and prune command), the ledger and the counters (all turns), the grant
directory and the egress log (server and MCP process), the canonical repository
(all integration requests).

### Components that are not modelled

`PROJECT.json` lists every component with its files and the reason. In short:

- *Worth modelling next*, because they have failure or interleaving of their
  own: the release record (`src/autonomy/autonomous-mission-release.ts`), the
  dependency cache (`src/sandbox/dependency-artifact-cache.ts`: an entry is two
  renames), the status machine of collaborative tasks
  (`src/orchestration/collaborative-task-service.ts`).
- *Not constructed by any entry point*, only by tests: `AutonomousRepairLoop`,
  `TransactionalEditSession`, `MultiAgentMissionRuntime`, `ParallelTaskScheduler`.
- *Sequential or stateless*: runtime tools and policies, sandbox back ends,
  kernel, memory, hivemind, providers, portability, views, command line, TUI,
  Ajna, forensics, release tooling, skills, configuration, web and GitHub
  clients.

## 2. The modules

| Module | Kind | Models |
|---|---|---|
| `MissionExecution` | component | one mission: run loop, control requests, lock, abort, repair, disk |
| `MissionBoundExecutor` | component | several missions and the executor they share |
| `RepositoryEdit` | component | the attempts of a mission in a working tree, and the operator |
| `AtomicEdit` | abstract specification | what an attempt promises the tree |
| `MissionRecords` | component | the record and the log of a mission, tabs and agent turns |
| `WorkspaceRetention` | component | workspaces, the missions that name them, and the sweeps |
| `SandboxEgress` | component | requests to the outside, the audit log, and the policy |
| `UsageGovernance` | component | the turns of one grant, the pools and the ledger |
| `AccessGrants` | component | one grant with its files, and the processes that use them |
| `TeamIntegration` | component | candidates, reviews, plans and the branch |
| `AtomicIntegration` | abstract specification | what integration promises the users of the branch |
| `AccessGrantsProofs`, `MissionExecutionProofs`, `RepositoryEditProofs`, `MissionRecordsProofs`, `SandboxEgressProofs`, `UsageGovernanceProofs`, `TeamIntegrationProofs`, `WorkspaceRetentionProofs` | theorems | see section 5 |
| `MC*` | instances for TLC | constants that a `.cfg` cannot write down |

None declares a RECURSIVE operator: the depth of a task in `TeamIntegration` is
a recursive function, sums over sets are folds.

Four modules have a variable `env` that never changes and is chosen from a
constant `Environment`: which failures and which other actors this behaviour may
meet. One run then covers a quiet world, in which a component promises more,
and a hostile one, in which it promises less, and a property can say on which it
depends (`~env.cli`, `Calm`).

### MissionExecution

`rec` and `repairRec` are the two files, `mem` is `current` in
`PersistentMissionExecutor.run`, `loop` says at which await the run stands, and
`hand` the task it works on with its outcome. `queue` is the promise chain of
`MissionExecutionLock`, its holder first. A control request goes through
`CtlRequest` (queue), `CtlLoad`, `CtlSave` or `CtlReject`, and `CtlDone`; load and
save are two actions because the run loop saves without the lock in four
places (first save, completion, a failed validation and its repair) and these
can fall in between. The run loop's sections under the lock are one action
(`LoopLocked` with `MarkActive`, `ReconcileAfterTask`, `StopForAbort`,
`FailForLimit`): nobody else can touch the record during them. The planner's graph
(`Deps`) is `NumAnalysis` analysis tasks, one edit that needs them all, and a chain
of `NumValidation` validations. `passed` and `repairEdits` are history: what was
validated since the last edit, and how many repair edits were begun. `restored`
is history too: whether a request ever saved the record it had loaded over one
that had been saved in between, without the lock, by a repair. `AtMostOneActive`,
`StartsAfterDependencies`, `NoOrphanedTask` and `CompletionIsValidated` are about the
records of which that is not true (section 4).

Environment events are chosen by `Fault`: `crash` clears everything but the two
files, `io` makes a load or a save fail, `restart` lets an operator start a
finished mission again. `Shutdown` is always there.

### RepositoryEdit and AtomicEdit

A file holds the marks of those who wrote to it and were not committed: `tree[f]
= {}` is HEAD's version, or no file. `git[f]` is what git knows of the file, and
`env.folder`, `env.kept` and `env.ignored` lay the repository out. `Changed` is the
set of lines of `git status --porcelain=v1`, as the code runs it
(`src/autonomy/transactional-repository-edit.ts:246`): `Listed` leaves out ignored
files, and `Line` is the folder where nothing in it is tracked (`Collapsed`). The
transaction works on lines, and compares them as strings, from then on: its
scope names files, its baseline and what it introduced may be folders, and
`Taken` is what restoring a line takes away: all of a folder that has nothing
tracked (the `rm` is recursive), the tracked files of one that has.

`Begin` is `begin()` with the decision whether foreign work lies in the scope,
`Capture` one snapshot (`CaptureFails`: of a folder there is none), `AgentWrites` one
tool call, `Inspect` and `Compare` the git status and the reading of the snapshots,
`Restore` one line of a rollback. `rollback()` inspects again, so a failed attempt
goes through `inspect` twice. `Stages` and `PutsAway` are git add, reset, commit,
stash and the removal of a file, by the operator or by the agent (its git tool
offers add and commit). `entry` (the tree when the attempt began), `named` (the
files that had a line of their own then and at each inspection since) and `lost`
(the operator's marks a rollback removed) are history.

`AtomicEdit` knows a tree, the files the mission has changed, and the scope
declared; `Land` changes files of the scope at once, none with foreign work in
it. The refinement mapping shows `entry` while an attempt runs, so a whole attempt
is one `Land` when the record is saved, or a stutter. It holds where `Calm` does;
elsewhere the mapping shows nothing, and `RollbackSparesEarlierWork` is what is
left of the promise. It shows the files of `Plain` only: not ignored, and in a
folder with tracked files, so that each has its own line whenever it is changed.
Of other files the code does not keep the promise (section 4); that they are
there, and go through the same attempts, does not disturb the plain ones.

### MissionRecords

`rec` is `mission.json`, `log` the types of the events of each tool call, `seen` what
a tab was sent last. A method of the service has no await, so it is one step
for the other requests, but `Persist` and `Answer` let each of its writes fail, and
a crash is such a failure followed by `Crash`; a failed `Delete` may leave the
record or the log. `handleAgent` awaits between its
writes: `Admit` (reads the conversation it will continue), `Begin`, `ToolStarted`,
`ToolEnded`, `Finish` (puts back the conversation it read, and its own messages).
`SwitchBegins` and `SwitchEnds` are the two ends of `switchToRecordedBranch`.

### WorkspaceRetention

A directory is in `root` or, under one of its names, in `quarantine`; `meta` is the
file beside it. `op` is a method of the mission store between two of its writes:
this matters to the prune command only, which reads the disk at any time. The
sweeps (`boot`, `prune`) share the actions: `Collect` and `List`, `Move` and `Describe`
for each orphan, `Read`, `Keep` or `Judge` for each entry, oldest first, then `Restore`
and the removal of its metadata, or its removal and `Erase`. `anchored` is history:
the missions whose reference was acknowledged while the workspace was there.

### SandboxEgress

A request is cut at the resolver, the exchange and the append of its decision
to the log. `NextHop` is one turn of the loop of `request()`; `Reserved` counts the
exchange before the quotas are looked at. `chain` is the promise chain of
`JsonlEgressAuditSink`; after a failed append (`broken`) every later one is
rejected. `Leftover` is what an append that did not succeed may leave in the
file. `Crash` of the server may be followed by the rotation of the log at its
three awaits. `wire` is history: what the session has sent.

### UsageGovernance

A turn is admitted (or refused by a pool), loops over provider calls, and ends.
Each call reserves, is made, and settles. The ledger's methods are synchronous,
so each is a step; SQLite commits its statements one by one, and `Crash` may leave
`settleReservation` after the first or the second (`SettleStatements`). A call is
reserved at `Estimate` and settled at anything up to `MaxCost`: the code settles
what the provider reports, without a limit. `Expire`
and `Sweep` are `settleExpiredReservations` at run time and at start-up, `Midnight`
moves the accounting day, which a settle takes from the reservation.

### AccessGrants

A method is a step that reads and decides (`Pause`, `Rotate`, `Authenticate`, ...)
and then a step for each file it writes: `Program` lists the writes in the order
of the code, `Write` does the next one, and `Crash` drops the rest. One process
finishes a method before it begins another (they are synchronous); two
processes interleave at the writes. `snap` is the grant as the method read it,
which is what it writes back. `conn` are requests that were authenticated and
are authorized, operation by operation, later. `told` and `count` are history:
what the operator was answered last, and how much was approved, used and
handed over.

### TeamIntegration and AtomicIntegration

A SHA is the sequence of commits that leads to it. `Check`, `Apply`,
`CommitPatch`, `Validate` and `Reset` are one git command or validation each, with
the synchronous code up to the next await; `StartPrepare`, `StartExecute` and
`StartRollback` are the synchronous beginnings of the service calls, with the
guard of their route. What a candidate changes is chosen when it is submitted
(`Changes`), and `Blocking` is `detectConflicts`. `Push` is a commit by somebody else.

`AtomicIntegration` knows a branch and a set of proposals; a proposal moves the
branch from its base to all of its patches at once. The refinement mapping
(`Visible`, `Proposed`) shows a plan's base while the plan is being executed, so
the whole execution is one step of the abstract specification, at its end, or
none.

## 3. What the runs check

Twelve runs, by component. Distinct states are those TLC reports.

| Run | Instance | Result |
|---|---|---|
| `execution_faults` | 2 analysis tasks, 2 validations, 1 repair, 1 request in flight (pause, cancel or retry, any number after each other), crashes and failing stores; 1,734,481 states | `TypeOK`, `CompletedRecordIsTerminal`, `AtMostOneActive`, `RepairLoopIsValidated`, `StartsAfterDependencies` hold |
| `execution_restart` | 1 analysis task, 2 validations, 2 repairs, pause and cancel, restarts; fairness; 303,487 states | `NoOrphanedTask`, `RepairEditsBounded`, `CompletionIsValidated`, `RunEnds`, `RequestAnswered` hold |
| `execution_cancel_lost` | 1 request | `CancellationWins` is **violated** |
| `executor_shared_delegate` | 2 missions | `WorksOnOwnRepository` is **violated** |
| `edit_transactions` | 2 files in 2 folders, one of which has tracked files, in 6 layouts but for the exchange of the files (in either folder, tracked, ignored); 2 attempts, 2 actions of the operator or of git; calm, and with the operator, git add and commit, stray writes and failures beside the agent; 2,366,782 states | `TypeOK`, `RollbackSparesEarlierWork`, `ImplementsAtomic` hold |
| `records_revisions` | 2 tabs, 1 turn with 1 tool call, 5 revisions, failing writes and crashes; 2,610,959 states | `LogFollowsRecord`, `NoSilentOverwrite` hold |
| `retention_sweeps` | 2 workspaces, 2 missions; the server alone with crashes and failing writes, beside the prune command with failing writes, and beside it with crashes of either; 2,598,764 states | `TypeOK`, `ListedInPlace`, `ListedSurvives` hold |
| `egress_answers` | 2 requests, 3 hosts of which 2 are allowed, 1 slot, every redirect policy; fairness; 208,321 states | `TypeOK`, `AnswerIsAudited`, `WireWithinPolicy`, `QuietWhenRevoked`, `RequestEnds` hold |
| `usage_ledger` | 3 turns of up to 2 calls, 3 calls in all, provider pool 2, SSE pool 1, a cap of one estimate, calls that cost up to one and a half, 2 days, expiry with and without crashes; 1,600,389 states | `TypeOK`, `LedgerMatches`, `OvershootBounded`, `SlotsMatchHolders` hold |
| `access_requests` | the server alone, 2 credentials, crashes; 2,493,489 states | `TypeOK`, `SessionsEnded`, `ApprovalUsedOnce`, `OneLiveCredential`, `DeviceTokenOnce`, `StopTakesEffect`, `ApprovalIsFresh` hold |
| `access_mcp` | the server and the MCP process | `StopTakesEffect` is **violated** |
| `integration_serial` | 2 candidates of 2 tasks by 2 members, 3 requests that do not overlap, 1 push; 230,208 states | `TypeOK`, `ReviewedOnly`, `DependenciesFirst`, `FailureLeavesNothing`, `SuccessIsReal`, `ImplementsAtomic` hold |

Every property of a passing run has a mutant in `PROJECT.json`: a change of one
definition, as a plausible mistake in the code would make it, under which TLC
finds the property violated.

### Bounds, and why they are enough

- *Mission.* The code plans three analysis tasks; two already give an order
  between analyses, and the edit waits for all of them in any case. Two
  validations are the fewest for which a repair must run an earlier one again;
  two repairs let the second follow a successful first. Attempts are at most two
  by the planner's `maxAttempts`. One request in flight at a time may be followed
  by any number of others; the FIFO serves two requests one after the other, so
  a second one adds waiting and nothing else (the proofs hold for any set of
  requests).
- *Edit.* Two files are one in the scope and one outside it, in one folder or in
  two; the layouts have a file with a line of its own beside one that has none (in
  a folder with nothing tracked, or ignored), and both kinds in one untracked
  folder. Two attempts are an edit
  and a repair, which owns what the edit left; two actions of the operator are
  one before an attempt and one during it. The proofs have no bounds, and any
  number of folders and layouts.
- *Records.* `MaxRevision` = 5 bounds what tabs do, not what turns do: both tabs can
  change the mission before, between and after the writes of a turn. One turn
  with one tool call already races with every request; two turns are in the
  proofs.
- *Retention.* Two workspaces and two missions let a mission move to another's
  workspace and leave its own orphaned. `Grace` and `MaxClock` = 2 let an entry become
  eligible; a workspace is quarantined at most once (`Round`), as each destination
  belongs to one intake. The budget (`maxCount`) is 1 for the server alone, so it
  forces an early removal, and is not exceeded beside the prune command.
- *Egress.* A third host, not allowed, is the target of a forbidden first
  request or redirect. Two exchanges, one request body and one response body
  are quotas that both bind. One slot lets the second request be refused or
  follow the first. Torn lines are in the model and left out of the run's
  environments, see section 4.
- *Usage.* Three turns against a provider pool of two: one is refused and, when
  a slot is free again, admitted beside one that has not settled. The cap is
  one call's estimate, so the second admitted call is the overshoot; `Estimate` = 2
  and `MaxCost` = 3 are the smallest for which a call may cost less, as much, or
  more than was estimated. `MaxCalls`
  is three: one turn makes its second call beside another's, and is denied in
  the middle.
- *Access.* `MaxClock` = 2 lets a grant start, be in force and expire.
  `MaxVersion` = 3 is a creation and two changes (narrow, pause); `MaxUses` = 2 allows a
  second use of an approval, if there were one. Two credentials are one
  rotation.
- *Integration.* Three requests are prepare, execute and roll back or two
  plans of which one fails. Two files and one scope make every kind of conflict
  happen (outside the scope, the same file, none). `MaxCandidates` = 1 never binds
  here, as each task has one candidate; `Protected` is empty, as a file out of
  scope takes the same path in `detectConflicts`. `Concurrent` = FALSE keeps
  integration requests and pushes apart; submissions, reviews and decisions
  still interleave with them everywhere.
- Symmetry is declared over credentials, turns, requests, tabs, files,
  workspaces and missions, which the specifications treat alike, and only where
  no liveness is checked.

`CHECK_DEADLOCK FALSE` is given where requests, turns or attempts are used up
(usage, integration, egress, records, edit) or bounds stop the clock and the
versions (access, retention). The mission runs check for deadlock: a mission
can always be resumed, started again or asked about, or is in a state that
allows the next request.

### Fairness

`FairSpec` of `MissionExecution` is weak fairness of the run loop and of each
request in progress: JavaScript runs the continuation of a settled promise,
the lock runs what is queued on it even if its holder rejected
(`src/autonomy/mission-execution-lock.ts:19`), and the work of a task is bounded by
its own timeouts. Operators are under no obligation. `FairSpec` of `SandboxEgress`
is weak fairness of each request's hop and of each process's log: the resolver
and the exchange run under the session's time-out, and a file operation ends,
well or not. Submissions, crashes, rotations, revocations, restarts and pushes
have no fairness.

## 4. What the violations say

Each is a sentence of a doc or comment that the code does not keep; the trace is
TLC's, and `findings` in `PROJECT.json` has the quotations.

1. *A cancel can be lost* (`execution_cancel_lost`). `findNextTask` picks a task,
   then the loop waits for the lock. If a cancel holds it, the record is saved
   cancelled, and then `#executeTask` marks the task it picked as running,
   whatever the reloaded record says of it
   (`src/autonomy/persistent-mission-executor.ts:310`).
2. *Missions share a delegate* (`executor_shared_delegate`). The server builds one
   `MissionBoundTaskExecutor`; a second mission's `prepare` redirects the first
   mission's remaining tasks (`src/autonomy/server-autonomy-runtime.ts:214`).
3. *A pause can be undone by an authentication* (`access_mcp`). The MCP process
   writes back the grant it read, with a new `lastUsedAt`
   (`src/access/access-grant-service.ts:621`). Inside the server alone, where
   methods do not interleave, `StopTakesEffect` holds.

### Met while modelling, without a run of their own

Behaviours that a reader of the properties should know of, because a property
excludes them, or because another instance would show them.

*Mission execution and edits*

- A crash after a repair's edit and before the reset validation chain is saved
  leaves a record that can be resumed to "completed" without running the earlier
  validations again (`src/autonomy/persistent-mission-executor.ts:416`); a crash
  during the edit forgets the attempt. `CompletionIsValidated` and
  `RepairEditsBounded` are checked and proved without crashes.
- A repair saves the execution without the lock
  (`src/autonomy/persistent-mission-executor.ts:388`), so a request may load the
  record before that save and write its copy back after it. A pause then
  restores a graph whose earlier validations are still completed. A retry does
  more: with three validations, it puts back the repaired validation in flight
  behind a chain that the repair has requeued from its start, and the loop goes
  on with another task, so the record shows two tasks in flight. The attempt to
  prove `AtMostOneActive` for any number of validations met this; instances with two
  validations do not have it. `restored` marks such behaviours, and the four
  properties above are stated without them. `CompletedRecordIsTerminal`,
  `RepairLoopIsValidated` and `RepairEditsBounded` need no such exception.
- A retry of a failed validation runs that validation alone, so
  `CompletionIsValidated` is for missions that are paused, cancelled and resumed.
- Starting a finished mission again keeps the completed phases of the old
  repair-loop record (`src/autonomy/persistent-mission-repair-controller.ts:235`), so
  `RepairLoopIsValidated` is checked and proved without restarts. The other
  properties of `execution_faults` are proved with restarts as well.
- What the operator writes during an attempt is rolled back with it or becomes
  the mission's own: `RollbackSparesEarlierWork` is about what was there when the
  attempt began. A file that was changed at the beginning and is out of scope is
  invisible to the transaction: what the agent writes there is neither reported
  nor rolled back (`env.strays`).
- *An operator's change can be overwritten silently.* The docs say that it never is
  (`src/docs/bundle-6-semantic-orchestration.md:19`). But `git status` runs without
  `-uall` (`src/autonomy/transactional-repository-edit.ts:246`): an untracked
  `feature/core.ts` in a folder with nothing tracked is the line `feature/`, the
  scope names `feature/core.ts`, and `begin` compares the two as strings
  (`:109`). There is no conflict, the agent writes the file, and as `feature/` was
  in the baseline, nothing is introduced: neither reported, recorded, nor rolled
  back. The same holds of an ignored file. `ImplementsAtomic` is therefore stated
  for `Plain` files; stated for all files, or for all that are not ignored, TLC
  refutes it on the run's instance in six and seven steps.
- *A rollback can delete earlier work.* The docs limit it to what the transaction
  introduced (`src/docs/bundle-6-semantic-orchestration.md:23`). If the operator has
  an ignored `pkg/.env` and nothing else in `pkg/`, a new file of the agent there
  introduces the line `pkg/`, which the rollback removes with all that is in it
  (`:97`). And a git add, a git reset or a commit during the attempt, by the
  operator or the agent, changes how earlier files are listed: an
  operator's file of an untracked folder gets its own line once another file of
  the folder is staged, and counts as introduced; a folder whose only tracked
  file goes becomes a line that was not in the baseline. `RollbackSparesEarlierWork`
  is about the files that have a line of their own at the beginning and at each
  inspection (`named`). For all files, or for those named at the beginning alone,
  TLC refutes it on the run's instance in eight steps.
- Nothing is lost, but much is refused, where a declared edit makes a file in a
  new folder: the introduced line `dir/` is never in the scope, which names files,
  so the attempt is "unexpected" and rolled back. Without a declared scope it is
  recorded, as `dir/`; a repair then declares that line as its write scope and
  owns it, and its snapshot reads a directory as a file, so `begin` rejects
  (`CaptureFails`). An agent that commits leaves nothing to report.
- A git failure in `inspect` leaves the changes in the tree. A crash between an
  edit and the save of the record leaves them as foreign work, which blocks the
  mission's own next attempt. Two missions on one checkout are each other's
  operator. A rename is recorded by its new path only.

*Mission records and workspaces*

- Two turns of one mission may overlap: `recordAgentResult`
  (`src/mission/mission-service.ts:410`) replaces the conversation with the one the
  turn began with, so the later one erases the messages of the other. Reports
  send no revision, and `switch-recorded-branch` (`src/app/api/mission-routes.ts:354`)
  looks at its revision before it awaits git; `NoSilentOverwrite` excepts both.
- A resume while a turn is running logs "interrupted" for a tool that completes
  afterwards, and it appends before it compares the revision
  (`src/mission/mission-service.ts:286`). After a crash or a failed write a tool call
  can be shown as running for ever. PATCH accepts completed and abandoned
  missions.
- With the prune command beside the server, `ListedSurvives` needs the budget of
  the quarantine not to be exceeded. The command may unlink the temporary file of
  the server's write (modelled as a failing write); a stale index written back by
  another process drops a mission, and the rebuilding of an index is not
  modelled. `create` may throw after the mission is listed (`AppendEvent`).
  A directory in the quarantine without its metadata, as a crash beside a move or
  a removal leaves it, counts as just quarantined in every sweep and as nobody's
  original: only the budget erases it, and no mission gets it back.

*Egress*

- A line torn by a crash swallows the next record, acknowledged or not
  (`src/sandbox/egress-audit-retention.ts:21`): with `env.torn`, `AnswerIsAudited` does
  not hold. It does not hold either when the server rotates beside a running
  MCP process (`env.alone` is FALSE), as records written between the read and the
  reset are lost. One failed append poisons the sink until the process restarts:
  every later request of that process ends "unaudited".

*Usage, access, integration*

- The daily cap is compared with settled amounts only. Concurrent turns pass
  it; `OvershootBounded` says by how much, and in terms of what a call may really
  be charged. It cannot be the estimate: that is 200,000 input tokens and the
  output limit at the base rate (`src/server/symbolwright-chat-server.ts:1111`, "to
  estimate a call's maximum possible cost"), while the settle is for the usage the
  provider reports, tokens written to its cache added at a higher rate
  (`src/access/fixed-cost-rates.ts:80`), and nothing clamps it (`:1173`, and
  `src/access/governance-store.ts:276`). With `Estimate` for `MaxCost` in the bound TLC
  refutes it on the run's instance in five steps. A call whose reservation expired
  is charged its estimate, whatever its late answer says. A crash between the statements of a
  settle loses part of a charge (never doubles it: `LedgerMatches`); a provider
  stream without usage settles at zero.
- Pause does not look at the status, and resume asks for "paused" only, so a
  revoked grant can become active again (`src/access/access-grant-service.ts:310`).
  `AuthorizationService.evaluate` reads the grant for every operation but not the
  session; `StopTakesEffect` holds because the grant is stopped first.
- Integration requests may overlap in the code. A rollback during an execution
  resets its commits away, and the plan is recorded as succeeded
  (`src/orchestration/integration-engine.ts:282`): with `Concurrent` = TRUE and four
  requests, `SuccessIsReal` does not hold.
- A rollback leaves its candidates "integrated", and a rollback of an old plan
  resets past later ones: the abstract specification allows both. A blocking
  review given after a plan was prepared does not stop it. Nothing recovers a
  plan that was being executed at a crash, so `TeamIntegration` has no crash.

## 5. What is proved

For every value of the constants, from the named assumptions in the modules
only:

- **`MissionExecutionProofs!TypeCorrect`, `CompletedIsTerminal`.** Neither is
  inductive. The invariant is `IInv == DataInv /\ HolderIsFirst`, where `DataInv` adds to
  the two: what the loop's locals are at each await (`LoopLocals`), that the
  record exists and is not completed from a run's first save to its last
  (`RecordOfRun`), and that a request which loaded a completed record can only be
  a retry (`Requests`). The last is the heart of `CompletedIsTerminal`: a request
  that loaded the record *before* the loop completed it saves its copy
  afterwards, and must not bring unfinished tasks under a `completedAt`. That
  in turn needs the lock to be a mutex, which the code has as a promise chain
  and the model as a FIFO: `HolderIsFirst` says that a request between its load
  and its unlock is first, and `LockStep` proves it for every action. The lemmas
  before are one per helper of the executor (`ApplyTaskResultType`,
  `ReconcileGraphType`, `ResetValidationChainType`, ...), then one per group of
  actions, then `NextIInv`.
- **`MissionExecutionProofs!OneTaskInFlight`, `StartsWithDependencies`** need no
  hypothesis; **`NothingOrphaned`, `RepairsAreBounded`** are for a store that does
  not fail and a process that does not die. All but the last rest on
  `FlightInv == IInv /\ RepairsValidation /\ InFlight`: `InFlight` says for each await
  which task may be in flight in the loop's copy and which in the record, and
  that a task which was picked still has its dependencies in the record when it
  is marked, although the pick looked at the copy. `AtRest` adds that every exit
  of `run()` is between tasks. `EditsAreCounted` is the bound: the edits begun are
  the attempts recorded, and one more while an edit is being made.
- **`MissionExecutionProofs!RepairLoopValidated`** (no restart) and
  **`CompletedIsValidated`** (no retry, crash or failing store). The first:
  `ValidatedInv` says that the phases the repair loop has recorded have passed
  since the last edit, that every copy of the execution in anybody's hands agrees
  on whether the mission's edit is completed, and that no validation is completed
  before it. The second: `Accounted` follows each validation from its command to
  the record; between two saves the loop's copy and the record differ in the task
  in hand only (`MemoryAgrees`), and a completed validation has passed
  (`CompletionCovered`). Each hypothesis is needed, see section 4.
- **`RepositoryEditProofs!TypeCorrect`, `EarlierWorkSpared`, `EditIsAtomic`**, for any
  layout of the repository. The second is about lines and files at once. `Lines`
  says of the files in `named` that their lines are in the baseline and that no
  folder among the modified lines stands for one of them, so what a rollback takes
  away of them, it takes by a snapshot of their own. `CopyKeeps` says that such a snapshot, once captured, holds
  everything of the operator's that was in the file at the beginning and is
  still there. It needs `Numbered` (the operator's marks are new), so that what a
  rollback removes cannot be mistaken for what was there, and `Lists` (which lines
  may be in the transaction's lists at each await). The refinement needs
  `Undisturbed`: in a calm environment a plain file differs from `entry` exactly
  where the transaction's lists say (`Exact`), and no folder line stands for it, as
  its folder has a tracked file that nobody takes away. `VisibleStep` then maps
  each action to `Plan`, `Land`, `Operator` or a stutter.
- **`MissionRecordsProofs!TypeCorrect`, `NothingOverwritten`, `LogNeverAhead`.** The
  first of the two hard ones is a compare-and-set argument: what a tab has seen
  is the present record or one with a smaller revision (`SeenIsPast`), which
  `RecordStep` keeps because every write of anybody either leaves the record or
  makes a newer one. So a revision that matches identifies the record. The
  second needs that the events of a turn's calls are numbered like the turn's
  own counters (`LogIsNumbered`) and is then one lemma per kind of writer.
- **`SandboxEgressProofs!WireIsWithinPolicy`, `RevocationQuiets`.** `OnPath` ties the host
  a session is at to the hosts on the wire, and `Counters` its counts of exchanges,
  redirects and bodies to the length and the bodies of the wire, at each await;
  the quotas then bound the wire itself. The second theorem is an action
  property from the same invariant, one step per await.
- **`SandboxEgressProofs!TypeCorrect`, `AnswersAreAudited`.** The types include that
  the pool's counter is the number of requests which hold a slot, whichever way
  they end. The second theorem assumes `SoundLog`: no line is cut off, and only a
  log of one process is rotated (section 4 says what happens otherwise). It
  follows a record through the log, the copy of a rotation and the archive:
  before the log is reset all of it is in the archive, and while a rotation is
  under way no session of that process has been answered yet.
- **`UsageGovernanceProofs!TypeCorrect`, `SlotsBalanced`, `OvershootHasBound`.** A counter
  equals the cardinality of its holders, by cases on who enters and who leaves.
  For the bound, `OpenIsWaiting` says that an open reservation belongs to a turn
  that waits for its call, so there are at most as many as provider slots; `NoMore`
  says that a settle or an expiry never raises what a day is charged with its
  open reservations, these being counted at `MaxCost`. The assumption it uses is
  `Estimate <= MaxCost`, no more: a settle at any amount up to `MaxCost` is allowed.
- **`UsageGovernanceProofs!LedgerBalances`.** The totals against sums over the
  settled reservations. The library's sum is a fold over a recursive function
  that is chosen, so first: the function exists (`SumExists`, built up by the
  number of elements), satisfies its equation (`SumSolves`), and the sum of a set
  is that of the set without any one element, and the element (`SumTake`). With no
  induction principle to instantiate, each of these takes a smallest set for which it would
  not hold. Then `LedgerGrows`: a step that settles the calls `E` at `k` each and
  charges them, or is interrupted by a crash while doing so, keeps the ledger; a
  settle is `E = {c}`, the expiry sweep all expired ones, and any other step the
  empty set. `Unmade` (a call is not reserved before its turn comes to it)
  makes a new reservation one that had not been settled.
- **`WorkspaceRetentionProofs!TypeCorrect`, `ServerKeepsInPlace`,
  `PruneKeepsReferenced`.** The first two hold in every environment the constants
  allow (`ListedInPlace` itself speaks of the server alone); the third is `Spec /\
  []WithinBudget => []ListedSurvives`, where `WithinBudget` says that beside the
  command the quarantine never has more entries than its budget, as over the
  budget the oldest are erased before their time. `Wanted` collects the reasons to
  keep a workspace: an intake or a store method on its way to a mission, and a
  mission that relies on it. `RInv` says that a workspace is in one place under a
  name it never had before (`OnePlace`), that what a sweep reads of the metadata
  is younger than any reason not yet among the references (`Dated`: this is what
  the grace window is for), and for the server alone that nothing wanted has
  been moved (`BootAlone`). `KInv` adds for two processes that what is about to be
  erased is not wanted (`Spared`) and that what is wanted is in its place, or in
  the quarantine with a description to restore it by (`Kept`). TLC checked both
  invariants on the run's instance first.
- **`AccessGrantsProofs`: all seven properties of `access_requests`**
  (`TypeCorrect`, `SessionsEndedAlways`, `ApprovalUsedOnceAlways`,
  `OneLiveCredentialAlways`, `DeviceTokenOnceAlways`, `StopTakesEffectAlways`,
  `ApprovalIsFreshAlways`), for any number of credentials, any bounds and a crash
  between any two writes. Three of them (`TypeCorrect`, `OneLiveCredentialAlways`,
  `DeviceTokenOnceAlways`) hold for any set of processes on the directory. The
  other four are about the grant, which authentication in another process writes
  back as it read it; they have the named hypothesis `OneProcess`, that no stdio
  MCP server shares the directory. The run `access_mcp` shows that
  `StopTakesEffect` fails without it, and TLC finds the same of `SessionsEnded`,
  `ApprovalUsedOnce` and `ApprovalIsFresh` on that instance. The methods are
  programs, so the invariant says first where a method can be (`Stage`: what it
  still has to write is a suffix of its program) and what its locals are worth
  there (`Carries`, `Reads`; `Aside` for the processes that only authenticate).
  That is `Core`, and with `OneLive` and `Tokens` it is `Shared`, which needs no
  hypothesis: no step of another process touches a credential, the device or the
  tokens held (`ElsewhereStep`). TLC finds `OneLiveCredential` and
  `DeviceTokenOnce` true of two processes as well, either of which may die
  (453,542 states with `MaxClock` = `MaxVersion` = 1). `Alone` adds what one
  process alone can rely on (`Snapshots`: the grant a method will write is what
  its kind makes of the grant on disk).

  Each property has its own part on top of that. `OneLive`: the old credentials
  are revoked before the method gets to issue one, and a method cut short leaves
  none or one. `Stopped`: what the operator will be told at the last write is true
  from the write that makes it so. `Backed`: uses and approvals still open
  together never exceed those given, a cardinality argument. `Fresh`: no version
  of the grant above the present one has a request, so the version bump of a pause
  invalidates what was approved. `Tokens`: a token is with the method that issued
  it, in the handoff or with an agent, in one of these places only. `GrantMoves`
  and its neighbours say what each write does by the method it belongs to; the
  step lemmas are then one case per action.
- **`TeamIntegrationProofs!TypeCorrect`, `OnlyReviewedWork`.** Here the requests may
  overlap (`Concurrent` is arbitrary). The argument follows a set `A` of
  candidates: `Within(A)` says that the branch, the index, the plans and the
  requests mention members of `A` only, and `WithinStep` proves that each
  action keeps it if a plan is made from members of `A` only. `A` = `Candidate` gives
  type correctness, `A` = `Vetted`, the candidates with another member's approval,
  gives the theorem; `InHand` (what a request in progress still applies comes
  from its plan) and `Accepted \subseteq Vetted` (a candidate that prepare takes was
  approved by somebody else) complete the invariant. Approvals are never taken
  back in the model or the code, so `Vetted` only grows.

- **`TeamIntegrationProofs!NothingLeftBehind`, `SucceededIsThere`,
  `IntegrationIsAtomic`**, where requests do not overlap (`~Concurrent`; section 4
  says what happens to the second otherwise). `SerialInv` knows at each await what
  the branch is: `Progress` says that an integrating request has exactly its
  applied patches on top of its plan's base, `Clean` that the index is dirty only
  between an apply and its commit or reset, `Traces` where commits of a request
  may be found, and `Vouched` that a plan found ready stays ready, as submitted
  candidates do not change. The refinement maps `Prepare` to a new proposal,
  the last step of an execution to the move of the branch, and each other step
  to a stutter, one lemma per kind of step.
- **`TeamIntegrationProofs!DependenciesComeFirst`** holds also where requests
  overlap. `orderCandidatesByTaskDependencies` sorts by a recursive depth, and
  `depth` is a recursive function over the tasks: that it exists and that a task is
  deeper than those it needs (`DepthGrows`) follows from `CreationOrderAssumption`,
  that a task is created after the tasks it depends on and keeps its
  dependencies, by a finite sequence of approximations.

Every safety property of every passing run is stated by one of these theorems.
Only model-checked are the liveness properties (`RunEnds`, `RequestAnswered`,
`RequestEnds`), which need ENABLED and fairness and are outside what the installed
provers do. The three properties of the violation runs are refuted by TLC and
therefore not provable; `AccessGrantsProofs` proves one of them under the
assumption the run drops.

Assumptions on constants are named and justified where they are declared: plan
sizes, limits and budgets are natural numbers, sets of requests, tasks,
workspaces and turns are finite, markers for "nothing" are no values
(`NoneAssumption`, `RequestAssumption`, ...), and `CreationOrderAssumption` above, which
`CollaborativeTaskService.createTask` ensures.

## 6. The plan

Done, the most important behaviour first:

1. `MissionExecution` and its proofs, `MissionBoundExecutor`.
2. `UsageGovernance` and its proofs.
3. `AccessGrants` and its proofs.
4. `TeamIntegration` over `AtomicIntegration`, and its proofs with the refinement.
5. `WorkspaceRetention` and its proofs.
6. `MissionRecords` and its proofs.
7. `SandboxEgress` and its proofs.
8. `RepositoryEdit` over `AtomicEdit`, and its proofs with the refinement.

To do:

9. `MissionRelease`, composing the release record with `MissionExecution`: it reads
   the execution record again after the run it started.
10. The dependency cache: entries of two renames, read by another process.
11. The status machine of collaborative tasks, and with it the task graph that
    `TeamIntegration` takes as a constant.
12. Proofs: how far `CompletedIsValidated` and `RepairsAreBounded` can be kept when
    crashes are allowed outside repair edits only; the atomicity of executions
    that overlap with prepares but with no rollback.

## 7. What the models leave out

- Contents: files, prompts, commands and messages are members of small sets;
  a validation or an edit succeeds, fails or throws.
- `RepositoryEdit`: how the semantic orchestrator chooses a scope; renames; names
  that git quotes (with spaces or other characters), which the code takes
  literally; folders in folders (a line is the topmost folder with nothing
  tracked); a file that goes between the status and its reading. `ls-files` and
  the restore or removal of one line are one step. The agent's use of git
  counts as interference (`env.strays`).
- `MissionRecords`: migration of old records, redaction, the export bundle,
  evidence other than tool calls (each written whole). `WorkspaceRetention`: the
  clone itself, the caps on its size, the rebuilding of an index.
- `SandboxEgress`: normalisation of addresses and host patterns, DNS pinning,
  headers; a body is one unit.
- `UsageGovernance`: replay of a reservation by `requestId`, `releaseReservation`,
  rate-limit windows. `AccessGrants`: scopes, repository matching, `singleUse`,
  `maxConcurrentSessions`, audit entries; one operation class that asks for approval.
- `TeamIntegration`: `supersede`, `dismissFinding`, `overrideFinding`,
  `refreshReadiness` and repair tasks, which no route reaches; the discarding of
  worktrees; more than one candidate for a worktree; a `git reset` that fails
  (its exit code is not looked at, `src/orchestration/integration-engine.ts:230`).
- Torn JSON files: a save takes effect when its rename does.

## 8. Running it

    tlc -workers 2 -config execution_faults.cfg MCMissionExecution
    tlapm MissionExecutionProofs.tla

Each run takes less than three minutes with two workers; each proof module less
than six minutes from nothing.
