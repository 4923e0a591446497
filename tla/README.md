# A formal model of devteam

devteam drives a feature from an idea to merged code: it runs the stages of a
fixed workflow (AIDLC), one after another, by starting a coding agent for each,
opens gates for the user between them, builds the plan's Bolts (slices of
construction work), and merges the feature's branch to main. The server keeps
its state in PostgreSQL and in a few in-memory maps; goroutines advance features
while users send requests, agents run for minutes, and the server may stop at
any moment.

This directory holds TLA+ models of it, the TLC configurations that check them
on small instances, and TLAPS proofs of the theorems that matter most. The
implementation is under `src/`; `PROJECT.json` maps each definition to the
lines it stands for.

| File | Content |
|---|---|
| `PipelineSpec.tla` | what the pipeline promises about one feature: the abstract specification |
| `StageMachine.tla` | the pipeline of one feature: rows, Bolts, goroutines, requests, crashes; its properties |
| `MCStageMachine.tla` | the small workflows and scope tables of the pipeline's runs |
| `StageMachineProofs.tla` | proofs about `StageMachine`: types, revision counts, the active mark, one goroutine, one merge |
| `PipelineProofs.tla` | proofs about `StageMachine`: human control, running rows, order, the refinement of `PipelineSpec`, no silent stop |
| `BoltProofs.tla` | proofs about `StageMachine`: completed Bolts |
| `HumanProxy.tla` | questions, their answers, and the proxy goroutine, with the pipeline (`EXTENDS StageMachine`) |
| `AgentCommands.tla` | what stage agents call: signals, questions, artifacts, notes; the reviewer; with the pipeline |
| `CommandLine.tla` | the user's `devteam run-stage`, `approve`, `reject`, `jump`, `intake`; with the pipeline |
| `AgentOutput.tla` | agent slots, the batcher, the stage log, the browser |
| `EventStream.tla` | server-sent events |
| `Chat.tla` | chat messages, their streams, proposals, the audit |
| `AgentSessions.tla` | tmux sessions and their rows |
| `Providers.tla` | language-model providers, tiers, role overrides, their resolution |
| `Defaults.tla` | feature defaults and the features created from them |
| `Boot.tla` | migrations, seeding, processes that start side by side |
| `Registry.tla` | the repository registry and the repository table |
| `GitHubClient.tla` | the installation token and its cache |
| `Worktrees.tla` | the working copies of a feature: prepare, commit, push, merge |
| `MCServices.tla` | the instances and bounds of the modules from `HumanProxy` on |
| `ToolsProofs.tla` | proofs about `HumanProxy`, `AgentCommands`, `CommandLine` |
| `OutputProofs.tla`, `ChatProofs.tla` | proofs about `AgentOutput` and `EventStream`, and about `Chat` |
| `ServicesProofs.tla` | proofs about the seven modules from `AgentSessions` to `Worktrees` |
| `MCServicesProofs.tla` | proofs about all the components side by side (`MCServices`) |
| `Overlap`, `Unattended`, `Alone`, `Attended`, `Tools`, `Services` `.cfg` | the runs that pass |
| `CrashStall`, `TwoRuns`, `BoltsUnbuilt`, `GuidedGate`, `AskedAnyway`, `SignalIgnored` `.cfg` | the runs that show the code disagreeing with its documentation |

Run `tlc -config Overlap.cfg MCStageMachine`, `tlc -config Services.cfg MCServices`
and `tlapm PipelineProofs.tla` (each `...Proofs` module by itself).

## Inventory

Each part: the state it keeps, its operations, what it talks to, what is hard
about it, and what makes it correct.

**Advance loop and state machine** (`internal/pipeline/advance.go`,
`state_machine.go`). State: none of its own but the mode it reads once and the
feature it reloads at every decision. Operations: `AdvanceFeature` (the loop),
`decideNextAction` (what next: wait, approve, re-run, prepare, Bolt, merge,
stage, done), `ProcessStageResult` (the gate decision after a run),
`ApproveAndAdvance`, `NextStageToRun`. Called by the handlers, by start-up and
by itself; calls the stage runner, the Bolts and the merge. Hard: every decision
reads rows that others write; an agent runs for minutes between the read and the
write. Correct when stages run in order, each gate is opened or approved as the
mode says, the merge comes once and after CI, the feature is done only with all
its stages closed, and the loop neither spins nor stops without a reason.

**Stage runner** (`stage_runner.go`). State: the row's revision count and the
feature, both read before the agent runs. Operations: `RunStage` (mark, worktree,
context, dispatch, smoke check, reviewer verdict, outcome), `RejectStage`,
`AcceptStageAsIs`, `AdvanceStage`, `JumpToStage`, `ShouldSkipStage`. Hard: seven
ways to return, each with its own writes; stale write-backs. Correct when a row
in progress has someone who will finish it, and revision counts are earned.

**Bolts** (`bolts.go`). State: the `bolts` table and per-Bolt stage rows.
Operations: `PrepareBolts`, `RunBolt`. Hard: interrupted and resumed Bolts,
approvals in the middle of one. Correct when a completed Bolt has nothing left
to run and the merge waits for the Bolts. `RunConstructionStages`,
`RunAllBolts` and the batch gate are called from nowhere.

**Stage API and the active mark** (`internal/api/stage_handlers.go`). State:
`Server.active`, a `sync.Map` of features being advanced. Operations: run stage,
run Bolt, resume, force re-run, approve, reject, accept as is, jump, add a
skipped stage, change mode, change scope, prepare Bolts. Hard: the mark is
tested and set in two steps, by handlers of concurrent requests. Correct when
one goroutine at a time advances a feature and the mark never outlives it.

**Server life cycle** (`server.go`). `createFeature` (rows, worktree, first
goroutine), `cancelFeature`, `RestoreActiveProcesses` (what a restart does with
rows that were running). Hard: a crash between any two writes. Correct when a
restart neither repeats nor forgets work.

**Tables** (`internal/db/*_store.go`). `feature_stages`, `bolts`, `audit_events`
and the `features` row, saved whole from copies loaded earlier.

**Stage definitions, scopes, gate** (`internal/stage`, `internal/gate`). 32
stages in five phases, nine scopes; `MaxRevisions` and accept-as-is.

**Human proxy and questions** (`agent_handlers.go`, `server.go` 1084-1314,
`internal/feature/db_question_store.go`, `question_store.go`). State: the
`questions` table, tmux sessions, a goroutine for each proxy. An agent that
needs feedback in guided or autonomous mode makes the server start a proxy
agent; its goroutine waits, tells the stage's session to continue, waits again
and recovers the stage. Hard: the goroutine marks, saves and recovers what it
read long ago, while the loop moves on. Correct when an answer is final, the
mark has an owner, and the stage goes on only with its questions answered.

**Agents' commands** (`cmd/devteam/cli_api.go`, `agent_handlers.go`, the
outcome, artifact and notes stores). Each is a process that calls the server.
Hard: posts that fail or lose their answer half-way through a file; an outcome
that another handler must find. Correct when nothing is asked twice or reported
and lost, and what an agent signals decides about its stage.

**Command line** (`cmd/devteam/main.go`, `repo.go`). Commands that open the
database and run the pipeline in their own process, beside the server. Hard:
they neither see nor set the active mark and work on a copy of the feature.

**Dispatch and sessions** (`internal/role/tmux.go`, `session_manager.go`,
`session_handlers.go`). State: `tmux_sessions` rows, live tmux sessions, a
semaphore of agent slots. Hard: runs, resumes, kills and the end of a phase
race, and some sessions have no row. Correct when what lives is known, a phase
leaves nothing behind, and no agent runs without a slot.

**Agent output** (`internal/role/streamer.go`, `stage_log_store.go`). Batches of
output are appended to the log, then pushed; a failed append is retried once. The
whole output is saved over the log at the end. Hard: two dispatches of one row, a
browser that leaves. Correct when the log has all the output and shows no less
than the browser.

**Server-sent events** (`server.go` 950-1070). A buffer for each feature, replay for
late clients, drops for slow ones. Hard: registering, replaying, buffering and
sending are steps of their own. Correct when a late client misses nothing.

**Chat** (`internal/chat`, `chat_handlers.go`). Streams with subscribers, an
expert's tool calls, proposals that wait for the user. Hard: closing against
sending, confirming against rejecting, goroutines that outlive their client.
Correct when only what the user allowed runs, once and audited.

**Configuration and settings** (`internal/config`, `internal/settings/defaults`,
`config_handlers.go`, `settings_handlers.go`). Tables of providers, tiers,
overrides, defaults. Hard: checks and writes in separate queries. Correct when
a dispatch or a new feature takes what the settings say.

**Database start** (`internal/db/migrations.go`, `seed.go`). Hard: the server and
command-line processes migrate side by side and are killed. Correct when each
migration is applied once.

**Repository registry** (`cmd/devteam/repo.go`, `repo_registry_store.go`,
`repo_store.go`). Correct when curation survives discovery.

**GitHub client** (`internal/github`). One cached token, concurrent exchanges.
Correct when no expired token is handed out.

**Repositories and worktrees** (`internal/repo`, `pipeline.go`). Correct when a
push or a merge that reports success took every commit.

**Rules, knowledge, plugins, spec files, web interface**: files, text and
clients, with no concurrency of their own.

`PROJECT.json` lists the hazards of each part at the line where they bite.

## What is modelled

`StageMachine` is one feature and everything that touches its stages.

| In the code | In the model |
|---|---|
| the `features` row | `feature` (status, mode, scope, `CurrentBolt`, whether it has a worktree) |
| `feature_stages` rows | `status`, `revs`, by `<<stage, bolt>>`, bolt 0 for linear stages; `"absent"` where no row exists |
| the `bolts` table, `MERGE_ATTEMPTED` events | `bolts`, `attempts` |
| `Server.active` | `active` |
| a handler, and the goroutine it starts | a process `p`: `pc[p]`, the mode it read (`mode`), the feature it loaded (`snap`), what it is about (`job`), the revision count it read (`rev0`), the result it got (`result`) |
| nothing: history for the properties | `strikes`, `userOK`, `modesSeen`; `rare` counts the rare requests |

One action is one burst of database calls with no wait in it. The places where
others come in between are the real ones: after a decision and before it is
acted on, while the agent runs, between the agent's outcome and the gate
decision, between two stages of a Bolt, while a session is polled, during a
merge, between the test and the set of the mark. What a process read before
such a place is stale after it, as in the code: the loop's mode is read once,
the gate uses the mode of the feature loaded before the agent ran, `RunStage`
writes back the revision count it read at its start, and a save of the feature
writes the whole copy, so it undoes a cancel or a mode change made in between.

`decideNextAction` is eight `Decide...` actions whose guards (`NoneRunning`,
`NoneWaiting`, `NoneOpen`, `LinearPart`, `MergeDue`) are the earlier steps not
applying. A run of an agent is the choice among its outcomes (`AgentEnds`), each
with the writes of its return path. `Faults` says which happen:
`agent` (exit with an error), `smoke` (checks or reviewer say no), `quota`,
`dispatch`, `setup` (context or role cannot be loaded), `auth` (GitHub
authorization lost at a phase boundary), `worktree` (none could be made).
`Requests` says which requests users send, and whether the server crashes.
A crash ends every process; `Crash` includes the whole of
`RestoreActiveProcesses`, which runs before the listener accepts anything.

Left out of `StageMachine`, with the reason:

- The reviewer's verdict is folded into `smoke` (same writes, same outcome);
  `AgentCommands` has the reviewer and the verdict's origin.
- The `recirculate` branch of `ApproveAndAdvance`: no outcome row with that
  value is stored under a stage ID that it looks up.
- Live tmux sessions at start-up: `ListActiveSessions` returns session names,
  `RestoreActiveProcesses` looks up feature IDs, so none is ever found. For the
  same reason a cancel kills no agent: the goroutine goes on, as in the model.
- Panics in `RunStage` (recovered, returned as a nil result), the text of
  prompts and events, the git commands.
- The ladder mode and the `Autonomy...` values, which nothing acts on.

`PipelineSpec` is the promise without the machinery: the scope's linear stages
finish in order and stay finished, the branch is merged once and after CI, the
feature closes when all its work is finished. Where users approve stages while
the pipeline runs (`Attended`, TRUE when `Requests` has `approve`) it promises
less, since the code does: an approval and the goroutine's own step on the same
stage may cross, and the step that is later writes what it decided before. So the
stage finished last may be open again (`Reopen`), but never one that is merged,
and a feature that an approval closed may be saved from a copy that was still
open (`Uncloses`). `ImplementsPipeline` says that `StageMachine`, with completed
rows for finished stages, implements it.

### Around the pipeline

`HumanProxy`, `AgentCommands` and `CommandLine` extend `StageMachine`: their
steps are the pipeline's plus their own, with its state read and written.

- `HumanProxy`: `questions` and `answer` are the table, `sessions` the live tmux
  sessions by phase, `ppc` and `held` where each proxy goroutine is and what it
  read. `NeedsFeedback` is `handleSignal` with `needs_feedback`; `ProxyStarts` to
  `ProxyUnmark` are `dispatchHumanProxy`; the `Recover...` actions are the
  branches of `recoverStage`. `StillPending` is what `GetPendingQuestions`
  really returns.
- `AgentCommands`: `outcomes` is the table by the name a row is saved or looked
  up under. `Walk` deletes the outcomes of a stage when it is run, `RunStageEnds`
  looks them up, `Review` and `NotReady` are `dispatchReviewer`. `ask` is the
  position of the `questions ask` command, `submit` what the artifact handler has
  read. Faults: a post refused or failed, an answer lost, a command killed.
- `CommandLine`: `shell[x]` is a process with its copy of the feature. A
  `run-stage` writes and ends like `RunStage`, without `ProcessStageResult` and
  without the mark; `Submitted` is a feature of `devteam intake`, without stage
  rows. Approvals and rejections name the row of the copy's Bolt also for a
  linear stage, as the code does.

The others are modules of their own.

- `AgentOutput`: `dpc[d]` where a dispatch is, `pipe`, `pending`, `chunk`,
  `buffer`, `shown` the way of its output, `logs` the rows. One piece is one read
  of the pipe; `Persist` and `Push` are the two halves of a flush, `Tick` the
  flush between reads. A cancelled context ends the batcher but not the agent.
  `ProcessSavesOutput` is the save of the whole `buffer` over the log, with what
  a tick has put into it twice. `intact[d]` is history: its log lost nothing by a
  failure or a client, and nobody else wrote to its row.
- `EventStream`: `array` and `count` are the slice of clients, shared with the
  senders that copied its header; `RemoveClient` shifts it in place.
- `Chat`: `hpc` the handlers, `wpc` the goroutines that write into streams,
  `subs`, `subCount` the shared slice of subscribers, `proposals` the store,
  `audits` the events, `ran` and `decided` history. The expert's output is a
  sequence of lines that `ParseToolCalls` reads as the code does.
- `AgentSessions`: `tmuxRow`, `alive`; the loop and the resumes are runners that
  walk `SessionPath`. `RunKey` is the session of a run and `ReviewKey` that of
  its reviewer (`LaunchReviewer`), which for a Bolt stage is `BoltReviews` and has
  no row. A row that cannot be saved puts its session into the history `unsaved`.
  `GateKey` is the row that `RunStage` updates at the gate, of bolt 0 for a
  construction stage that runs once. The proxy's session is in `HumanProxy`.
- `Providers`: rows by name; a settings request and a dispatch are the queries
  they make, in order. `ResolveProvider` and what the settings page shows are
  pure operators.
- `Defaults`: the global rows (two, after two first writes), the repository's
  row, and creates that read up to four times.
- `Boot`: what each process read at first, its transaction, the recorded
  versions.
- `Registry`: both repository tables and the commands and requests on them.
- `GitHubClient`: a clock, the token's expiry, the cache entry's end.
- `Worktrees`: the commits in each working copy, on origin's branch and on main.
  `HasUnpushedCommits` is the set of answers the check may give, failing git
  commands included; `work.untold` has the repositories that a push has skipped
  although they had something to push.

`MCServices` holds them all. They share no variable, but for the pipeline, which
three of them extend, each by itself; so a behaviour of `ServicesSpec` moves one
of them, its `part`, and the states explored are those of each component by
itself. Nothing of the others would change what one may do.

## The runs

The first five and four of the violations use `MCStageMachine`, two processes, one Bolt, `MaxRevisions = 1`
(so that accept-as-is is reached after one strike) and `MaxStrikes = 1`.
`CHECK_DEADLOCK FALSE` everywhere: the system stops when the feature is done or
waits for a user.

| Run | Instance | Checks | Shows |
|---|---|---|---|
| `Overlap` | 2 linear stages, human mode; run, approve, reject, accept, force, cancel, crash, handled at the same time; smoke, quota | `StrikesBacked` `HumanControl` `ActiveBacked` `RunningIsOwned` | with several goroutines on one feature, no revision is invented, no gate is passed without the user, no mark is left behind, no running row is orphaned. 945,558 states |
| `Unattended` | 4 stages (one per-Bolt) in two scopes, guided and autonomous; run, run-bolt, two crashes; agent, smoke, quota, worktree | `SingleAdvancer` `MergeOnce` `DoneComplete` `BoltClosed` `InOrder` `ImplementsPipeline` | the workflow keeps its promise across failures and restarts. 176,208 states |
| `Alone` | 4 stages in the full scope, autonomous; run, run-bolt, no crash; agent, smoke, dispatch, `FairSpec` | `NoSilentStall` `AdvanceEnds` `FinishesAlone` | the feature never stops unless a stage was sent back or could not be dispatched, every goroutine ends, and the feature is done unless its agents keep failing. 16,652 states |
| `Attended` | 4 stages, human and autonomous mode; run, run-bolt, prepare, approve, reject, crash; smoke, worktree | `HumanControl` `RunningIsOwned` `ImplementsPipeline` | the same workflow with users who decide while a goroutine runs: what crosses an approval undoes no more than `PipelineSpec` says. 633,462 states |
| `Tools` | 3 linear stages, two scopes; add, the late mark, and one of resume, jump, mode, scope, cancel, crash in each behaviour; smoke, setup, auth | `TypeOK` `HumanControl` | the recovery tools leave every variable in its range and approve nothing in a human-mode feature. 663,223 states |
| `Services` | the components of the next table, each by itself | 22 properties | each keeps its promises under its faults, overlaps and restarts. 607,197 states |
| `CrashStall` | `Unattended` with crashes, autonomous | `NoSilentStall` is violated | a crash after the last row is completed and before the feature is marked done leaves it open for ever: `RestoreActiveProcesses` looks for an open row |
| `TwoRuns` | two run requests that overlap | `SingleAdvancer` is violated | both pass the test of the mark |
| `BoltsUnbuilt` | autonomous, with a Bolt | `BoltsBeforeMerge` is violated | the loop runs a Bolt only if one of its rows exists, and the rows are created when it is run: the branch is merged with the Bolts pending |
| `GuidedGate` | guided, a run request after the pause | `GuidedPauses` is violated | the next advance approves the phase-end gate that guided mode opened |
| `AskedAnyway` | `HumanProxy` alone | `ContinuesAnswered` is violated | the query for pending questions names a column that does not exist, and its error is dropped |
| `SignalIgnored` | `AgentCommands` alone | `SignalHeard` is violated | outcomes are saved under the phase and looked up under the stage: `failed` and a reviewer's `recirculate` are not found |

What `Services` checks, part by part:

| Module | Instance | Properties |
|---|---|---|
| `HumanProxy` | 3 stages in 3 phases, autonomous; run, crash; one question, one proxy | `MarkOwned`: the active mark always has a goroutine that will remove it. `AnsweredOnce`: an answer is never replaced |
| `AgentCommands` | the same; a file of two questions, one malformed; stage 2 reviewed | `AskedOnce`: a question reported created exists, and none is asked twice but for a killed command |
| `CommandLine` | the same; one process, every command and fault | `RunningHasRunner`: a running row has a goroutine or a command at it, unless a command was killed, failed to set up, or reopened a closed feature |
| `AgentOutput` | two dispatches of one row, one slot | `LogComplete`: a log that nothing disturbed is the output, exactly when the dispatch returns, and with repeated fragments at most after the save of the whole output. `ShownIsLogged`, `SlotsHeld` |
| `EventStream` | two browsers, two senders, two events | `NoGap`: a late joiner misses no kept event |
| `Chat` | two messages, two confirmations; a call that signals, one that cancels, an unknown one | `OpsAuthorized`, `OpsAudited`, `DonePersisted`, `NoStreamLeak` |
| `AgentSessions` | two reviewed Bolts, a stage after them, a stage of the next phase; one resume; one kill or failure | `AliveKnown`: what lives has a row, but for the session of the Bolts' reviewers and one whose row could not be saved. `PhaseSessionsEnd`: no session with a row outlives its phase, unless the user resumed or jumped |
| `Providers` | two providers, two settings requests, two writes, one dispatch | `UnknownOnlyNew`, `ShownIsUsed` |
| `Defaults` | three global writes, one repository write and delete, one create | `CreatedFromCurrent` |
| `Boot` | a server and a command, three migrations, two kills | `MigratedOnce` |
| `Registry` | one repository, four commands, one delete | `SetOnlyManaged` |
| `GitHubClient` | two callers, a token life of 2, a timeout of 1, 5 ticks | `TokenInLife` |
| `Worktrees` | two repositories, one commit in each copy | `TakesAll`: a push without an error left nothing behind, but where the check for commits failed; a merged pull request left nothing behind |

`ServicesTypeOK` is the conjunction of their type invariants. Every action of
each module was seen to fire, except for two branches of `RunStageEnds` in
`AgentCommands` (`Heeded` and `SentBack`): they need a signal that is found, and
`SignalIgnored` is why there is none.

**Bounds.** Two processes are enough for any race between two actors; a third
request waits for one to end, as requests are refused or serialised by a free
process, not by a rule of the code. Four stages give one of each role: phase 0
(never gated), the planning stage, a per-Bolt stage, CI. `MaxStrikes` bounds how
often a row is sent back, `MaxRare` how many of the `Rare` requests a behaviour
has; both only cut behaviours off. `attempts` and `revs` need no bound: the runs
are finite because counts only grow with strikes and the merge comes once.
In `Services` the instances are the smallest with two actors at each shared
place: two dispatches of one log row, two confirmations of one proposal, two
senders and two clients, two callers of an empty cache. `MaxPieces`, `MaxEvents`,
`MaxWrites`, `MaxKills`, `MaxKilled`, `MaxTime`, `MaxCommits`, `MaxFiles` and
`MaxInterrupted` cut behaviours off. `WithReview` has both Bolt stages of the walk and
not the stage after them, so that a phase ends with the reviewers' session alive,
and its runs meet sessions of all three kinds. `ChatBounds`, `OutputBounds` and
`AgentBounds` in `MCServices` leave out combinations of independent activity:
a second chat message while a proposal is decided (but for the destructive
one), much output of a first dispatch, artifacts and reviews while questions are
asked; the properties hold without the last as well. Buffers and channels have
capacity 1 or 2 instead of 50 and 200, so that they do fill.
Symmetry of the processes is used in the safety runs; `Alone` does without.

**Fairness.** `FairSpec` is weak fairness of `Advance(p)` and of `AgentEnds(p)`
for each process. The first is the Go scheduler: a goroutine that can go on
does. The second is about the agents: `RunStage` waits for the agent's process
with no time limit and returns on every path when it exits, so it says that an
agent exits some day (the quota and error exits count). No fairness
is assumed of users or of crashes. `Services` checks safety only.

## What is proved

A run checks a property on one small instance; the theorems below hold for every
value of the constants: any number of stages, Bolts, goroutines, clients,
dispatches, repositories, any workflow and scope table, any set of requests and
faults that the hypotheses do not exclude. Their only assumptions are the named
ones of the modules about their constants (`StagesAssumption`,
`EnvironmentAssumption`, and those of the components), which TLC evaluates on
each run.

### The pipeline (`StageMachineProofs`, `PipelineProofs`, `BoltProofs`)

| Theorem | Property | Hypotheses |
|---|---|---|
| `TypeCorrect` | `TypeOK` | none |
| `StrikesAlwaysBacked` | `StrikesBacked` | none |
| `ActiveAlwaysBacked` | `ActiveBacked` | no `late_mark` |
| `SoleAdvancer` | `SingleAdvancer` | no `Overlap`; no `force`, `cancel`, `late_mark` |
| `MergedOnce` | `MergeOnce` | the same |
| `HumanInControl` | `HumanControl` | none |
| `RunningAlwaysOwned` | `RunningIsOwned` | no `setup` fault, no `resume` |
| `StagesInOrder` | `InOrder` | no `Overlap`; no request of `Disorder`; no `dispatch` fault |
| `PipelineImplemented` | `ImplementsPipeline` | no `Overlap`; only requests of `Steady`; no `dispatch` fault |
| `DoneIsComplete` | `DoneComplete` | the same, and no `approve` |
| `BoltsClosed` | `BoltClosed` | no `Overlap`; no `force`, `cancel`, `late_mark`, `scope` |
| `NeverStallsSilently` | `NoSilentStall` | no `Overlap`; only requests of `Driving`; no `setup`, `auth` fault |

What the proofs rest on:

- `TypeInv` adds `JobsOK` to the types: a process at a label works on a row or
  Bolt that the label needs.
- `StrikesBacked` is not inductive: an agent that ends writes back a count it
  read long ago. `HeldBacked` says that the held count is backed, too; strikes
  never decrease, so a stale count stays backed.
- `SoleInv`: at most one handler is on its way, and one about to mark finds no
  live goroutine. `MergeInv` adds that no attempt is recorded while a merge is
  ahead; the log is read at the decision and written at the merge.
- `HumanInv`: every copy and every mode that anybody holds, stale or not, is one
  the feature had, so in a feature that was only ever in human mode no goroutine
  opens a gate. Nothing about who runs when is needed.
- `OwnedInv`: a row in progress without a goroutine exists only in a feature that
  is closed in its row and in every copy (`ClosedForGood`). A crash leaves such
  rows only there, and nobody is left to save an open copy over it.
- `OrderInv`: while a linear stage is chosen, run or judged, the linear stages
  before it are closed and none after it was opened (`Clear`), so it is that
  stage that a user's decision can be about.
- `WorkInv`: each linear stage of the scope has its row, and no other has one;
  a copy of the feature has its status and scope, or trails it by an approval
  that closed it (`CopiesTrail`); who works on a completed row has been crossed by
  an approval; nobody works on the CI stage once the merge was attempted
  (`MergedStays`), so what is merged stays finished; the goroutine merges only
  after CI, and closes only what is finished. Each step is then one of
  `WorkStep`, which are the steps of `PipelineSpec`: `Reopens` is the one that an
  approval makes possible, and `OrderInv` says that it is about the last stage.
- `BoltInv`: what lies behind the walk in the Bolt being run is completed, and
  its rows are of the scope that the walk read.
- `StallInv`: wherever the goroutine may leave the loop, the feature is closed,
  not autonomous, or has a stage that was sent back or failed (`Settled`); the
  mode it read is still the feature's; what it is about to approve can be
  approved; the Bolt it is at exists. Since decisions wait for a running row,
  `OwnedInv` is needed as well: no such row is without its goroutine. The order of
  the stages is not: `TrackInv` says only that the scope's linear rows exist, that
  copies are the feature and that the goroutine works on rows that exist, which
  a failed dispatch leaves true.

Why the hypotheses are there. Each excludes something that breaks the property
or its invariant in the code, not only in the proof:

- `Overlap`: two handlers pass the test of the mark (`TwoRuns`).
- `late_mark`, `force`, `cancel`: the mark is set after the spawn, or removed
  beside a goroutine that goes on, so that a second one may start.
- `setup`: the row stays in progress with nobody to finish it. `resume`: a
  session that is told to continue leaves its row in progress when it exits.
- `dispatch` (order and refinement): a failed row stops no decision, so the walk
  passes the stage by. That is no silent stop, and `NeverStallsSilently` allows it.
- `Disorder` (`jump`, `add`, `accept`, `resume`, `force`, `cancel`, `late_mark`)
  rearranges the stages or runs beside the mark.
- `Steady` (`run`, `bolt`, `prepare`, `approve`, `reject`, `mode`, `crash`) leaves
  out `scope`: a wider scope brings in stages that have no row. `DoneIsComplete`
  leaves out `approve` as well: an approval of the last stage closes the feature,
  and the agent's outcome that it crossed is written over the approved row.
- `Driving` (`run`, `bolt`, `prepare`, `reject`) leaves out `crash`, after which
  a feature with all rows closed stays open (`CrashStall`), `mode`, whose switch
  between the last decision and the unmark nobody takes up, and `approve`, which
  at that moment completes the stage that was sent back, and starts nobody.
  `auth`: the advance fails at a phase boundary after its writes, and the loop
  ends.
- `BoltsClosed` without `scope`: a wider scope brings stages that a completed
  Bolt never had.

### Around the pipeline

| Module | Theorem | Property | Hypotheses |
|---|---|---|---|
| `ToolsProofs` | `ProxyTypeCorrect`, `AgentsTypeCorrect`, `ShellTypeCorrect` | `ProxyTypeOK`, `AgentsTypeOK`, `ShellTypeOK` | none |
| | `AlwaysAnsweredOnce` | `AnsweredOnce` | none |
| | `MarkAlwaysOwned` | `MarkOwned` | no `late_mark` |
| | `AlwaysAskedOnce` | `AskedOnce` | none |
| | `RunningAlwaysHasRunner` | `RunningHasRunner` | no `setup` fault, no `resume` |
| `OutputProofs` | `OutputTypeCorrect`, `SlotsAlwaysHeld`, `LogsComplete`, `ShownAlwaysLogged` | `OutputTypeOK`, `SlotsHeld`, `LogComplete`, `ShownIsLogged` | none |
| | `StreamTypeCorrect`, `StreamHasNoGap` | `StreamTypeOK`, `NoGap` | none |
| `ChatProofs` | `OperationsAuthorized`, `OperationsAudited`, `DoneAfterStored`, `StreamLeaksNothing`, `ChatTypeCorrect` | `OpsAuthorized`, `OpsAudited`, `DonePersisted`, `NoStreamLeak`, `ChatTypeOK` | none |
| `ServicesProofs` | `TokenAlwaysInLife`, `GitHubTypeCorrect` | `TokenInLife`, `GitHubTypeOK` | none |
| | `UnknownIsNew`, `ShownAlwaysUsed`, `ProvidersTypeCorrect` | `UnknownOnlyNew`, `ShownIsUsed`, `ProvidersTypeOK` | none |
| | `SettingsOnlyManaged`, `RegistryTypeCorrect` | `SetOnlyManaged`, `RegistryTypeOK` | none |
| | `CreatedAlwaysFromCurrent`, `DefaultsTypeCorrect` | `CreatedFromCurrent`, `DefaultsTypeOK` | none |
| | `AlwaysMigratedOnce`, `BootTypeCorrect` | `MigratedOnce`, `BootTypeOK` | none |
| | `AliveAlwaysKnown`, `PhaseSessionsAlwaysEnd`, `SessionTypeCorrect` | `AliveKnown`, `PhaseSessionsEnd`, `SessionTypeOK` | none |
| | `PushAndMergeTakeAll`, `WorktreesTypeCorrect` | `TakesAll`, `WorktreesTypeOK` | none |
| `MCServicesProofs` | `ServicesTypeCorrect` | `ServicesTypeOK` | none |
| | `ServicesKeepPromises` | the properties of the modules with variables of their own, from `SlotsHeld` to `TakesAll` | none |

The invariants in a sentence each:

- `MarkInv` adds to `MarkOwned` only that nobody is about to mark late. `ProxyInv`
  needs the types of the pipeline, whose rows the proxy writes by a stage number
  that it read up to an hour before.
- `AskInv`: what was printed was stored, and a question was stored no more often
  than files were begun or asks killed, less often while it is still to post.
- `ShellInv`: a row without a goroutine and without a command is one that the
  history `orphaned` names, or the feature is closed in its row and in every copy
  (`LeftClosed`, by `ClosedRow` of `PipelineProofs`). `orphaned` has the rows of
  commands that were killed or could not set up, and those left behind by a
  closed feature that `run-stage` or `approve` opened again with the save of an
  old copy.
- `SlotInv` counts the dispatches that hold a slot; `DispatchInv` says, for each
  label of a dispatch, how what is in the pipe, pending, in the chunk, logged and
  shown makes up what the agent wrote, as long as nobody disturbed its row.
  `BufferInv` says of the buffer, in which a tick repeats fragments, that it holds
  all that was read (`HoldsFirst`), which is what the save of it leaves.
- `StreamInv`: the list in the array is that of the connected clients, a sender
  that copied its header stays within the array, and a kept event has reached
  each streaming client, was dropped for it, was sent while a client left, or has
  a sender that has yet to come to that client.
- In `Chat`, `PlaceInv` ties a handler's place to its goroutine and its call;
  `OpInv` follows one proposal, `OpAnswered` its audit event, `DoneStored` the
  chunks that say done, `Subscribed` and `Contexts` who is in the list of
  subscribers and which context is whose.
- `GitHubInv`: the cache entry ends with its token, and a token that was minted
  for a call outlives the time in which the client waits for it. `RegistryInv`: a command that will write settings
  has seen its repository managed, and nothing takes it out of management.
  `OverwrittenInv`: a default that a later write has overwritten is in no row.
  `BootInv`: the recorded versions are the first ones, each committed once, and
  no two processes are about to commit the same one.
  `RunnerOK`: a run comes to its launch with a row, or with one that could not be
  saved (`Recorded`), and is in the current phase, or resumed, in a phase that is
  known to be loose (`OfThisPhase`). `PushInv`, `BeginHeld`: what a push or a merge
  has behind it is pushed, untold, or still held.

`MCServicesProofs` puts the components side by side. The state of the ten that
have variables of their own changes only by their own steps, so a behaviour of
`ServicesSpec` is one of each, and the theorems above apply. The proxy, the agents
and the shells find one pipeline, and the types of each must survive the steps of
the others. `SharedTypes` is the conjunction of what each of them needs, and one
more fact, that nobody is under review unless the agents are the part that
moves: a shell or a proxy starts goroutines without asking who is reviewed.

The assumptions on constants are weak and say why they are there: every readable
output of the expert has finitely many tool calls (`CallsAssumption`), outputs are
sequences of lines (`ChatAssumption`), the clock of `GitHubClient` has a first tick,
and the sets of requests of `Defaults` are disjoint, since each names a request
of one kind (`DefaultsAssumption`). The closing of a chat subscriber is stated with
`RemoveAt` at its place in the list.

### Only model-checked

- Liveness (`AdvanceEnds`, `FinishesAlone`) and the six violations: temporal
  proofs under fairness, and counterexamples, are not the prover's.
- What the parser of the chat returns for every list of lines: an induction over
  data. The proofs use only how many tool calls there can be.
- The properties beyond the hypotheses above, where they hold in an instance.

## Where the code and its documentation part

Six disagreements are runs (above). The model shows more of them, by adding a
fault or a request to a run that passes without:

- `DoneComplete` fails with `dispatch` (`advance.go:301`): a failed row stops
  nobody, and the feature is done with it.
- `RunningIsOwned` fails with `setup` (`stage_runner.go:148`) and with `resume`
  (`stage_handlers.go:222`): the row stays in progress, and all decisions wait.
- `ActiveBacked` fails with `late_mark` (`server.go:657`): `createFeature` sets
  the mark after it started the goroutine, which may have ended.
- A mode switch to autonomous that comes between a human-mode decision to wait
  and the removal of the mark starts nobody (`stage_handlers.go:928`).
- A save of a stale copy brings a cancelled feature back to open.
- A force re-run in human mode starts a loop that, in human mode, waits at the
  revising row: nothing is re-run (`stage_handlers.go:105`).
- Accept-as-is completes a row that is running (`stage_runner.go:528`).
- Autonomous mode approves a Bolt stage whose agent failed (`bolts.go:282`).
  "Failures always halt" (`bolts.go:192`, `:399`, `:526`) is said of `RunAllBolts`,
  which nothing calls; the loop that runs Bolts does not.
- `pipeline.go:573` says that a human-mode merge is the user's; the loop merges
  in every mode.

Seen while the components around the pipeline were modelled; each is in its
module as the code has it:

- `recoverStage` may decide about a stage whose agent still runs, or about one
  the loop has left (`agent_handlers.go:310`): with proxies the branch can be
  merged twice and a feature be done with open rows.
- A `run-stage` of the command line overwrites, at its end, a row that was
  approved meanwhile; a stale copy saved by it undoes a cancel (`main.go:388`).
- Switching a feature of `devteam intake`, which has no stage rows, to an
  automatic mode marks it done at once.
- An artifact is tagged with the feature's current stage, which automatic
  approvals do not move; a user's edit clears the tag (`server.go:757`).
- The example of a questions file that agents are given (`stage_runner.go:920`)
  lacks phase and type, so each post of such a file is refused, and the file is
  removed (`cli_api.go:128`).
- A note's failure is dropped: the command says it is recorded.
- "The batcher's final flush IS the final save", and `SaveStageLogForBolt` "is
  NOT called at completion" (`tmux.go:124`, `stage_runner.go:273`). It is called,
  one step later: `ProcessStageResult` replaces the log by the whole output
  (`state_machine.go:43`), also when another dispatch wrote the row. In that
  output a fragment flushed by the timer is there twice (`streamer.go:131`, `:141`),
  so a log that was exact at the final flush need not be after the save; on the
  other hand, what failed appends have lost is then there. `LogComplete` says both.
- `CompletePhaseSessions` "marks all sessions for a phase as done"
  (`session_manager.go:241`), but finds only those with rows. The reviewer's
  dispatch names no session (`stage_runner.go:414`), so in a Bolt stage it gets
  `devteam-<id>-construction`, which has no row: the API cannot list or kill it, and
  it outlives construction. A row that cannot be saved is only logged
  (`session_manager.go:62`), with the same effect.
- At the gate of a construction stage that runs once, `RunStage` updates the row
  of bolt 0 (`stage_runner.go:104`, `:347`), not that of the session it ran in.
- `hasUnpushedCommits` answers "no" when git fails (`manager.go:377`), so
  `PushAcrossRepos` skips the repository and returns no error; its branch for an
  error of the check (`manager.go:212`) is never taken.
- A send to a chat subscriber that just closed is a send on a closed channel
  (`stream.go:97`); outside a handler it ends the server.
- Another message's done or error chunk ends a stream; a client that leaves
  cancels the expert of the other (`chat_handlers.go:249`, `:274`).
- A proposal can be confirmed after its expiry, and after its session was deleted
  (`cli_proxy.go:285`); a confirmed verb whose words are all matched runs
  `devteam` with its arguments only (`cli_proxy.go:322`).
- Two first writes of the global defaults leave two rows (`store.go:173`).
- A partly seeded repository table is never completed (`seed.go:34`).
- `MergeFeatureToMain` returns no error whatever failed (`pipeline.go:650`), and
  a stale local branch is merged as it is, unless it conflicts, which leads to the
  pull request (`pipeline.go:635`).
- The credential store's statements use placeholders the raw connection does not
  take: stored tokens never engage.

## Not modelled

- `RunConstructionStages`, `RunAllBolts`, the batch gate, `recoverBoltStage`,
  `AssumeQuestion`, the file question store, pull-request operations, the
  mergeable poll and the worktree clean-up: nothing calls them.
- Handlers and commands that only read, validation of request bodies and of the
  configuration file, prompts, knowledge, rules, plugins, retrieval: data and
  text, with no state that two actors share.
- What each migration does to the schema, and the nine scope tables as data.
- The web interface: its requests are the model's.
- Two components at a time around the pipeline (a proxy and a command-line run
  on one feature): each is composed with the pipeline alone.

## Plan

Written, in this order: `StageMachine`, its runs, its proofs, `PipelineSpec`;
`AgentOutput`, `EventStream`, `Chat`, `HumanProxy`, `AgentSessions`, `Providers`,
`Defaults`, `Boot`, `Registry`, `GitHubClient`, `Worktrees`, `AgentCommands`,
`CommandLine` and their run.

Proved, in this order: the types, the counts, the mark and the merge; human
control and running rows; the order and the refinement of `PipelineSpec`;
completed Bolts; the components around the pipeline; no silent stop; the
refinement where users approve, no silent stop with failed dispatches, the types
of every component and of all of them together.

Proofs to come, in the order of their worth: `NoSilentStall` with `mode`, for a
feature whose last decision was in the mode that it has; a proxy and a command on
one feature, composed, with `MarkOwned` and `RunningHasRunner` of both.
