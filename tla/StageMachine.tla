---------------------------- MODULE StageMachine ----------------------------
(***************************************************************************)
(* The stage pipeline of one feature: the feature_stages and bolts tables, *)
(* the features row, the server's in-memory "active" mark, and the         *)
(* goroutines that run Pipeline.AdvanceFeature over them while users send  *)
(* requests and the server may crash and restart.                          *)
(*                                                                         *)
(* A process p of Procs is a request handler (pc "marking", "checkActive") *)
(* and then the goroutine it starts.  Every action is one burst of         *)
(* database calls with no wait in it; between two actions of a process     *)
(* the others may run, so what the process read before is stale after.     *)
(***************************************************************************)
EXTENDS Naturals, FiniteSets

CONSTANTS
    NumStages,    \* stages are 1..NumStages, in sort_order
    PhaseOf,      \* PhaseOf[s]: 0 initialization ... 4 operation
    BoltStages,   \* 3.1-3.5: one row per Bolt
    PhaseEnds,    \* 1.7, 2.8, 3.7, 4.7
    PlanStage,    \* 2.8, after which the Bolts are prepared
    CIStage,      \* 3.7, after which the branch is merged to main
    ScopeStages,  \* ScopeStages[c]: the stages that scope c executes
    NumBolts,     \* the most Bolts a plan may have
    MaxRevisions, \* gate.MaxRevisions
    Procs,        \* handlers and goroutines
    StartModes,   \* execution modes a feature may be created with
    Requests,     \* the user requests (and "crash") that happen
    Faults,       \* the ways an agent or a service fails
    Overlap,      \* may two requests be handled at the same time?
    MaxStrikes,   \* bound: how often one row is sent back
    Rare,         \* the requests of which MaxRare are made
    MaxRare       \* bound: how many rare requests are made

Stage == 1..NumStages
Scopes == DOMAIN ScopeStages
Modes == {"human", "guided", "autonomous"}
Bolt == 1..NumBolts
LinearStages == Stage \ BoltStages
Rows == (LinearStages \X {0}) \cup (BoltStages \X Bolt)

RowStatus == {"absent", "not_started", "in_progress", "awaiting_approval",
              "revising", "completed", "skipped", "failed"}
BoltStatus == {"absent", "pending", "in_progress", "completed", "failed"}
Features == [status : {"open", "done", "cancelled"}, mode : Modes,
             scope : Scopes, stage : 0..NumStages, bolt : 0..NumBolts,
             tree : BOOLEAN]
AllRequests == {"run", "bolt", "prepare", "approve", "reject", "accept",
                "force", "resume", "jump", "add", "mode", "scope", "cancel",
                "late_mark", "crash"}
AllFaults == {"agent", "smoke", "quota", "dispatch", "setup", "auth", "worktree"}

ASSUME StagesAssumption ==
    /\ NumStages \in Nat /\ NumBolts \in Nat \ {0}
    /\ MaxRevisions \in Nat /\ MaxStrikes \in Nat
    /\ PhaseOf \in [Stage -> 0..4] /\ Scopes # {}
    /\ BoltStages \subseteq Stage /\ PhaseEnds \subseteq LinearStages
    /\ PlanStage \in LinearStages /\ CIStage \in LinearStages
    /\ ScopeStages \in [Scopes -> SUBSET Stage]

ASSUME EnvironmentAssumption ==
    /\ StartModes \subseteq Modes /\ Requests \subseteq AllRequests
    /\ Faults \subseteq AllFaults /\ Overlap \in BOOLEAN
    /\ Rare \subseteq AllRequests /\ MaxRare \in Nat

VARIABLES
    feature,   \* the features row: status, execution mode, scope, CurrentStage
               \* (0: none yet), CurrentBolt, and whether WorktreeDir is set
    status,    \* feature_stages.status of each row ("absent": no such row)
    revs,      \* feature_stages.revision_count of each row
    bolts,     \* bolts.status of each Bolt
    attempts,  \* MERGE_ATTEMPTED events in audit_events
    active,    \* Server.active holds the feature
    pc,        \* where each process is
    mode,      \* the mode AdvanceFeature read when it was called
    snap,      \* the feature f a process loaded and works with
    job,       \* what a process does: a kind, and the row it is about
    rev0,      \* fs.RevisionCount, read when RunStage began
    result,    \* StageRunResult.OutcomeSource
    strikes,   \* history: how often each row was really sent back
    userOK,    \* history: rows a user approved since they were last started
    modesSeen, \* history: every mode the feature ever had
    rare       \* how many rare requests were made

db == <<feature, status, revs, bolts, attempts>>
local == <<mode, snap, job, rev0, result>>
history == <<strikes, userOK, modesSeen>>
vars == <<db, active, pc, local, history, rare>>

PCs == {"idle", "marking", "checkActive", "spawned", "decide",
        "act", "agent", "process", "boltStart", "boltNext", "boltGate",
        "merging", "finish", "lateMark", "resuming",
        "polling", "unmark"}
Kinds == {"none", "request", "forced", "resume", "approve", "prepare",
          "bolt", "boltRequest", "merge", "stage"}
Jobs == [kind : Kinds, stage : 0..NumStages + 1, bolt : 0..NumBolts]
Results == {"none", "default_pass", "agent_failed", "smoke_failed"}

NoJob == [kind |-> "none", stage |-> 0, bolt |-> 0]
NoFeature == [status |-> "open", mode |-> "human", stage |-> 0, bolt |-> 0,
              tree |-> FALSE, scope |-> CHOOSE c \in Scopes : TRUE]
Job(k, s, b) == [kind |-> k, stage |-> s, bolt |-> b]
Row(p) == <<job[p].stage, job[p].bolt>>

-----------------------------------------------------------------------------
(* Reading the tables.                                                     *)

AutoMode(m) == m \in {"autonomous", "guided"}

With(st) == {r \in Rows : status[r] = st}

\* GetFeatureStages orders rows by stage, then by Bolt.
Before(r, q) == r[1] < q[1] \/ (r[1] = q[1] /\ r[2] < q[2])
\* (as a mutant: no ORDER BY)
AnyRow(r, S) == r \in S
First(r, S) == r \in S /\ \A q \in S : ~Before(q, r)

InScope(c, s) == s \in ScopeStages[c]

\* The stage GetStagesForScope lists after s.
Follows(c, s, t) ==
    /\ InScope(c, t) /\ t > s
    /\ \A u \in ScopeStages[c] : u > s => u >= t

StageAfter(c, s) == CHOOSE t \in Stage : \A u \in Stage : Follows(c, s, u) => u = t

LastInScope(c, s) == \A u \in ScopeStages[c] : u <= s

\* The not_started linear rows that a walk for the next stage passes over
\* and marks skipped: those out of scope, up to the first one in scope.
PassedOver(st, c) ==
    {r \in Rows : /\ st[r] = "not_started" /\ r[1] \in LinearStages
                  /\ ~InScope(c, r[1])
                  /\ \A q \in Rows :
                        (/\ st[q] = "not_started" /\ q[1] \in LinearStages
                         /\ InScope(c, q[1])) => r[1] < q[1]}

Skip(st, S) == [r \in Rows |-> IF r \in S THEN "skipped" ELSE st[r]]
Zero(n, S) == [r \in Rows |-> IF r \in S THEN 0 ELSE n[r]]

-----------------------------------------------------------------------------
(* Writes shared by several callers.                                       *)

\* AdvanceStage fails for a stage outside the scope, and, with its writes
\* done, at a phase boundary where the GitHub authorization is gone.
AdvanceMayFail(f, s) ==
    /\ "auth" \in Faults
    /\ \E t \in Stage : Follows(f.scope, s, t) /\ PhaseOf[t] # PhaseOf[s]

AdvanceOutcomes(f, s) ==
    IF s \in BoltStages THEN {TRUE}
    ELSE IF ~InScope(f.scope, s) THEN {FALSE}
    ELSE IF AdvanceMayFail(f, s) THEN {TRUE, FALSE} ELSE {TRUE}

\* (as a mutant: the approval of a per-Bolt stage resets a row, too)
NextRowOfAny(f, s) ==
    {r \in Rows : /\ InScope(f.scope, s) /\ Follows(f.scope, s, r[1])
                  /\ r[2] = 0 /\ status[r] # "absent"}

\* The row AdvanceStage resets: the next stage's, when it has one (a
\* per-Bolt stage has none at bolt_number 0).
NextRow(f, s) ==
    {r \in Rows : /\ s \in LinearStages /\ InScope(f.scope, s)
                  /\ Follows(f.scope, s, r[1]) /\ r[2] = 0
                  /\ status[r] # "absent"}

\* AdvanceStage saves the caller's copy of the feature, done after the last,
\* and otherwise at the next stage.
AdvancedFeature(f, s) ==
    IF s \in BoltStages \/ ~InScope(f.scope, s) THEN feature
    ELSE IF LastInScope(f.scope, s)
    THEN [f EXCEPT !.status = "done", !.stage = s]
    ELSE [f EXCEPT !.stage = StageAfter(f.scope, s)]

Advanced(st, f, s) ==
    [r \in Rows |-> IF r \in NextRow(f, s) THEN "not_started" ELSE st[r]]

\* (as a mutant: whatever is not completed is approved)
ApprovableAny(r) == r \in Rows /\ status[r] \notin {"absent", "completed"}

\* ApproveAndAdvance: complete the row, advance, and walk to the next stage.
Approvable(r) == r \in Rows /\ status[r] \in {"awaiting_approval", "revising"}

ApproveAndAdvance(f, r, ok) ==
    LET st == Advanced([status EXCEPT ![r] = "completed"], f, r[1])
        passed == IF ok THEN PassedOver(st, AdvancedFeature(f, r[1]).scope)
                  ELSE {}
    IN  /\ feature' = AdvancedFeature(f, r[1])
        /\ status' = Skip(st, passed)
        /\ revs' = Zero(revs, NextRow(f, r[1]) \cup passed)
        /\ UNCHANGED <<bolts, attempts>>

Goto(p, label) == pc' = [pc EXCEPT ![p] = label]
Take(p, j) == job' = [job EXCEPT ![p] = j]
SetRow(r, st) == status' = [status EXCEPT ![r] = st]
SetBolt(b, st) == bolts' = [bolts EXCEPT ![b] = st]
Strike(r) == /\ strikes[r] < MaxStrikes
             /\ strikes' = [strikes EXCEPT ![r] = @ + 1]

-----------------------------------------------------------------------------
(* createFeature: the rows of the scope's linear stages exist, and a       *)
(* goroutine is about to mark the feature active and run it.               *)

Created(m, c, p, q) ==
    /\ feature = [status |-> "open", mode |-> m, scope |-> c, stage |-> 0,
                  bolt |-> 0, tree |-> FALSE]
    /\ status = [r \in Rows |-> IF r[1] \in LinearStages /\ InScope(c, r[1])
                                THEN "not_started" ELSE "absent"]
    /\ revs = [r \in Rows |-> 0]
    /\ bolts = [b \in Bolt |-> "absent"]
    /\ attempts = 0
    /\ active = FALSE
    /\ pc = [x \in Procs |->
                IF x = p THEN "marking"
                ELSE IF x = q /\ "late_mark" \in Requests THEN "lateMark"
                ELSE "idle"]
    /\ mode = [x \in Procs |-> "human"]
    /\ snap = [x \in Procs |-> NoFeature]
    /\ job = [x \in Procs |-> IF x = p THEN Job("request", 0, 0) ELSE NoJob]
    /\ rev0 = [x \in Procs |-> 0]
    /\ result = [x \in Procs |-> "none"]
    /\ strikes = [r \in Rows |-> 0]
    /\ userOK = {}
    /\ modesSeen = {m}
    /\ rare = 0

Init == \E m \in StartModes, c \in Scopes, p, q \in Procs : Created(m, c, p, q)

-----------------------------------------------------------------------------
(* AdvanceFeature: load the mode once, then decide and act in a loop.      *)

Spawned(p) ==
    /\ pc[p] = "spawned"
    /\ mode' = [mode EXCEPT ![p] = feature.mode]
    /\ Goto(p, "decide")
    /\ UNCHANGED <<db, active, snap, job, rev0, result, history, rare>>

\* decideNextAction's steps, each guarded by the earlier ones not applying.
NoneRunning == With("in_progress") = {}
NoneWaiting == NoneRunning /\ With("awaiting_approval") = {}
\* (as a mutant: step 3 is missing)
NoneOpenButRevising == NoneWaiting
NoneOpen == NoneWaiting /\ With("revising") = {}
Planned == status[<<PlanStage, 0>>] = "completed"
Prepared == \E b \in Bolt : bolts[b] # "absent"
BoltToRun(b) ==
    /\ bolts[b] \notin {"absent", "completed"}
    /\ \E s \in BoltStages : status[<<s, b>>] = "not_started"
FirstBolt(b) == BoltToRun(b) /\ \A c \in Bolt : c < b => ~BoltToRun(c)
LinearPart == /\ NoneOpen
              /\ Planned => Prepared /\ \A b \in Bolt : ~BoltToRun(b)
\* (as a mutant: the audit log is not looked at)
MergeDueUnchecked == status[<<CIStage, 0>>] = "completed"
MergeAttempted == attempts # 0
MergeDue == status[<<CIStage, 0>>] = "completed" /\ ~MergeAttempted
Walkable(c) ==
    {r \in With("not_started") : r[1] \in LinearStages /\ InScope(c, r[1])}

\* Every decision reloads the feature and remembers what to do.
Decide(p, label, j) ==
    /\ pc[p] = "decide"
    /\ snap' = [snap EXCEPT ![p] = feature]
    /\ Goto(p, label)
    /\ Take(p, j)
    /\ UNCHANGED <<feature, bolts, attempts, active, mode, rev0, result, history, rare>>

DecideWait(p) ==
    /\ \/ ~NoneRunning
       \/ NoneRunning /\ ~NoneWaiting /\ ~AutoMode(mode[p])
       \/ NoneWaiting /\ ~NoneOpen /\ ~AutoMode(mode[p])
    /\ Decide(p, "unmark", NoJob)
    /\ UNCHANGED <<status, revs>>

DecideApprove(p) ==
    /\ NoneRunning /\ AutoMode(mode[p])
    /\ \E r \in Rows : /\ First(r, With("awaiting_approval"))
                       /\ Decide(p, "act", Job("approve", r[1], r[2]))
    /\ UNCHANGED <<status, revs>>

DecideRerun(p) ==
    /\ NoneWaiting /\ AutoMode(mode[p])
    /\ \E r \in Rows :
        /\ First(r, With("revising"))
        /\ IF r[1] \in BoltStages
           THEN Decide(p, "boltStart", Job("bolt", 1, r[2]))
           ELSE Decide(p, "act", Job("stage", r[1], 0))
    /\ UNCHANGED <<status, revs>>

DecidePrepare(p) ==
    /\ NoneOpen /\ Planned /\ ~Prepared
    /\ Decide(p, "act", Job("prepare", 0, 0))
    /\ UNCHANGED <<status, revs>>

DecideBolt(p) ==
    /\ NoneOpen /\ Planned
    /\ \E b \in Bolt : FirstBolt(b) /\ Decide(p, "boltStart", Job("bolt", 1, b))
    /\ UNCHANGED <<status, revs>>

DecideMerge(p) ==
    /\ LinearPart /\ MergeDue
    /\ Decide(p, "act", Job("merge", 0, 0))
    /\ UNCHANGED <<status, revs>>

\* The walk for the next stage marks what it passes over as it goes.
DecideStage(p) ==
    /\ LinearPart /\ ~MergeDue
    /\ \E r \in Rows : /\ First(r, Walkable(feature.scope))
                       /\ Decide(p, "act", Job("stage", r[1], 0))
    /\ status' = Skip(status, PassedOver(status, feature.scope))
    /\ revs' = Zero(revs, PassedOver(status, feature.scope))

DecideDone(p) ==
    /\ LinearPart /\ ~MergeDue /\ Walkable(feature.scope) = {}
    /\ Decide(p, "finish", NoJob)
    /\ status' = Skip(status, PassedOver(status, feature.scope))
    /\ revs' = Zero(revs, PassedOver(status, feature.scope))

\* Auto-approve with the feature loaded by the decision.
AutoApprove(p) ==
    /\ pc[p] = "act" /\ job[p].kind = "approve"
    /\ IF Approvable(Row(p))
       THEN \E ok \in AdvanceOutcomes(snap[p], job[p].stage) :
                /\ ApproveAndAdvance(snap[p], Row(p), ok)
                /\ Goto(p, IF ok THEN "decide" ELSE "unmark")
       ELSE Goto(p, "unmark") /\ UNCHANGED db
    /\ UNCHANGED <<active, local, history, rare>>

\* (as a mutant: a stage status in the bolts table)
PrepareBoltsWrong ==
    IF Prepared THEN UNCHANGED bolts
    ELSE bolts' = [b \in Bolt |-> IF b = 1 THEN "not_started" ELSE "absent"]

PrepareBolts ==
    IF Prepared THEN UNCHANGED bolts
    ELSE \E n \in Bolt :
            bolts' = [b \in Bolt |-> IF b <= n THEN "pending" ELSE "absent"]

ActPrepare(p) ==
    /\ pc[p] = "act" /\ job[p].kind = "prepare"
    /\ PrepareBolts
    /\ Goto(p, "decide")
    /\ UNCHANGED <<feature, status, revs, attempts, active, local, history, rare>>

\* (as a mutant: the attempt is not recorded)
MergeUnrecorded(p) ==
    /\ pc[p] = "act" /\ job[p].kind = "merge"
    /\ Goto(p, "merging")
    /\ UNCHANGED <<db, active, local, history, rare>>

\* MERGE_ATTEMPTED is recorded before the merge, whose failure is only logged.
MergeBegin(p) ==
    /\ pc[p] = "act" /\ job[p].kind = "merge"
    /\ attempts' = attempts + 1
    /\ Goto(p, "merging")
    /\ UNCHANGED <<feature, status, revs, bolts, active, local, history, rare>>

\* (as a mutant: the loop ends after the merge)
MergeReturns(p) ==
    /\ pc[p] = "merging"
    /\ Goto(p, "unmark")
    /\ UNCHANGED <<db, active, local, history, rare>>

MergeEnd(p) ==
    /\ pc[p] = "merging"
    /\ Goto(p, "decide")
    /\ UNCHANGED <<db, active, local, history, rare>>

\* markFeatureDone reloads the feature before it saves it as done.
Finish(p) ==
    /\ pc[p] = "finish"
    /\ feature' = [feature EXCEPT !.status = "done"]
    /\ Goto(p, "unmark")
    /\ UNCHANGED <<status, revs, bolts, attempts, active, local, history, rare>>

\* (as a mutant: the mark is not removed)
UnmarkForgotten(p) ==
    /\ pc[p] = "unmark"
    /\ Goto(p, "idle")
    /\ Take(p, NoJob)
    /\ UNCHANGED <<db, active, mode, snap, rev0, result, history, rare>>

\* The deferred unmarkFeatureActive of the goroutine.
Unmark(p) ==
    /\ pc[p] = "unmark"
    /\ active' = FALSE
    /\ Goto(p, "idle")
    /\ Take(p, NoJob)
    /\ snap' = [snap EXCEPT ![p] = NoFeature]
    /\ mode' = [mode EXCEPT ![p] = "human"]
    /\ UNCHANGED <<db, rev0, result, history, rare>>

-----------------------------------------------------------------------------
(* RunStage: mark the row in_progress, run the agent, write the outcome    *)
(* with the revision count read at the start.                              *)

\* EnsureSpecWorktree: the first stage of a feature creates its worktree and
\* saves the copy of the feature that the caller loaded.
EnsureSpecWorktree(p) ==
    \/ /\ ~snap[p].tree
       /\ feature' = [snap[p] EXCEPT !.tree = TRUE]
       /\ snap' = [snap EXCEPT ![p].tree = TRUE]
    \/ /\ snap[p].tree \/ "worktree" \in Faults
       /\ UNCHANGED <<feature, snap>>

RunStageBegin(p, r) ==
    /\ SetRow(r, "in_progress")
    /\ rev0' = [rev0 EXCEPT ![p] = revs[r]]
    /\ EnsureSpecWorktree(p)
    /\ userOK' = userOK \ {r}
    /\ Goto(p, "agent")

ActStage(p) ==
    /\ pc[p] = "act" /\ job[p].kind = "stage"
    /\ IF status[Row(p)] = "absent"
       THEN Goto(p, "unmark") /\ UNCHANGED <<feature, status, snap, rev0, userOK>>
       ELSE RunStageBegin(p, Row(p))
    /\ UNCHANGED <<revs, bolts, attempts, active, mode, job, result, strikes,
                   modesSeen, rare>>

OnBolt(p) == job[p].stage \in BoltStages
Consumed(p) == result' = [result EXCEPT ![p] = "none"]

\* RunStage returns a result: ProcessStageResult or RunBolt takes it up.
Returns(p, st, n, res) ==
    /\ pc[p] = "agent"
    /\ SetRow(Row(p), st)
    /\ revs' = [revs EXCEPT ![Row(p)] = n]
    /\ result' = [result EXCEPT ![p] = res]
    /\ rev0' = [rev0 EXCEPT ![p] = 0]
    /\ Goto(p, IF OnBolt(p) THEN "boltGate" ELSE "process")
    /\ UNCHANGED <<feature, bolts, attempts, active, mode, snap, job, userOK,
                   modesSeen, rare>>

AgentPasses(p) ==
    /\ Returns(p, "awaiting_approval", rev0[p], "default_pass")
    /\ UNCHANGED strikes

\* The agent exits with an error: the gate it returns is still open.
AgentFails(p) ==
    /\ "agent" \in Faults
    /\ Returns(p, "revising", rev0[p], "agent_failed")
    /\ UNCHANGED strikes

SmokeFails(p) ==
    /\ "smoke" \in Faults
    /\ Returns(p, "revising", rev0[p] + 1, "smoke_failed")
    /\ Strike(Row(p))

\* RunStage returns an error: AdvanceFeature returns it, RunBolt fails the bolt.
Errs(p) ==
    /\ pc[p] = "agent"
    /\ Goto(p, "unmark")
    /\ rev0' = [rev0 EXCEPT ![p] = 0]
    /\ IF OnBolt(p) THEN SetBolt(job[p].bolt, "failed") ELSE UNCHANGED bolts
    /\ UNCHANGED <<feature, attempts, active, mode, snap, job, result, history, rare>>

\* (as a mutant: running out of quota counts as a revision)
QuotaCounted(p) ==
    /\ "quota" \in Faults
    /\ Errs(p)
    /\ SetRow(Row(p), "revising")
    /\ revs' = [revs EXCEPT ![Row(p)] = rev0[p] + 1]

QuotaExhausted(p) ==
    /\ "quota" \in Faults
    /\ Errs(p)
    /\ SetRow(Row(p), "revising")
    /\ revs' = [revs EXCEPT ![Row(p)] = rev0[p]]

DispatchFails(p) ==
    /\ "dispatch" \in Faults
    /\ Errs(p)
    /\ SetRow(Row(p), "failed")
    /\ revs' = [revs EXCEPT ![Row(p)] = rev0[p]]

\* The stage's context or role cannot be loaded, after the in_progress write.
SetupFails(p) ==
    /\ "setup" \in Faults
    /\ Errs(p)
    /\ UNCHANGED <<status, revs>>

-----------------------------------------------------------------------------
(* ProcessStageResult: the gate decision for a linear stage, with the mode *)
(* of the feature the loop loaded before the stage ran.                    *)

\* (as a mutant: only guided mode opens a gate)
AutoApprovedUnlessGuided(f, s) ==
    PhaseOf[s] = 0 \/ f.mode # "guided" \/ s \notin PhaseEnds

AutoApproved(f, s) ==
    \/ PhaseOf[s] = 0
    \/ f.mode = "autonomous"
    \/ f.mode = "guided" /\ s \notin PhaseEnds

Process(p, st, label) ==
    /\ pc[p] = "process"
    /\ SetRow(Row(p), st)
    /\ Consumed(p)
    /\ Goto(p, label)
    /\ UNCHANGED <<feature, revs, bolts, attempts, active, mode, snap, job, rev0,
                   history, rare>>

ProcessFailure(p) ==
    /\ result[p] \in {"smoke_failed", "agent_failed"}
    /\ Process(p, "revising", "unmark")

\* (as a mutant: the loop ends after an automatic approval)
ProcessAutoApproveReturns(p) ==
    /\ pc[p] = "process" /\ result[p] = "default_pass"
    /\ AutoApproved(snap[p], job[p].stage)
    /\ Process(p, "completed", "unmark")

ProcessAutoApprove(p) ==
    /\ pc[p] = "process" /\ result[p] = "default_pass"
    /\ AutoApproved(snap[p], job[p].stage)
    /\ Process(p, "completed", "decide")

ProcessNeedsReview(p) ==
    /\ pc[p] = "process" /\ result[p] = "default_pass"
    /\ ~AutoApproved(snap[p], job[p].stage)
    /\ Process(p, "awaiting_approval", "unmark")

-----------------------------------------------------------------------------
(* RunBolt: the per-Bolt stages of one Bolt in turn, with one copy of the  *)
(* feature for the whole Bolt.  The run-bolt request saves CurrentBolt     *)
(* first and calls AdvanceFeature afterwards; the loop goes on instead.    *)

AfterBolt(p) == IF job[p].kind = "boltRequest" THEN "spawned" ELSE "decide"

BoltStart(p) ==
    /\ pc[p] = "boltStart"
    /\ LET b == job[p].bolt
           f == [snap[p] EXCEPT !.bolt = b]
       IN  IF bolts[b] = "absent"
           THEN /\ feature' = IF job[p].kind = "boltRequest" THEN f ELSE feature
                /\ Goto(p, "unmark")
                /\ UNCHANGED <<status, bolts, snap>>
           ELSE /\ feature' = f
                /\ snap' = [snap EXCEPT ![p] = f]
                /\ status' = [r \in Rows |->
                        IF /\ r[1] \in BoltStages /\ r[2] = b
                           /\ InScope(f.scope, r[1]) /\ status[r] = "absent"
                        THEN "not_started" ELSE status[r]]
                /\ SetBolt(b, "in_progress")
                /\ Goto(p, "boltNext")
    /\ UNCHANGED <<revs, attempts, active, mode, job, rev0, result, history, rare>>

\* (as a mutant: a stage that was sent back is passed over)
BoltTodoNew(p) ==
    {s \in BoltStages : /\ s >= job[p].stage /\ InScope(snap[p].scope, s)
                        /\ status[<<s, job[p].bolt>>] = "not_started"}

\* The stages of the Bolt still to run, from the loop's position on.
BoltTodo(p) ==
    {s \in BoltStages : /\ s >= job[p].stage /\ InScope(snap[p].scope, s)
                        /\ status[<<s, job[p].bolt>>] # "completed"}

\* The row of an in-scope stage exists: BoltStart created it.
BoltRunStage(p) ==
    /\ pc[p] = "boltNext"
    /\ \E s \in BoltTodo(p) :
        /\ \A t \in BoltTodo(p) : s <= t
        /\ RunStageBegin(p, <<s, job[p].bolt>>)
        /\ Take(p, Job(job[p].kind, s, job[p].bolt))
    /\ UNCHANGED <<revs, bolts, attempts, active, mode, result, strikes,
                   modesSeen, rare>>

BoltCompletes(p) ==
    /\ pc[p] = "boltNext" /\ BoltTodo(p) = {}
    /\ SetBolt(job[p].bolt, "completed")
    /\ Goto(p, AfterBolt(p))
    /\ UNCHANGED <<feature, status, revs, attempts, active, local, history, rare>>

GateOpen(p) == result[p] \in {"default_pass", "agent_failed"}

\* Autonomous and guided: approve the gate and go on with the next stage.
\* A refused approval puts the bolt back to pending, and the loop goes on.
BoltApprove(p) ==
    /\ pc[p] = "boltGate" /\ GateOpen(p) /\ AutoMode(snap[p].mode)
    /\ IF Approvable(Row(p))
       THEN /\ ApproveAndAdvance(snap[p], Row(p), TRUE)
            /\ Take(p, Job(job[p].kind, job[p].stage + 1, job[p].bolt))
            /\ Goto(p, "boltNext")
       ELSE /\ SetBolt(job[p].bolt, "pending")
            /\ Goto(p, AfterBolt(p))
            /\ UNCHANGED <<feature, status, revs, attempts, job>>
    /\ Consumed(p)
    /\ UNCHANGED <<active, mode, snap, rev0, history, rare>>

BoltPauses(p) ==
    /\ pc[p] = "boltGate" /\ GateOpen(p) /\ ~AutoMode(snap[p].mode)
    /\ SetBolt(job[p].bolt, "pending")
    /\ Consumed(p)
    /\ Goto(p, "unmark")
    /\ UNCHANGED <<feature, status, revs, attempts, active, mode, snap, job, rev0,
                   history, rare>>

BoltHalts(p) ==
    /\ pc[p] = "boltGate" /\ ~GateOpen(p)
    /\ Consumed(p)
    /\ Goto(p, "unmark")
    /\ UNCHANGED <<db, active, mode, snap, job, rev0, history, rare>>

-----------------------------------------------------------------------------
(* Requests.  A handler that starts a goroutine tests the mark and sets it *)
(* in two steps; Overlap says whether another request comes in between.    *)

Handling == {p \in Procs : pc[p] \in {"marking", "checkActive", "lateMark"}}
Counted(kind) ==
    IF kind \in Rare THEN rare < MaxRare /\ rare' = rare + 1 ELSE UNCHANGED rare
Request(kind) ==
    kind \in Requests /\ (Overlap \/ Handling = {}) /\ Counted(kind)

\* (as a mutant: the mark is not tested)
AcceptedAlways(p, j) ==
    /\ pc[p] = "idle"
    /\ Goto(p, "marking")
    /\ Take(p, j)
    /\ snap' = [snap EXCEPT ![p] =
                    IF j.kind = "boltRequest" THEN feature ELSE NoFeature]
    /\ UNCHANGED <<db, active, mode, rev0, result, history>>

\* The handler of p has passed its test of the mark.
Accepted(p, j) ==
    /\ pc[p] = "idle" /\ ~active
    /\ Goto(p, "marking")
    /\ Take(p, j)
    /\ snap' = [snap EXCEPT ![p] =
                    IF j.kind = "boltRequest" THEN feature ELSE NoFeature]
    /\ UNCHANGED <<db, active, mode, rev0, result, history>>

\* POST run-stage, run-construction, resume of a dead session: what runs is
\* AdvanceFeature's choice, whatever stage the request names.
RequestRun(p) == Request("run") /\ Accepted(p, Job("request", 0, 0))

RequestBolt(p) ==
    /\ Request("bolt")
    /\ \E b \in Bolt : Accepted(p, Job("boltRequest", 1, b))

RequestResume(p) ==
    /\ Request("resume")
    /\ \E s \in Stage : Accepted(p, Job("resume", s, 0))

Mark(p) ==
    /\ pc[p] = "marking"
    /\ active' = TRUE
    /\ Goto(p, CASE job[p].kind = "boltRequest" -> "boltStart"
                 [] job[p].kind = "resume" -> "resuming"
                 [] OTHER -> "spawned")
    /\ UNCHANGED <<db, local, history, rare>>

\* createFeature with StartImmediately marks once more, after the spawn.
LateMark(p) ==
    /\ pc[p] = "lateMark"
    /\ active' = TRUE
    /\ Goto(p, "idle")
    /\ UNCHANGED <<db, local, history, rare>>

CheckActive(p) ==
    /\ pc[p] = "checkActive"
    /\ Goto(p, IF active THEN "idle" ELSE "marking")
    /\ Take(p, IF active THEN NoJob ELSE job[p])
    /\ UNCHANGED <<db, active, mode, snap, rev0, result, history, rare>>

\* A live session is told to continue: its row is in_progress until it exits,
\* and AdvanceFeature runs after that.
ResumeMarks(p) ==
    /\ pc[p] = "resuming"
    /\ status' = [r \in Rows |->
            IF r = Row(p) /\ status[r] # "absent" THEN "in_progress" ELSE status[r]]
    /\ Goto(p, "polling")
    /\ UNCHANGED <<feature, revs, bolts, attempts, active, local, history, rare>>

ResumeExits(p) ==
    /\ pc[p] = "polling"
    /\ Goto(p, "spawned")
    /\ UNCHANGED <<db, active, local, history, rare>>

\* The handler goes on to start AdvanceFeature, or ends.
Continue(p, on) == /\ Goto(p, IF on THEN "checkActive" ELSE "idle")
                   /\ Take(p, IF on THEN Job("request", 0, 0) ELSE NoJob)

\* The row a request about stage s is resolved to.
RowOf(s) == <<s, IF s \in BoltStages THEN feature.bolt ELSE 0>>

\* Approve, then start AdvanceFeature unless the feature runs already.
RequestApprove(p) ==
    /\ Request("approve") /\ pc[p] = "idle"
    /\ \E s \in Stage :
        /\ Approvable(RowOf(s))
        /\ \E ok \in AdvanceOutcomes(feature, s) :
            /\ ApproveAndAdvance(feature, RowOf(s), ok)
            /\ Continue(p, ok /\ AutoMode(feature.mode))
        /\ userOK' = userOK \cup {RowOf(s)}
    /\ UNCHANGED <<active, mode, snap, rev0, result, strikes, modesSeen>>

\* Pipeline.RejectStage: one more strike, whatever ran the stage.
SendBack(r) ==
    /\ Approvable(r) /\ Strike(r)
    /\ SetRow(r, "revising")
    /\ revs' = [revs EXCEPT ![r] = @ + 1]

RequestReject ==
    /\ Request("reject")
    /\ \E s \in Stage : SendBack(RowOf(s))
    /\ UNCHANGED <<feature, bolts, attempts, active, pc, local, userOK, modesSeen>>

\* Accept-as-is looks at the revision count only, not at the row's status.
MayAcceptAsIs(r) == status[r] # "absent" /\ revs[r] >= MaxRevisions

AcceptAsIs(r) ==
    /\ r \in Rows /\ MayAcceptAsIs(r)
    /\ status' = Advanced([status EXCEPT ![r] = "completed"], feature, r[1])
    /\ revs' = Zero(revs, NextRow(feature, r[1]))
    /\ feature' = AdvancedFeature(feature, r[1])

RequestAccept ==
    /\ Request("accept")
    /\ \E s \in Stage : AcceptAsIs(RowOf(s)) /\ userOK' = userOK \cup {RowOf(s)}
    /\ UNCHANGED <<bolts, attempts, active, pc, local, strikes, modesSeen>>

\* Force re-run: unmark, put the row in revising, mark, and start AdvanceFeature.
\* A goroutine that was running the stage is still there.
RequestForce(p) ==
    /\ Request("force") /\ pc[p] = "idle"
    /\ active' = FALSE
    /\ \E s \in Stage :
        /\ status' = [r \in Rows |->
                IF r = <<s, 0>> /\ status[r] # "absent" THEN "revising" ELSE status[r]]
        /\ Take(p, Job("forced", s, 0))
    /\ Goto(p, "marking")
    /\ UNCHANGED <<feature, revs, bolts, attempts, mode, snap, rev0, result, history>>

\* The stages before the target, from the one after the first that is running
\* or awaiting approval, are skipped whatever their status is.
JumpSkips(c, s) ==
    LET busy == {r \in Rows : /\ r[2] = 0 /\ InScope(c, r[1])
                              /\ status[r] \in {"in_progress", "awaiting_approval"}}
    IN  {r \in Rows : /\ r[2] = 0 /\ InScope(c, r[1]) /\ r[1] < s
                      /\ status[r] # "absent"
                      /\ \A q \in Rows : First(q, busy) => r[1] > q[1]}

\* JumpToStage and, for the first stage of a phase, JumpToPhase.
JumpTo(c, s) ==
    LET skipped == JumpSkips(c, s)
        target == {r \in Rows : r = <<s, 0>> /\ status[r] # "absent"}
    IN  /\ status' = [r \in Rows |->
                IF r \in target THEN "not_started" ELSE Skip(status, skipped)[r]]
        /\ revs' = Zero(revs, skipped \cup target)

RequestJump ==
    /\ Request("jump")
    /\ \E s \in ScopeStages[feature.scope] : JumpTo(feature.scope, s)
    /\ UNCHANGED <<feature, bolts, attempts, active, pc, local, history>>

\* Only ideation and inception stages can be added back.
RequestAddSkipped ==
    /\ Request("add")
    /\ \E s \in LinearStages :
        /\ PhaseOf[s] \in {1, 2} /\ status[<<s, 0>>] = "skipped"
        /\ SetRow(<<s, 0>>, "not_started")
        /\ revs' = [revs EXCEPT ![<<s, 0>>] = 0]
    /\ UNCHANGED <<feature, bolts, attempts, active, pc, local, history>>

RequestMode(p) ==
    /\ Request("mode") /\ pc[p] = "idle"
    /\ \E m \in Modes :
        /\ feature' = [feature EXCEPT !.mode = m]
        /\ modesSeen' = modesSeen \cup {m}
        /\ Continue(p, AutoMode(m))
    /\ UNCHANGED <<status, revs, bolts, attempts, active, mode, snap, rev0, result,
                   strikes, userOK>>

\* No row is created for a stage that a wider scope brings in.
RequestScope ==
    /\ Request("scope")
    /\ \E c \in Scopes : feature' = [feature EXCEPT !.scope = c]
    /\ UNCHANGED <<status, revs, bolts, attempts, active, pc, local, history>>

\* The goroutine goes on: only the mark is removed.
RequestCancel ==
    /\ Request("cancel")
    /\ feature.status = "open"
    /\ feature' = [feature EXCEPT !.status = "cancelled"]
    /\ active' = FALSE
    /\ UNCHANGED <<status, revs, bolts, attempts, pc, local, history>>

RequestPrepare ==
    /\ Request("prepare")
    /\ PrepareBolts
    /\ UNCHANGED <<feature, status, revs, attempts, active, pc, local, history>>

-----------------------------------------------------------------------------
(* A crash ends every goroutine.  RestoreActiveProcesses runs before the   *)
(* listener: it sends running rows back with their count at 0 and starts   *)
(* AdvanceFeature, in any mode, when a row is not closed.                  *)

\* (as a mutant: running rows are left as they are)
InterruptedForgotten == {}

Interrupted == IF feature.status = "open" THEN With("in_progress") ELSE {}

NeedsAdvance ==
    feature.status = "open" /\ \E r \in Rows :
        status[r] \in {"in_progress", "awaiting_approval", "revising", "not_started"}

Crash ==
    /\ "crash" \in Requests /\ Counted("crash")
    /\ status' = [r \in Rows |-> IF r \in Interrupted THEN "revising" ELSE status[r]]
    /\ revs' = Zero(revs, Interrupted)
    /\ active' = NeedsAdvance
    /\ \E p \in Procs :
        /\ pc' = [x \in Procs |-> IF x = p /\ NeedsAdvance THEN "spawned" ELSE "idle"]
        /\ job' = [x \in Procs |-> NoJob]
        /\ snap' = [x \in Procs |-> NoFeature]
        /\ mode' = [x \in Procs |-> "human"]
        /\ rev0' = [x \in Procs |-> 0]
        /\ result' = [x \in Procs |-> "none"]
    /\ UNCHANGED <<feature, bolts, attempts, history>>

-----------------------------------------------------------------------------

Advance(p) ==
    \/ Spawned(p) \/ DecideWait(p) \/ DecideApprove(p) \/ DecideRerun(p)
    \/ DecidePrepare(p) \/ DecideBolt(p) \/ DecideMerge(p) \/ DecideStage(p)
    \/ DecideDone(p) \/ AutoApprove(p) \/ ActPrepare(p) \/ MergeBegin(p)
    \/ MergeEnd(p) \/ Finish(p) \/ Unmark(p) \/ ActStage(p)
    \/ ProcessFailure(p) \/ ProcessAutoApprove(p) \/ ProcessNeedsReview(p)
    \/ BoltStart(p) \/ BoltRunStage(p) \/ BoltCompletes(p) \/ BoltApprove(p)
    \/ BoltPauses(p) \/ BoltHalts(p) \/ Mark(p) \/ LateMark(p)
    \/ CheckActive(p) \/ ResumeMarks(p) \/ ResumeExits(p)

AgentEnds(p) ==
    \/ AgentPasses(p) \/ AgentFails(p) \/ SmokeFails(p)
    \/ QuotaExhausted(p) \/ DispatchFails(p) \/ SetupFails(p)

UserRequest ==
    \/ \E p \in Procs : \/ RequestRun(p) \/ RequestBolt(p) \/ RequestResume(p)
                        \/ RequestApprove(p) \/ RequestForce(p) \/ RequestMode(p)
    \/ RequestReject \/ RequestAccept \/ RequestJump \/ RequestAddSkipped
    \/ RequestScope \/ RequestCancel \/ RequestPrepare

Next == (\E p \in Procs : Advance(p) \/ AgentEnds(p)) \/ UserRequest \/ Crash

Spec == Init /\ [][Next]_vars

\* Goroutines are scheduled, and every agent session ends some day.
FairSpec == Spec /\ \A p \in Procs : WF_vars(Advance(p)) /\ WF_vars(AgentEnds(p))

-----------------------------------------------------------------------------
(* Properties.                                                             *)

\* Every variable has the type its table column, map or local variable has.
TypeOK ==
    /\ feature \in Features
    /\ status \in [Rows -> RowStatus] /\ revs \in [Rows -> Nat]
    /\ bolts \in [Bolt -> BoltStatus] /\ attempts \in Nat
    /\ active \in BOOLEAN
    /\ pc \in [Procs -> PCs] /\ mode \in [Procs -> Modes]
    /\ snap \in [Procs -> Features] /\ job \in [Procs -> Jobs]
    /\ rev0 \in [Procs -> Nat] /\ result \in [Procs -> Results]
    /\ strikes \in [Rows -> Nat] /\ userOK \subseteq Rows
    /\ modesSeen \subseteq Modes /\ rare \in Nat

\* The escape hatch is earned: a row's revision_count, which AcceptStageAsIs
\* compares with MaxRevisions, never exceeds the times that the row was really
\* rejected or failed its smoke check, whatever runs write back a count they
\* read before others changed it.
StrikesBacked == \A r \in Rows : revs[r] <= strikes[r]

\* The goroutines that AdvanceFeature or RunBolt runs in.
Live == {p \in Procs : pc[p] \notin {"idle", "marking", "checkActive", "lateMark"}}

\* One goroutine advances a feature at a time, and the mark says so.
SingleAdvancer == Cardinality(Live) <= 1 /\ (active <=> Live # {})

\* A feature marked active, which every run request refuses with a conflict, is
\* being advanced: the mark is never left behind.
ActiveBacked == active => Live # {}

\* "human: every stage started and approved manually": in a feature that was
\* never in another mode, a completed stage after initialization was approved
\* or accepted by a user since it last ran.
HumanControl ==
    modesSeen = {"human"} =>
        \A r \in With("completed") : PhaseOf[r[1]] = 0 \/ r \in userOK

\* "guided: pause at phase-end review gates": in a feature that was always in
\* guided mode, a completed phase-end stage was approved by a user.
GuidedPauses ==
    modesSeen = {"guided"} =>
        \A s \in PhaseEnds : status[<<s, 0>>] = "completed" => <<s, 0>> \in userOK

\* A row in_progress, which makes every decision wait, has a goroutine that
\* will write its outcome (or a session that is being waited for).
Owned(r) == \E p \in Procs : pc[p] \in {"agent", "polling"} /\ Row(p) = r
RunningIsOwned ==
    feature.status = "open" => \A r \in With("in_progress") : Owned(r)

\* Stages run in order: a linear stage starts only when every earlier linear
\* stage of the feature is completed or skipped.
Starts(r) == status[r] # "in_progress" /\ status'[r] = "in_progress"
InOrder ==
    [][\A r, q \in Rows :
         (Starts(r) /\ r[2] = 0 /\ q[2] = 0 /\ q[1] < r[1])
            => status[q] \in {"completed", "skipped", "absent"}]_vars

\* "all stages complete or skipped": a done feature has no other linear stage.
DoneComplete ==
    feature.status = "done" =>
        \A r \in Rows : r[1] \in LinearStages
            => status[r] \in {"completed", "skipped", "absent"}

\* The branch is merged to main at most once, across crashes and restarts.
MergeOnce == attempts <= 1

\* The pipeline does what PipelineSpec promises: whatever agents fail and
\* wherever the server restarts, the scope's linear stages are completed in
\* order and stay completed while Bolts are built and gates approved, the merge
\* comes once and after CI, and the feature is done only with all of them.  A
\* user's approval that crosses the pipeline's own step on the stage undoes no
\* more than that stage and the end of the feature, and nothing that is merged.
ScopeWork == LinearStages \cap ScopeStages[feature.scope]
Pipeline == INSTANCE PipelineSpec WITH
    Attended <- "approve" \in Requests,
    work <- ScopeWork,
    finished <- {s \in ScopeWork : status[<<s, 0>>] = "completed"},
    merges <- attempts,
    closed <- feature.status = "done"
ImplementsPipeline == Pipeline!Spec

\* A Bolt reported completed has no stage left to run: what the merge and the
\* progress display take from bolts.status agrees with the stage rows.
BoltClosed ==
    \A b \in Bolt : bolts[b] = "completed" =>
        \A s \in BoltStages : status[<<s, b>>] \in {"completed", "absent"}

\* "All construction complete": no merge while a Bolt is not completed.
BoltsBeforeMerge ==
    attempts > 0 => \A b \in Bolt : bolts[b] \in {"absent", "completed"}

\* An autonomous feature stops only for something a user must look at.
Stopped == \A p \in Procs : pc[p] = "idle"
NoSilentStall ==
    (Stopped /\ feature.status = "open" /\ feature.mode = "autonomous") =>
        With("revising") \cup With("failed") # {}

\* An advancing goroutine ends: it does not decide for ever.
AdvanceEnds == \A p \in Procs : pc[p] = "spawned" ~> pc[p] = "idle"

\* An autonomous feature is done in the end, without any user, unless stages
\* are sent back again and again.
FinishesAlone ==
    []<>(feature.status = "done" \/ With("revising") \cup With("failed") # {})

=============================================================================
