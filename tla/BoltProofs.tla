----------------------------- MODULE BoltProofs -----------------------------
(* Theorems about what StageMachine does to the Bolts: a Bolt that is       *)
(* reported completed has no stage left to run.  While a goroutine walks    *)
(* over the stages of a Bolt, the Bolt is in_progress and the stages behind *)
(* the walk are completed, or were never created for this scope.            *)
EXTENDS PipelineProofs

BoltRows == BoltStages \X Bolt

\* What a job says where it is taken up: a walk begins with the first stage, a
\* single stage that is run is a linear one, and so is one that is resumed.
JobFrom(l, j) ==
    /\ l = "boltStart" \/ (l = "marking" /\ j.kind = "boltRequest") => j.stage = 1
    /\ l = "act" /\ j.kind = "stage" => j.stage \notin BoltStages
    /\ l = "resuming" \/ (l = "marking" /\ j.kind = "resume") => j.bolt = 0
JobsFrom == \A p \in Procs : JobFrom(pc[p], job[p])

\* A copy has the scope of the feature, which does not change.
CopiesScope == \A p \in Procs : HoldsCopy(p) => snap[p].scope = feature.scope

\* Per-Bolt rows are created for the stages in scope only.
BoltScope == \A r \in BoltRows : ~InScope(feature.scope, r[1]) => status[r] = "absent"

Walks(p) == pc[p] \in {"boltNext", "boltGate"} \/ (pc[p] = "agent" /\ OnBolt(p))
Behind(b, s) == \A t \in BoltStages : t < s => status[<<t, b>>] \in {"completed", "absent"}
WalkInv == \A p \in Procs : Walks(p) =>
    /\ job[p].bolt \in Bolt /\ bolts[job[p].bolt] = "in_progress"
    /\ Behind(job[p].bolt, job[p].stage)
    /\ pc[p] = "agent" => InScope(feature.scope, job[p].stage)
BoltInv == JobsFrom /\ CopiesScope /\ BoltScope /\ WalkInv /\ BoltClosed

\* The rows of the Bolts but b that are closed stay so.
KeptRows(b) == \A r \in BoltRows :
    r[2] # b /\ status[r] \in {"completed", "absent"} => status'[r] = status[r]

LEMMA BoltParts ==
    ASSUME NEW r \in BoltRows
    PROVE  /\ r \in Rows /\ r[1] \in BoltStages /\ r[2] \in Bolt /\ r = <<r[1], r[2]>>
           /\ r[1] \in Stage /\ r[1] \in Int /\ r[1] >= 1 /\ r[2] # 0
           /\ r \notin LinearRows
  <1>1. r[1] \in BoltStages /\ r[2] \in Bolt /\ r = <<r[1], r[2]>> /\ r \in Rows
    BY DEF BoltRows, Rows
  <1>2. /\ r[1] \in Stage /\ r[1] \in Int /\ r[1] >= 1
    BY <1>1, StagesAssumption DEF Stage
  <1>3. r[2] # 0
    BY <1>1 DEF Bolt
  <1>4. r \notin LinearRows
    BY <1>1, LinearParts DEF LinearStages
  <1> QED
    BY <1>1, <1>2, <1>3, <1>4

LEMMA LinearNotBolt ==
    ASSUME NEW r \in Rows, r[1] \notin BoltStages
    PROVE  r \notin BoltRows
  BY BoltParts

\* An approval completes an open row; the other rows it writes are linear.
LEMMA ApprovedBolts ==
    ASSUME TypeInv, NEW f \in Features, NEW r, NEW ok, Approvable(r),
           ApproveAndAdvance(f, r, ok)
    PROVE  /\ KeptRows(0) /\ bolts' = bolts
           /\ \A q \in BoltRows : q # r => status'[q] = status[q]
           /\ status'[r] = "completed"
  <1>1. r \in Rows /\ status[r] \in {"awaiting_approval", "revising"}
    BY DEF Approvable
  <1>2. \A q \in BoltRows : q \notin NextRow(f, r[1]) /\ q[1] \notin LinearStages
    BY BoltParts DEF NextRow, LinearStages
  <1>3. \A q \in BoltRows : q # r => status'[q] = status[q]
    BY <1>1, <1>2, ApprovedRows, BoltParts
  <1>4. status'[r] = "completed"
    BY <1>1, ApprovedRows
  <1> QED
    BY <1>1, <1>3, <1>4 DEF KeptRows, ApproveAndAdvance

-----------------------------------------------------------------------------
(* Where jobs come from.                                                    *)

LEMMA JobsFromMove ==
    ASSUME TypeInv, JobsFrom, NEW p \in Procs, NEW l, Goto(p, l),
           job' = job \/ (\E j : Take(p, j)),
           JobFrom(l, job'[p])
    PROVE  JobsFrom'
  <1> SUFFICES ASSUME NEW q \in Procs PROVE JobFrom(pc'[q], job'[q])
    BY DEF JobsFrom, JobFrom
  <1>1. CASE q = p
    BY <1>1 DEF Goto, TypeInv, TypeOK
  <1>2. CASE q # p
    BY <1>2 DEF Goto, Take, JobsFrom, TypeInv, TypeOK
  <1> QED
    BY <1>1, <1>2

LEMMA JobsFromDecided ==
    ASSUME TypeInv, JobsFrom, NEW p \in Procs,
           \/ DecideWait(p) \/ DecideApprove(p) \/ DecideRerun(p)
           \/ DecidePrepare(p) \/ DecideBolt(p) \/ DecideMerge(p)
           \/ DecideStage(p) \/ DecideDone(p)
    PROVE  JobsFrom'
  <1>1. ASSUME NEW l, NEW j, Decide(p, l, j), JobFrom(l, j)
        PROVE  JobsFrom'
    <2>1. Goto(p, l) /\ Take(p, j) /\ job'[p] = j
      BY <1>1 DEF Decide, Take, TypeInv, TypeOK
    <2> QED
      BY <1>1, <2>1, JobsFromMove
  <1>2. CASE DecideWait(p) \/ DecideDone(p)
    <2>1. JobFrom("unmark", NoJob) /\ JobFrom("finish", NoJob)
      BY DEF JobFrom
    <2> QED
      BY <1>1, <1>2, <2>1 DEF DecideWait, DecideDone
  <1>3. CASE DecideApprove(p) \/ DecidePrepare(p) \/ DecideMerge(p)
    <2>1. \E k \in {"approve", "prepare", "merge"} :
              \E s, b : Decide(p, "act", Job(k, s, b))
      BY <1>3 DEF DecideApprove, DecidePrepare, DecideMerge
    <2>2. \A k \in {"approve", "prepare", "merge"} : \A s, b : JobFrom("act", Job(k, s, b))
      BY DEF JobFrom, Job
    <2> QED
      BY <1>1, <2>1, <2>2
  <1>4. CASE DecideRerun(p) \/ DecideBolt(p) \/ DecideStage(p)
    <2>1. \/ \E b : Decide(p, "boltStart", Job("bolt", 1, b))
          \/ \E s : s \notin BoltStages /\ Decide(p, "act", Job("stage", s, 0))
      BY <1>4 DEF DecideRerun, DecideBolt, DecideStage, First, Walkable, LinearStages
    <2>2. \A b : JobFrom("boltStart", Job("bolt", 1, b))
      BY DEF JobFrom, Job
    <2>3. \A s : s \notin BoltStages => JobFrom("act", Job("stage", s, 0))
      BY DEF JobFrom, Job
    <2> QED
      BY <1>1, <2>1, <2>2, <2>3
  <1> QED
    BY <1>2, <1>3, <1>4

LEMMA JobsFromGoroutine ==
    ASSUME TypeInv, JobsFrom, NEW p \in Procs, Advance(p) \/ AgentEnds(p)
    PROVE  JobsFrom'
  <1>1. CASE \/ DecideWait(p) \/ DecideApprove(p) \/ DecideRerun(p)
             \/ DecidePrepare(p) \/ DecideBolt(p) \/ DecideMerge(p)
             \/ DecideStage(p) \/ DecideDone(p)
    BY <1>1, JobsFromDecided
  <1>2. ASSUME NEW l \in PCs \ {"boltStart", "marking", "act", "resuming"}, Goto(p, l),
               job' = job \/ (\E j : Take(p, j))
        PROVE  JobsFrom'
    <2>1. JobFrom(l, job'[p])
      BY DEF JobFrom
    <2> QED
      BY <1>2, <2>1, JobsFromMove
  <1>3. CASE \/ Spawned(p) \/ AutoApprove(p) \/ ActPrepare(p) \/ MergeBegin(p)
             \/ MergeEnd(p) \/ Finish(p) \/ Unmark(p) \/ ActStage(p)
             \/ BoltStart(p) \/ BoltRunStage(p) \/ BoltCompletes(p) \/ BoltApprove(p)
    <2>1. \E l \in PCs \ {"boltStart", "marking", "act", "resuming"} : Goto(p, l)
      BY <1>3 DEF Spawned, AutoApprove, ActPrepare, MergeBegin, MergeEnd, Finish, Unmark,
                  ActStage, RunStageBegin, BoltStart, BoltRunStage, BoltCompletes,
                  BoltApprove, AfterBolt, PCs
    <2>2. job' = job \/ (\E j : Take(p, j))
      BY <1>3 DEF Spawned, AutoApprove, ActPrepare, MergeBegin, MergeEnd, Finish, Unmark,
                  ActStage, BoltStart, BoltRunStage, BoltCompletes, BoltApprove, local
    <2> QED
      BY <1>2, <2>1, <2>2
  <1>4. CASE \/ ProcessFailure(p) \/ ProcessAutoApprove(p) \/ ProcessNeedsReview(p)
             \/ BoltPauses(p) \/ BoltHalts(p) \/ LateMark(p) \/ ResumeMarks(p)
             \/ ResumeExits(p) \/ AgentEnds(p)
    <2>1. \E l \in PCs \ {"boltStart", "marking", "act", "resuming"} : Goto(p, l)
      BY <1>4 DEF ProcessFailure, ProcessAutoApprove, ProcessNeedsReview, Process,
                  BoltPauses, BoltHalts, LateMark, ResumeMarks, ResumeExits, AgentEnds,
                  AgentPasses, AgentFails, SmokeFails, QuotaExhausted, DispatchFails,
                  SetupFails, Returns, Errs, PCs
    <2>2. job' = job
      BY <1>4 DEF ProcessFailure, ProcessAutoApprove, ProcessNeedsReview, Process,
                  BoltPauses, BoltHalts, LateMark, ResumeMarks, ResumeExits, AgentEnds,
                  AgentPasses, AgentFails, SmokeFails, QuotaExhausted, DispatchFails,
                  SetupFails, Returns, Errs, local
    <2> QED
      BY <1>2, <2>1, <2>2
  <1>5. CASE Mark(p)
    <2>1. job' = job /\ JobFrom("marking", job[p])
      BY <1>5 DEF Mark, local, JobsFrom
    <2>2. \/ Goto(p, "boltStart") /\ job[p].kind = "boltRequest"
          \/ Goto(p, "resuming") /\ job[p].kind = "resume"
          \/ Goto(p, "spawned")
      BY <1>5 DEF Mark
    <2>3. CASE Goto(p, "spawned")
      BY <1>2, <2>1, <2>3 DEF PCs
    <2>4. CASE Goto(p, "boltStart") /\ job[p].kind = "boltRequest"
      <3>1. JobFrom("boltStart", job'[p])
        BY <2>1, <2>4 DEF JobFrom
      <3> QED
        BY <2>1, <2>4, <3>1, JobsFromMove
    <2>5. CASE Goto(p, "resuming") /\ job[p].kind = "resume"
      <3>1. JobFrom("resuming", job'[p])
        BY <2>1, <2>5 DEF JobFrom
      <3> QED
        BY <2>1, <2>5, <3>1, JobsFromMove
    <2> QED
      BY <2>2, <2>3, <2>4, <2>5
  <1>6. CASE CheckActive(p)
    <2>1. job[p].kind = "request"
      BY <1>6 DEF CheckActive, TypeInv, JobsOK, JobOK
    <2>2. PICK l \in {"idle", "marking"}, j \in {job[p], NoJob} : Goto(p, l) /\ Take(p, j)
      BY <1>6 DEF CheckActive
    <2>3. job'[p].kind \in {"request", "none"}
      BY <2>1, <2>2 DEF Take, NoJob, TypeInv, TypeOK
    <2>4. JobFrom(l, job'[p])
      BY <2>3 DEF JobFrom
    <2> QED
      BY <2>2, <2>4, JobsFromMove
  <1> QED
    BY <1>1, <1>3, <1>4, <1>5, <1>6 DEF Advance

LEMMA JobsFromRequests ==
    ASSUME TypeInv, JobsFrom, UserRequest
    PROVE  JobsFrom'
  <1>1. CASE \/ RequestReject \/ RequestAccept \/ RequestJump \/ RequestAddSkipped
             \/ RequestScope \/ RequestCancel \/ RequestPrepare
    <2>1. UNCHANGED <<pc, job>>
      BY <1>1 DEF RequestReject, RequestAccept, RequestJump, RequestAddSkipped,
                  RequestScope, RequestCancel, RequestPrepare, local
    <2> QED
      BY <2>1 DEF JobsFrom, JobFrom
  <1>2. ASSUME NEW p \in Procs, RequestRun(p) \/ RequestBolt(p) \/ RequestResume(p)
        PROVE  JobsFrom'
    <2>1. PICK j : Goto(p, "marking") /\ Take(p, j) /\ JobFrom("marking", j)
      <3>1. JobFrom("marking", Job("request", 0, 0))
        BY DEF JobFrom, Job
      <3>2. \A b : JobFrom("marking", Job("boltRequest", 1, b))
        BY DEF JobFrom, Job
      <3>3. \A s : JobFrom("marking", Job("resume", s, 0))
        BY DEF JobFrom, Job
      <3> QED
        BY <1>2, <3>1, <3>2, <3>3 DEF RequestRun, RequestBolt, RequestResume, Accepted
    <2>2. job'[p] = j
      BY <2>1 DEF Take, TypeInv, TypeOK
    <2> QED
      BY <2>1, <2>2, JobsFromMove
  <1>3. ASSUME NEW p \in Procs, RequestApprove(p) \/ RequestForce(p) \/ RequestMode(p)
        PROVE  JobsFrom'
    <2>1. PICK l, j : Goto(p, l) /\ Take(p, j) /\ JobFrom(l, j)
      <3>1. CASE RequestForce(p)
        <4>1. \A s : JobFrom("marking", Job("forced", s, 0))
          BY DEF JobFrom, Job
        <4> QED
          BY <3>1, <4>1 DEF RequestForce
      <3>2. CASE RequestApprove(p) \/ RequestMode(p)
        <4>1. \E on : Continue(p, on)
          BY <3>2 DEF RequestApprove, RequestMode
        <4>2. \A j : JobFrom("checkActive", j) /\ JobFrom("idle", j)
          BY DEF JobFrom
        <4>3. \E l \in {"checkActive", "idle"} : Goto(p, l)
          BY <4>1 DEF Continue
        <4>4. \E j : Take(p, j)
          BY <4>1 DEF Continue
        <4> QED
          BY <4>2, <4>3, <4>4
      <3> QED
        BY <1>3, <3>1, <3>2
    <2>2. job'[p] = j
      BY <2>1 DEF Take, TypeInv, TypeOK
    <2> QED
      BY <2>1, <2>2, JobsFromMove
  <1> QED
    BY <1>1, <1>2, <1>3 DEF UserRequest

LEMMA JobsFromStep ==
    ASSUME TypeInv, JobsFrom, [Next]_vars
    PROVE  JobsFrom'
  <1>1. CASE Crash
    <2>1. \A q \in Procs : pc'[q] \in {"idle", "spawned"}
      BY <1>1 DEF Crash
    <2> QED
      BY <2>1 DEF JobsFrom, JobFrom
  <1>2. CASE UNCHANGED vars
    BY <1>2 DEF vars, local, JobsFrom, JobFrom
  <1> QED
    BY <1>1, <1>2, JobsFromGoroutine, JobsFromRequests DEF Next

-----------------------------------------------------------------------------
(* The scope is the one the feature was created with, in every copy.        *)

LEMMA ScopeStep ==
    ASSUME TypeInv, CopiesScope, [Next]_vars, "scope" \notin Requests
    PROVE  CopiesScope' /\ feature'.scope = feature.scope
  <1>1. CASE \E p \in Procs : Advance(p) \/ AgentEnds(p)
    <2>1. PICK p \in Procs : CopyStep(p)
      BY <1>1, CopySteps
    <2>2. HoldsCopy(p) => snap[p].scope = feature.scope
      BY DEF CopiesScope
    <2>3. feature'.scope = feature.scope
      BY <2>1, <2>2 DEF CopyStep, Same
    <2>4. ASSUME NEW q \in Procs, HoldsCopy(q)' PROVE snap'[q].scope = feature'.scope
      <3>1. CASE q = p
        BY <2>1, <2>2, <2>3, <2>4, <3>1 DEF CopyStep, Same
      <3>2. CASE q # p
        <4>1. HoldsCopy(q) /\ snap'[q] = snap[q]
          BY <2>1, <2>4, <3>2 DEF CopyStep, OthersKept, HoldsCopy
        <4> QED
          BY <2>3, <4>1 DEF CopiesScope
      <3> QED
        BY <3>1, <3>2
    <2> QED
      BY <2>3, <2>4 DEF CopiesScope
  <1>2. CASE UserRequest
    <2>1. feature'.scope = feature.scope
      BY <1>2, CopyRequests
    <2>2. ASSUME NEW q \in Procs, HoldsCopy(q)' PROVE snap'[q].scope = feature'.scope
      <3>1. \/ pc'[q] = pc[q] /\ job'[q] = job[q] /\ snap'[q] = snap[q]
            \/ snap'[q] = feature
        BY <1>2, <2>2, CopyRequests
      <3> QED
        BY <2>1, <2>2, <3>1 DEF HoldsCopy, CopiesScope
    <2> QED
      BY <2>1, <2>2 DEF CopiesScope
  <1>3. CASE Crash
    <2>1. feature' = feature /\ \A q \in Procs : pc'[q] \in {"idle", "spawned"}
      BY <1>3 DEF Crash
    <2> QED
      BY <2>1 DEF CopiesScope, HoldsCopy
  <1>4. CASE UNCHANGED vars
    BY <1>4 DEF vars, db, local, CopiesScope, HoldsCopy
  <1> QED
    BY <1>1, <1>2, <1>3, <1>4 DEF Next

-----------------------------------------------------------------------------
(* The walk over a Bolt.                                                    *)

RowsInv == BoltScope /\ WalkInv /\ BoltClosed

\* A step that closes rows at most, of no Bolt in particular, and begins no walk.
LEMMA BoltQuiet ==
    ASSUME TypeInv, RowsInv, feature'.scope = feature.scope, KeptRows(0),
           \A b \in Bolt : \/ bolts'[b] = bolts[b]
                           \/ bolts[b] # "in_progress" /\ bolts'[b] # "completed",
           \A q \in Procs : Walks(q)' =>
               pc'[q] \in {"boltNext", "boltGate"} \cup {pc[q]} /\ Walks(q) /\ job'[q] = job[q]
    PROVE  RowsInv'
  <1>1. \A r \in BoltRows : status[r] \in {"completed", "absent"} => status'[r] = status[r]
    BY BoltParts DEF KeptRows
  <1>2. BoltScope'
    BY <1>1 DEF RowsInv, BoltScope, InScope
  <1>3. BoltClosed'
    <2> SUFFICES ASSUME NEW b \in Bolt, bolts'[b] = "completed", NEW s \in BoltStages
                 PROVE  status'[<<s, b>>] \in {"completed", "absent"}
      BY DEF BoltClosed
    <2>1. status[<<s, b>>] \in {"completed", "absent"}
      BY DEF RowsInv, BoltClosed
    <2> QED
      BY <1>1, <2>1 DEF BoltRows
  <1>4. WalkInv'
    <2> SUFFICES ASSUME NEW q \in Procs, Walks(q)'
                 PROVE  /\ job'[q].bolt \in Bolt /\ bolts'[job'[q].bolt] = "in_progress"
                        /\ \A t \in BoltStages : t < job'[q].stage =>
                              status'[<<t, job'[q].bolt>>] \in {"completed", "absent"}
                        /\ pc'[q] = "agent" => InScope(feature'.scope, job'[q].stage)
      BY DEF WalkInv, Behind, InScope
    <2>1. Walks(q) /\ job'[q] = job[q] /\ (pc'[q] = "agent" => pc[q] = "agent")
      OBVIOUS
    <2>2. /\ job[q].bolt \in Bolt /\ bolts[job[q].bolt] = "in_progress"
          /\ Behind(job[q].bolt, job[q].stage)
          /\ pc[q] = "agent" => InScope(feature.scope, job[q].stage)
      BY <2>1 DEF RowsInv, WalkInv
    <2>3. \A t \in BoltStages : t < job[q].stage =>
              status'[<<t, job[q].bolt>>] \in {"completed", "absent"}
      BY <1>1, <2>2 DEF Behind, BoltRows
    <2> QED
      BY <2>1, <2>2, <2>3
  <1> QED
    BY <1>2, <1>3, <1>4 DEF RowsInv

\* A step of the only goroutine, on one Bolt.
LEMMA BoltMove ==
    ASSUME TypeInv, SoleInv, RowsInv, NEW p \in Procs, p \in Live, OthersKept(p),
           feature'.scope = feature.scope,
           NEW b \in Bolt, KeptRows(b), \A c \in Bolt \ {b} : bolts'[c] = bolts[c],
           \A t \in BoltStages : ~InScope(feature.scope, t) => status'[<<t, b>>] = "absent",
           bolts'[b] = "completed" =>
               \A t \in BoltStages : status'[<<t, b>>] \in {"completed", "absent"},
           Walks(p)' => /\ job'[p].bolt = b /\ bolts'[b] = "in_progress"
                        /\ \A t \in BoltStages : t < job'[p].stage =>
                              status'[<<t, b>>] \in {"completed", "absent"}
                        /\ pc'[p] = "agent" => InScope(feature.scope, job'[p].stage)
    PROVE  RowsInv'
  <1>1. \A r \in BoltRows : r[2] # b /\ status[r] \in {"completed", "absent"}
                                => status'[r] = status[r]
    BY DEF KeptRows
  <1>2. BoltScope'
    <2> SUFFICES ASSUME NEW r \in BoltRows, ~InScope(feature.scope, r[1])
                 PROVE  status'[r] = "absent"
      BY DEF BoltScope, InScope
    <2>1. r[1] \in BoltStages /\ r = <<r[1], r[2]>>
      BY BoltParts
    <2>2. CASE r[2] = b
      BY <2>1, <2>2
    <2>3. CASE r[2] # b
      BY <1>1, <2>3 DEF RowsInv, BoltScope
    <2> QED
      BY <2>2, <2>3
  <1>3. BoltClosed'
    <2> SUFFICES ASSUME NEW c \in Bolt, bolts'[c] = "completed", NEW s \in BoltStages
                 PROVE  status'[<<s, c>>] \in {"completed", "absent"}
      BY DEF BoltClosed
    <2>1. CASE c = b
      BY <2>1
    <2>2. CASE c # b
      <3>1. status[<<s, c>>] \in {"completed", "absent"}
        BY <2>2 DEF RowsInv, BoltClosed
      <3>2. <<s, c>> \in BoltRows /\ <<s, c>>[2] # b
        BY <2>2 DEF BoltRows
      <3> QED
        BY <1>1, <3>1, <3>2
    <2> QED
      BY <2>1, <2>2
  <1>4. WalkInv'
    <2> SUFFICES ASSUME NEW q \in Procs, Walks(q)'
                 PROVE  /\ job'[q].bolt \in Bolt /\ bolts'[job'[q].bolt] = "in_progress"
                        /\ \A t \in BoltStages : t < job'[q].stage =>
                              status'[<<t, job'[q].bolt>>] \in {"completed", "absent"}
                        /\ pc'[q] = "agent" => InScope(feature'.scope, job'[q].stage)
      BY DEF WalkInv, Behind, InScope
    <2>1. q = p
      <3>1. ASSUME q # p PROVE FALSE
        <4>1. pc'[q] = pc[q]
          BY <3>1 DEF OthersKept
        <4>2. q \in Live
          BY <4>1 DEF Walks, Live
        <4> QED
          BY <3>1, <4>2 DEF SoleInv, AtMostOne
      <3> QED
        BY <3>1
    <2> QED
      BY <2>1
  <1> QED
    BY <1>2, <1>3, <1>4 DEF RowsInv

\* A step of p that is not, or is no longer, on a walk.
LEMMA BoltAside ==
    ASSUME TypeInv, RowsInv, NEW p \in Procs, OthersKept(p), ~Walks(p)',
           feature'.scope = feature.scope, KeptRows(0),
           \A b \in Bolt : \/ bolts'[b] = bolts[b]
                           \/ bolts[b] # "in_progress" /\ bolts'[b] # "completed"
    PROVE  RowsInv'
  <1>1. ASSUME NEW q \in Procs, Walks(q)'
        PROVE  pc'[q] \in {"boltNext", "boltGate"} \cup {pc[q]} /\ Walks(q) /\ job'[q] = job[q]
    <2>1. q # p
      BY <1>1
    <2>2. pc'[q] = pc[q] /\ job'[q] = job[q]
      BY <2>1 DEF OthersKept
    <2> QED
      BY <1>1, <2>2 DEF Walks, OnBolt
  <1> QED
    BY <1>1, BoltQuiet

LEMMA RowSetTo ==
    ASSUME TypeInv, NEW r \in Rows, NEW st, status' = [status EXCEPT ![r] = st]
    PROVE  /\ r \notin BoltRows => KeptRows(0)
           /\ KeptRows(r[2])
           /\ status'[r] = st /\ \A q \in Rows : q # r => status'[q] = status[q]
  <1>1. status'[r] = st /\ \A q \in Rows : q # r => status'[q] = status[q]
    BY DEF TypeInv, TypeOK
  <1> QED
    BY <1>1, BoltParts DEF KeptRows

\* The steps of the loop and of a linear stage.
LEMMA BoltLoop ==
    ASSUME TypeInv, JobsFrom, RowsInv, NEW p \in Procs, feature'.scope = feature.scope,
           \/ DecideWait(p) \/ DecideApprove(p) \/ DecideRerun(p)
           \/ DecidePrepare(p) \/ DecideBolt(p) \/ DecideMerge(p)
           \/ DecideStage(p) \/ DecideDone(p)
           \/ Spawned(p) \/ AutoApprove(p) \/ ActPrepare(p) \/ MergeBegin(p)
           \/ MergeEnd(p) \/ Finish(p) \/ Unmark(p) \/ ActStage(p)
           \/ ProcessFailure(p) \/ ProcessAutoApprove(p) \/ ProcessNeedsReview(p)
           \/ Mark(p) \/ LateMark(p) \/ CheckActive(p) \/ ResumeMarks(p) \/ ResumeExits(p)
    PROVE  RowsInv'
  <1>1. OthersKept(p)
    BY CopySteps DEF CopyStep, Advance
  <1>2. ASSUME NEW l, Goto(p, l), l \notin {"boltNext", "boltGate", "agent"}
        PROVE  ~Walks(p)'
    BY <1>2 DEF Goto, Walks, TypeInv, TypeOK
  <1>3. CASE \/ DecideWait(p) \/ DecideApprove(p) \/ DecideRerun(p)
             \/ DecidePrepare(p) \/ DecideBolt(p) \/ DecideMerge(p)
             \/ DecideStage(p) \/ DecideDone(p)
    <2>1. \E l \in {"act", "boltStart", "unmark", "finish"} : \E j : Decide(p, l, j)
      BY <1>3 DEF DecideWait, DecideApprove, DecideRerun, DecidePrepare, DecideBolt,
                  DecideMerge, DecideStage, DecideDone
    <2>2. bolts' = bolts /\ \E l \in {"act", "boltStart", "unmark", "finish"} : Goto(p, l)
      BY <2>1 DEF Decide
    <2>3. KeptRows(0)
      BY <1>3, DecidedRows, BoltParts DEF KeptRows
    <2> QED
      BY <1>1, <1>2, <2>2, <2>3, BoltAside
  <1>4. CASE AutoApprove(p)
    <2>1. \/ Approvable(Row(p)) /\ \E ok : ApproveAndAdvance(snap[p], Row(p), ok)
          \/ UNCHANGED db
      BY <1>4 DEF AutoApprove
    <2>2. snap[p] \in Features
      BY DEF TypeInv, TypeOK
    <2>3. KeptRows(0) /\ bolts' = bolts
      BY <2>1, <2>2, ApprovedBolts DEF KeptRows, db
    <2>4. Goto(p, "decide") \/ Goto(p, "unmark")
      BY <1>4 DEF AutoApprove
    <2> QED
      BY <1>1, <1>2, <2>3, <2>4, BoltAside
  <1>5. CASE ActPrepare(p)
    <2>1. \A b \in Bolt : \/ bolts'[b] = bolts[b]
                          \/ bolts[b] # "in_progress" /\ bolts'[b] # "completed"
      BY <1>5 DEF ActPrepare, PrepareBolts, Prepared
    <2>2. KeptRows(0) /\ Goto(p, "decide")
      BY <1>5 DEF ActPrepare, KeptRows
    <2> QED
      BY <1>1, <1>2, <2>1, <2>2, BoltAside
  <1>6. CASE \/ Spawned(p) \/ MergeBegin(p) \/ MergeEnd(p) \/ Finish(p) \/ Unmark(p)
             \/ Mark(p) \/ LateMark(p) \/ CheckActive(p) \/ ResumeExits(p)
    <2>1. status' = status /\ bolts' = bolts
      BY <1>6 DEF Spawned, MergeBegin, MergeEnd, Finish, Unmark, Mark, LateMark,
                  CheckActive, ResumeExits, db
    <2>2. \E l \in {"decide", "merging", "unmark", "idle", "boltStart", "resuming",
                    "spawned", "marking"} : Goto(p, l)
      BY <1>6 DEF Spawned, MergeBegin, MergeEnd, Finish, Unmark, Mark, LateMark,
                  CheckActive, ResumeExits
    <2>3. KeptRows(0)
      BY <2>1 DEF KeptRows
    <2> QED
      BY <1>1, <1>2, <2>1, <2>2, <2>3, BoltAside
  <1>7. CASE ActStage(p)
    <2>1. Row(p) \in Rows /\ job[p].stage \notin BoltStages /\ job' = job /\ bolts' = bolts
      BY <1>7 DEF ActStage, JobsFrom, JobFrom, TypeInv, JobsOK, JobOK, Row
    <2>2. Row(p) \notin BoltRows
      BY <2>1, LinearNotBolt DEF Row
    <2>3. status' = status \/ status' = [status EXCEPT ![Row(p)] = "in_progress"]
      BY <1>7 DEF ActStage, RunStageBegin, SetRow
    <2>4. KeptRows(0)
      <3>1. CASE status' = status
        BY <3>1 DEF KeptRows
      <3>2. CASE status' = [status EXCEPT ![Row(p)] = "in_progress"]
        BY <2>1, <2>2, <3>2, RowSetTo
      <3> QED
        BY <2>3, <3>1, <3>2
    <2>5. Goto(p, "unmark") \/ Goto(p, "agent")
      BY <1>7 DEF ActStage, RunStageBegin
    <2>6. ~Walks(p)'
      BY <2>1, <2>5 DEF Goto, Walks, OnBolt, TypeInv, TypeOK
    <2> QED
      BY <1>1, <2>1, <2>4, <2>6, BoltAside
  <1>8. CASE ProcessFailure(p) \/ ProcessAutoApprove(p) \/ ProcessNeedsReview(p)
    <2>1. \E st, l : l \in {"unmark", "decide"} /\ Process(p, st, l)
      BY <1>8 DEF ProcessFailure, ProcessAutoApprove, ProcessNeedsReview
    <2>2. PICK st, l : l \in {"unmark", "decide"} /\ Process(p, st, l)
      BY <2>1
    <2>3. /\ pc[p] = "process" /\ Goto(p, l) /\ bolts' = bolts
          /\ status' = [status EXCEPT ![Row(p)] = st]
      BY <2>2 DEF Process, SetRow
    <2>4. Row(p) \in Rows /\ job[p].stage \notin BoltStages
      BY <2>3 DEF TypeInv, JobsOK, JobOK, Row
    <2>5. Row(p) \notin BoltRows
      BY <2>4, LinearNotBolt DEF Row
    <2>6. KeptRows(0)
      BY <2>3, <2>4, <2>5, RowSetTo
    <2> QED
      BY <1>1, <1>2, <2>2, <2>3, <2>6, BoltAside
  <1>9. CASE ResumeMarks(p)
    <2>1. job[p].bolt = 0 /\ Goto(p, "polling") /\ bolts' = bolts
      BY <1>9 DEF ResumeMarks, JobsFrom, JobFrom
    <2>2. \A r \in BoltRows : r # Row(p)
      BY <2>1, BoltParts DEF Row
    <2>3. KeptRows(0)
      BY <1>9, <2>2, BoltParts DEF ResumeMarks, KeptRows
    <2> QED
      BY <1>1, <1>2, <2>1, <2>3, BoltAside
  <1> QED
    BY <1>3, <1>4, <1>5, <1>6, <1>7, <1>8, <1>9

\* The walk itself: taking a Bolt up, running its stages, judging them, ending.
LEMMA BoltWalk ==
    ASSUME TypeInv, SoleInv, JobsFrom, CopiesScope, RowsInv, NEW p \in Procs,
           feature'.scope = feature.scope,
           \/ BoltStart(p) \/ BoltRunStage(p) \/ BoltCompletes(p) \/ BoltApprove(p)
           \/ BoltPauses(p) \/ BoltHalts(p)
    PROVE  RowsInv'
  <1> DEFINE b == job[p].bolt
  <1>1. OthersKept(p) /\ p \in Live
    <2>1. OthersKept(p)
      BY CopySteps DEF CopyStep, Advance
    <2>2. pc[p] \in {"boltStart", "boltNext", "boltGate"}
      BY DEF BoltStart, BoltRunStage, BoltCompletes, BoltApprove, BoltPauses, BoltHalts
    <2> QED
      BY <2>1, <2>2 DEF Live
  <1>2. snap[p].scope = feature.scope
    BY DEF BoltStart, BoltRunStage, BoltCompletes, BoltApprove, BoltPauses, BoltHalts,
           CopiesScope, HoldsCopy
  <1>3. b \in Bolt
    BY DEF BoltStart, BoltRunStage, BoltCompletes, BoltApprove, BoltPauses, BoltHalts,
           RowsInv, WalkInv, Walks, TypeInv, JobsOK, JobOK
  <1>4. \A t \in BoltStages : /\ <<t, b>> \in BoltRows /\ <<t, b>> \in Rows
                              /\ ~InScope(feature.scope, t) => status[<<t, b>>] = "absent"
    BY <1>3, BoltRow DEF BoltRows, RowsInv, BoltScope
  <1>5. job[p].stage \in Nat /\ BoltStages \subseteq Nat
    BY StagesAssumption DEF TypeInv, TypeOK, Jobs, Stage
  <1>6. pc[p] \in {"boltNext", "boltGate"} =>
            bolts[b] = "in_progress" /\ Behind(b, job[p].stage)
    BY DEF RowsInv, WalkInv, Walks
  <1> HIDE DEF b
  <1>7. CASE BoltStart(p)
    <2>1. pc[p] = "boltStart" /\ job[p].stage = 1 /\ job' = job
      BY <1>7 DEF BoltStart, JobsFrom, JobFrom
    <2>2. CASE bolts[b] = "absent"
      <3>1. Goto(p, "unmark") /\ UNCHANGED <<status, bolts>>
        BY <1>7, <2>2 DEF BoltStart, b
      <3>2. ~Walks(p)' /\ KeptRows(0)
        BY <3>1 DEF Goto, Walks, KeptRows, TypeInv, TypeOK
      <3> QED
        BY <1>1, <3>1, <3>2, BoltAside
    <2>3. CASE bolts[b] # "absent"
      <3>1. /\ status' = [r \in Rows |->
                  IF /\ r[1] \in BoltStages /\ r[2] = b
                     /\ InScope(feature.scope, r[1]) /\ status[r] = "absent"
                  THEN "not_started" ELSE status[r]]
            /\ bolts' = [bolts EXCEPT ![b] = "in_progress"] /\ Goto(p, "boltNext")
        BY <1>2, <1>7, <2>3 DEF BoltStart, b, SetBolt, InScope, TypeInv, TypeOK, Features
      <3>2. KeptRows(b)
        BY <3>1, BoltParts DEF KeptRows
      <3>3. \A t \in BoltStages : ~InScope(feature.scope, t) => status'[<<t, b>>] = "absent"
        BY <1>4, <3>1
      <3>4. /\ bolts'[b] = "in_progress" /\ \A c \in Bolt \ {b} : bolts'[c] = bolts[c]
        BY <1>3, <3>1 DEF TypeInv, TypeOK
      <3>5. \A t \in BoltStages : ~(t < 1)
        BY StagesAssumption DEF Stage
      <3>6. pc'[p] = "boltNext" /\ job'[p].bolt = b /\ job'[p].stage = 1
        BY <2>1, <3>1 DEF Goto, b, TypeInv, TypeOK
      <3> QED
        BY <1>1, <1>3, <3>2, <3>3, <3>4, <3>5, <3>6, BoltMove
    <2> QED
      BY <2>2, <2>3
  <1>8. ASSUME pc[p] = "boltNext", NEW s \in Nat, \A t \in BoltTodo(p) : s <= t
        PROVE  \A t \in BoltStages : t < s => status[<<t, b>>] \in {"completed", "absent"}
    <2> SUFFICES ASSUME NEW t \in BoltStages, t < s
                 PROVE  status[<<t, b>>] \in {"completed", "absent"}
      OBVIOUS
    <2>1. t \notin BoltTodo(p)
      BY <1>5, <1>8
    <2>2. CASE t < job[p].stage
      BY <1>6, <1>8, <2>2 DEF Behind
    <2>3. CASE t >= job[p].stage
      BY <1>2, <1>4, <2>1, <2>3 DEF BoltTodo, b
    <2> QED
      BY <1>5, <2>2, <2>3
  <1>9. CASE BoltRunStage(p)
    <2>1. PICK s \in BoltTodo(p) :
              /\ \A t \in BoltTodo(p) : s <= t
              /\ RunStageBegin(p, <<s, b>>)
              /\ Take(p, Job(job[p].kind, s, b))
      BY <1>9 DEF BoltRunStage, b
    <2>2. /\ s \in BoltStages /\ InScope(feature.scope, s) /\ s \in Nat
          /\ pc[p] = "boltNext" /\ bolts' = bolts
          /\ status' = [status EXCEPT ![<<s, b>>] = "in_progress"] /\ Goto(p, "agent")
      BY <1>2, <1>5, <1>9, <2>1 DEF BoltTodo, BoltRunStage, RunStageBegin, SetRow
    <2>3. /\ KeptRows(b)
          /\ \A t \in BoltStages : t # s => status'[<<t, b>>] = status[<<t, b>>]
      BY <1>4, <2>2, RowSetTo, ZenonT(60)
    <2>4. /\ \A t \in BoltStages : ~InScope(feature.scope, t) => status'[<<t, b>>] = "absent"
      BY <1>4, <2>2, <2>3
    <2>5. \A t \in BoltStages : t < s => status'[<<t, b>>] \in {"completed", "absent"}
      <3>1. \A t \in BoltStages : t < s => status[<<t, b>>] \in {"completed", "absent"}
        BY ONLY <1>8, <2>1, <2>2
      <3>2. \A t \in BoltStages : t < s => t # s
        BY ONLY <1>5, <2>2
      <3> QED
        BY ONLY <2>3, <3>1, <3>2
    <2>6. pc'[p] = "agent" /\ job'[p].bolt = b /\ job'[p].stage = s /\ bolts'[b] = "in_progress"
      BY <1>6, <2>1, <2>2 DEF Goto, Take, Job, TypeInv, TypeOK
    <2>7. \A c \in Bolt \ {b} : bolts'[c] = bolts[c]
      BY <2>2
    <2> QED
      BY <1>1, <1>3, <2>2, <2>3, <2>4, <2>5, <2>6, <2>7, BoltMove
  <1>10. ASSUME NEW st \in {"completed", "pending"}, bolts' = [bolts EXCEPT ![b] = st],
                status' = status, ~Walks(p)',
                st = "completed" =>
                    \A t \in BoltStages : status[<<t, b>>] \in {"completed", "absent"}
         PROVE  RowsInv'
    <2>1. bolts'[b] = st /\ \A c \in Bolt \ {b} : bolts'[c] = bolts[c]
      BY <1>3, <1>10 DEF TypeInv, TypeOK
    <2>2. KeptRows(b)
      BY <1>10 DEF KeptRows
    <2> QED
      BY <1>1, <1>3, <1>4, <1>10, <2>1, <2>2, BoltMove
  <1>11. CASE BoltCompletes(p)
    <2>1. /\ pc[p] = "boltNext" /\ BoltTodo(p) = {} /\ status' = status
          /\ bolts' = [bolts EXCEPT ![b] = "completed"] /\ Goto(p, AfterBolt(p))
      BY <1>11 DEF BoltCompletes, SetBolt, b
    <2>2. ~Walks(p)'
      BY <2>1 DEF AfterBolt, Goto, Walks, TypeInv, TypeOK
    <2>3. ASSUME NEW t \in BoltStages PROVE status[<<t, b>>] \in {"completed", "absent"}
      <3>1. t + 1 \in Nat /\ t < t + 1
        BY <1>5
      <3> QED
        BY <1>8, <2>1, <3>1
    <2> QED
      BY <1>10, <2>1, <2>2, <2>3
  <1>12. CASE BoltApprove(p) /\ ~Approvable(Row(p))
    <2>1. /\ status' = status /\ bolts' = [bolts EXCEPT ![b] = "pending"]
          /\ Goto(p, AfterBolt(p))
      BY <1>12 DEF BoltApprove, SetBolt, b
    <2>2. ~Walks(p)'
      BY <2>1 DEF AfterBolt, Goto, Walks, TypeInv, TypeOK
    <2> QED
      BY <1>10, <2>1, <2>2
  <1>13. CASE BoltPauses(p)
    <2>1. /\ status' = status /\ bolts' = [bolts EXCEPT ![b] = "pending"] /\ Goto(p, "unmark")
      BY <1>13 DEF BoltPauses, SetBolt, b
    <2>2. ~Walks(p)'
      BY <2>1 DEF Goto, Walks, TypeInv, TypeOK
    <2> QED
      BY <1>10, <2>1, <2>2
  <1>14. CASE BoltHalts(p)
    <2>1. status' = status /\ bolts' = bolts /\ Goto(p, "unmark")
      BY <1>14 DEF BoltHalts, db
    <2>2. ~Walks(p)' /\ KeptRows(0)
      BY <2>1 DEF Goto, Walks, KeptRows, TypeInv, TypeOK
    <2> QED
      BY <1>1, <2>1, <2>2, BoltAside
  <1>15. CASE BoltApprove(p) /\ Approvable(Row(p))
    <2>1. /\ pc[p] = "boltGate" /\ ApproveAndAdvance(snap[p], Row(p), TRUE)
          /\ Take(p, Job(job[p].kind, job[p].stage + 1, b)) /\ Goto(p, "boltNext")
      BY <1>15 DEF BoltApprove, b
    <2>2. job[p].stage \in BoltStages /\ Row(p) = <<job[p].stage, b>>
      BY <2>1 DEF TypeInv, JobsOK, JobOK, Row, b
    <2>3. snap[p] \in Features
      BY DEF TypeInv, TypeOK
    <2>4. /\ KeptRows(0) /\ bolts' = bolts /\ status'[Row(p)] = "completed"
          /\ \A q \in BoltRows : q # Row(p) => status'[q] = status[q]
      BY <1>15, <2>1, <2>3, ApprovedBolts
    <2>5. KeptRows(b)
      BY <1>4, <2>2, <2>4 DEF KeptRows, BoltRows
    <2>6. InScope(feature.scope, job[p].stage)
      <3>1. status[Row(p)] # "absent"
        BY <1>15 DEF Approvable
      <3> QED
        BY <1>4, <2>2, <3>1
    <2>7. \A t \in BoltStages : ~InScope(feature.scope, t) => status'[<<t, b>>] = "absent"
      BY <1>4, <2>2, <2>4, <2>6
    <2>8. \A t \in BoltStages : t < job[p].stage + 1 =>
              status'[<<t, b>>] \in {"completed", "absent"}
      <3> SUFFICES ASSUME NEW t \in BoltStages, t < job[p].stage + 1
                   PROVE  status'[<<t, b>>] \in {"completed", "absent"}
        OBVIOUS
      <3>1. CASE t = job[p].stage
        BY <2>2, <2>4, <3>1
      <3>2. CASE t # job[p].stage
        <4>1. t < job[p].stage
          BY <1>5, <3>2
        <4>2. status[<<t, b>>] \in {"completed", "absent"}
          BY <1>6, <2>1, <4>1 DEF Behind
        <4>3. <<t, b>> # Row(p)
          BY <2>2, <3>2
        <4> QED
          BY <1>4, <2>4, <4>2, <4>3
      <3> QED
        BY <3>1, <3>2
    <2>9. /\ pc'[p] = "boltNext" /\ job'[p].bolt = b /\ job'[p].stage = job[p].stage + 1
          /\ bolts'[b] = "in_progress" /\ \A c \in Bolt \ {b} : bolts'[c] = bolts[c]
      BY <1>6, <2>1, <2>4 DEF Goto, Take, Job, TypeInv, TypeOK
    <2> QED
      BY <1>1, <1>3, <2>5, <2>7, <2>8, <2>9, BoltMove
  <1> QED
    BY <1>7, <1>9, <1>11, <1>12, <1>13, <1>14, <1>15

\* The agent of a Bolt's stage writes its row, which is in scope.
LEMMA BoltAgent ==
    ASSUME TypeInv, SoleInv, RowsInv, NEW p \in Procs, AgentEnds(p),
           feature'.scope = feature.scope
    PROVE  RowsInv'
  <1>1. OthersKept(p) /\ pc[p] = "agent" /\ Row(p) \in Rows /\ job' = job
    <2>1. pc[p] = "agent" /\ job' = job
      BY DEF AgentEnds, AgentPasses, AgentFails, SmokeFails, QuotaExhausted, DispatchFails,
             SetupFails, Returns, Errs
    <2> QED
      BY <2>1, CopySteps DEF CopyStep, TypeInv, JobsOK, JobOK, Row
  <1>2. \/ status' = status
        \/ \E st \in {"awaiting_approval", "revising", "failed"} :
              status' = [status EXCEPT ![Row(p)] = st]
    BY DEF AgentEnds, AgentPasses, AgentFails, SmokeFails, QuotaExhausted,
           DispatchFails, SetupFails, Returns, Errs, SetRow
  <1>3. /\ KeptRows(job[p].bolt) /\ (Row(p) \notin BoltRows => KeptRows(0))
        /\ \A q \in Rows : q # Row(p) => status'[q] = status[q]
    <2>1. CASE status' = status
      BY <2>1 DEF KeptRows
    <2>2. CASE status' # status
      <3>1. PICK st : status' = [status EXCEPT ![Row(p)] = st]
        BY <1>2, <2>2
      <3> QED
        BY <1>1, <3>1, RowSetTo DEF Row
    <2> QED
      BY <2>1, <2>2
  <1>4. CASE ~OnBolt(p)
    <2>1. bolts' = bolts
      BY <1>4 DEF AgentEnds, AgentPasses, AgentFails, SmokeFails, QuotaExhausted,
                  DispatchFails, SetupFails, Returns, Errs
    <2>2. \E l \in {"process", "unmark"} : Goto(p, l)
      BY <1>4 DEF AgentEnds, AgentPasses, AgentFails, SmokeFails, QuotaExhausted,
                  DispatchFails, SetupFails, Returns, Errs
    <2>3. ~Walks(p)'
      BY <2>2 DEF Goto, Walks, TypeInv, TypeOK
    <2>4. Row(p) \notin BoltRows
      BY <1>1, <1>4, LinearNotBolt DEF OnBolt, Row
    <2> QED
      BY <1>1, <1>3, <2>1, <2>3, <2>4, BoltAside
  <1>5. CASE OnBolt(p)
    <2> DEFINE b == job[p].bolt
    <2>1. /\ b \in Bolt /\ bolts[b] = "in_progress" /\ Behind(b, job[p].stage)
          /\ InScope(feature.scope, job[p].stage)
      BY <1>1, <1>5 DEF RowsInv, WalkInv, Walks
    <2>2. /\ job[p].stage \in Nat /\ BoltStages \subseteq Nat /\ job[p].stage \in BoltStages
          /\ Row(p) = <<job[p].stage, b>>
      BY <1>5, StagesAssumption DEF OnBolt, Row, TypeInv, TypeOK, Jobs, Stage
    <2> HIDE DEF b
    <2>3. \A t \in BoltStages : /\ <<t, b>> \in BoltRows /\ <<t, b>> \in Rows
                                /\ t # job[p].stage => status'[<<t, b>>] = status[<<t, b>>]
      BY <1>3, <2>1, <2>2, BoltRow DEF BoltRows
    <2>4. \/ Goto(p, "boltGate") /\ bolts' = bolts
          \/ Goto(p, "unmark") /\ bolts' = [bolts EXCEPT ![b] = "failed"]
      BY <1>5 DEF AgentEnds, AgentPasses, AgentFails, SmokeFails, QuotaExhausted,
                  DispatchFails, SetupFails, Returns, Errs, SetBolt, b
    <2>5. \A t \in BoltStages : ~InScope(feature.scope, t) => status'[<<t, b>>] = "absent"
      BY <2>1, <2>3 DEF RowsInv, BoltScope
    <2>6. \A t \in BoltStages : t < job[p].stage =>
              status'[<<t, b>>] \in {"completed", "absent"}
      BY <2>1, <2>2, <2>3 DEF Behind
    <2>7. bolts'[b] # "completed" /\ \A c \in Bolt \ {b} : bolts'[c] = bolts[c]
      BY <2>1, <2>4 DEF TypeInv, TypeOK
    <2>8. Walks(p)' => bolts'[b] = "in_progress" /\ pc'[p] # "agent"
      BY <2>1, <2>4 DEF Goto, Walks, TypeInv, TypeOK
    <2>9. KeptRows(b) /\ job'[p].bolt = b /\ p \in Live
      BY <1>1, <1>3 DEF b, Live
    <2> QED
      BY <1>1, <2>1, <2>5, <2>6, <2>7, <2>8, <2>9, BoltMove
  <1> QED
    BY <1>4, <1>5

\* A request closes rows of a Bolt at most, and begins no walk.
LEMMA BoltRequests ==
    ASSUME TypeInv, RowsInv, UserRequest, feature'.scope = feature.scope,
           Requests \cap {"force", "cancel", "late_mark", "scope"} = {}
    PROVE  RowsInv'
  <1>1. ASSUME NEW q \in Procs, Walks(q)'
        PROVE  pc'[q] = pc[q] /\ Walks(q) /\ job'[q] = job[q]
    <2>1. pc'[q] = pc[q] /\ job'[q] = job[q]
      <3>1. ASSUME pc[q] = "idle", ~(pc'[q] = pc[q] /\ job'[q] = job[q])
            PROVE  pc'[q] \notin {"boltNext", "boltGate", "agent"}
        <4>1. CASE \/ RequestReject \/ RequestAccept \/ RequestJump \/ RequestAddSkipped
                   \/ RequestScope \/ RequestCancel \/ RequestPrepare
          BY <3>1, <4>1 DEF RequestReject, RequestAccept, RequestJump, RequestAddSkipped,
                            RequestScope, RequestCancel, RequestPrepare, local
        <4>2. ASSUME NEW p \in Procs, \/ RequestRun(p) \/ RequestBolt(p) \/ RequestResume(p)
                                      \/ RequestApprove(p) \/ RequestForce(p) \/ RequestMode(p)
              PROVE  \E l \in {"marking", "checkActive", "idle"} : Goto(p, l)
          BY <4>2 DEF RequestRun, RequestBolt, RequestResume, RequestApprove, RequestForce,
                      RequestMode, Accepted, Continue
        <4> QED
          BY <3>1, <4>1, <4>2 DEF UserRequest, Goto, TypeInv, TypeOK
      <3> QED
        BY <1>1, <3>1, CopyRequests DEF Walks
    <2> QED
      BY <1>1, <2>1 DEF Walks, OnBolt
  <1>2. ASSUME KeptRows(0), \A b \in Bolt : \/ bolts'[b] = bolts[b]
                                            \/ /\ bolts[b] # "in_progress"
                                               /\ bolts'[b] # "completed"
        PROVE  RowsInv'
    BY <1>1, <1>2, BoltQuiet
  <1>3. CASE \E p \in Procs : RequestRun(p) \/ RequestBolt(p) \/ RequestResume(p) \/ RequestMode(p)
    <2>1. status' = status /\ bolts' = bolts
      BY <1>3 DEF RequestRun, RequestBolt, RequestResume, RequestMode, Accepted, db
    <2> QED
      BY <1>2, <2>1 DEF KeptRows
  <1>4. CASE RequestPrepare
    <2>1. status' = status
      BY <1>4 DEF RequestPrepare
    <2>2. \A b \in Bolt : \/ bolts'[b] = bolts[b]
                          \/ bolts[b] # "in_progress" /\ bolts'[b] # "completed"
      BY <1>4 DEF RequestPrepare, PrepareBolts, Prepared
    <2> QED
      BY <1>2, <2>1, <2>2 DEF KeptRows
  <1>5. CASE \E p \in Procs : RequestApprove(p)
    <2>1. PICK s \in Stage : /\ Approvable(RowOf(s))
                             /\ \E ok : ApproveAndAdvance(feature, RowOf(s), ok)
      BY <1>5 DEF RequestApprove
    <2>2. PICK r, ok : r = RowOf(s) /\ Approvable(r) /\ ApproveAndAdvance(feature, r, ok)
      BY <2>1
    <2>3. feature \in Features
      BY DEF TypeInv, TypeOK
    <2> QED
      BY <1>2, <2>2, <2>3, ApprovedBolts
  <1>6. CASE RequestReject
    <2>1. PICK r : Approvable(r) /\ status' = [status EXCEPT ![r] = "revising"]
      <3>1. PICK s \in Stage : SendBack(RowOf(s))
        BY <1>6 DEF RequestReject
      <3> QED
        BY <3>1 DEF SendBack, SetRow
    <2>2. KeptRows(0) /\ bolts' = bolts
      BY <1>6, <2>1 DEF Approvable, KeptRows, RequestReject, TypeInv, TypeOK
    <2> QED
      BY <1>2, <2>2
  <1>7. CASE RequestAccept
    <2>1. PICK r : AcceptAsIs(r)
      BY <1>7 DEF RequestAccept
    <2>2. /\ r \in Rows /\ status[r] # "absent" /\ status'[r] = "completed"
          /\ \A q \in Rows \ {r} : \/ status'[q] = status[q]
                                   \/ q \in NextRow(feature, r[1]) /\ status'[q] = "not_started"
      BY <2>1, AcceptedRows
    <2>3. \A q \in BoltRows : q \in Rows /\ q \notin NextRow(feature, r[1])
      BY BoltParts DEF NextRow
    <2>4. KeptRows(0)
      BY <2>2, <2>3 DEF KeptRows
    <2>5. bolts' = bolts
      BY <1>7 DEF RequestAccept
    <2> QED
      BY <1>2, <2>4, <2>5
  <1>8. CASE RequestJump
    <2>1. PICK s : JumpTo(feature.scope, s)
      BY <1>8 DEF RequestJump
    <2>2. \A r \in BoltRows : status'[r] = status[r]
      BY <2>1, BoltParts DEF JumpTo, JumpSkips, Skip
    <2> QED
      BY <1>2, <1>8, <2>2 DEF KeptRows, RequestJump
  <1>9. CASE RequestAddSkipped
    <2>1. PICK s \in LinearStages : status' = [status EXCEPT ![<<s, 0>>] = "not_started"]
      BY <1>9 DEF RequestAddSkipped, SetRow
    <2>2. <<s, 0>> \in Rows /\ <<s, 0>> \notin BoltRows
      BY LinearRow, BoltParts
    <2> QED
      BY <1>2, <1>9, <2>1, <2>2, RowSetTo DEF RequestAddSkipped
  <1>10. ~RequestScope /\ ~RequestCancel /\ \A p \in Procs : ~RequestForce(p)
    BY DEF RequestScope, RequestCancel, RequestForce, Request
  <1> QED
    BY <1>3, <1>4, <1>5, <1>6, <1>7, <1>8, <1>9, <1>10 DEF UserRequest

LEMMA BoltStep ==
    ASSUME TypeInv, SoleInv, BoltInv, [Next]_vars,
           Requests \cap {"force", "cancel", "late_mark", "scope"} = {}
    PROVE  BoltInv'
  <1>1. JobsFrom' /\ CopiesScope' /\ feature'.scope = feature.scope
    BY JobsFromStep, ScopeStep DEF BoltInv
  <1>2. RowsInv
    BY DEF RowsInv, BoltInv
  <1>3. ASSUME NEW p \in Procs, Advance(p) PROVE RowsInv'
    BY <1>1, <1>2, <1>3, BoltLoop, BoltWalk DEF Advance, BoltInv
  <1>4. ASSUME NEW p \in Procs, AgentEnds(p) PROVE RowsInv'
    BY <1>1, <1>2, <1>4, BoltAgent
  <1>5. ASSUME UserRequest PROVE RowsInv'
    BY <1>1, <1>2, <1>5, BoltRequests
  <1>6. ASSUME Crash PROVE RowsInv'
    <2>1. bolts' = bolts /\ \A q \in Procs : pc'[q] \in {"idle", "spawned"}
      BY <1>6 DEF Crash
    <2>2. KeptRows(0)
      BY <1>6, BoltParts DEF Crash, Interrupted, With, KeptRows
    <2>3. \A q \in Procs : ~Walks(q)'
      BY <2>1 DEF Walks
    <2> QED
      BY <1>1, <1>2, <2>1, <2>2, <2>3, BoltQuiet
  <1>7. ASSUME UNCHANGED vars PROVE RowsInv'
    BY <1>2, <1>7 DEF vars, db, local, RowsInv, BoltScope, WalkInv, Walks, OnBolt, Behind,
                      BoltClosed
  <1>8. RowsInv'
    BY <1>3, <1>4, <1>5, <1>6, <1>7 DEF Next
  <1> QED
    BY <1>1, <1>8 DEF BoltInv, RowsInv

LEMMA BoltInit == Init => BoltInv
  <1> SUFFICES ASSUME Init PROVE BoltInv
    OBVIOUS
  <1>1. PICK m \in StartModes, c \in Scopes, p \in Procs, q \in Procs :
            Created(m, c, p, q)
    BY DEF Init
  <1>2. /\ \A x \in Procs : pc[x] \in {"marking", "lateMark", "idle"}
        /\ \A x \in Procs : job[x].kind \in {"request", "none"}
    BY <1>1 DEF Created, Job, NoJob
  <1>3. JobsFrom /\ CopiesScope /\ WalkInv
    BY <1>2 DEF JobsFrom, JobFrom, CopiesScope, HoldsCopy, WalkInv, Walks
  <1>4. BoltScope /\ BoltClosed
    BY <1>1, BoltParts DEF Created, BoltScope, BoltClosed, LinearStages
  <1> QED
    BY <1>3, <1>4 DEF BoltInv

\* A Bolt reported completed has no stage left to run, whatever agents and
\* approvals fail, users approve, send back, accept, jump over or add, and
\* however often the server restarts.  It takes the one goroutine that the mark
\* keeps when handlers do not overlap and nobody forces or cancels, and a scope
\* that stays: a wider one brings in stages that a completed Bolt never had.
THEOREM BoltsClosed ==
    ASSUME ~Overlap, Requests \cap {"force", "cancel", "late_mark", "scope"} = {}
    PROVE  Spec => []BoltClosed
  <1>1. Spec => []TypeInv
    BY TypeInit, TypeStep, PTL DEF Spec
  <1>2. Spec => []SoleInv
    BY SoleAlways
  <1>3. TypeInv /\ SoleInv /\ BoltInv /\ [Next]_vars => BoltInv'
    BY BoltStep
  <1>4. BoltInv => BoltClosed
    BY DEF BoltInv
  <1> QED
    BY <1>1, <1>2, <1>3, <1>4, BoltInit, PTL DEF Spec
=============================================================================
