------------------------- MODULE StageMachineProofs -------------------------
(* Theorems about StageMachine, for every number of stages, Bolts and       *)
(* processes, every scope table, and every choice of requests and faults.   *)
EXTENDS StageMachine, FiniteSetTheorems, TLAPS

\* What a process works on is a row, or a Bolt, that the tables can have.
JobOK(l, j) ==
    /\ l \in {"agent", "process", "boltGate"} => <<j.stage, j.bolt>> \in Rows
    /\ l = "act" /\ j.kind = "stage" => <<j.stage, j.bolt>> \in Rows
    /\ l = "boltGate" => j.stage \in BoltStages
    /\ l = "process" => j.stage \notin BoltStages
    /\ l = "checkActive" => j.kind = "request"
    /\ l \in {"boltStart", "boltNext"} \/ j.kind = "boltRequest" => j.bolt \in Bolt
JobsOK == \A p \in Procs : JobOK(pc[p], job[p])

TypeInv == TypeOK /\ JobsOK

-----------------------------------------------------------------------------
(* The values that the actions are built from.                             *)

LEMMA RowParts ==
    ASSUME NEW r \in Rows
    PROVE  /\ r[1] \in Stage /\ r[2] \in 0..NumBolts
           /\ r = <<r[1], r[2]>>
           /\ r[1] \in BoltStages => r[2] \in Bolt
           /\ r[1] \notin BoltStages => r[1] \in LinearStages /\ r[2] = 0
  <1>1. r \in LinearStages \X {0} \/ r \in BoltStages \X Bolt
    BY DEF Rows
  <1>2. NumBolts \in Nat \ {0} /\ BoltStages \subseteq Stage
    BY StagesAssumption
  <1>3. CASE r \in LinearStages \X {0}
    <2>1. r[1] \in LinearStages /\ r[2] = 0 /\ r = <<r[1], r[2]>>
      BY <1>3
    <2> QED
      BY <2>1, <1>2 DEF LinearStages
  <1>4. CASE r \in BoltStages \X Bolt
    <2>1. r[1] \in BoltStages /\ r[2] \in Bolt /\ r = <<r[1], r[2]>>
      BY <1>4
    <2> QED
      BY <2>1, <1>2 DEF Bolt
  <1> QED
    BY <1>1, <1>3, <1>4

LEMMA LinearRow ==
    ASSUME NEW s \in LinearStages
    PROVE  <<s, 0>> \in Rows
  BY DEF Rows

LEMMA BoltRow ==
    ASSUME NEW s \in BoltStages, NEW b \in Bolt
    PROVE  <<s, b>> \in Rows
  BY DEF Rows

LEMMA NoFeatureType == NoFeature \in Features
  <1>1. NoFeature.scope \in Scopes
    BY StagesAssumption DEF NoFeature
  <1> QED
    BY <1>1, StagesAssumption DEF NoFeature, Features, Modes

LEMMA JobType ==
    ASSUME NEW k \in Kinds, NEW s \in 0..NumStages + 1, NEW b \in 0..NumBolts
    PROVE  Job(k, s, b) \in Jobs /\ Job(k, s, b).kind = k
           /\ Job(k, s, b).stage = s /\ Job(k, s, b).bolt = b
  BY DEF Job, Jobs

LEMMA NoJobType == NoJob \in Jobs /\ NoJob.kind = "none"
  BY StagesAssumption DEF NoJob, Jobs, Kinds

LEMMA SkipType ==
    ASSUME NEW st \in [Rows -> RowStatus], NEW n \in [Rows -> Nat], NEW S
    PROVE  Skip(st, S) \in [Rows -> RowStatus] /\ Zero(n, S) \in [Rows -> Nat]
  BY DEF Skip, Zero, RowStatus

LEMMA StageAfterType ==
    ASSUME NEW c, NEW s \in Stage
    PROVE  StageAfter(c, s) \in Stage
  <1>1. \E t \in Stage : \A u \in Stage : Follows(c, s, u) => u = t
    <2>1. CASE \E t \in Stage : Follows(c, s, t)
      <3>1. PICK t \in Stage : Follows(c, s, t)
        BY <2>1
      <3>2. ASSUME NEW u \in Stage, Follows(c, s, u)
            PROVE  u = t
        BY <3>1, <3>2, StagesAssumption DEF Follows, InScope, Stage
      <3> QED
        BY <3>2
    <2>2. CASE \A t \in Stage : ~Follows(c, s, t)
      BY <2>2
    <2> QED
      BY <2>1, <2>2
  <1> QED
    BY <1>1 DEF StageAfter

LEMMA AdvancedType ==
    ASSUME TypeOK, NEW st \in [Rows -> RowStatus], NEW f \in Features, NEW s
    PROVE  Advanced(st, f, s) \in [Rows -> RowStatus] /\ AdvancedFeature(f, s) \in Features
  <1>1. Advanced(st, f, s) \in [Rows -> RowStatus]
    BY DEF Advanced, RowStatus
  <1>2. ASSUME InScope(f.scope, s)
        PROVE  /\ [f EXCEPT !.status = "done", !.stage = s] \in Features
               /\ [f EXCEPT !.stage = StageAfter(f.scope, s)] \in Features
    <2>1. s \in Stage
      BY <1>2, StagesAssumption DEF InScope, Features
    <2>2. StageAfter(f.scope, s) \in Stage
      BY <2>1, StageAfterType
    <2>3. s \in 0..NumStages /\ StageAfter(f.scope, s) \in 0..NumStages
      BY <2>1, <2>2, StagesAssumption DEF Stage
    <2> QED
      BY <2>3 DEF Features
  <1> QED
    BY <1>1, <1>2 DEF AdvancedFeature, TypeOK

LEMMA ApproveType ==
    ASSUME TypeOK, NEW f \in Features, NEW r, NEW ok, ApproveAndAdvance(f, r, ok)
    PROVE  /\ feature' \in Features /\ status' \in [Rows -> RowStatus]
           /\ revs' \in [Rows -> Nat] /\ UNCHANGED <<bolts, attempts>>
  <1>1. [status EXCEPT ![r] = "completed"] \in [Rows -> RowStatus]
    BY DEF TypeOK, RowStatus
  <1>2. /\ Advanced([status EXCEPT ![r] = "completed"], f, r[1]) \in [Rows -> RowStatus]
        /\ AdvancedFeature(f, r[1]) \in Features
    BY <1>1, AdvancedType
  <1>3. revs \in [Rows -> Nat]
    BY DEF TypeOK
  <1> QED
    BY <1>2, <1>3, SkipType DEF ApproveAndAdvance

LEMMA JobsMove ==
    ASSUME TypeOK, JobsOK, NEW p \in Procs, NEW l,
           pc' = [pc EXCEPT ![p] = l], job' = job, JobOK(l, job[p])
    PROVE  JobsOK'
  <1> SUFFICES ASSUME NEW q \in Procs PROVE JobOK(pc'[q], job'[q])
    BY DEF JobsOK
  <1>1. CASE q = p
    BY <1>1 DEF TypeOK
  <1>2. CASE q # p
    BY <1>2 DEF TypeOK, JobsOK
  <1> QED
    BY <1>1, <1>2

LEMMA JobsTake ==
    ASSUME TypeOK, JobsOK, NEW p \in Procs, NEW l, NEW j,
           pc' = [pc EXCEPT ![p] = l], job' = [job EXCEPT ![p] = j], JobOK(l, j)
    PROVE  JobsOK'
  <1> SUFFICES ASSUME NEW q \in Procs PROVE JobOK(pc'[q], job'[q])
    BY DEF JobsOK
  <1>1. CASE q = p
    BY <1>1 DEF TypeOK
  <1>2. CASE q # p
    BY <1>2 DEF TypeOK, JobsOK
  <1> QED
    BY <1>1, <1>2

LEMMA TypeInit == Init => TypeInv
  <1> SUFFICES ASSUME Init PROVE TypeInv
    OBVIOUS
  <1>1. PICK m \in StartModes, c \in Scopes, p \in Procs, q \in Procs :
            Created(m, c, p, q)
    BY DEF Init
  <1>2. /\ status \in [Rows -> RowStatus] /\ revs \in [Rows -> Nat]
        /\ bolts \in [Bolt -> BoltStatus] /\ attempts \in Nat /\ active \in BOOLEAN
    BY <1>1 DEF Created, RowStatus, BoltStatus
  <1>7. /\ mode \in [Procs -> Modes] /\ snap \in [Procs -> Features]
        /\ rev0 \in [Procs -> Nat] /\ result \in [Procs -> Results]
        /\ strikes \in [Rows -> Nat] /\ userOK \subseteq Rows /\ rare \in Nat
    BY <1>1, NoFeatureType DEF Created, Modes, Results
  <1>3. Job("request", 0, 0) \in Jobs /\ NoJob \in Jobs
    BY JobType, NoJobType, StagesAssumption DEF Kinds
  <1>4. feature \in Features /\ modesSeen \subseteq Modes
    BY <1>1, EnvironmentAssumption, StagesAssumption DEF Created, Features
  <1>5. pc \in [Procs -> PCs] /\ job \in [Procs -> Jobs]
    BY <1>1, <1>3 DEF Created, PCs
  <1>6. JobsOK
    BY <1>1 DEF Created, JobsOK, JobOK, Job, NoJob
  <1> QED
    BY <1>2, <1>4, <1>5, <1>6, <1>7 DEF TypeInv, TypeOK

-----------------------------------------------------------------------------
(* Each action keeps the type: first the decisions.                        *)

LEMMA DecideType ==
    ASSUME TypeInv, NEW p \in Procs, NEW l \in PCs, NEW j \in Jobs,
           Decide(p, l, j), JobOK(l, j),
           status' \in [Rows -> RowStatus], revs' \in [Rows -> Nat]
    PROVE  TypeInv'
  <1>1. JobsOK'
    BY JobsTake DEF TypeInv, Decide, Goto, Take
  <1>2. snap' \in [Procs -> Features] /\ pc' \in [Procs -> PCs] /\ job' \in [Procs -> Jobs]
    BY DEF TypeInv, TypeOK, Decide, Goto, Take
  <1> QED
    BY <1>1, <1>2 DEF TypeInv, TypeOK, Decide, history

LEMMA DecisionsType ==
    ASSUME TypeInv, NEW p \in Procs,
           \/ DecideWait(p) \/ DecideApprove(p) \/ DecideRerun(p)
           \/ DecidePrepare(p) \/ DecideBolt(p) \/ DecideMerge(p)
           \/ DecideStage(p) \/ DecideDone(p)
    PROVE  TypeInv'
  <1>1. status \in [Rows -> RowStatus] /\ revs \in [Rows -> Nat]
    BY DEF TypeInv, TypeOK
  <1>2. NoJob \in Jobs /\ \A l \in PCs : l \in {"unmark", "finish"} => JobOK(l, NoJob)
    BY NoJobType DEF JobOK, NoJob
  <1>3. {"act", "boltStart", "unmark", "finish"} \subseteq PCs
    BY DEF PCs
  <1>4. CASE DecideWait(p)
    <2>1. Decide(p, "unmark", NoJob) /\ UNCHANGED <<status, revs>>
      BY <1>4 DEF DecideWait
    <2> QED
      BY <2>1, <1>1, <1>2, <1>3, DecideType
  <1>5. CASE DecideApprove(p)
    <2>1. PICK r \in Rows : Decide(p, "act", Job("approve", r[1], r[2]))
      BY <1>5 DEF DecideApprove
    <2>2. r[1] \in 0..NumStages + 1 /\ r[2] \in 0..NumBolts
      BY RowParts, StagesAssumption DEF Stage
    <2>3. Job("approve", r[1], r[2]) \in Jobs
      BY <2>2, JobType DEF Kinds
    <2>4. JobOK("act", Job("approve", r[1], r[2]))
      BY DEF JobOK, Job
    <2> QED
      BY <1>5, <2>1, <2>3, <2>4, <1>1, <1>3, DecideType DEF DecideApprove
  <1>6. CASE DecideRerun(p)
    <2>1. PICK r \in Rows :
              IF r[1] \in BoltStages
              THEN Decide(p, "boltStart", Job("bolt", 1, r[2]))
              ELSE Decide(p, "act", Job("stage", r[1], 0))
      BY <1>6 DEF DecideRerun
    <2>2. r[1] \in 0..NumStages + 1 /\ 1 \in 0..NumStages + 1
          /\ r[2] \in 0..NumBolts /\ 0 \in 0..NumBolts
      BY RowParts, StagesAssumption DEF Stage
    <2>3. CASE r[1] \in BoltStages
      <3>1. Job("bolt", 1, r[2]) \in Jobs /\ JobOK("boltStart", Job("bolt", 1, r[2]))
        BY <2>2, <2>3, RowParts, JobType DEF Kinds, JobOK
      <3> QED
        BY <1>6, <2>1, <2>3, <3>1, <1>1, <1>3, DecideType DEF DecideRerun
    <2>4. CASE r[1] \notin BoltStages
      <3>1. Job("stage", r[1], 0) \in Jobs /\ <<r[1], 0>> \in Rows
        BY <2>2, <2>4, RowParts, LinearRow, JobType DEF Kinds
      <3>2. JobOK("act", Job("stage", r[1], 0))
        BY <3>1 DEF JobOK, Job
      <3> QED
        BY <1>6, <2>1, <2>4, <3>1, <3>2, <1>1, <1>3, DecideType DEF DecideRerun
    <2> QED
      BY <2>3, <2>4
  <1>7. CASE DecidePrepare(p) \/ DecideMerge(p)
    <2>1. \A k \in {"prepare", "merge"} :
              Job(k, 0, 0) \in Jobs /\ JobOK("act", Job(k, 0, 0))
      BY StagesAssumption DEF Job, Jobs, Kinds, JobOK
    <2>2. \E k \in {"prepare", "merge"} : Decide(p, "act", Job(k, 0, 0))
      BY <1>7 DEF DecidePrepare, DecideMerge
    <2>3. UNCHANGED <<status, revs>>
      BY <1>7 DEF DecidePrepare, DecideMerge
    <2> QED
      BY <2>1, <2>2, <2>3, <1>1, <1>3, DecideType
  <1>8. CASE DecideBolt(p)
    <2>1. PICK b \in Bolt : Decide(p, "boltStart", Job("bolt", 1, b))
      BY <1>8 DEF DecideBolt
    <2>2. 1 \in 0..NumStages + 1 /\ b \in 0..NumBolts
      BY StagesAssumption DEF Bolt
    <2>3. Job("bolt", 1, b) \in Jobs /\ JobOK("boltStart", Job("bolt", 1, b))
      BY <2>2, JobType DEF Kinds, JobOK
    <2> QED
      BY <1>8, <2>1, <2>3, <1>1, <1>3, DecideType DEF DecideBolt
  <1>9. CASE DecideStage(p)
    <2>1. PICK r \in Walkable(feature.scope) : Decide(p, "act", Job("stage", r[1], 0))
      BY <1>9 DEF DecideStage, First
    <2>2. r[1] \in LinearStages /\ 0 \in 0..NumBolts
      BY StagesAssumption DEF Walkable
    <2>3. r[1] \in 0..NumStages + 1
      BY <2>2, StagesAssumption DEF LinearStages, Stage
    <2>4. Job("stage", r[1], 0) \in Jobs /\ <<r[1], 0>> \in Rows
      BY <2>2, <2>3, LinearRow, JobType DEF Kinds
    <2>5. JobOK("act", Job("stage", r[1], 0))
      BY <2>4 DEF JobOK, Job
    <2>6. status' \in [Rows -> RowStatus] /\ revs' \in [Rows -> Nat]
      BY <1>9, <1>1, SkipType DEF DecideStage
    <2> QED
      BY <2>1, <2>4, <2>5, <2>6, <1>3, DecideType
  <1>10. CASE DecideDone(p)
    <2>1. Decide(p, "finish", NoJob)
      BY <1>10 DEF DecideDone
    <2>2. status' \in [Rows -> RowStatus] /\ revs' \in [Rows -> Nat]
      BY <1>10, <1>1, SkipType DEF DecideDone
    <2> QED
      BY <2>1, <2>2, <1>2, <1>3, DecideType
  <1> QED
    BY <1>4, <1>5, <1>6, <1>7, <1>8, <1>9, <1>10

-----------------------------------------------------------------------------
(* The rest of the loop, the gate decision and the agent.                  *)

\* An action that moves p from one place to another and keeps its job.
LEMMA MoveType ==
    ASSUME TypeInv, NEW p \in Procs, NEW l \in PCs, Goto(p, l), JobOK(l, job[p]),
           feature' \in Features, status' \in [Rows -> RowStatus],
           revs' \in [Rows -> Nat], bolts' \in [Bolt -> BoltStatus],
           attempts' \in Nat, active' \in BOOLEAN,
           mode' \in [Procs -> Modes], snap' \in [Procs -> Features], job' = job,
           rev0' \in [Procs -> Nat], result' \in [Procs -> Results],
           strikes' \in [Rows -> Nat], userOK' \subseteq Rows,
           UNCHANGED <<modesSeen, rare>>
    PROVE  TypeInv'
  <1>1. JobsOK'
    BY JobsMove DEF TypeInv, Goto
  <1>2. pc' \in [Procs -> PCs]
    BY DEF TypeInv, TypeOK, Goto
  <1> QED
    BY <1>1, <1>2 DEF TypeInv, TypeOK

\* An action of p that takes up another job.
LEMMA TakeType ==
    ASSUME TypeInv, NEW p \in Procs, NEW l \in PCs, NEW j \in Jobs,
           Goto(p, l), Take(p, j), JobOK(l, j),
           feature' \in Features, status' \in [Rows -> RowStatus],
           revs' \in [Rows -> Nat], bolts' \in [Bolt -> BoltStatus],
           attempts' \in Nat, active' \in BOOLEAN,
           mode' \in [Procs -> Modes], snap' \in [Procs -> Features],
           rev0' \in [Procs -> Nat], result' \in [Procs -> Results],
           strikes' \in [Rows -> Nat], userOK' \subseteq Rows,
           modesSeen' \subseteq Modes, rare' \in Nat
    PROVE  TypeInv'
  <1>1. JobsOK'
    BY JobsTake DEF TypeInv, Goto, Take
  <1>2. pc' \in [Procs -> PCs] /\ job' \in [Procs -> Jobs]
    BY DEF TypeInv, TypeOK, Goto, Take
  <1> QED
    BY <1>1, <1>2 DEF TypeInv, TypeOK

LEMMA QuietLabels ==
    ASSUME TypeInv, NEW p \in Procs
    PROVE  /\ \A l \in {"decide", "unmark", "merging", "spawned", "polling"} :
                  l \in PCs /\ JobOK(l, job[p])
           /\ job[p] \in Jobs
  BY DEF TypeInv, TypeOK, JobsOK, JobOK, PCs

LEMMA PreparedType ==
    ASSUME TypeInv, PrepareBolts
    PROVE  bolts' \in [Bolt -> BoltStatus]
  <1>1. CASE Prepared
    BY <1>1 DEF PrepareBolts, TypeInv, TypeOK
  <1>2. CASE ~Prepared
    <2>1. PICK n \in Bolt :
              bolts' = [b \in Bolt |-> IF b <= n THEN "pending" ELSE "absent"]
      BY <1>2 DEF PrepareBolts
    <2> QED
      BY <2>1 DEF BoltStatus
  <1> QED
    BY <1>1, <1>2

LEMMA LoopType ==
    ASSUME TypeInv, NEW p \in Procs,
           \/ Spawned(p) \/ AutoApprove(p) \/ ActPrepare(p) \/ MergeBegin(p)
           \/ MergeEnd(p) \/ Finish(p) \/ Unmark(p)
    PROVE  TypeInv'
  <1>1. TypeOK
    BY DEF TypeInv
  <1>2. CASE Spawned(p)
    <2>1. mode' \in [Procs -> Modes]
      BY <1>1, <1>2 DEF Spawned, TypeOK, Features
    <2> QED
      BY <1>1, <1>2, <2>1, QuietLabels, MoveType DEF Spawned, TypeOK, db, history
  <1>3. CASE AutoApprove(p)
    <2>1. CASE Approvable(Row(p))
      <3>1. PICK ok \in AdvanceOutcomes(snap[p], job[p].stage) :
                /\ ApproveAndAdvance(snap[p], Row(p), ok)
                /\ Goto(p, IF ok THEN "decide" ELSE "unmark")
        BY <1>3, <2>1 DEF AutoApprove
      <3>2. snap[p] \in Features
        BY <1>1 DEF TypeOK
      <3>3. /\ feature' \in Features /\ status' \in [Rows -> RowStatus]
            /\ revs' \in [Rows -> Nat] /\ UNCHANGED <<bolts, attempts>>
        BY <1>1, <3>1, <3>2, ApproveType
      <3>4. (IF ok THEN "decide" ELSE "unmark") \in {"decide", "unmark"}
        OBVIOUS
      <3> QED
        BY <1>1, <1>3, <3>1, <3>3, <3>4, QuietLabels, MoveType
           DEF AutoApprove, TypeOK, local, history
    <2>2. CASE ~Approvable(Row(p))
      BY <1>1, <1>3, <2>2, QuietLabels, MoveType
         DEF AutoApprove, TypeOK, db, local, history
    <2> QED
      BY <2>1, <2>2
  <1>4. CASE ActPrepare(p)
    BY <1>1, <1>4, PreparedType, QuietLabels, MoveType
       DEF ActPrepare, TypeOK, local, history
  <1>5. CASE MergeBegin(p)
    <2>1. attempts' \in Nat
      BY <1>1, <1>5 DEF MergeBegin, TypeOK
    <2> QED
      BY <1>1, <1>5, <2>1, QuietLabels, MoveType DEF MergeBegin, TypeOK, local, history
  <1>6. CASE MergeEnd(p)
    BY <1>1, <1>6, QuietLabels, MoveType DEF MergeEnd, TypeOK, db, local, history
  <1>7. CASE Finish(p)
    <2>1. feature' \in Features
      BY <1>1, <1>7 DEF Finish, TypeOK, Features
    <2> QED
      BY <1>1, <1>7, <2>1, QuietLabels, MoveType DEF Finish, TypeOK, local, history
  <1>8. CASE Unmark(p)
    <2>1. snap' \in [Procs -> Features] /\ mode' \in [Procs -> Modes]
          /\ active' \in BOOLEAN
      BY <1>1, <1>8, NoFeatureType DEF Unmark, TypeOK, Modes
    <2>2. NoJob \in Jobs /\ JobOK("idle", NoJob) /\ "idle" \in PCs
      BY NoJobType DEF JobOK, PCs, NoJob
    <2> QED
      BY <1>1, <1>8, <2>1, <2>2, TakeType DEF Unmark, TypeOK, db, history
  <1> QED
    BY <1>2, <1>3, <1>4, <1>5, <1>6, <1>7, <1>8

LEMMA BeginType ==
    ASSUME TypeInv, NEW p \in Procs, NEW r \in Rows, RunStageBegin(p, r)
    PROVE  /\ feature' \in Features /\ status' \in [Rows -> RowStatus]
           /\ snap' \in [Procs -> Features] /\ rev0' \in [Procs -> Nat]
           /\ userOK' \subseteq Rows
  <1>1. status' \in [Rows -> RowStatus] /\ rev0' \in [Procs -> Nat]
        /\ userOK' \subseteq Rows
    BY DEF RunStageBegin, SetRow, TypeInv, TypeOK, RowStatus
  <1>2. [snap[p] EXCEPT !.tree = TRUE] \in Features
    BY DEF TypeInv, TypeOK, Features
  <1>3. snap' \in [Procs -> Features] /\ feature' \in Features
    BY <1>2 DEF RunStageBegin, EnsureSpecWorktree, TypeInv, TypeOK
  <1> QED
    BY <1>1, <1>3

LEMMA ActStageType ==
    ASSUME TypeInv, NEW p \in Procs, ActStage(p)
    PROVE  TypeInv'
  <1>1. TypeOK /\ JobOK("act", job[p]) /\ Row(p) \in Rows
    BY DEF TypeInv, JobsOK, ActStage, JobOK, Row
  <1>2. CASE status[Row(p)] = "absent"
    BY <1>1, <1>2, QuietLabels, MoveType DEF ActStage, TypeOK
  <1>3. CASE status[Row(p)] # "absent"
    <2>1. RunStageBegin(p, Row(p))
      BY <1>3 DEF ActStage
    <2>2. JobOK("agent", job[p]) /\ "agent" \in PCs
      BY <1>1 DEF JobOK, Row, PCs, ActStage
    <2> QED
      BY <1>1, <2>1, <2>2, BeginType, MoveType DEF ActStage, RunStageBegin, TypeOK
  <1> QED
    BY <1>2, <1>3

LEMMA ReturnsType ==
    ASSUME TypeInv, NEW p \in Procs, NEW st \in RowStatus, NEW n \in Nat,
           NEW res \in Results, Returns(p, st, n, res),
           strikes' \in [Rows -> Nat]
    PROVE  TypeInv'
  <1>1. TypeOK /\ JobOK("agent", job[p]) /\ Row(p) \in Rows
    BY DEF TypeInv, JobsOK, Returns, JobOK, Row
  <1>2. /\ status' \in [Rows -> RowStatus] /\ revs' \in [Rows -> Nat]
        /\ result' \in [Procs -> Results] /\ rev0' \in [Procs -> Nat]
    BY <1>1 DEF Returns, SetRow, TypeOK
  <1>3. CASE OnBolt(p)
    <2>1. "boltGate" \in PCs /\ JobOK("boltGate", job[p])
      BY <1>1, <1>3 DEF JobOK, OnBolt, PCs
    <2> QED
      BY <1>1, <1>2, <1>3, <2>1, MoveType DEF Returns, TypeOK
  <1>4. CASE ~OnBolt(p)
    <2>1. "process" \in PCs /\ JobOK("process", job[p])
      BY <1>1, <1>4 DEF JobOK, OnBolt, PCs
    <2> QED
      BY <1>1, <1>2, <1>4, <2>1, MoveType DEF Returns, TypeOK
  <1> QED
    BY <1>3, <1>4

LEMMA ErrsType ==
    ASSUME TypeInv, NEW p \in Procs, Errs(p),
           status' \in [Rows -> RowStatus], revs' \in [Rows -> Nat]
    PROVE  TypeInv'
  <1>1. TypeOK
    BY DEF TypeInv
  <1>2. rev0' \in [Procs -> Nat] /\ bolts' \in [Bolt -> BoltStatus]
    BY <1>1 DEF Errs, TypeOK, SetBolt, BoltStatus
  <1> QED
    BY <1>1, <1>2, QuietLabels, MoveType DEF Errs, TypeOK, history

LEMMA AgentEndsType ==
    ASSUME TypeInv, NEW p \in Procs, AgentEnds(p)
    PROVE  TypeInv'
  <1>1. /\ TypeOK /\ rev0[p] \in Nat /\ rev0[p] + 1 \in Nat
        /\ strikes \in [Rows -> Nat] /\ status \in [Rows -> RowStatus]
        /\ revs \in [Rows -> Nat]
    BY DEF TypeInv, TypeOK
  <1>2. {"awaiting_approval", "revising", "failed"} \subseteq RowStatus
        /\ {"default_pass", "agent_failed", "smoke_failed"} \subseteq Results
    BY DEF RowStatus, Results
  <1>3. CASE AgentPasses(p)
    BY <1>1, <1>2, <1>3, ReturnsType DEF AgentPasses
  <1>4. CASE AgentFails(p)
    BY <1>1, <1>2, <1>4, ReturnsType DEF AgentFails
  <1>5. CASE SmokeFails(p)
    <2>1. strikes' \in [Rows -> Nat]
      <3>1. Row(p) \in Rows
        BY <1>5 DEF SmokeFails, Returns, TypeInv, JobsOK, JobOK, Row
      <3> QED
        BY <1>1, <1>5, <3>1 DEF SmokeFails, Strike
    <2> QED
      BY <1>1, <1>2, <1>5, <2>1, ReturnsType DEF SmokeFails
  <1>6. CASE QuotaExhausted(p)
    <2>1. status' \in [Rows -> RowStatus] /\ revs' \in [Rows -> Nat]
      BY <1>1, <1>2, <1>6 DEF QuotaExhausted, SetRow
    <2> QED
      BY <1>6, <2>1, ErrsType DEF QuotaExhausted
  <1>7. CASE DispatchFails(p)
    <2>1. status' \in [Rows -> RowStatus] /\ revs' \in [Rows -> Nat]
      BY <1>1, <1>2, <1>7 DEF DispatchFails, SetRow
    <2> QED
      BY <1>7, <2>1, ErrsType DEF DispatchFails
  <1>8. CASE SetupFails(p)
    BY <1>1, <1>8, ErrsType DEF SetupFails
  <1> QED
    BY <1>3, <1>4, <1>5, <1>6, <1>7, <1>8 DEF AgentEnds

LEMMA ProcessType ==
    ASSUME TypeInv, NEW p \in Procs,
           ProcessFailure(p) \/ ProcessAutoApprove(p) \/ ProcessNeedsReview(p)
    PROVE  TypeInv'
  <1>1. \E st \in {"revising", "completed", "awaiting_approval"},
           l \in {"decide", "unmark"} : Process(p, st, l)
    BY DEF ProcessFailure, ProcessAutoApprove, ProcessNeedsReview
  <1>2. PICK st \in {"revising", "completed", "awaiting_approval"},
             l \in {"decide", "unmark"} : Process(p, st, l)
    BY <1>1
  <1>3. TypeOK
    BY DEF TypeInv
  <1>4. status' \in [Rows -> RowStatus] /\ result' \in [Procs -> Results]
    BY <1>2, <1>3 DEF Process, SetRow, Consumed, TypeOK, RowStatus, Results
  <1> QED
    BY <1>2, <1>3, <1>4, QuietLabels, MoveType DEF Process, TypeOK, history

-----------------------------------------------------------------------------
(* RunBolt.                                                                *)

LEMMA BoltStartType ==
    ASSUME TypeInv, NEW p \in Procs, BoltStart(p)
    PROVE  TypeInv'
  <1> DEFINE b == job[p].bolt
             f == [snap[p] EXCEPT !.bolt = b]
  <1>1. TypeOK /\ b \in Bolt
    BY DEF TypeInv, JobsOK, BoltStart, JobOK
  <1>2. f \in Features /\ feature \in Features
    <2>1. b \in 0..NumBolts
      BY <1>1, StagesAssumption DEF Bolt
    <2>2. snap[p] \in Features /\ feature \in Features
      BY <1>1 DEF TypeOK
    <2> QED
      BY <2>1, <2>2 DEF Features
  <1>3. CASE bolts[b] = "absent"
    <2>1. feature' \in Features /\ Goto(p, "unmark") /\ UNCHANGED <<status, bolts, snap>>
      BY <1>2, <1>3 DEF BoltStart
    <2> QED
      BY <1>1, <2>1, QuietLabels, MoveType DEF BoltStart, TypeOK, history
  <1>4. CASE bolts[b] # "absent"
    <2> HIDE DEF f
    <2>1. /\ feature' = f /\ snap' = [snap EXCEPT ![p] = f]
          /\ status' = [r \in Rows |->
                 IF /\ r[1] \in BoltStages /\ r[2] = b
                    /\ InScope(f.scope, r[1]) /\ status[r] = "absent"
                 THEN "not_started" ELSE status[r]]
          /\ SetBolt(b, "in_progress") /\ Goto(p, "boltNext")
      BY <1>4 DEF BoltStart, f
    <2>2. status' \in [Rows -> RowStatus]
      BY <1>1, <2>1 DEF TypeOK, RowStatus
    <2>3. bolts' \in [Bolt -> BoltStatus] /\ snap' \in [Procs -> Features]
      BY <1>1, <1>2, <2>1 DEF TypeOK, SetBolt, BoltStatus
    <2>4. JobOK("boltNext", job[p]) /\ "boltNext" \in PCs
      BY <1>1 DEF JobOK, PCs
    <2>5. feature' \in Features
      BY <1>2, <2>1
    <2> HIDE DEF b
    <2>6. UNCHANGED <<revs, attempts, active, mode, job, rev0, result, history, rare>>
      BY DEF BoltStart
    <2> QED
      BY <1>1, <2>1, <2>2, <2>3, <2>4, <2>5, <2>6, MoveType DEF TypeOK, history
  <1> QED
    BY <1>3, <1>4

LEMMA BoltLoopType ==
    ASSUME TypeInv, NEW p \in Procs,
           BoltRunStage(p) \/ BoltCompletes(p) \/ BoltPauses(p) \/ BoltHalts(p)
    PROVE  TypeInv'
  <1>1. TypeOK /\ job[p] \in Jobs
    BY DEF TypeInv, TypeOK
  <1>2. AfterBolt(p) \in {"spawned", "decide"}
    BY DEF AfterBolt
  <1>3. CASE BoltRunStage(p)
    <2>1. PICK s \in BoltTodo(p) :
              /\ RunStageBegin(p, <<s, job[p].bolt>>)
              /\ Take(p, Job(job[p].kind, s, job[p].bolt))
      BY <1>3 DEF BoltRunStage
    <2>2. s \in BoltStages /\ job[p].bolt \in Bolt /\ job[p].kind \in Kinds
      BY <1>1, <1>3 DEF BoltTodo, BoltRunStage, TypeInv, JobsOK, JobOK, Jobs
    <2>3. s \in 0..NumStages + 1 /\ job[p].bolt \in 0..NumBolts
      BY <2>2, StagesAssumption DEF Stage, Bolt
    <2>4. <<s, job[p].bolt>> \in Rows
      BY <2>2, BoltRow
    <2>5. Job(job[p].kind, s, job[p].bolt) \in Jobs
          /\ JobOK("agent", Job(job[p].kind, s, job[p].bolt))
      BY <2>2, <2>3, <2>4, JobType DEF JobOK
    <2>6. "agent" \in PCs /\ Goto(p, "agent")
      BY <2>1 DEF PCs, RunStageBegin
    <2>7. UNCHANGED <<revs, bolts, attempts, active, mode, result, strikes,
                      modesSeen, rare>>
      BY <1>3 DEF BoltRunStage
    <2> QED
      BY <1>1, <2>1, <2>4, <2>5, <2>6, <2>7, BeginType, TakeType DEF TypeOK
  <1>4. CASE BoltCompletes(p)
    <2>1. bolts' \in [Bolt -> BoltStatus]
      BY <1>1, <1>4 DEF BoltCompletes, SetBolt, TypeOK, BoltStatus
    <2> QED
      BY <1>1, <1>2, <1>4, <2>1, QuietLabels, MoveType
         DEF BoltCompletes, TypeOK, local, history
  <1>5. CASE BoltPauses(p)
    <2>1. bolts' \in [Bolt -> BoltStatus] /\ result' \in [Procs -> Results]
      BY <1>1, <1>5 DEF BoltPauses, SetBolt, Consumed, TypeOK, BoltStatus, Results
    <2> QED
      BY <1>1, <1>5, <2>1, QuietLabels, MoveType DEF BoltPauses, TypeOK, history
  <1>6. CASE BoltHalts(p)
    <2>1. result' \in [Procs -> Results]
      BY <1>1, <1>6 DEF BoltHalts, Consumed, TypeOK, Results
    <2> QED
      BY <1>1, <1>6, <2>1, QuietLabels, MoveType DEF BoltHalts, TypeOK, db, history
  <1> QED
    BY <1>3, <1>4, <1>5, <1>6

LEMMA BoltApproveType ==
    ASSUME TypeInv, NEW p \in Procs, BoltApprove(p)
    PROVE  TypeInv'
  <1>1. TypeOK /\ job[p] \in Jobs /\ JobOK("boltGate", job[p])
    BY DEF TypeInv, TypeOK, JobsOK, BoltApprove
  <1>2. /\ job[p].stage \in BoltStages /\ job[p].bolt \in 0..NumBolts
        /\ job[p].kind \in Kinds /\ <<job[p].stage, job[p].bolt>> \in Rows
    BY <1>1 DEF JobOK, Jobs
  <1>3. job[p].bolt \in Bolt
    <2>1. <<job[p].stage, job[p].bolt>>[1] \in BoltStages
      BY <1>2
    <2>2. <<job[p].stage, job[p].bolt>>[2] \in Bolt
      BY <1>2, <2>1, RowParts
    <2> QED
      BY <2>2
  <1>4. result' \in [Procs -> Results]
    BY <1>1 DEF BoltApprove, Consumed, TypeOK, Results
  <1>5. CASE Approvable(Row(p))
    <2> DEFINE j == Job(job[p].kind, job[p].stage + 1, job[p].bolt)
    <2>1. ApproveAndAdvance(snap[p], Row(p), TRUE) /\ Take(p, j) /\ Goto(p, "boltNext")
      BY <1>5 DEF BoltApprove
    <2>2. /\ feature' \in Features /\ status' \in [Rows -> RowStatus]
          /\ revs' \in [Rows -> Nat] /\ UNCHANGED <<bolts, attempts>>
      BY <1>1, <2>1, ApproveType DEF TypeOK
    <2>3. job[p].stage + 1 \in 0..NumStages + 1
      <3>1. job[p].stage \in 1..NumStages /\ NumStages \in Nat
        BY <1>2, StagesAssumption DEF Stage
      <3> QED
        BY <3>1
    <2>4. j \in Jobs /\ JobOK("boltNext", j) /\ "boltNext" \in PCs
      BY <1>2, <1>3, <2>3, JobType DEF JobOK, PCs
    <2>5. UNCHANGED <<active, mode, snap, rev0, history, rare>>
      BY DEF BoltApprove
    <2> HIDE DEF j
    <2> QED
      BY <1>1, <1>4, <2>1, <2>2, <2>4, <2>5, TakeType DEF TypeOK, history
  <1>6. CASE ~Approvable(Row(p))
    <2>1. /\ SetBolt(job[p].bolt, "pending") /\ Goto(p, AfterBolt(p))
          /\ UNCHANGED <<feature, status, revs, attempts, job>>
          /\ UNCHANGED <<active, mode, snap, rev0, history, rare>>
      BY <1>6 DEF BoltApprove
    <2>2. bolts' \in [Bolt -> BoltStatus]
      BY <1>1, <2>1 DEF SetBolt, TypeOK, BoltStatus
    <2>3. AfterBolt(p) \in {"spawned", "decide"}
      BY DEF AfterBolt
    <2> QED
      BY <1>1, <1>4, <2>1, <2>2, <2>3, QuietLabels, MoveType DEF TypeOK, history
  <1> QED
    BY <1>5, <1>6

-----------------------------------------------------------------------------
(* Requests and crashes.                                                   *)

LEMMA CountedType ==
    ASSUME TypeInv, NEW k, Counted(k)
    PROVE  rare' \in Nat
  BY DEF TypeInv, TypeOK, Counted

LEMMA RequestsRunType ==
    ASSUME TypeInv, NEW p \in Procs,
           RequestRun(p) \/ RequestBolt(p) \/ RequestResume(p)
    PROVE  TypeInv'
  <1>1. PICK j \in Jobs : Accepted(p, j) /\ JobOK("marking", j)
    <2>1. CASE RequestRun(p)
      <3>1. Job("request", 0, 0) \in Jobs /\ JobOK("marking", Job("request", 0, 0))
        BY StagesAssumption DEF Job, Jobs, Kinds, JobOK
      <3> QED
        BY <2>1, <3>1 DEF RequestRun
    <2>2. CASE RequestBolt(p)
      <3>1. PICK b \in Bolt : Accepted(p, Job("boltRequest", 1, b))
        BY <2>2 DEF RequestBolt
      <3>2. 1 \in 0..NumStages + 1 /\ b \in 0..NumBolts
        BY StagesAssumption DEF Bolt
      <3>3. Job("boltRequest", 1, b) \in Jobs
            /\ JobOK("marking", Job("boltRequest", 1, b))
        BY <3>2, JobType DEF Kinds, JobOK
      <3> QED
        BY <3>1, <3>3
    <2>3. CASE RequestResume(p)
      <3>1. PICK s \in Stage : Accepted(p, Job("resume", s, 0))
        BY <2>3 DEF RequestResume
      <3>2. s \in 0..NumStages + 1 /\ 0 \in 0..NumBolts
        BY StagesAssumption DEF Stage
      <3>3. Job("resume", s, 0) \in Jobs /\ JobOK("marking", Job("resume", s, 0))
        BY <3>2, JobType DEF Kinds, JobOK
      <3> QED
        BY <3>1, <3>3
    <2> QED
      BY <2>1, <2>2, <2>3
  <1>2. TypeOK /\ "marking" \in PCs /\ rare' \in Nat
    BY CountedType DEF TypeInv, PCs, RequestRun, RequestBolt, RequestResume, Request
  <1>3. snap' \in [Procs -> Features]
    BY <1>1, <1>2, NoFeatureType DEF Accepted, TypeOK
  <1> QED
    BY <1>1, <1>2, <1>3, TakeType DEF Accepted, TypeOK, db, history

LEMMA MarksType ==
    ASSUME TypeInv, NEW p \in Procs,
           \/ Mark(p) \/ LateMark(p) \/ CheckActive(p)
           \/ ResumeMarks(p) \/ ResumeExits(p)
    PROVE  TypeInv'
  <1>1. TypeOK /\ JobOK(pc[p], job[p])
    BY DEF TypeInv, JobsOK
  <1>2. CASE Mark(p)
    <2>1. PICK l \in {"boltStart", "resuming", "spawned"} :
              /\ Goto(p, l)
              /\ l = "boltStart" => job[p].kind = "boltRequest"
      BY <1>2 DEF Mark
    <2>2. l \in PCs /\ JobOK(l, job[p])
      BY <1>1, <2>1 DEF JobOK, PCs
    <2> QED
      BY <1>1, <1>2, <2>1, <2>2, MoveType DEF Mark, TypeOK, db, local, history
  <1>3. CASE LateMark(p)
    <2>1. "idle" \in PCs /\ JobOK("idle", job[p])
      BY <1>1, <1>3 DEF JobOK, PCs, LateMark
    <2> QED
      BY <1>1, <1>3, <2>1, MoveType DEF LateMark, TypeOK, db, local, history
  <1>4. CASE CheckActive(p)
    <2>1. /\ "idle" \in PCs /\ NoJob \in Jobs /\ JobOK("idle", NoJob)
          /\ "marking" \in PCs /\ job[p] \in Jobs /\ JobOK("marking", job[p])
      BY <1>1, <1>4, NoJobType DEF JobOK, PCs, CheckActive, NoJob, TypeOK
    <2> QED
      BY <1>1, <1>4, <2>1, TakeType DEF CheckActive, TypeOK, db, history
  <1>5. CASE ResumeMarks(p)
    <2>1. status' \in [Rows -> RowStatus]
      BY <1>1, <1>5 DEF ResumeMarks, TypeOK, RowStatus
    <2> QED
      BY <1>1, <1>5, <2>1, QuietLabels, MoveType DEF ResumeMarks, TypeOK, local, history
  <1>6. CASE ResumeExits(p)
    BY <1>1, <1>6, QuietLabels, MoveType DEF ResumeExits, TypeOK, db, local, history
  <1> QED
    BY <1>2, <1>3, <1>4, <1>5, <1>6

LEMMA ContinueType ==
    ASSUME NEW p \in Procs, NEW on \in BOOLEAN, Continue(p, on)
    PROVE  \E l \in PCs, j \in Jobs : Goto(p, l) /\ Take(p, j) /\ JobOK(l, j)
  <1>1. Job("request", 0, 0) \in Jobs /\ JobOK("checkActive", Job("request", 0, 0))
    BY StagesAssumption DEF Job, Jobs, Kinds, JobOK
  <1>2. NoJob \in Jobs /\ JobOK("idle", NoJob)
    BY NoJobType DEF JobOK, NoJob
  <1>3. "checkActive" \in PCs /\ "idle" \in PCs
    BY DEF PCs
  <1>4. CASE on
    BY <1>1, <1>3, <1>4 DEF Continue
  <1>5. CASE ~on
    BY <1>2, <1>3, <1>5 DEF Continue
  <1> QED
    BY <1>4, <1>5

LEMMA RequestApproveType ==
    ASSUME TypeInv, NEW p \in Procs, RequestApprove(p)
    PROVE  TypeInv'
  <1>1. PICK s \in Stage : /\ Approvable(RowOf(s))
                           /\ \E ok \in AdvanceOutcomes(feature, s) :
                                 /\ ApproveAndAdvance(feature, RowOf(s), ok)
                                 /\ Continue(p, ok /\ AutoMode(feature.mode))
                           /\ userOK' = userOK \cup {RowOf(s)}
    BY DEF RequestApprove
  <1>2. PICK ok \in AdvanceOutcomes(feature, s) :
            /\ ApproveAndAdvance(feature, RowOf(s), ok)
            /\ Continue(p, ok /\ AutoMode(feature.mode))
    BY <1>1
  <1>3. TypeOK /\ feature \in Features /\ rare' \in Nat
    BY CountedType DEF TypeInv, TypeOK, RequestApprove, Request
  <1>4. /\ feature' \in Features /\ status' \in [Rows -> RowStatus]
        /\ revs' \in [Rows -> Nat] /\ UNCHANGED <<bolts, attempts>>
    BY <1>2, <1>3, ApproveType
  <1>5. userOK' \subseteq Rows
    BY <1>1, <1>3 DEF TypeOK, Approvable
  <1>6. (ok /\ AutoMode(feature.mode)) \in BOOLEAN
    OBVIOUS
  <1>7. PICK l \in PCs, j \in Jobs : Goto(p, l) /\ Take(p, j) /\ JobOK(l, j)
    BY <1>2, <1>6, ContinueType
  <1> QED
    BY <1>3, <1>4, <1>5, <1>7, TakeType DEF RequestApprove, TypeOK

LEMMA RequestModeType ==
    ASSUME TypeInv, NEW p \in Procs, RequestMode(p)
    PROVE  TypeInv'
  <1>1. PICK m \in Modes : /\ feature' = [feature EXCEPT !.mode = m]
                           /\ modesSeen' = modesSeen \cup {m}
                           /\ Continue(p, AutoMode(m))
    BY DEF RequestMode
  <1>2. TypeOK /\ rare' \in Nat
    BY CountedType DEF TypeInv, RequestMode, Request
  <1>3. feature' \in Features /\ modesSeen' \subseteq Modes
    BY <1>1, <1>2 DEF TypeOK, Features
  <1>4. PICK l \in PCs, j \in Jobs : Goto(p, l) /\ Take(p, j) /\ JobOK(l, j)
    <2>1. AutoMode(m) \in BOOLEAN
      BY DEF AutoMode
    <2> QED
      BY <1>1, <2>1, ContinueType
  <1> QED
    BY <1>2, <1>3, <1>4, TakeType DEF RequestMode, TypeOK

LEMMA RequestForceType ==
    ASSUME TypeInv, NEW p \in Procs, RequestForce(p)
    PROVE  TypeInv'
  <1>1. PICK s \in Stage :
            /\ status' = [r \in Rows |->
                    IF r = <<s, 0>> /\ status[r] # "absent" THEN "revising" ELSE status[r]]
            /\ Take(p, Job("forced", s, 0))
    BY DEF RequestForce
  <1>2. TypeOK /\ rare' \in Nat
    BY CountedType DEF TypeInv, RequestForce, Request
  <1>3. status' \in [Rows -> RowStatus]
    BY <1>1, <1>2 DEF TypeOK, RowStatus
  <1>4. s \in 0..NumStages + 1 /\ 0 \in 0..NumBolts
    BY StagesAssumption DEF Stage
  <1>5. /\ Job("forced", s, 0) \in Jobs /\ JobOK("marking", Job("forced", s, 0))
        /\ "marking" \in PCs
    BY <1>4, JobType DEF Kinds, JobOK, PCs
  <1>6. /\ Goto(p, "marking") /\ active' = FALSE
        /\ UNCHANGED <<feature, revs, bolts, attempts, mode, snap, rev0, result, history>>
    BY DEF RequestForce
  <1> QED
    BY <1>1, <1>2, <1>3, <1>5, <1>6, TakeType DEF TypeOK, history

\* A request that no process of the model handles leaves pc and job alone.
LEMMA TablesType ==
    ASSUME TypeInv, feature' \in Features, status' \in [Rows -> RowStatus],
           revs' \in [Rows -> Nat], bolts' \in [Bolt -> BoltStatus],
           active' \in BOOLEAN, strikes' \in [Rows -> Nat], userOK' \subseteq Rows,
           rare' \in Nat,
           UNCHANGED <<attempts, pc, local, modesSeen>>
    PROVE  TypeInv'
  <1>1. JobsOK'
    BY DEF TypeInv, JobsOK, local
  <1> QED
    BY <1>1 DEF TypeInv, TypeOK, local

LEMMA TableRequestsType ==
    ASSUME TypeInv,
           \/ RequestReject \/ RequestAccept \/ RequestJump \/ RequestAddSkipped
           \/ RequestScope \/ RequestCancel \/ RequestPrepare
    PROVE  TypeInv'
  <1>1. TypeOK /\ feature \in Features /\ rare' \in Nat
    BY CountedType DEF TypeInv, TypeOK, Request, RequestReject, RequestAccept,
       RequestJump, RequestAddSkipped, RequestScope, RequestCancel, RequestPrepare,
       SendBack, AcceptAsIs, JumpTo
  <1>2. status \in [Rows -> RowStatus] /\ revs \in [Rows -> Nat]
    BY <1>1 DEF TypeOK
  <1>3. CASE RequestReject
    <2>1. PICK s \in Stage : /\ Approvable(RowOf(s)) /\ Strike(RowOf(s))
                             /\ SetRow(RowOf(s), "revising")
                             /\ revs' = [revs EXCEPT ![RowOf(s)] = @ + 1]
      BY <1>3 DEF RequestReject, SendBack
    <2>2. RowOf(s) \in Rows
      BY <2>1 DEF Approvable
    <2>3. /\ status' \in [Rows -> RowStatus] /\ revs' \in [Rows -> Nat]
          /\ strikes' \in [Rows -> Nat]
      BY <1>1, <1>2, <2>1, <2>2 DEF TypeOK, SetRow, Strike, RowStatus
    <2> QED
      BY <1>1, <1>3, <2>3, TablesType DEF RequestReject, TypeOK
  <1>4. CASE RequestAccept
    <2>1. PICK s \in Stage :
              LET r == RowOf(s)
              IN  /\ r \in Rows
                  /\ status' = Advanced([status EXCEPT ![r] = "completed"], feature, r[1])
                  /\ revs' = Zero(revs, NextRow(feature, r[1]))
                  /\ feature' = AdvancedFeature(feature, r[1])
                  /\ userOK' = userOK \cup {r}
      BY <1>4 DEF RequestAccept, AcceptAsIs
    <2>2. [status EXCEPT ![RowOf(s)] = "completed"] \in [Rows -> RowStatus]
      BY <1>2 DEF RowStatus
    <2>3. feature' \in Features /\ status' \in [Rows -> RowStatus]
      <3>1. RowOf(s)[1] \in Stage
        BY DEF RowOf
      <3> QED
        BY <1>1, <2>1, <2>2, <3>1, AdvancedType
    <2>4. revs' \in [Rows -> Nat] /\ userOK' \subseteq Rows
      BY <1>1, <1>2, <2>1, SkipType DEF TypeOK
    <2> QED
      BY <1>1, <1>4, <2>3, <2>4, TablesType DEF RequestAccept, TypeOK
  <1>5. CASE RequestJump
    <2>1. PICK s \in ScopeStages[feature.scope] :
            LET skipped == JumpSkips(feature.scope, s)
                target == {r \in Rows : r = <<s, 0>> /\ status[r] # "absent"}
            IN  /\ status' = [r \in Rows |->
                        IF r \in target THEN "not_started" ELSE Skip(status, skipped)[r]]
                /\ revs' = Zero(revs, skipped \cup target)
      BY <1>5 DEF RequestJump, JumpTo
    <2>2. revs' \in [Rows -> Nat]
      BY <1>2, <2>1, SkipType
    <2>3. Skip(status, JumpSkips(feature.scope, s)) \in [Rows -> RowStatus]
      BY <1>2, SkipType
    <2>4. status' \in [Rows -> RowStatus]
      BY <2>1, <2>3 DEF RowStatus
    <2> QED
      BY <1>1, <1>5, <2>2, <2>4, TablesType DEF RequestJump, TypeOK, history
  <1>6. CASE RequestAddSkipped
    <2>1. PICK s \in LinearStages : /\ SetRow(<<s, 0>>, "not_started")
                                    /\ revs' = [revs EXCEPT ![<<s, 0>>] = 0]
      BY <1>6 DEF RequestAddSkipped
    <2>2. status' \in [Rows -> RowStatus] /\ revs' \in [Rows -> Nat]
      BY <1>2, <2>1 DEF SetRow, RowStatus
    <2> QED
      BY <1>1, <1>6, <2>2, TablesType DEF RequestAddSkipped, TypeOK, history
  <1>7. CASE RequestScope
    <2>1. feature' \in Features
      BY <1>1, <1>7 DEF RequestScope, Features
    <2> QED
      BY <1>1, <1>7, <2>1, TablesType DEF RequestScope, TypeOK, history
  <1>8. CASE RequestCancel
    <2>1. feature' \in Features /\ active' \in BOOLEAN
      BY <1>1, <1>8 DEF RequestCancel, Features
    <2> QED
      BY <1>1, <1>8, <2>1, TablesType DEF RequestCancel, TypeOK, history
  <1>9. CASE RequestPrepare
    <2>1. bolts' \in [Bolt -> BoltStatus]
      BY <1>9, PreparedType DEF RequestPrepare
    <2> QED
      BY <1>1, <1>9, <2>1, TablesType DEF RequestPrepare, TypeOK, history
  <1> QED
    BY <1>3, <1>4, <1>5, <1>6, <1>7, <1>8, <1>9

LEMMA CrashType ==
    ASSUME TypeInv, Crash
    PROVE  TypeInv'
  <1>1. TypeOK /\ rare' \in Nat
    BY CountedType DEF TypeInv, Crash
  <1>2. status' \in [Rows -> RowStatus] /\ revs' \in [Rows -> Nat]
    BY <1>1, SkipType DEF Crash, TypeOK, RowStatus
  <1>3. PICK p \in Procs :
            /\ pc' = [x \in Procs |-> IF x = p /\ NeedsAdvance THEN "spawned" ELSE "idle"]
            /\ job' = [x \in Procs |-> NoJob]
            /\ snap' = [x \in Procs |-> NoFeature]
            /\ mode' = [x \in Procs |-> "human"]
            /\ rev0' = [x \in Procs |-> 0]
            /\ result' = [x \in Procs |-> "none"]
    BY DEF Crash
  <1>4. /\ snap' \in [Procs -> Features] /\ mode' \in [Procs -> Modes]
        /\ job' \in [Procs -> Jobs] /\ rev0' \in [Procs -> Nat]
        /\ result' \in [Procs -> Results]
    BY <1>3, NoFeatureType, NoJobType DEF Modes, Results
  <1>5. pc' \in [Procs -> PCs] /\ \A q \in Procs : pc'[q] \in {"spawned", "idle"}
    BY <1>3 DEF PCs
  <1>6. JobsOK'
    BY <1>3, <1>5 DEF JobsOK, JobOK, NoJob
  <1>7. active' \in BOOLEAN
    BY DEF Crash, NeedsAdvance
  <1>8. UNCHANGED <<feature, bolts, attempts, history>>
    BY DEF Crash
  <1> QED
    BY <1>1, <1>2, <1>4, <1>5, <1>6, <1>7, <1>8 DEF TypeInv, TypeOK, history

LEMMA TypeStep == TypeInv /\ [Next]_vars => TypeInv'
  <1> SUFFICES ASSUME TypeInv, [Next]_vars PROVE TypeInv'
    OBVIOUS
  <1>1. CASE \E p \in Procs : Advance(p)
    <2>1. PICK p \in Procs : Advance(p)
      BY <1>1
    <2> QED
      BY <2>1, DecisionsType, LoopType, ActStageType, ProcessType, BoltStartType,
         BoltLoopType, BoltApproveType, MarksType DEF Advance
  <1>2. CASE \E p \in Procs : AgentEnds(p)
    BY <1>2, AgentEndsType
  <1>3. CASE UserRequest
    BY <1>3, RequestsRunType, RequestApproveType, RequestModeType, RequestForceType,
       TableRequestsType DEF UserRequest
  <1>4. CASE Crash
    BY <1>4, CrashType
  <1>5. CASE UNCHANGED vars
    BY <1>5 DEF TypeInv, TypeOK, JobsOK, JobOK, vars, db, local, history
  <1> QED
    BY <1>1, <1>2, <1>3, <1>4, <1>5 DEF Next

\* The rows, marks and local variables always have the types of their columns
\* and fields, and a running goroutine always works on a row that can exist.
THEOREM TypeCorrect == Spec => []TypeOK
  <1>1. Spec => []TypeInv
    BY TypeInit, TypeStep, PTL DEF Spec
  <1>2. TypeInv => TypeOK
    BY DEF TypeInv
  <1> QED
    BY <1>1, <1>2, PTL

-----------------------------------------------------------------------------
(* The revision count.  A goroutine between the start of a stage and its    *)
(* outcome holds a count that it will write back over whatever the row has  *)
(* then: the count held must be backed by strikes too.                      *)

HeldBacked == \A p \in Procs : pc[p] = "agent" => rev0[p] <= strikes[Row(p)]
CountInv == StrikesBacked /\ HeldBacked

\* No count grows, and no process enters the agent's run.
LEMMA CountQuiet ==
    ASSUME TypeInv, CountInv, TypeInv', strikes' = strikes,
           \A r \in Rows : revs'[r] <= revs[r],
           \A q \in Procs : pc'[q] = "agent" =>
               pc[q] = "agent" /\ job'[q] = job[q] /\ rev0'[q] = rev0[q]
    PROVE  CountInv'
  <1>1. StrikesBacked'
    <2> SUFFICES ASSUME NEW r \in Rows PROVE revs'[r] <= strikes'[r]
      BY DEF StrikesBacked
    <2>1. revs'[r] <= revs[r] /\ revs[r] <= strikes[r]
      BY DEF CountInv, StrikesBacked
    <2>2. revs'[r] \in Nat /\ revs[r] \in Nat /\ strikes[r] \in Nat
      BY DEF TypeInv, TypeOK
    <2> QED
      BY <2>1, <2>2
  <1>2. HeldBacked'
    BY DEF CountInv, HeldBacked, Row
  <1> QED
    BY <1>1, <1>2 DEF CountInv

\* The same for an action of p alone that leaves the counts alone.
LEMMA CountMove ==
    ASSUME TypeInv, CountInv, TypeInv', NEW p \in Procs, NEW l, Goto(p, l),
           l # "agent", UNCHANGED <<revs, strikes>>,
           job' = job \/ \E j : Take(p, j),
           \A q \in Procs \ {p} : rev0'[q] = rev0[q]
    PROVE  CountInv'
  <1>1. \A q \in Procs : pc'[q] = "agent" =>
            pc[q] = "agent" /\ job'[q] = job[q] /\ rev0'[q] = rev0[q]
    <2> SUFFICES ASSUME NEW q \in Procs, pc'[q] = "agent"
                 PROVE pc[q] = "agent" /\ job'[q] = job[q] /\ rev0'[q] = rev0[q]
      OBVIOUS
    <2>1. q # p
      BY DEF Goto, TypeInv, TypeOK
    <2>2. pc[q] = "agent"
      BY <2>1 DEF Goto, TypeInv, TypeOK
    <2>3. job'[q] = job[q]
      BY <2>1 DEF Take, TypeInv, TypeOK
    <2> QED
      BY <2>1, <2>2, <2>3
  <1>2. \A r \in Rows : revs'[r] <= revs[r]
    BY DEF TypeInv, TypeOK
  <1> QED
    BY <1>1, <1>2, CountQuiet

LEMMA ZeroLowers ==
    ASSUME TypeInv, NEW S
    PROVE  \A r \in Rows : Zero(revs, S)[r] <= revs[r]
  BY DEF Zero, TypeInv, TypeOK

\* The stage row's count, not a count of p's own, is what p holds.
LEMMA CountBegin ==
    ASSUME TypeInv, CountInv, NEW p \in Procs, NEW r \in Rows, RunStageBegin(p, r),
           job' = job \/ (\E j : Take(p, j)), Row(p)' = r,
           UNCHANGED <<revs, strikes>>
    PROVE  CountInv'
  <1>1. StrikesBacked'
    BY DEF CountInv, StrikesBacked
  <1>2. HeldBacked'
    <2> SUFFICES ASSUME NEW q \in Procs, pc'[q] = "agent"
                 PROVE rev0'[q] <= strikes'[Row(q)']
      BY DEF HeldBacked
    <2>1. CASE q = p
      <3>1. rev0'[p] = revs[r]
        BY DEF RunStageBegin, TypeInv, TypeOK
      <3> QED
        BY <2>1, <3>1 DEF CountInv, StrikesBacked
    <2>2. CASE q # p
      <3>1. pc[q] = "agent" /\ rev0'[q] = rev0[q] /\ job'[q] = job[q]
        BY <2>2 DEF RunStageBegin, Goto, Take, TypeInv, TypeOK
      <3> QED
        BY <3>1 DEF CountInv, HeldBacked, Row
    <2> QED
      BY <2>1, <2>2
  <1> QED
    BY <1>1, <1>2 DEF CountInv

\* A run's outcome writes the held count, plus one with a strike.
LEMMA CountEnd ==
    ASSUME TypeInv, CountInv, TypeInv', NEW p \in Procs, pc[p] = "agent",
           NEW l, Goto(p, l), l # "agent", job' = job,
           rev0' = [rev0 EXCEPT ![p] = 0],
           \/ revs' = [revs EXCEPT ![Row(p)] = rev0[p]] /\ strikes' = strikes
           \/ /\ revs' = [revs EXCEPT ![Row(p)] = rev0[p] + 1]
              /\ strikes' = [strikes EXCEPT ![Row(p)] = @ + 1]
    PROVE  CountInv'
  <1>1. Row(p) \in Rows /\ rev0[p] \in Nat /\ rev0[p] <= strikes[Row(p)]
    BY DEF TypeInv, TypeOK, JobsOK, JobOK, Row, CountInv, HeldBacked
  <1>2. strikes \in [Rows -> Nat] /\ revs \in [Rows -> Nat]
    BY DEF TypeInv, TypeOK
  <1>3. \A r \in Rows : strikes[r] <= strikes'[r]
    BY <1>1, <1>2
  <1>4. StrikesBacked'
    <2> SUFFICES ASSUME NEW r \in Rows PROVE revs'[r] <= strikes'[r]
      BY DEF StrikesBacked
    <2>1. CASE r = Row(p)
      BY <1>1, <1>2, <2>1
    <2>2. CASE r # Row(p)
      BY <1>1, <1>2, <2>2 DEF CountInv, StrikesBacked
    <2> QED
      BY <2>1, <2>2
  <1>5. HeldBacked'
    <2> SUFFICES ASSUME NEW q \in Procs, pc'[q] = "agent"
                 PROVE rev0'[q] <= strikes'[Row(q)']
      BY DEF HeldBacked
    <2>1. q # p
      BY DEF Goto, TypeInv, TypeOK
    <2>2. pc[q] = "agent" /\ rev0'[q] = rev0[q] /\ Row(q)' = Row(q)
      BY <2>1 DEF Goto, TypeInv, TypeOK, Row
    <2>3. rev0[q] <= strikes[Row(q)] /\ Row(q) \in Rows
      BY <2>2 DEF TypeInv, JobsOK, JobOK, Row, CountInv, HeldBacked
    <2>4. strikes[Row(q)] <= strikes'[Row(q)] /\ strikes[Row(q)] \in Nat
          /\ strikes'[Row(q)] \in Nat /\ rev0[q] \in Nat
      BY <1>2, <1>3, <2>3 DEF TypeInv, TypeOK
    <2> QED
      BY <2>2, <2>3, <2>4
  <1> QED
    BY <1>4, <1>5 DEF CountInv

LEMMA CountInit == Init => CountInv
  <1> SUFFICES ASSUME Init PROVE CountInv
    OBVIOUS
  <1>1. PICK m \in StartModes, c \in Scopes, p \in Procs, q \in Procs :
            Created(m, c, p, q)
    BY DEF Init
  <1> QED
    BY <1>1 DEF Created, CountInv, StrikesBacked, HeldBacked

LEMMA CountDecisions ==
    ASSUME TypeInv, CountInv, TypeInv', NEW p \in Procs,
           \/ DecideWait(p) \/ DecideApprove(p) \/ DecideRerun(p)
           \/ DecidePrepare(p) \/ DecideBolt(p) \/ DecideMerge(p)
           \/ DecideStage(p) \/ DecideDone(p)
    PROVE  CountInv'
  <1>1. \E l \in PCs \ {"agent"} : \E j : Decide(p, l, j)
    BY DEF DecideWait, DecideApprove, DecideRerun, DecidePrepare, DecideBolt,
           DecideMerge, DecideStage, DecideDone, PCs
  <1>2. \A r \in Rows : revs'[r] <= revs[r]
    <2>1. CASE revs' = revs
      BY <2>1 DEF TypeInv, TypeOK
    <2>2. CASE revs' = Zero(revs, PassedOver(status, feature.scope))
      BY <2>2, ZeroLowers
    <2> QED
      BY <2>1, <2>2 DEF DecideWait, DecideApprove, DecideRerun, DecidePrepare,
                        DecideBolt, DecideMerge, DecideStage, DecideDone
  <1>3. strikes' = strikes
    BY <1>1 DEF Decide, history
  <1>4. \A q \in Procs : pc'[q] = "agent" =>
            pc[q] = "agent" /\ job'[q] = job[q] /\ rev0'[q] = rev0[q]
    BY <1>1 DEF Decide, Goto, Take, TypeInv, TypeOK
  <1> QED
    BY <1>2, <1>3, <1>4, CountQuiet

\* Approvals only reset counts.
LEMMA CountApproves ==
    ASSUME TypeInv, CountInv, TypeInv', NEW p \in Procs, NEW f, NEW r, NEW ok,
           ApproveAndAdvance(f, r, ok), NEW l, Goto(p, l), l # "agent",
           job' = job \/ (\E j : Take(p, j)), UNCHANGED <<rev0, strikes>>
    PROVE  CountInv'
  <1>1. \A q \in Rows : revs'[q] <= revs[q]
    BY ZeroLowers DEF ApproveAndAdvance
  <1>2. \A q \in Procs : pc'[q] = "agent" =>
            pc[q] = "agent" /\ job'[q] = job[q] /\ rev0'[q] = rev0[q]
    BY DEF Goto, Take, TypeInv, TypeOK
  <1> QED
    BY <1>1, <1>2, CountQuiet

LEMMA CountLoop ==
    ASSUME TypeInv, CountInv, TypeInv', NEW p \in Procs,
           \/ Spawned(p) \/ AutoApprove(p) \/ ActPrepare(p) \/ MergeBegin(p)
           \/ MergeEnd(p) \/ Finish(p) \/ Unmark(p)
    PROVE  CountInv'
  <1>1. CASE AutoApprove(p) /\ Approvable(Row(p))
    <2>1. PICK ok \in AdvanceOutcomes(snap[p], job[p].stage) :
              /\ ApproveAndAdvance(snap[p], Row(p), ok)
              /\ Goto(p, IF ok THEN "decide" ELSE "unmark")
      BY <1>1 DEF AutoApprove
    <2>2. (IF ok THEN "decide" ELSE "unmark") # "agent" /\ job' = job
          /\ UNCHANGED <<rev0, strikes>>
      BY <1>1 DEF AutoApprove, local, history
    <2> QED
      BY <2>1, <2>2, CountApproves
  <1>2. CASE Unmark(p)
    <2>1. Goto(p, "idle") /\ Take(p, NoJob) /\ UNCHANGED <<revs, strikes, rev0>>
      BY <1>2 DEF Unmark, db, history
    <2> QED
      BY <2>1, CountMove
  <1>3. CASE ~(AutoApprove(p) /\ Approvable(Row(p))) /\ ~Unmark(p)
    <2>1. \E l \in {"decide", "unmark", "merging"} : Goto(p, l)
      BY <1>3 DEF Spawned, AutoApprove, ActPrepare, MergeBegin, MergeEnd, Finish
    <2>2. UNCHANGED <<revs, strikes, job, rev0>>
      BY <1>3 DEF Spawned, AutoApprove, ActPrepare, MergeBegin, MergeEnd, Finish,
                  db, local, history
    <2> QED
      BY <2>1, <2>2, CountMove
  <1> QED
    BY <1>1, <1>2, <1>3

LEMMA CountAgent ==
    ASSUME TypeInv, CountInv, TypeInv', NEW p \in Procs, AgentEnds(p)
    PROVE  CountInv'
  <1>1. CASE AgentPasses(p) \/ AgentFails(p) \/ SmokeFails(p)
    <2>1. \E l \in {"boltGate", "process"} : Goto(p, l)
      BY <1>1 DEF AgentPasses, AgentFails, SmokeFails, Returns
    <2>2. pc[p] = "agent" /\ job' = job /\ rev0' = [rev0 EXCEPT ![p] = 0]
      BY <1>1 DEF AgentPasses, AgentFails, SmokeFails, Returns
    <2>3. \/ revs' = [revs EXCEPT ![Row(p)] = rev0[p]] /\ strikes' = strikes
          \/ /\ revs' = [revs EXCEPT ![Row(p)] = rev0[p] + 1]
             /\ strikes' = [strikes EXCEPT ![Row(p)] = @ + 1]
      BY <1>1 DEF AgentPasses, AgentFails, SmokeFails, Returns, Strike
    <2> QED
      BY <2>1, <2>2, <2>3, CountEnd
  <1>2. CASE QuotaExhausted(p) \/ DispatchFails(p)
    <2>1. /\ Goto(p, "unmark") /\ pc[p] = "agent" /\ job' = job
          /\ rev0' = [rev0 EXCEPT ![p] = 0] /\ strikes' = strikes
          /\ revs' = [revs EXCEPT ![Row(p)] = rev0[p]]
      BY <1>2 DEF QuotaExhausted, DispatchFails, Errs, history
    <2> QED
      BY <2>1, CountEnd
  <1>3. CASE SetupFails(p)
    <2>1. /\ Goto(p, "unmark") /\ UNCHANGED <<revs, strikes, job>>
          /\ \A q \in Procs \ {p} : rev0'[q] = rev0[q]
      BY <1>3 DEF SetupFails, Errs, history, TypeInv, TypeOK
    <2> QED
      BY <2>1, CountMove
  <1> QED
    BY <1>1, <1>2, <1>3 DEF AgentEnds

LEMMA CountStages ==
    ASSUME TypeInv, CountInv, TypeInv', NEW p \in Procs,
           \/ ActStage(p) \/ BoltStart(p) \/ BoltRunStage(p) \/ BoltCompletes(p)
           \/ BoltApprove(p) \/ BoltPauses(p) \/ BoltHalts(p)
           \/ ProcessFailure(p) \/ ProcessAutoApprove(p) \/ ProcessNeedsReview(p)
    PROVE  CountInv'
  <1>1. CASE ActStage(p)
    <2>1. CASE status[Row(p)] = "absent"
      <3>1. Goto(p, "unmark") /\ UNCHANGED <<revs, strikes, job, rev0>>
        BY <1>1, <2>1 DEF ActStage
      <3> QED
        BY <3>1, CountMove
    <2>2. CASE status[Row(p)] # "absent"
      <3>1. RunStageBegin(p, Row(p)) /\ UNCHANGED <<revs, strikes, job>>
        BY <1>1, <2>2 DEF ActStage
      <3>2. Row(p) \in Rows /\ Row(p)' = Row(p)
        BY <1>1, <3>1 DEF ActStage, TypeInv, JobsOK, JobOK, Row
      <3> QED
        BY <3>1, <3>2, CountBegin
    <2> QED
      BY <2>1, <2>2
  <1>2. CASE BoltRunStage(p)
    <2>1. PICK s \in BoltTodo(p) :
              /\ RunStageBegin(p, <<s, job[p].bolt>>)
              /\ Take(p, Job(job[p].kind, s, job[p].bolt))
      BY <1>2 DEF BoltRunStage
    <2>2. s \in BoltStages /\ job[p].bolt \in Bolt
      BY <1>2 DEF BoltTodo, BoltRunStage, TypeInv, JobsOK, JobOK
    <2>3. Row(p)' = <<s, job[p].bolt>>
      BY <2>1 DEF Row, Take, Job, TypeInv, TypeOK
    <2>4. UNCHANGED <<revs, strikes>>
      BY <1>2 DEF BoltRunStage
    <2> QED
      BY <2>1, <2>2, <2>3, <2>4, BoltRow, CountBegin
  <1>3. CASE BoltApprove(p) /\ Approvable(Row(p))
    <2>1. /\ ApproveAndAdvance(snap[p], Row(p), TRUE) /\ Goto(p, "boltNext")
          /\ \E j : Take(p, j)
          /\ UNCHANGED <<rev0, strikes>>
      BY <1>3 DEF BoltApprove, history
    <2> QED
      BY <2>1, CountApproves
  <1>4. CASE BoltApprove(p) /\ ~Approvable(Row(p))
    <2>1. Goto(p, AfterBolt(p)) /\ UNCHANGED <<revs, strikes, job, rev0>>
      BY <1>4 DEF BoltApprove, history
    <2> QED
      BY <2>1, CountMove DEF AfterBolt
  <1>5. CASE BoltStart(p)
    <2>1. (Goto(p, "unmark") \/ Goto(p, "boltNext"))
          /\ UNCHANGED <<revs, strikes, job, rev0>>
      BY <1>5 DEF BoltStart, history
    <2> QED
      BY <2>1, CountMove
  <1>6. CASE BoltCompletes(p) \/ BoltPauses(p) \/ BoltHalts(p)
    <2>1. \E l \in {"spawned", "decide", "unmark"} : Goto(p, l)
      BY <1>6 DEF BoltCompletes, BoltPauses, BoltHalts, AfterBolt
    <2>2. UNCHANGED <<revs, strikes, job, rev0>>
      BY <1>6 DEF BoltCompletes, BoltPauses, BoltHalts, db, local, history
    <2> QED
      BY <2>1, <2>2, CountMove
  <1>7. CASE ProcessFailure(p) \/ ProcessAutoApprove(p) \/ ProcessNeedsReview(p)
    <2>1. \E st \in RowStatus, l \in {"decide", "unmark"} : Process(p, st, l)
      BY <1>7 DEF ProcessFailure, ProcessAutoApprove, ProcessNeedsReview, RowStatus
    <2>2. \E l \in {"decide", "unmark"} : Goto(p, l)
      BY <2>1 DEF Process
    <2>3. UNCHANGED <<revs, strikes, job, rev0>>
      BY <2>1 DEF Process, history
    <2> QED
      BY <2>2, <2>3, CountMove
  <1> QED
    BY <1>1, <1>2, <1>3, <1>4, <1>5, <1>6, <1>7

LEMMA CountRequests ==
    ASSUME TypeInv, CountInv, TypeInv', NEW p \in Procs,
           \/ RequestRun(p) \/ RequestBolt(p) \/ RequestResume(p)
           \/ RequestApprove(p) \/ RequestForce(p) \/ RequestMode(p)
           \/ Mark(p) \/ LateMark(p) \/ CheckActive(p)
           \/ ResumeMarks(p) \/ ResumeExits(p)
    PROVE  CountInv'
  <1>1. CASE RequestRun(p) \/ RequestBolt(p) \/ RequestResume(p)
    <2>1. \E j : Accepted(p, j)
      BY <1>1 DEF RequestRun, RequestBolt, RequestResume
    <2>2. Goto(p, "marking") /\ (\E j : Take(p, j)) /\ UNCHANGED <<revs, strikes, rev0>>
      BY <2>1 DEF Accepted, db, history
    <2> QED
      BY <2>2, CountMove
  <1>2. CASE RequestApprove(p)
    <2>1. PICK s \in Stage, ok \in BOOLEAN : /\ ApproveAndAdvance(feature, RowOf(s), ok)
                                             /\ Continue(p, ok /\ AutoMode(feature.mode))
      <3>1. \A s \in Stage : AdvanceOutcomes(feature, s) \subseteq BOOLEAN
        BY DEF AdvanceOutcomes
      <3> QED
        BY <1>2, <3>1 DEF RequestApprove
    <2>2. PICK l \in {"checkActive", "idle"} : Goto(p, l)
      BY <2>1 DEF Continue
    <2>3. (\E j : Take(p, j)) /\ UNCHANGED <<rev0, strikes>>
      BY <1>2, <2>1 DEF Continue, RequestApprove
    <2> QED
      BY <2>1, <2>2, <2>3, CountApproves
  <1>3. CASE RequestForce(p)
    <2>1. Goto(p, "marking") /\ (\E j : Take(p, j)) /\ UNCHANGED <<revs, strikes, rev0>>
      BY <1>3 DEF RequestForce, history
    <2> QED
      BY <2>1, CountMove
  <1>4. CASE RequestMode(p)
    <2>1. PICK m \in Modes : Continue(p, AutoMode(m))
      BY <1>4 DEF RequestMode
    <2>2. /\ \E l \in {"checkActive", "idle"} : Goto(p, l)
          /\ \E j : Take(p, j)
          /\ UNCHANGED <<revs, strikes, rev0>>
      BY <1>4, <2>1 DEF Continue, RequestMode
    <2> QED
      BY <2>2, CountMove
  <1>5. CASE Mark(p) \/ LateMark(p) \/ ResumeMarks(p) \/ ResumeExits(p)
    <2>1. \E l \in {"boltStart", "resuming", "spawned", "idle", "polling"} : Goto(p, l)
      BY <1>5 DEF Mark, LateMark, ResumeMarks, ResumeExits
    <2>2. UNCHANGED <<revs, strikes, job, rev0>>
      BY <1>5 DEF Mark, LateMark, ResumeMarks, ResumeExits, db, local, history
    <2> QED
      BY <2>1, <2>2, CountMove
  <1>6. CASE CheckActive(p)
    <2>1. /\ \E l \in {"idle", "marking"} : Goto(p, l)
          /\ \E j : Take(p, j)
          /\ UNCHANGED <<revs, strikes, rev0>>
      BY <1>6 DEF CheckActive, db, history
    <2> QED
      BY <2>1, CountMove
  <1> QED
    BY <1>1, <1>2, <1>3, <1>4, <1>5, <1>6

LEMMA CountTables ==
    ASSUME TypeInv, CountInv, TypeInv',
           \/ RequestReject \/ RequestAccept \/ RequestJump \/ RequestAddSkipped
           \/ RequestScope \/ RequestCancel \/ RequestPrepare \/ Crash
    PROVE  CountInv'
  <1>1. CASE RequestReject
    <2>1. PICK s \in Stage : /\ Approvable(RowOf(s)) /\ Strike(RowOf(s))
                             /\ revs' = [revs EXCEPT ![RowOf(s)] = @ + 1]
      BY <1>1 DEF RequestReject, SendBack
    <2>2. RowOf(s) \in Rows /\ strikes' = [strikes EXCEPT ![RowOf(s)] = @ + 1]
      BY <2>1 DEF Approvable, Strike
    <2>3. UNCHANGED <<pc, job, rev0>>
      BY <1>1 DEF RequestReject, local
    <2>4. strikes \in [Rows -> Nat] /\ revs \in [Rows -> Nat]
      BY DEF TypeInv, TypeOK
    <2>5. StrikesBacked'
      <3> SUFFICES ASSUME NEW r \in Rows PROVE revs'[r] <= strikes'[r]
        BY DEF StrikesBacked
      <3>1. revs[r] <= strikes[r] /\ revs[r] \in Nat /\ strikes[r] \in Nat
        BY <2>4 DEF CountInv, StrikesBacked
      <3> QED
        BY <2>1, <2>2, <2>4, <3>1
    <2>6. HeldBacked'
      <3> SUFFICES ASSUME NEW q \in Procs, pc'[q] = "agent"
                   PROVE rev0'[q] <= strikes'[Row(q)']
        BY DEF HeldBacked
      <3>1. rev0[q] <= strikes[Row(q)] /\ Row(q) \in Rows /\ Row(q)' = Row(q)
        BY <2>3 DEF TypeInv, JobsOK, JobOK, Row, CountInv, HeldBacked
      <3>2. rev0[q] \in Nat /\ strikes[Row(q)] \in Nat
        BY <2>4, <3>1 DEF TypeInv, TypeOK
      <3> QED
        BY <2>2, <2>3, <2>4, <3>1, <3>2
    <2> QED
      BY <2>5, <2>6 DEF CountInv
  <1>2. CASE ~RequestReject /\ ~Crash
    <2>1. \A r \in Rows : revs'[r] <= revs[r]
      <3>1. CASE revs' = revs
        BY <3>1 DEF TypeInv, TypeOK
      <3>2. CASE \E S : revs' = Zero(revs, S)
        BY <3>2, ZeroLowers
      <3>3. CASE RequestAddSkipped
        <4>1. PICK s \in LinearStages : revs' = [revs EXCEPT ![<<s, 0>>] = 0]
          BY <3>3 DEF RequestAddSkipped
        <4> QED
          BY <4>1 DEF TypeInv, TypeOK
      <3> QED
        BY <1>2, <3>1, <3>2, <3>3 DEF RequestAccept, AcceptAsIs, RequestJump, JumpTo,
                                      RequestScope, RequestCancel, RequestPrepare
    <2>2. UNCHANGED <<pc, job, rev0, strikes>>
      BY <1>2 DEF RequestAccept, RequestJump, RequestAddSkipped, RequestScope,
                  AcceptAsIs, JumpTo, RequestCancel, RequestPrepare, local, history
    <2> QED
      BY <2>1, <2>2, CountQuiet
  <1>3. CASE Crash
    <2>1. \A r \in Rows : revs'[r] <= revs[r]
      BY <1>3, ZeroLowers DEF Crash
    <2>2. strikes' = strikes /\ \A q \in Procs : pc'[q] # "agent"
      BY <1>3 DEF Crash, history
    <2> QED
      BY <2>1, <2>2, CountQuiet
  <1> QED
    BY <1>1, <1>2, <1>3

LEMMA CountStep == TypeInv /\ CountInv /\ TypeInv' /\ [Next]_vars => CountInv'
  <1> SUFFICES ASSUME TypeInv, CountInv, TypeInv', [Next]_vars PROVE CountInv'
    OBVIOUS
  <1>1. CASE \E p \in Procs : Advance(p)
    <2>1. PICK p \in Procs : Advance(p)
      BY <1>1
    <2> QED
      BY <2>1, CountDecisions, CountLoop, CountStages, CountRequests DEF Advance
  <1>2. CASE \E p \in Procs : AgentEnds(p)
    BY <1>2, CountAgent
  <1>3. CASE UserRequest
    BY <1>3, CountRequests, CountTables DEF UserRequest
  <1>4. CASE Crash
    BY <1>4, CountTables
  <1>5. CASE UNCHANGED vars
    BY <1>5 DEF CountInv, StrikesBacked, HeldBacked, Row, vars, db, local, history
  <1> QED
    BY <1>1, <1>2, <1>3, <1>4, <1>5 DEF Next

\* The escape hatch is earned: whatever requests, crashes and agent failures
\* interleave, and however many goroutines run, no row's revision_count is above
\* the number of times the row was rejected or failed its smoke check.
THEOREM StrikesAlwaysBacked == Spec => []StrikesBacked
  <1>1. Spec => []TypeInv
    BY TypeInit, TypeStep, PTL DEF Spec
  <1>2. Spec => []CountInv
    BY <1>1, CountInit, CountStep, PTL DEF Spec
  <1>3. CountInv => StrikesBacked
    BY DEF CountInv
  <1> QED
    BY <1>2, <1>3, PTL

-----------------------------------------------------------------------------
(* The active mark.                                                        *)

LiveLabel == PCs \ {"idle", "marking", "checkActive", "lateMark"}
NoLate == \A p \in Procs : pc[p] # "lateMark"

\* Where an action of p can take it.
LEMMA LiveGoto ==
    ASSUME TypeInv, NEW p \in Procs, NEW l, Goto(p, l)
    PROVE  /\ pc'[p] = l /\ \A q \in Procs \ {p} : pc'[q] = pc[q]
           /\ \A q \in Procs : q \in Live <=> pc[q] \in LiveLabel
  BY DEF TypeInv, TypeOK, Goto, Live, LiveLabel

\* The steps of a goroutine: it stays alive and leaves the mark alone.
Runs(p) == /\ pc[p] \in LiveLabel /\ UNCHANGED active
           /\ \E l \in LiveLabel : Goto(p, l)

LEMMA RunningSteps ==
    ASSUME TypeInv, NEW p \in Procs, Advance(p) \/ AgentEnds(p)
    PROVE  Runs(p) \/ Unmark(p) \/ Mark(p) \/ LateMark(p) \/ CheckActive(p)
  <1>1. CASE \/ DecideWait(p) \/ DecideApprove(p) \/ DecideRerun(p)
             \/ DecidePrepare(p) \/ DecideBolt(p) \/ DecideMerge(p)
             \/ DecideStage(p) \/ DecideDone(p)
    <2>1. \E l \in {"unmark", "act", "boltStart", "finish"} : \E j : Decide(p, l, j)
      BY <1>1 DEF DecideWait, DecideApprove, DecideRerun, DecidePrepare, DecideBolt,
                  DecideMerge, DecideStage, DecideDone
    <2> QED
      BY <2>1 DEF Decide, Runs, LiveLabel, PCs
  <1>2. CASE \/ Spawned(p) \/ AutoApprove(p) \/ ActPrepare(p) \/ MergeBegin(p)
             \/ MergeEnd(p) \/ Finish(p)
    <2>1. /\ pc[p] \in {"spawned", "act", "merging", "finish"} /\ UNCHANGED active
          /\ \E l \in {"decide", "unmark", "merging"} : Goto(p, l)
      BY <1>2 DEF Spawned, AutoApprove, ActPrepare, MergeBegin, MergeEnd, Finish
    <2> QED
      BY <2>1 DEF Runs, LiveLabel, PCs
  <1>3. CASE ActStage(p) \/ BoltRunStage(p)
    <2>1. /\ pc[p] \in {"act", "boltNext"} /\ UNCHANGED active
          /\ \E l \in {"unmark", "agent"} : Goto(p, l)
      BY <1>3 DEF ActStage, BoltRunStage, RunStageBegin
    <2> QED
      BY <2>1 DEF Runs, LiveLabel, PCs
  <1>4. CASE ProcessFailure(p) \/ ProcessAutoApprove(p) \/ ProcessNeedsReview(p)
    <2>1. \E st \in RowStatus, l \in {"decide", "unmark"} : Process(p, st, l)
      BY <1>4 DEF ProcessFailure, ProcessAutoApprove, ProcessNeedsReview, RowStatus
    <2> QED
      BY <2>1 DEF Process, Runs, LiveLabel, PCs
  <1>5. CASE \/ BoltStart(p) \/ BoltCompletes(p) \/ BoltApprove(p)
             \/ BoltPauses(p) \/ BoltHalts(p)
    <2>1. /\ pc[p] \in {"boltStart", "boltNext", "boltGate"} /\ UNCHANGED active
          /\ \E l \in {"unmark", "boltNext", "spawned", "decide"} : Goto(p, l)
      BY <1>5 DEF BoltStart, BoltCompletes, BoltApprove, BoltPauses, BoltHalts, AfterBolt
    <2> QED
      BY <2>1 DEF Runs, LiveLabel, PCs
  <1>6. CASE ResumeMarks(p) \/ ResumeExits(p)
    BY <1>6 DEF ResumeMarks, ResumeExits, Runs, LiveLabel, PCs
  <1>7. CASE AgentEnds(p)
    <2>1. /\ pc[p] = "agent" /\ UNCHANGED active
          /\ \E l \in {"unmark", "boltGate", "process"} : Goto(p, l)
      BY <1>7 DEF AgentEnds, AgentPasses, AgentFails, SmokeFails, QuotaExhausted,
                  DispatchFails, SetupFails, Returns, Errs
    <2> QED
      BY <2>1 DEF Runs, LiveLabel, PCs
  <1> QED
    BY <1>1, <1>2, <1>3, <1>4, <1>5, <1>6, <1>7 DEF Advance

\* What a request does to the mark and to the goroutines.
LEMMA RequestSteps ==
    ASSUME TypeInv, UserRequest
    PROVE  \/ UNCHANGED <<pc, active>>
           \/ "cancel" \in Requests /\ pc' = pc /\ active' = FALSE
           \/ \E p \in Procs :
                /\ pc[p] = "idle"
                /\ \/ /\ (Overlap \/ Handling = {}) /\ active' = active
                      /\ \/ Goto(p, "idle") \/ Goto(p, "checkActive")
                         \/ Goto(p, "marking") /\ ~active
                   \/ "force" \in Requests /\ Goto(p, "marking") /\ active' = FALSE
  <1>1. CASE \/ RequestReject \/ RequestAccept \/ RequestJump \/ RequestAddSkipped
             \/ RequestScope \/ RequestPrepare
    BY <1>1 DEF RequestReject, RequestAccept, RequestJump, RequestAddSkipped,
                RequestScope, RequestPrepare, SendBack, AcceptAsIs, JumpTo
  <1>2. CASE RequestCancel
    BY <1>2 DEF RequestCancel, Request
  <1>3. CASE \E p \in Procs : RequestForce(p)
    BY <1>3 DEF RequestForce, Request
  <1>4. CASE \E p \in Procs : RequestRun(p) \/ RequestBolt(p) \/ RequestResume(p)
    BY <1>4 DEF RequestRun, RequestBolt, RequestResume, Request, Accepted
  <1>5. CASE \E p \in Procs : RequestApprove(p)
    <2>1. PICK p \in Procs : RequestApprove(p)
      BY <1>5
    <2>2. pc[p] = "idle" /\ active' = active /\ (Overlap \/ Handling = {})
      BY <2>1 DEF RequestApprove, Request
    <2>3. \E on : Continue(p, on)
      BY <2>1 DEF RequestApprove
    <2> QED
      BY <2>2, <2>3 DEF Continue
  <1>6. CASE \E p \in Procs : RequestMode(p)
    <2>1. PICK p \in Procs : RequestMode(p)
      BY <1>6
    <2>2. pc[p] = "idle" /\ active' = active /\ (Overlap \/ Handling = {})
      BY <2>1 DEF RequestMode, Request
    <2>3. \E on : Continue(p, on)
      BY <2>1 DEF RequestMode
    <2> QED
      BY <2>2, <2>3 DEF Continue
  <1> QED
    BY <1>1, <1>2, <1>3, <1>4, <1>5, <1>6 DEF UserRequest

LEMMA CrashSteps ==
    ASSUME Crash
    PROVE  \/ ~active' /\ \A q \in Procs : pc'[q] = "idle"
           \/ active' /\ \E p \in Procs : /\ pc'[p] = "spawned"
                                          /\ \A q \in Procs \ {p} : pc'[q] = "idle"
  <1>1. PICK p \in Procs :
            pc' = [x \in Procs |-> IF x = p /\ NeedsAdvance THEN "spawned" ELSE "idle"]
    BY DEF Crash
  <1>2. active' = NeedsAdvance
    BY DEF Crash
  <1>3. CASE NeedsAdvance
    BY <1>1, <1>2, <1>3
  <1>4. CASE ~NeedsAdvance
    BY <1>1, <1>2, <1>4
  <1> QED
    BY <1>3, <1>4

ActiveInv == ActiveBacked /\ NoLate

LEMMA ActiveInit == "late_mark" \notin Requests /\ Init => ActiveInv
  <1> SUFFICES ASSUME "late_mark" \notin Requests, Init PROVE ActiveInv
    OBVIOUS
  <1>1. PICK m \in StartModes, c \in Scopes, p \in Procs, q \in Procs :
            Created(m, c, p, q)
    BY DEF Init
  <1> QED
    BY <1>1 DEF Created, ActiveInv, ActiveBacked, NoLate

LEMMA ActiveMove ==
    ASSUME TypeInv, TypeInv', ActiveInv, NEW p \in Procs, NEW l, Goto(p, l),
           l # "lateMark",
           active' => l \in LiveLabel \/ (active /\ pc[p] \notin LiveLabel)
    PROVE  ActiveInv'
  <1>1. NoLate'
    BY LiveGoto DEF ActiveInv, NoLate
  <1>2. ActiveBacked'
    <2> SUFFICES ASSUME active' PROVE Live' # {}
      BY DEF ActiveBacked
    <2>1. CASE l \in LiveLabel
      <3>1. p \in Live'
        BY <2>1, LiveGoto DEF Live, LiveLabel
      <3> QED
        BY <3>1
    <2>2. CASE active /\ pc[p] \notin LiveLabel
      <3>1. PICK q \in Procs : q \in Live
        BY <2>2 DEF ActiveInv, ActiveBacked, Live
      <3>2. q # p /\ pc'[q] = pc[q]
        BY <2>2, <3>1, LiveGoto
      <3>3. q \in Live'
        BY <3>1, <3>2 DEF Live
      <3> QED
        BY <3>3
    <2> QED
      BY <2>1, <2>2
  <1> QED
    BY <1>1, <1>2 DEF ActiveInv

LEMMA ActiveStep == TypeInv /\ TypeInv' /\ ActiveInv /\ [Next]_vars => ActiveInv'
  <1> SUFFICES ASSUME TypeInv, TypeInv', ActiveInv, [Next]_vars PROVE ActiveInv'
    OBVIOUS
  <1>1. CASE \E p \in Procs : Advance(p) \/ AgentEnds(p)
    <2>1. PICK p \in Procs : Advance(p) \/ AgentEnds(p)
      BY <1>1
    <2>2. Runs(p) \/ Unmark(p) \/ Mark(p) \/ LateMark(p) \/ CheckActive(p)
      BY <2>1, RunningSteps
    <2>3. CASE Runs(p)
      <3>1. PICK l \in LiveLabel : Goto(p, l)
        BY <2>3 DEF Runs
      <3> QED
        BY <3>1, ActiveMove DEF LiveLabel
    <2>4. CASE Unmark(p)
      BY <2>4, ActiveMove DEF Unmark
    <2>5. CASE Mark(p)
      <3>1. PICK l \in {"boltStart", "resuming", "spawned"} : Goto(p, l)
        BY <2>5 DEF Mark
      <3>2. l \in LiveLabel /\ l # "lateMark"
        BY <3>1 DEF LiveLabel, PCs
      <3> QED
        BY <3>1, <3>2, ActiveMove
    <2>6. CASE LateMark(p)
      BY <2>6 DEF LateMark, ActiveInv, NoLate
    <2>7. CASE CheckActive(p)
      <3>1. PICK l \in {"idle", "marking"} : Goto(p, l)
        BY <2>7 DEF CheckActive
      <3>2. active' = active /\ pc[p] \notin LiveLabel
        BY <2>7 DEF CheckActive, LiveLabel
      <3> QED
        BY <3>1, <3>2, ActiveMove
    <2> QED
      BY <2>2, <2>3, <2>4, <2>5, <2>6, <2>7
  <1>2. CASE UserRequest
    <2>1. CASE UNCHANGED <<pc, active>>
      BY <2>1 DEF ActiveInv, ActiveBacked, NoLate, Live
    <2>2. CASE pc' = pc /\ active' = FALSE
      BY <2>2 DEF ActiveInv, ActiveBacked, NoLate
    <2>3. CASE \E p \in Procs : pc[p] = "idle" /\ active' = active
                   /\ \E l \in {"idle", "checkActive", "marking"} : Goto(p, l)
      <3>1. PICK p \in Procs, l \in {"idle", "checkActive", "marking"} :
                pc[p] = "idle" /\ active' = active /\ Goto(p, l)
        BY <2>3
      <3> QED
        BY <3>1, ActiveMove DEF LiveLabel
    <2>4. CASE \E p \in Procs : Goto(p, "marking") /\ active' = FALSE
      BY <2>4, ActiveMove
    <2> QED
      BY <1>2, <2>1, <2>2, <2>3, <2>4, RequestSteps
  <1>3. CASE Crash
    BY <1>3, CrashSteps DEF ActiveInv, ActiveBacked, NoLate, Live
  <1>4. CASE UNCHANGED vars
    BY <1>4 DEF ActiveInv, ActiveBacked, NoLate, Live, vars
  <1> QED
    BY <1>1, <1>2, <1>3, <1>4 DEF Next

\* The mark is never left behind: a feature marked active is being advanced by
\* some goroutine, provided that createFeature does not mark after its spawn.
THEOREM ActiveAlwaysBacked ==
    ASSUME "late_mark" \notin Requests
    PROVE  Spec => []ActiveBacked
  <1>1. Spec => []TypeInv
    BY TypeInit, TypeStep, PTL DEF Spec
  <1>2. Init => ActiveInv
    BY ActiveInit
  <1>3. Spec => []ActiveInv
    BY <1>1, <1>2, ActiveStep, PTL DEF Spec
  <1>4. ActiveInv => ActiveBacked
    BY DEF ActiveInv
  <1> QED
    BY <1>3, <1>4, PTL

-----------------------------------------------------------------------------
(* One advancing goroutine, when requests are handled one after another.   *)

AtMostOne(S) == \A p, q \in S : p = q
SoleInv ==
    /\ AtMostOne(Handling) /\ AtMostOne(Live)
    /\ active <=> Live # {}
    /\ \A p \in Procs : pc[p] = "marking" => Live = {}
    /\ NoLate

LEMMA SoleInit == "late_mark" \notin Requests /\ Init => SoleInv
  <1> SUFFICES ASSUME "late_mark" \notin Requests, Init PROVE SoleInv
    OBVIOUS
  <1>1. PICK m \in StartModes, c \in Scopes, p \in Procs, q \in Procs :
            Created(m, c, p, q)
    BY DEF Init
  <1>2. pc = [x \in Procs |-> IF x = p THEN "marking" ELSE "idle"] /\ active = FALSE
    BY <1>1 DEF Created
  <1>3. Handling \subseteq {p} /\ Live = {}
    BY <1>2 DEF Handling, Live
  <1> QED
    BY <1>2, <1>3 DEF SoleInv, AtMostOne, NoLate

\* A step of p to l, where p is the only one that can come alive.
LEMMA SoleMove ==
    ASSUME TypeInv, TypeInv', SoleInv, NEW p \in Procs, NEW l, Goto(p, l),
           l # "lateMark",
           l \in {"marking", "checkActive"} => Handling \subseteq {p},
           l \in LiveLabel => Live \subseteq {p} /\ active'
                              /\ \A q \in Procs \ {p} : pc[q] # "marking",
           l \notin LiveLabel => (active' <=> Live \ {p} # {}),
           l = "marking" => Live \ {p} = {}
    PROVE  SoleInv'
  <1>1. l \in PCs
    BY LiveGoto DEF TypeInv, TypeOK
  <1>2. AtMostOne(Handling)'
    BY LiveGoto DEF SoleInv, AtMostOne, Handling
  <1>3. CASE l \in LiveLabel
    <2>1. Live' = {p}
      BY <1>3, LiveGoto DEF Live, LiveLabel
    <2>2. \A q \in Procs : pc'[q] # "marking"
      BY <1>3, LiveGoto DEF LiveLabel
    <2> QED
      BY <1>2, <1>3, <2>1, <2>2, LiveGoto DEF SoleInv, AtMostOne, NoLate
  <1>4. CASE l \notin LiveLabel
    <2>1. Live' = Live \ {p}
      BY <1>1, <1>4, LiveGoto DEF Live, LiveLabel
    <2>2. \A q \in Procs : pc'[q] = "marking" => Live' = {}
      BY <2>1, LiveGoto DEF SoleInv
    <2> QED
      BY <1>2, <1>4, <2>1, <2>2, LiveGoto DEF SoleInv, AtMostOne, NoLate
  <1> QED
    BY <1>3, <1>4

LEMMA SoleStep ==
    ASSUME ~Overlap, Requests \cap {"force", "cancel"} = {},
           TypeInv, TypeInv', SoleInv, [Next]_vars
    PROVE  SoleInv'
  <1>1. CASE \E p \in Procs : Advance(p) \/ AgentEnds(p)
    <2>1. PICK p \in Procs : Advance(p) \/ AgentEnds(p)
      BY <1>1
    <2>2. Runs(p) \/ Unmark(p) \/ Mark(p) \/ LateMark(p) \/ CheckActive(p)
      BY <2>1, RunningSteps
    <2>3. CASE Runs(p)
      <3>1. PICK l \in LiveLabel : Goto(p, l)
        BY <2>3 DEF Runs
      <3>2. p \in Live /\ active' = active
        BY <2>3, <3>1, LiveGoto DEF Runs
      <3>3. Live \subseteq {p} /\ active'
        BY <3>2 DEF SoleInv, AtMostOne
      <3>4. \A q \in Procs : pc[q] # "marking"
        BY <3>2 DEF SoleInv
      <3>5. l \notin {"marking", "checkActive", "lateMark"}
        BY DEF LiveLabel
      <3> QED
        BY <3>1, <3>3, <3>4, <3>5, SoleMove
    <2>4. CASE Unmark(p)
      <3>1. p \in Live /\ Goto(p, "idle") /\ ~active'
        BY <2>4 DEF Unmark, Live
      <3>2. Live \ {p} = {}
        BY <3>1 DEF SoleInv, AtMostOne
      <3> QED
        BY <3>1, <3>2, SoleMove DEF LiveLabel
    <2>5. CASE Mark(p)
      <3>1. PICK l \in {"boltStart", "resuming", "spawned"} : Goto(p, l)
        BY <2>5 DEF Mark
      <3>2. active' /\ Live = {} /\ p \in Handling
        BY <2>5 DEF Mark, SoleInv, Handling
      <3>3. \A q \in Procs \ {p} : pc[q] # "marking"
        BY <3>2 DEF SoleInv, AtMostOne, Handling
      <3>4. l \in LiveLabel
        BY <3>1 DEF LiveLabel, PCs
      <3> QED
        BY <3>1, <3>2, <3>3, <3>4, SoleMove
    <2>6. CASE LateMark(p)
      BY <2>6 DEF LateMark, SoleInv, NoLate
    <2>7. CASE CheckActive(p)
      <3>1. p \in Handling /\ p \notin Live /\ active' = active
        BY <2>7 DEF CheckActive, Handling, Live
      <3>2. Handling \subseteq {p}
        BY <3>1 DEF SoleInv, AtMostOne
      <3>3. Live \ {p} = Live /\ (active <=> Live # {})
        BY <3>1 DEF SoleInv
      <3>4. CASE active
        <4>1. Goto(p, "idle")
          BY <2>7, <3>4 DEF CheckActive
        <4> QED
          BY <3>1, <3>2, <3>3, <4>1, SoleMove DEF LiveLabel
      <3>5. CASE ~active
        <4>1. Goto(p, "marking")
          BY <2>7, <3>5 DEF CheckActive
        <4> QED
          BY <3>1, <3>2, <3>3, <3>5, <4>1, SoleMove DEF LiveLabel
      <3> QED
        BY <3>4, <3>5
    <2> QED
      BY <2>2, <2>3, <2>4, <2>5, <2>6, <2>7
  <1>2. CASE UserRequest
    <2>1. CASE UNCHANGED <<pc, active>>
      BY <2>1 DEF SoleInv, AtMostOne, Handling, Live, NoLate
    <2>2. CASE \E p \in Procs :
                 /\ pc[p] = "idle" /\ Handling = {} /\ active' = active
                 /\ \/ Goto(p, "idle") \/ Goto(p, "checkActive")
                    \/ Goto(p, "marking") /\ ~active
      <3>1. PICK p \in Procs :
                 /\ pc[p] = "idle" /\ Handling = {} /\ active' = active
                 /\ \/ Goto(p, "idle") \/ Goto(p, "checkActive")
                    \/ Goto(p, "marking") /\ ~active
        BY <2>2
      <3>2. Live \ {p} = Live /\ (active <=> Live # {})
        BY <3>1 DEF SoleInv, Live
      <3>3. CASE Goto(p, "idle") \/ Goto(p, "checkActive")
        BY <3>1, <3>2, <3>3, SoleMove DEF LiveLabel
      <3>4. CASE Goto(p, "marking") /\ ~active
        BY <3>1, <3>2, <3>4, SoleMove DEF LiveLabel
      <3> QED
        BY <3>1, <3>3, <3>4
    <2> QED
      BY <1>2, <2>1, <2>2, RequestSteps
  <1>3. CASE Crash
    BY <1>3, CrashSteps DEF SoleInv, AtMostOne, Handling, Live, NoLate
  <1>4. CASE UNCHANGED vars
    BY <1>4 DEF SoleInv, AtMostOne, Handling, Live, NoLate, vars
  <1> QED
    BY <1>1, <1>2, <1>3, <1>4 DEF Next

LEMMA SoleAlways ==
    ASSUME ~Overlap, Requests \cap {"force", "cancel", "late_mark"} = {}
    PROVE  Spec => []SoleInv
  <1>1. Spec => []TypeInv
    BY TypeInit, TypeStep, PTL DEF Spec
  <1>2. Init => SoleInv
    BY SoleInit
  <1>3. TypeInv /\ TypeInv' /\ SoleInv /\ [Next]_vars => SoleInv'
    BY SoleStep
  <1> QED
    BY <1>1, <1>2, <1>3, PTL DEF Spec

\* The mark does its work when handlers do not overlap, nobody forces a re-run
\* or cancels, and createFeature marks once: at most one goroutine advances the
\* feature, across crashes too, and the mark is set exactly while one does.
THEOREM SoleAdvancer ==
    ASSUME ~Overlap, Requests \cap {"force", "cancel", "late_mark"} = {}
    PROVE  Spec => []SingleAdvancer
  <1>1. Spec => []SoleInv
    BY SoleAlways
  <1>2. SoleInv => SingleAdvancer
    <2> SUFFICES ASSUME SoleInv PROVE Cardinality(Live) <= 1 /\ (active <=> Live # {})
      BY DEF SingleAdvancer
    <2>1. CASE Live = {}
      BY <2>1, FS_EmptySet DEF SoleInv
    <2>2. CASE Live # {}
      <3>1. PICK p \in Live : Live = {p}
        BY <2>2 DEF SoleInv, AtMostOne
      <3>2. Cardinality(Live) = 1
        BY <3>1, FS_Singleton
      <3> QED
        BY <3>2 DEF SoleInv
    <2> QED
      BY <2>1, <2>2
  <1> QED
    BY <1>1, <1>2, PTL

-----------------------------------------------------------------------------
(* One merge.  The audit log is read when the merge is decided on and      *)
(* written when it begins: with one goroutine, nothing comes in between.   *)

MergeAhead(p) == pc[p] = "act" /\ job[p].kind = "merge"
MergeInv == /\ MergeOnce
            /\ \A p \in Procs : MergeAhead(p) => attempts = 0

\* A step of p leads to a merge only where none was recorded.
NoNewMerge(p) ==
    /\ attempts' = attempts
    /\ \E l : /\ Goto(p, l)
              /\ \/ job' = job /\ l # "act"
                 \/ \E j : Take(p, j) /\ (l = "act" /\ j.kind = "merge" => attempts = 0)

LEMMA NoNewMergeSteps ==
    ASSUME TypeInv, NEW p \in Procs, NoNewMerge(p), NEW q \in Procs, MergeAhead(q)'
    PROVE  MergeAhead(q) \/ attempts = 0
  <1>1. CASE q = p
    BY <1>1 DEF NoNewMerge, Goto, Take, MergeAhead, TypeInv, TypeOK
  <1>2. CASE q # p
    BY <1>2 DEF NoNewMerge, Goto, Take, MergeAhead, TypeInv, TypeOK
  <1> QED
    BY <1>1, <1>2

LEMMA MergeGoroutine ==
    ASSUME NEW p \in Procs, Advance(p) \/ AgentEnds(p)
    PROVE  MergeBegin(p) \/ NoNewMerge(p)
  <1>1. CASE \/ DecideWait(p) \/ DecideApprove(p) \/ DecideRerun(p)
             \/ DecidePrepare(p) \/ DecideBolt(p) \/ DecideMerge(p)
             \/ DecideStage(p) \/ DecideDone(p)
    <2>1. ASSUME NEW l, NEW j, Decide(p, l, j), l = "act" /\ j.kind = "merge" => attempts = 0
          PROVE  NoNewMerge(p)
      BY <2>1 DEF Decide, NoNewMerge
    <2>2. CASE DecideWait(p) \/ DecideMerge(p) \/ DecideDone(p)
      BY <2>1, <2>2 DEF DecideWait, DecideMerge, DecideDone, MergeDue, MergeAttempted
    <2>3. ASSUME NEW k \in Kinds \ {"merge"}, NEW l, NEW s, NEW b, Decide(p, l, Job(k, s, b))
          PROVE  NoNewMerge(p)
      <3>1. Job(k, s, b).kind # "merge"
        BY DEF Job
      <3> QED
        BY <2>1, <2>3, <3>1
    <2>4. {"approve", "stage", "bolt", "prepare"} \subseteq Kinds \ {"merge"}
      BY DEF Kinds
    <2>5. CASE \/ DecideApprove(p) \/ DecideRerun(p) \/ DecidePrepare(p)
               \/ DecideBolt(p) \/ DecideStage(p)
      BY <2>3, <2>4, <2>5 DEF DecideApprove, DecideRerun, DecidePrepare, DecideBolt,
                              DecideStage
    <2> QED
      BY <1>1, <2>2, <2>5
  <1>2. CASE \/ Spawned(p) \/ AutoApprove(p) \/ ActPrepare(p)
             \/ MergeBegin(p) \/ MergeEnd(p) \/ Finish(p) \/ Unmark(p)
    <2>1. CASE Spawned(p) \/ ActPrepare(p) \/ MergeEnd(p) \/ Finish(p)
      BY <2>1 DEF Spawned, ActPrepare, MergeEnd, Finish, NoNewMerge, local, db
    <2>2. CASE Unmark(p)
      BY <2>2 DEF Unmark, NoNewMerge, db
    <2>3. CASE AutoApprove(p)
      <3>1. job' = job /\ attempts' = attempts
        BY <2>3 DEF AutoApprove, ApproveAndAdvance, local, db
      <3>2. \E l \in {"decide", "unmark"} : Goto(p, l)
        BY <2>3 DEF AutoApprove
      <3> QED
        BY <3>1, <3>2 DEF NoNewMerge
    <2> QED
      BY <1>2, <2>1, <2>2, <2>3
  <1>3. CASE ActStage(p) \/ BoltRunStage(p)
    <2>1. attempts' = attempts /\ \E l \in {"unmark", "agent"} : Goto(p, l)
      BY <1>3 DEF ActStage, BoltRunStage, RunStageBegin
    <2>2. job' = job \/ \E j : Take(p, j)
      BY <1>3 DEF ActStage, BoltRunStage
    <2> QED
      BY <2>1, <2>2 DEF NoNewMerge
  <1>4. CASE ProcessFailure(p) \/ ProcessAutoApprove(p) \/ ProcessNeedsReview(p)
    BY <1>4 DEF ProcessFailure, ProcessAutoApprove, ProcessNeedsReview, Process,
                NoNewMerge
  <1>5. CASE \/ BoltStart(p) \/ BoltCompletes(p) \/ BoltApprove(p)
             \/ BoltPauses(p) \/ BoltHalts(p)
    BY <1>5 DEF BoltStart, BoltCompletes, BoltApprove, BoltPauses, BoltHalts,
                AfterBolt, ApproveAndAdvance, NoNewMerge, local, db
  <1>6. CASE \/ ResumeMarks(p) \/ ResumeExits(p) \/ Mark(p) \/ LateMark(p)
             \/ CheckActive(p)
    BY <1>6 DEF ResumeMarks, ResumeExits, Mark, LateMark, CheckActive, NoNewMerge,
                local, db
  <1>7. CASE AgentEnds(p)
    BY <1>7 DEF AgentEnds, AgentPasses, AgentFails, SmokeFails, QuotaExhausted,
                DispatchFails, SetupFails, Returns, Errs, NoNewMerge
  <1> QED
    BY <1>1, <1>2, <1>3, <1>4, <1>5, <1>6, <1>7 DEF Advance

LEMMA MergeRequests ==
    ASSUME UserRequest
    PROVE  \/ UNCHANGED <<attempts, pc, job>>
           \/ \E p \in Procs : NoNewMerge(p)
  <1>1. CASE \/ RequestReject \/ RequestAccept \/ RequestJump \/ RequestAddSkipped
             \/ RequestScope \/ RequestCancel \/ RequestPrepare
    BY <1>1 DEF RequestReject, RequestAccept, RequestJump, RequestAddSkipped,
                RequestScope, RequestCancel, RequestPrepare, SendBack, AcceptAsIs, JumpTo, local
  <1>2. CASE \E p \in Procs : RequestRun(p) \/ RequestBolt(p) \/ RequestResume(p)
    BY <1>2 DEF RequestRun, RequestBolt, RequestResume, Accepted, NoNewMerge, db
  <1>3. CASE \E p \in Procs : RequestApprove(p)
    BY <1>3 DEF RequestApprove, ApproveAndAdvance, Continue, NoNewMerge
  <1>4. CASE \E p \in Procs : RequestForce(p) \/ RequestMode(p)
    BY <1>4 DEF RequestForce, RequestMode, Continue, NoNewMerge
  <1> QED
    BY <1>1, <1>2, <1>3, <1>4 DEF UserRequest

LEMMA MergeStep ==
    ASSUME TypeInv, SoleInv, MergeInv, [Next]_vars
    PROVE  MergeInv'
  <1>1. CASE \E p \in Procs : MergeBegin(p)
    <2>1. PICK p \in Procs : MergeBegin(p)
      BY <1>1
    <2>2. attempts = 0 /\ attempts' = 1
      BY <2>1 DEF MergeBegin, MergeInv, MergeAhead
    <2>3. Live \subseteq {p} /\ Goto(p, "merging")
      BY <2>1 DEF MergeBegin, SoleInv, AtMostOne, Live
    <2>4. \A q \in Procs : pc'[q] # "act"
      BY <2>3 DEF Live, Goto, TypeInv, TypeOK
    <2> QED
      BY <2>2, <2>4 DEF MergeInv, MergeAhead, MergeOnce
  <1>2. CASE \E p \in Procs : NoNewMerge(p)
    <2>1. PICK p \in Procs : NoNewMerge(p)
      BY <1>2
    <2>2. attempts' = attempts
      BY <2>1 DEF NoNewMerge
    <2>3. \A q \in Procs : MergeAhead(q)' => attempts = 0
      BY <2>1, NoNewMergeSteps DEF MergeInv
    <2> QED
      BY <2>2, <2>3 DEF MergeInv, MergeOnce
  <1>3. CASE Crash
    <2>1. attempts' = attempts /\ \A q \in Procs : pc'[q] # "act"
      BY <1>3, CrashSteps DEF Crash
    <2> QED
      BY <2>1 DEF MergeInv, MergeAhead, MergeOnce
  <1>4. CASE UNCHANGED <<attempts, pc, job>>
    BY <1>4 DEF MergeInv, MergeAhead, MergeOnce
  <1> QED
    BY <1>1, <1>2, <1>3, <1>4, MergeGoroutine, MergeRequests
    DEF Next, vars, db, local

\* With one goroutine at a time, the branch of a feature is merged to main at
\* most once, however often the server crashes between the record of the
\* attempt, the merge and the end of the feature.
THEOREM MergedOnce ==
    ASSUME ~Overlap, Requests \cap {"force", "cancel", "late_mark"} = {}
    PROVE  Spec => []MergeOnce
  <1>1. Spec => []TypeInv /\ []SoleInv
    BY TypeInit, TypeStep, SoleAlways, PTL DEF Spec
  <1>2. Init => MergeInv
    BY DEF Init, Created, MergeInv, MergeOnce, MergeAhead
  <1>3. TypeInv /\ SoleInv /\ MergeInv /\ [Next]_vars => MergeInv'
    BY MergeStep
  <1>4. MergeInv => MergeOnce
    BY DEF MergeInv
  <1> QED
    BY <1>1, <1>2, <1>3, <1>4, PTL DEF Spec

=============================================================================
