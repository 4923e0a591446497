--------------------------- MODULE PipelineProofs ---------------------------
(* Theorems about what StageMachine does to the stages: who lets a stage    *)
(* pass, who answers for a running one, in which order stages are run, and  *)
(* that the pipeline implements PipelineSpec.  They build on the types and  *)
(* the single advancing goroutine of StageMachineProofs.                    *)
EXTENDS StageMachineProofs

\* The approved row is completed; the others are reset, passed over, or kept.
LEMMA ApprovedRows ==
    ASSUME TypeInv, NEW f \in Features, NEW r \in Rows, NEW ok,
           ApproveAndAdvance(f, r, ok)
    PROVE  /\ status'[r] = "completed"
           /\ \A q \in Rows \ {r} :
                \/ status'[q] = status[q]
                \/ q \in NextRow(f, r[1]) /\ status'[q] \in {"not_started", "skipped"}
                \/ /\ q[1] \in LinearStages /\ status[q] = "not_started"
                   /\ status'[q] = "skipped"
  <1> DEFINE st == Advanced([status EXCEPT ![r] = "completed"], f, r[1])
             passed == IF ok THEN PassedOver(st, AdvancedFeature(f, r[1]).scope) ELSE {}
  <1>1. status' = Skip(st, passed)
    BY DEF ApproveAndAdvance
  <1>2. r \notin NextRow(f, r[1])
    <2>1. r[1] \in Nat
      BY RowParts, StagesAssumption DEF Stage
    <2>2. ~Follows(f.scope, r[1], r[1])
      BY <2>1 DEF Follows
    <2> QED
      BY <2>2 DEF NextRow
  <1>3. st[r] = "completed"
    BY <1>2 DEF Advanced, TypeInv, TypeOK
  <1>4. \A q \in Rows \ {r} : st[q] = IF q \in NextRow(f, r[1]) THEN "not_started"
                                      ELSE status[q]
    BY DEF Advanced, TypeInv, TypeOK
  <1>5. \A q \in passed : st[q] = "not_started" /\ q[1] \in LinearStages
    BY DEF PassedOver
  <1>6. \A q \in Rows : status'[q] = IF q \in passed THEN "skipped" ELSE st[q]
    BY <1>1 DEF Skip
  <1> HIDE DEF st, passed
  <1> QED
    BY <1>3, <1>4, <1>5, <1>6

\* A decision changes only not_started linear rows, to skipped.
LEMMA DecidedRows ==
    ASSUME TypeInv, NEW p \in Procs,
           \/ DecideWait(p) \/ DecideApprove(p) \/ DecideRerun(p)
           \/ DecidePrepare(p) \/ DecideBolt(p) \/ DecideMerge(p)
           \/ DecideStage(p) \/ DecideDone(p)
    PROVE  \A r \in Rows :
              \/ status'[r] = status[r]
              \/ /\ r[1] \in LinearStages /\ status[r] = "not_started"
                 /\ status'[r] = "skipped"
  <1>1. status' = status \/ status' = Skip(status, PassedOver(status, feature.scope))
    BY DEF DecideWait, DecideApprove, DecideRerun, DecidePrepare, DecideBolt,
           DecideMerge, DecideStage, DecideDone
  <1> QED
    BY <1>1 DEF Skip, PassedOver

-----------------------------------------------------------------------------
(* Human control.  A feature that was only ever in human mode is in human   *)
(* mode in every copy that a goroutine holds, stale or not, so no goroutine *)
(* opens a gate.                                                            *)

Seen == modesSeen \cup {"human"}
OnlyHuman == modesSeen \subseteq {"human"}

\* A completed row that nobody else's mode explains.
Allowed(r) == PhaseOf[r[1]] = 0 \/ r \in userOK

CopiesSeen == /\ feature.mode \in Seen
              /\ \A p \in Procs : snap[p].mode \in Seen /\ mode[p] \in Seen
NoAutoApproval ==
    \A p \in Procs : pc[p] = "act" /\ job[p].kind = "approve" => ~OnlyHuman
UserPassed == OnlyHuman => \A r \in With("completed") : Allowed(r)
HumanInv == CopiesSeen /\ NoAutoApproval /\ UserPassed

\* An action of p alone, whose copies are of modes that were seen.
LEMMA CopiesMove ==
    ASSUME TypeInv, CopiesSeen, NEW p \in Procs, Seen \subseteq Seen',
           feature'.mode \in Seen',
           snap' = snap \/ \E f : snap' = [snap EXCEPT ![p] = f] /\ f.mode \in Seen,
           mode' = mode \/ \E m \in Seen : mode' = [mode EXCEPT ![p] = m]
    PROVE  CopiesSeen'
  <1> SUFFICES ASSUME NEW q \in Procs PROVE snap'[q].mode \in Seen' /\ mode'[q] \in Seen'
    BY DEF CopiesSeen
  <1>1. snap[q].mode \in Seen' /\ mode[q] \in Seen'
    BY DEF CopiesSeen
  <1>2. snap'[q].mode \in Seen'
    BY <1>1 DEF TypeInv, TypeOK
  <1>3. mode'[q] \in Seen'
    BY <1>1 DEF TypeInv, TypeOK
  <1> QED
    BY <1>2, <1>3

LEMMA AdvancedMode ==
    ASSUME TypeInv, NEW f \in Features, NEW s
    PROVE  AdvancedFeature(f, s).mode \in {f.mode, feature.mode}
  BY DEF AdvancedFeature, Features, TypeInv, TypeOK

\* Rows complete in the way that UserPassed allows.
LEMMA PassedKept ==
    ASSUME UserPassed, OnlyHuman' => OnlyHuman,
           \A r \in Rows : OnlyHuman' /\ status'[r] = "completed" =>
               \/ status[r] = "completed" /\ (r \in userOK => r \in userOK')
               \/ PhaseOf[r[1]] = 0 \/ r \in userOK'
    PROVE  UserPassed'
  BY DEF UserPassed, With, Allowed

LEMMA NoApprovalMove ==
    ASSUME TypeInv, NoAutoApproval, OnlyHuman' => OnlyHuman, NEW p \in Procs,
           NEW l, Goto(p, l), job' = job \/ (\E j : Take(p, j)),
           l = "act" /\ job'[p].kind = "approve" => ~OnlyHuman
    PROVE  NoAutoApproval'
  <1> SUFFICES ASSUME NEW q \in Procs, pc'[q] = "act", job'[q].kind = "approve"
               PROVE  ~OnlyHuman
    BY DEF NoAutoApproval
  <1>1. CASE q = p
    BY <1>1 DEF Goto, TypeInv, TypeOK
  <1>2. CASE q # p
    BY <1>2 DEF Goto, Take, NoAutoApproval, TypeInv, TypeOK
  <1> QED
    BY <1>1, <1>2

LEMMA HumanInit == Init => HumanInv
  <1> SUFFICES ASSUME Init PROVE HumanInv
    OBVIOUS
  <1>1. PICK m \in StartModes, c \in Scopes, p \in Procs, q \in Procs :
            Created(m, c, p, q)
    BY DEF Init
  <1>2. CopiesSeen
    BY <1>1 DEF Created, CopiesSeen, Seen, NoFeature
  <1>3. NoAutoApproval /\ UserPassed
    BY <1>1 DEF Created, NoAutoApproval, UserPassed, With
  <1> QED
    BY <1>2, <1>3 DEF HumanInv

LEMMA HumanDecisions ==
    ASSUME TypeInv, HumanInv, NEW p \in Procs,
           \/ DecideWait(p) \/ DecideApprove(p) \/ DecideRerun(p)
           \/ DecidePrepare(p) \/ DecideBolt(p) \/ DecideMerge(p)
           \/ DecideStage(p) \/ DecideDone(p)
    PROVE  HumanInv'
  <1>1. \E l, j : Decide(p, l, j)
    BY DEF DecideWait, DecideApprove, DecideRerun, DecidePrepare, DecideBolt,
           DecideMerge, DecideStage, DecideDone
  <1>2. UNCHANGED <<modesSeen, userOK, feature, mode>>
        /\ snap' = [snap EXCEPT ![p] = feature]
    BY <1>1 DEF Decide, history
  <1>3. Seen' = Seen /\ (OnlyHuman' <=> OnlyHuman)
    BY <1>2 DEF Seen, OnlyHuman
  <1>4. CopiesSeen'
    BY <1>2, <1>3, CopiesMove DEF HumanInv, CopiesSeen
  <1>5. UserPassed'
    BY <1>2, <1>3, DecidedRows, PassedKept DEF HumanInv
  <1>6. NoAutoApproval'
    <2>1. ASSUME NEW l, NEW j, Decide(p, l, j), l = "act" /\ j.kind = "approve" => ~OnlyHuman
          PROVE  NoAutoApproval'
      BY <1>3, <2>1, NoApprovalMove DEF Decide, Take, HumanInv, TypeInv, TypeOK
    <2>2. CASE DecideApprove(p)
      <3>1. ~OnlyHuman
        BY <2>2 DEF DecideApprove, AutoMode, HumanInv, CopiesSeen, Seen, OnlyHuman
      <3> QED
        BY <2>1, <2>2, <3>1 DEF DecideApprove
    <2>3. CASE DecideWait(p) \/ DecideDone(p)
      BY <2>1, <2>3 DEF DecideWait, DecideDone
    <2>4. CASE \/ DecideRerun(p) \/ DecidePrepare(p) \/ DecideBolt(p)
               \/ DecideMerge(p) \/ DecideStage(p)
      <3>1. \E l, s, b : \E k \in {"bolt", "stage", "prepare", "merge"} :
                Decide(p, l, Job(k, s, b))
        BY <2>4 DEF DecideRerun, DecidePrepare, DecideBolt, DecideMerge, DecideStage
      <3> QED
        BY <2>1, <3>1 DEF Job
    <2> QED
      BY <2>2, <2>3, <2>4
  <1> QED
    BY <1>4, <1>5, <1>6 DEF HumanInv

\* Whoever is let through by the loop was let through in an automatic mode.
LEMMA HumanLoop ==
    ASSUME TypeInv, HumanInv, NEW p \in Procs,
           \/ Spawned(p) \/ AutoApprove(p) \/ ActPrepare(p) \/ MergeBegin(p)
           \/ MergeEnd(p) \/ Finish(p) \/ Unmark(p)
    PROVE  HumanInv'
  <1>1. UNCHANGED <<modesSeen, userOK>>
    BY DEF Spawned, AutoApprove, ActPrepare, MergeBegin, MergeEnd, Finish, Unmark, history
  <1>2. Seen' = Seen /\ (OnlyHuman' <=> OnlyHuman)
    BY <1>1 DEF Seen, OnlyHuman
  <1>3. feature'.mode \in Seen
    <2>1. CASE feature' = feature
      BY <2>1 DEF HumanInv, CopiesSeen
    <2>2. CASE AutoApprove(p)
      <3>1. feature' = feature \/ feature' = AdvancedFeature(snap[p], job[p].stage)
        BY <2>2 DEF AutoApprove, ApproveAndAdvance, db, Row
      <3>2. snap[p] \in Features
        BY DEF TypeInv, TypeOK
      <3> QED
        BY <3>1, <3>2, AdvancedMode DEF HumanInv, CopiesSeen
    <2>3. CASE Finish(p)
      BY <2>3 DEF Finish, HumanInv, CopiesSeen, TypeInv, TypeOK, Features
    <2> QED
      BY <2>1, <2>2, <2>3
         DEF Spawned, ActPrepare, MergeBegin, MergeEnd, Unmark, db
  <1>4. CopiesSeen'
    <2>1. snap' = snap \/ snap' = [snap EXCEPT ![p] = NoFeature]
      BY DEF Spawned, AutoApprove, ActPrepare, MergeBegin, MergeEnd, Finish, Unmark, local
    <2>2. mode' = mode \/ mode' = [mode EXCEPT ![p] = feature.mode]
          \/ mode' = [mode EXCEPT ![p] = "human"]
      BY DEF Spawned, AutoApprove, ActPrepare, MergeBegin, MergeEnd, Finish, Unmark, local
    <2>3. NoFeature.mode \in Seen /\ "human" \in Seen /\ feature.mode \in Seen
      BY DEF NoFeature, Seen, HumanInv, CopiesSeen
    <2> QED
      BY <1>2, <1>3, <2>1, <2>2, <2>3, CopiesMove DEF HumanInv
  <1>5. UserPassed'
    <2>1. CASE AutoApprove(p)
      <3>1. ~OnlyHuman
        BY <2>1 DEF AutoApprove, HumanInv, NoAutoApproval
      <3> QED
        BY <1>2, <3>1 DEF UserPassed
    <2>2. CASE ~AutoApprove(p)
      <3>1. status' = status
        BY <2>2 DEF Spawned, ActPrepare, MergeBegin, MergeEnd, Finish, Unmark, db
      <3> QED
        BY <1>1, <1>2, <3>1, PassedKept DEF HumanInv
    <2> QED
      BY <2>1, <2>2
  <1>6. NoAutoApproval'
    <2>1. \E l \in {"decide", "unmark", "merging", "idle"} : Goto(p, l)
      BY DEF Spawned, AutoApprove, ActPrepare, MergeBegin, MergeEnd, Finish, Unmark
    <2>2. job' = job \/ \E j : Take(p, j)
      BY DEF Spawned, AutoApprove, ActPrepare, MergeBegin, MergeEnd, Finish, Unmark, local
    <2> QED
      BY <1>2, <2>1, <2>2, NoApprovalMove DEF HumanInv
  <1> QED
    BY <1>4, <1>5, <1>6 DEF HumanInv

\* A stage that starts loses its approval, and is not completed any more.
LEMMA HumanBegins ==
    ASSUME TypeInv, HumanInv, NEW p \in Procs, NEW r \in Rows, RunStageBegin(p, r),
           job' = job \/ (\E j : Take(p, j)), UNCHANGED <<mode, modesSeen>>
    PROVE  HumanInv'
  <1>1. Seen' = Seen /\ (OnlyHuman' <=> OnlyHuman)
    BY DEF Seen, OnlyHuman
  <1>2. CopiesSeen'
    <2>1. \/ UNCHANGED <<feature, snap>>
          \/ /\ feature' = [snap[p] EXCEPT !.tree = TRUE]
             /\ snap' = [snap EXCEPT ![p] = [snap[p] EXCEPT !.tree = TRUE]]
      BY DEF RunStageBegin, EnsureSpecWorktree, TypeInv, TypeOK
    <2>2. [snap[p] EXCEPT !.tree = TRUE].mode = snap[p].mode
      BY DEF TypeInv, TypeOK, Features
    <2>3. snap[p].mode \in Seen /\ feature.mode \in Seen
      BY DEF HumanInv, CopiesSeen
    <2> QED
      BY <1>1, <2>1, <2>2, <2>3, CopiesMove DEF HumanInv
  <1>3. UserPassed'
    BY <1>1, PassedKept DEF RunStageBegin, SetRow, HumanInv, TypeInv, TypeOK
  <1>4. NoAutoApproval'
    BY <1>1, NoApprovalMove DEF RunStageBegin, HumanInv
  <1> QED
    BY <1>2, <1>3, <1>4 DEF HumanInv

LEMMA HumanStages ==
    ASSUME TypeInv, HumanInv, NEW p \in Procs,
           \/ ActStage(p) \/ BoltStart(p) \/ BoltRunStage(p) \/ BoltCompletes(p)
           \/ BoltApprove(p) \/ BoltPauses(p) \/ BoltHalts(p)
    PROVE  HumanInv'
  <1>1. UNCHANGED <<modesSeen, mode>>
    BY DEF ActStage, BoltStart, BoltRunStage, BoltCompletes, BoltApprove,
           BoltPauses, BoltHalts, history, local
  <1>2. Seen' = Seen /\ (OnlyHuman' <=> OnlyHuman)
    BY <1>1 DEF Seen, OnlyHuman
  <1>3. CASE ActStage(p) /\ status[Row(p)] # "absent"
    <2>1. RunStageBegin(p, Row(p)) /\ job' = job /\ Row(p) \in Rows
      BY <1>3 DEF ActStage, TypeInv, JobsOK, JobOK, Row
    <2> QED
      BY <1>1, <2>1, HumanBegins
  <1>4. CASE BoltRunStage(p)
    <2>1. PICK s \in BoltTodo(p) : /\ RunStageBegin(p, <<s, job[p].bolt>>)
                                   /\ \E j : Take(p, j)
      BY <1>4 DEF BoltRunStage
    <2>2. <<s, job[p].bolt>> \in Rows
      BY <1>4, BoltRow DEF BoltTodo, BoltRunStage, TypeInv, JobsOK, JobOK
    <2> QED
      BY <1>1, <2>1, <2>2, HumanBegins
  <1>5. CASE \/ ActStage(p) /\ status[Row(p)] = "absent"
             \/ BoltStart(p) \/ BoltCompletes(p) \/ BoltApprove(p)
             \/ BoltPauses(p) \/ BoltHalts(p)
    <2>1. userOK' = userOK
      BY <1>5 DEF ActStage, BoltStart, BoltCompletes, BoltApprove, BoltPauses,
                  BoltHalts, history
    <2>2. CopiesSeen'
      <3>1. CASE BoltStart(p)
        <4>1. LET f == [snap[p] EXCEPT !.bolt = job[p].bolt]
              IN  /\ feature' = feature \/ feature' = f
                  /\ snap' = snap \/ snap' = [snap EXCEPT ![p] = f]
          BY <3>1 DEF BoltStart
        <4>2. [snap[p] EXCEPT !.bolt = job[p].bolt].mode = snap[p].mode
          BY DEF TypeInv, TypeOK, Features
        <4>3. snap[p].mode \in Seen /\ feature.mode \in Seen
          BY DEF HumanInv, CopiesSeen
        <4> QED
          BY <1>1, <1>2, <4>1, <4>2, <4>3, CopiesMove DEF HumanInv
      <3>2. CASE BoltApprove(p)
        <4>1. feature' = feature \/ feature' = AdvancedFeature(snap[p], job[p].stage)
          BY <3>2 DEF BoltApprove, ApproveAndAdvance, Row
        <4>2. feature'.mode \in Seen /\ snap' = snap
          BY <3>2, <4>1, AdvancedMode DEF BoltApprove, TypeInv, TypeOK, HumanInv, CopiesSeen
        <4> QED
          BY <1>1, <1>2, <4>2, CopiesMove DEF HumanInv
      <3>3. CASE ~BoltStart(p) /\ ~BoltApprove(p)
        <4>1. UNCHANGED <<feature, snap>>
          BY <1>5, <3>3 DEF ActStage, BoltCompletes, BoltPauses, BoltHalts, db, local
        <4> QED
          BY <1>1, <1>2, <4>1 DEF HumanInv, CopiesSeen
      <3> QED
        BY <3>1, <3>2, <3>3
    <2>3. UserPassed'
      <3>1. CASE BoltApprove(p) /\ Approvable(Row(p))
        <4>1. ~OnlyHuman
          BY <3>1 DEF BoltApprove, AutoMode, HumanInv, CopiesSeen, Seen, OnlyHuman
        <4> QED
          BY <1>2, <4>1 DEF UserPassed
      <3>2. CASE ~(BoltApprove(p) /\ Approvable(Row(p)))
        <4>1. \A r \in Rows : status'[r] = "completed" => status[r] = "completed"
          BY <1>5, <3>2 DEF ActStage, BoltStart, BoltCompletes, BoltApprove,
                            BoltPauses, BoltHalts, db
        <4> QED
          BY <1>2, <2>1, <4>1, PassedKept DEF HumanInv
      <3> QED
        BY <3>1, <3>2
    <2>4. NoAutoApproval'
      <3>1. \E l \in {"unmark", "boltNext", "spawned", "decide"} : Goto(p, l)
        BY <1>5 DEF ActStage, BoltStart, BoltCompletes, BoltApprove, BoltPauses,
                    BoltHalts, AfterBolt
      <3>2. job' = job \/ \E j : Take(p, j)
        BY <1>5 DEF ActStage, BoltStart, BoltCompletes, BoltApprove, BoltPauses,
                    BoltHalts, local
      <3> QED
        BY <1>2, <3>1, <3>2, NoApprovalMove DEF HumanInv
    <2> QED
      BY <2>2, <2>3, <2>4 DEF HumanInv
  <1> QED
    BY <1>3, <1>4, <1>5

\* ProcessStageResult goes by the mode of the copy: in human mode it opens the
\* gate of an initialization stage only.
LEMMA HumanProcess ==
    ASSUME TypeInv, HumanInv, NEW p \in Procs,
           \/ ProcessFailure(p) \/ ProcessAutoApprove(p) \/ ProcessNeedsReview(p)
    PROVE  HumanInv'
  <1>1. \E st \in RowStatus, l \in {"decide", "unmark"} :
            /\ Process(p, st, l)
            /\ st = "completed" => AutoApproved(snap[p], job[p].stage)
    BY DEF ProcessFailure, ProcessAutoApprove, ProcessNeedsReview, RowStatus
  <1>2. UNCHANGED <<modesSeen, userOK, feature, snap, mode, job>>
        /\ \E l \in {"decide", "unmark"} : Goto(p, l)
    BY <1>1 DEF Process, history
  <1>3. Seen' = Seen /\ (OnlyHuman' <=> OnlyHuman)
    BY <1>2 DEF Seen, OnlyHuman
  <1>4. CopiesSeen'
    BY <1>2, <1>3 DEF HumanInv, CopiesSeen
  <1>5. NoAutoApproval'
    BY <1>2, <1>3, NoApprovalMove DEF HumanInv
  <1>6. UserPassed'
    <2>1. Row(p) \in Rows /\ Row(p)[1] = job[p].stage
      BY <1>1 DEF Process, TypeInv, JobsOK, JobOK, Row
    <2>2. OnlyHuman /\ AutoApproved(snap[p], job[p].stage) => PhaseOf[Row(p)[1]] = 0
      BY <2>1 DEF AutoApproved, HumanInv, CopiesSeen, Seen, OnlyHuman
    <2>3. \A r \in Rows : status'[r] = "completed" =>
              status[r] = "completed" \/ (r = Row(p) /\ AutoApproved(snap[p], job[p].stage))
      BY <1>1, <2>1 DEF Process, SetRow, TypeInv, TypeOK
    <2> QED
      BY <1>2, <1>3, <2>2, <2>3, PassedKept DEF HumanInv
  <1> QED
    BY <1>4, <1>5, <1>6 DEF HumanInv

\* The end of an agent never completes a row.
LEMMA HumanAgent ==
    ASSUME TypeInv, HumanInv, NEW p \in Procs, AgentEnds(p)
    PROVE  HumanInv'
  <1>1. UNCHANGED <<modesSeen, userOK, feature, snap, mode, job>>
        /\ \E l \in {"boltGate", "process", "unmark"} : Goto(p, l)
    BY DEF AgentEnds, AgentPasses, AgentFails, SmokeFails, QuotaExhausted,
           DispatchFails, SetupFails, Returns, Errs, history
  <1>2. Seen' = Seen /\ (OnlyHuman' <=> OnlyHuman)
    BY <1>1 DEF Seen, OnlyHuman
  <1>3. CopiesSeen' /\ NoAutoApproval'
    BY <1>1, <1>2, NoApprovalMove DEF HumanInv, CopiesSeen
  <1>4. \E st \in {"awaiting_approval", "revising", "failed"} :
            status' = status \/ SetRow(Row(p), st)
    BY DEF AgentEnds, AgentPasses, AgentFails, SmokeFails, QuotaExhausted,
           DispatchFails, SetupFails, Returns
  <1>5. \A r \in Rows : status'[r] = "completed" => status[r] = "completed"
    BY <1>4 DEF SetRow, TypeInv, TypeOK
  <1> QED
    BY <1>1, <1>2, <1>3, <1>5, PassedKept DEF HumanInv

\* Handlers, marks and a resumed session.
LEMMA HumanMarks ==
    ASSUME TypeInv, HumanInv, NEW p \in Procs,
           \/ RequestRun(p) \/ RequestBolt(p) \/ RequestResume(p) \/ RequestForce(p)
           \/ Mark(p) \/ LateMark(p) \/ CheckActive(p)
           \/ ResumeMarks(p) \/ ResumeExits(p)
    PROVE  HumanInv'
  <1>1. CASE RequestRun(p) \/ RequestBolt(p) \/ RequestResume(p)
    <2>1. PICK j : Accepted(p, j)
      BY <1>1 DEF RequestRun, RequestBolt, RequestResume
    <2>2. UNCHANGED <<modesSeen, userOK, feature, mode, status>>
          /\ Goto(p, "marking") /\ Take(p, j)
      BY <2>1 DEF Accepted, db, history
    <2>3. Seen' = Seen /\ (OnlyHuman' <=> OnlyHuman)
      BY <2>2 DEF Seen, OnlyHuman
    <2>4. \E f \in {feature, NoFeature} : snap' = [snap EXCEPT ![p] = f]
      BY <2>1 DEF Accepted
    <2>5. feature.mode \in Seen /\ NoFeature.mode \in Seen
      BY DEF HumanInv, CopiesSeen, NoFeature, Seen
    <2>6. CopiesSeen'
      BY <2>2, <2>3, <2>4, <2>5, CopiesMove DEF HumanInv
    <2> QED
      BY <2>2, <2>3, <2>6, PassedKept, NoApprovalMove DEF HumanInv
  <1>2. CASE \/ RequestForce(p) \/ Mark(p) \/ LateMark(p) \/ CheckActive(p)
             \/ ResumeMarks(p) \/ ResumeExits(p)
    <2>1. UNCHANGED <<modesSeen, userOK, feature, snap, mode>>
      BY <1>2 DEF RequestForce, Mark, LateMark, CheckActive, ResumeMarks, ResumeExits,
                  db, local, history
    <2>2. Seen' = Seen /\ (OnlyHuman' <=> OnlyHuman)
      BY <2>1 DEF Seen, OnlyHuman
    <2>3. /\ \E l \in PCs \ {"act"} : Goto(p, l)
          /\ job' = job \/ \E j : Take(p, j)
      BY <1>2 DEF RequestForce, Mark, LateMark, CheckActive, ResumeMarks, ResumeExits,
                  PCs, db, local
    <2>4. \A r \in Rows : status'[r] = "completed" => status[r] = "completed"
      BY <1>2 DEF RequestForce, Mark, LateMark, CheckActive, ResumeMarks, ResumeExits, db
    <2> QED
      BY <2>1, <2>2, <2>3, <2>4, PassedKept, NoApprovalMove DEF HumanInv, CopiesSeen
  <1> QED
    BY <1>1, <1>2

LEMMA HumanApproves ==
    ASSUME TypeInv, HumanInv, NEW p \in Procs, RequestApprove(p)
    PROVE  HumanInv'
  <1>1. PICK s \in Stage :
            /\ Approvable(RowOf(s)) /\ userOK' = userOK \cup {RowOf(s)}
            /\ \E ok : /\ ApproveAndAdvance(feature, RowOf(s), ok)
                       /\ Continue(p, ok /\ AutoMode(feature.mode))
    BY DEF RequestApprove
  <1>2. UNCHANGED <<modesSeen, mode, snap>> /\ feature \in Features /\ RowOf(s) \in Rows
    BY <1>1 DEF RequestApprove, TypeInv, TypeOK, Approvable
  <1>3. Seen' = Seen /\ (OnlyHuman' <=> OnlyHuman)
    BY <1>2 DEF Seen, OnlyHuman
  <1>4. feature'.mode \in Seen
    BY <1>1, <1>2, AdvancedMode DEF ApproveAndAdvance, HumanInv, CopiesSeen
  <1>5. CopiesSeen'
    BY <1>2, <1>3, <1>4, CopiesMove DEF HumanInv
  <1>6. \A r \in Rows : status'[r] = "completed" => status[r] = "completed" \/ r = RowOf(s)
    BY <1>1, <1>2, ApprovedRows
  <1>7. UserPassed'
    BY <1>1, <1>3, <1>6, PassedKept DEF HumanInv
  <1>8. (\E l \in {"checkActive", "idle"} : Goto(p, l)) /\ \E j : Take(p, j)
    BY <1>1 DEF Continue
  <1>9. NoAutoApproval'
    BY <1>3, <1>8, NoApprovalMove DEF HumanInv
  <1> QED
    BY <1>5, <1>7, <1>9 DEF HumanInv

\* A new mode is remembered in modesSeen.
LEMMA HumanMode ==
    ASSUME TypeInv, HumanInv, NEW p \in Procs, RequestMode(p)
    PROVE  HumanInv'
  <1>1. PICK m \in Modes : /\ feature' = [feature EXCEPT !.mode = m]
                           /\ modesSeen' = modesSeen \cup {m}
                           /\ Continue(p, AutoMode(m))
    BY DEF RequestMode
  <1>2. UNCHANGED <<userOK, mode, snap, status>>
    BY DEF RequestMode
  <1>3. Seen \subseteq Seen' /\ (OnlyHuman' => OnlyHuman) /\ m \in Seen'
    BY <1>1 DEF Seen, OnlyHuman
  <1>4. CopiesSeen'
    BY <1>1, <1>2, <1>3, CopiesMove DEF HumanInv, TypeInv, TypeOK, Features
  <1>5. (\E l \in {"checkActive", "idle"} : Goto(p, l)) /\ \E j : Take(p, j)
    BY <1>1 DEF Continue
  <1>6. UserPassed' /\ NoAutoApproval'
    BY <1>2, <1>3, <1>5, PassedKept, NoApprovalMove DEF HumanInv
  <1> QED
    BY <1>4, <1>6 DEF HumanInv

\* What AcceptStageAsIs does to the rows; the accepted one is RowOf(s).
LEMMA AcceptedRows ==
    ASSUME TypeInv, NEW r, AcceptAsIs(r)
    PROVE  /\ r \in Rows /\ status[r] # "absent" /\ status'[r] = "completed"
           /\ \A q \in Rows \ {r} :
                \/ status'[q] = status[q]
                \/ q \in NextRow(feature, r[1]) /\ status'[q] = "not_started"
  <1>1. r \in Rows /\ status[r] # "absent"
    BY DEF AcceptAsIs, MayAcceptAsIs
  <1>2. r[1] \in Nat
    BY <1>1, RowParts, StagesAssumption DEF Stage
  <1>3. ~Follows(feature.scope, r[1], r[1])
    BY <1>2 DEF Follows
  <1>4. r \notin NextRow(feature, r[1])
    BY <1>3 DEF NextRow
  <1>5. status' = Advanced([status EXCEPT ![r] = "completed"], feature, r[1])
    BY DEF AcceptAsIs
  <1> QED
    BY <1>1, <1>4, <1>5 DEF Advanced, TypeInv, TypeOK

LEMMA HumanTables ==
    ASSUME TypeInv, HumanInv,
           \/ RequestReject \/ RequestAccept \/ RequestJump \/ RequestAddSkipped
           \/ RequestScope \/ RequestCancel \/ RequestPrepare
    PROVE  HumanInv'
  <1>1. UNCHANGED <<modesSeen, mode, snap, pc, job>>
    BY DEF RequestReject, RequestAccept, RequestJump, RequestAddSkipped, RequestScope,
           RequestCancel, RequestPrepare, AcceptAsIs, SendBack, JumpTo, history, local
  <1>2. Seen' = Seen /\ (OnlyHuman' <=> OnlyHuman)
    BY <1>1 DEF Seen, OnlyHuman
  <1>3. NoAutoApproval'
    BY <1>1, <1>2 DEF HumanInv, NoAutoApproval
  <1>4. CopiesSeen'
    <2>1. feature'.mode \in Seen
      <3>1. CASE feature' = feature
        BY <3>1 DEF HumanInv, CopiesSeen
      <3>2. CASE RequestScope \/ RequestCancel
        BY <3>2 DEF RequestScope, RequestCancel, HumanInv, CopiesSeen, TypeInv, TypeOK,
                    Features
      <3>3. CASE RequestAccept
        <4>1. \E s : feature' = AdvancedFeature(feature, s)
          BY <3>3 DEF RequestAccept, AcceptAsIs
        <4> QED
          BY <4>1, AdvancedMode DEF TypeInv, TypeOK, HumanInv, CopiesSeen
      <3> QED
        BY <3>1, <3>2, <3>3 DEF RequestReject, RequestJump, RequestAddSkipped,
                                RequestPrepare, SendBack, JumpTo
    <2> QED
      BY <1>1, <1>2, <2>1 DEF HumanInv, CopiesSeen
  <1>5. UserPassed'
    <2>1. CASE RequestAccept
      <3>1. PICK s \in Stage : AcceptAsIs(RowOf(s)) /\ userOK' = userOK \cup {RowOf(s)}
        BY <2>1 DEF RequestAccept
      <3>2. \A r \in Rows : status'[r] = "completed" => status[r] = "completed" \/ r = RowOf(s)
        BY <3>1, AcceptedRows
      <3> QED
        BY <1>2, <3>1, <3>2, PassedKept DEF HumanInv
    <2>2. CASE ~RequestAccept
      <3>1. userOK' = userOK
        BY <2>2 DEF RequestReject, RequestJump, RequestAddSkipped, RequestScope,
                    RequestCancel, RequestPrepare, history
      <3>2. \A r \in Rows : status'[r] = "completed" => status[r] = "completed"
        <4>1. CASE status' = status
          BY <4>1
        <4>2. CASE RequestReject \/ RequestAddSkipped
          <5>1. \E r : \/ status' = [status EXCEPT ![r] = "revising"]
                       \/ status' = [status EXCEPT ![r] = "not_started"]
            BY <4>2 DEF RequestReject, SendBack, RequestAddSkipped, SetRow
          <5> QED
            BY <5>1 DEF TypeInv, TypeOK
        <4>3. CASE RequestJump
          BY <4>3 DEF RequestJump, JumpTo, Skip
        <4> QED
          BY <2>2, <4>1, <4>2, <4>3
             DEF RequestScope, RequestCancel, RequestPrepare
      <3> QED
        BY <1>2, <3>1, <3>2, PassedKept DEF HumanInv
    <2> QED
      BY <2>1, <2>2
  <1> QED
    BY <1>3, <1>4, <1>5 DEF HumanInv

LEMMA HumanCrash ==
    ASSUME TypeInv, HumanInv, Crash
    PROVE  HumanInv'
  <1>1. UNCHANGED <<feature, modesSeen, userOK>> /\ \A q \in Procs : pc'[q] # "act"
    BY DEF Crash, history
  <1>2. Seen' = Seen /\ (OnlyHuman' <=> OnlyHuman)
    BY <1>1 DEF Seen, OnlyHuman
  <1>3. \A q \in Procs : snap'[q] = NoFeature /\ mode'[q] = "human"
    BY DEF Crash
  <1>4. CopiesSeen' /\ NoAutoApproval'
    <2>1. NoFeature.mode = "human"
      BY DEF NoFeature
    <2>2. CopiesSeen'
      BY <1>1, <1>2, <1>3, <2>1 DEF HumanInv, CopiesSeen, Seen
    <2> QED
      BY <1>1, <2>2 DEF NoAutoApproval
  <1>5. \A r \in Rows : status'[r] = "completed" => status[r] = "completed"
    BY DEF Crash
  <1> QED
    BY <1>1, <1>2, <1>4, <1>5, PassedKept DEF HumanInv

LEMMA HumanStep == TypeInv /\ HumanInv /\ [Next]_vars => HumanInv'
  <1> SUFFICES ASSUME TypeInv, HumanInv, [Next]_vars PROVE HumanInv'
    OBVIOUS
  <1>1. CASE \E p \in Procs : Advance(p)
    <2>1. PICK p \in Procs : Advance(p)
      BY <1>1
    <2> QED
      BY <2>1, HumanDecisions, HumanLoop, HumanStages, HumanProcess, HumanMarks DEF Advance
  <1>2. CASE \E p \in Procs : AgentEnds(p)
    BY <1>2, HumanAgent
  <1>3. CASE UserRequest
    BY <1>3, HumanMarks, HumanApproves, HumanMode, HumanTables DEF UserRequest
  <1>4. CASE Crash
    BY <1>4, HumanCrash
  <1>5. CASE UNCHANGED vars
    BY <1>5 DEF HumanInv, CopiesSeen, NoAutoApproval, UserPassed, Seen, OnlyHuman, With,
                Allowed, vars, db, local, history
  <1> QED
    BY <1>1, <1>2, <1>3, <1>4, <1>5 DEF Next

\* "human: every stage started and approved manually", whatever handlers
\* overlap, agents fail and crashes restart: a feature that never left human mode
\* has no completed stage after initialization that a user did not let pass since
\* it last ran.
THEOREM HumanInControl == Spec => []HumanControl
  <1>1. Spec => []TypeInv
    BY TypeInit, TypeStep, PTL DEF Spec
  <1>2. Spec => []HumanInv
    BY <1>1, HumanInit, HumanStep, PTL DEF Spec
  <1>3. HumanInv => HumanControl
    BY DEF HumanInv, UserPassed, HumanControl, OnlyHuman, Allowed
  <1> QED
    BY <1>2, <1>3, PTL

-----------------------------------------------------------------------------
(* Copies.  Between the decision that loads the feature and the step that   *)
(* lets go of it a goroutine may save its copy: what it saves then is what  *)
(* was loaded, with the scope and, until the work is done, the status.      *)

Same(f, g) == f.status = g.status /\ f.scope = g.scope
HoldsCopy(p) ==
    \/ pc[p] \in {"act", "agent", "process", "boltStart", "boltNext", "boltGate"}
    \/ pc[p] = "marking" /\ job[p].kind = "boltRequest"

OthersKept(p) ==
    \A q \in Procs \ {p} : pc'[q] = pc[q] /\ job'[q] = job[q] /\ snap'[q] = snap[q]

\* A step of a goroutine keeps its copy, takes a new one, or lets go; what it
\* saves is the copy, or closes the feature.
CopyStep(p) ==
    /\ OthersKept(p)
    /\ HoldsCopy(p)' => \/ HoldsCopy(p) /\ Same(snap'[p], snap[p])
                        \/ snap'[p] = feature /\ feature' = feature
    /\ \/ Same(feature', feature)
       \/ HoldsCopy(p) /\ Same(feature', snap[p])
       \/ /\ feature'.status = "done" /\ ~HoldsCopy(p)'
          /\ \/ HoldsCopy(p) /\ feature'.scope = snap[p].scope
             \/ pc[p] = "finish" /\ feature'.scope = feature.scope

LEMMA AdvancedCopy ==
    ASSUME TypeInv, NEW f \in Features, NEW s
    PROVE  \/ AdvancedFeature(f, s) = feature
           \/ Same(AdvancedFeature(f, s), f)
           \/ /\ AdvancedFeature(f, s).status = "done"
              /\ AdvancedFeature(f, s).scope = f.scope
  BY DEF AdvancedFeature, Features, Same

LEMMA OthersGoto ==
    ASSUME TypeInv, NEW p \in Procs, NEW l, Goto(p, l),
           job' = job \/ (\E j : Take(p, j)),
           snap' = snap \/ (\E f : snap' = [snap EXCEPT ![p] = f])
    PROVE  OthersKept(p) /\ pc'[p] = l
  BY DEF OthersKept, Goto, Take, TypeInv, TypeOK

\* A step that lets go of the copy, and leaves the feature alone or saves it.
LEMMA CopyDropped ==
    ASSUME TypeInv, NEW p \in Procs, NEW l, Goto(p, l),
           l \in {"decide", "unmark", "spawned", "merging", "finish", "idle",
                  "resuming", "polling", "checkActive"},
           job' = job \/ (\E j : Take(p, j)),
           snap' = snap \/ (\E f : snap' = [snap EXCEPT ![p] = f]),
           \/ Same(feature', feature)
           \/ HoldsCopy(p) /\ Same(feature', snap[p])
           \/ /\ feature'.status = "done"
              /\ \/ HoldsCopy(p) /\ feature'.scope = snap[p].scope
                 \/ pc[p] = "finish" /\ feature'.scope = feature.scope
    PROVE  CopyStep(p)
  <1>1. OthersKept(p) /\ pc'[p] = l
    BY OthersGoto
  <1>2. ~HoldsCopy(p)'
    BY <1>1 DEF HoldsCopy
  <1> QED
    BY <1>1, <1>2 DEF CopyStep

\* A step that keeps the copy.
LEMMA CopyHeld ==
    ASSUME TypeInv, NEW p \in Procs, NEW l, Goto(p, l), HoldsCopy(p),
           job' = job \/ (\E j : Take(p, j)),
           \/ snap' = snap
           \/ \E f : snap' = [snap EXCEPT ![p] = f] /\ Same(f, snap[p]),
           Same(feature', feature) \/ Same(feature', snap[p])
    PROVE  CopyStep(p)
  <1>1. OthersKept(p)
    BY OthersGoto
  <1>2. Same(snap'[p], snap[p])
    BY DEF Same, TypeInv, TypeOK
  <1> QED
    BY <1>1, <1>2 DEF CopyStep

LEMMA CopyBegins ==
    ASSUME TypeInv, NEW p \in Procs, NEW r, RunStageBegin(p, r), HoldsCopy(p),
           job' = job \/ (\E j : Take(p, j))
    PROVE  CopyStep(p)
  <1>1. \/ UNCHANGED <<feature, snap>>
        \/ /\ feature' = [snap[p] EXCEPT !.tree = TRUE]
           /\ snap' = [snap EXCEPT ![p] = [snap[p] EXCEPT !.tree = TRUE]]
    BY DEF RunStageBegin, EnsureSpecWorktree, TypeInv, TypeOK
  <1>2. Same([snap[p] EXCEPT !.tree = TRUE], snap[p])
    BY DEF TypeInv, TypeOK, Features, Same
  <1>3. Same(feature', feature) \/ Same(feature', snap[p])
    BY <1>1, <1>2 DEF Same
  <1>4. \/ snap' = snap
        \/ \E f : snap' = [snap EXCEPT ![p] = f] /\ Same(f, snap[p])
    BY <1>1, <1>2
  <1> QED
    BY <1>3, <1>4, CopyHeld DEF RunStageBegin

LEMMA CopySteps ==
    ASSUME TypeInv, NEW p \in Procs, Advance(p) \/ AgentEnds(p)
    PROVE  CopyStep(p)
  <1>1. CASE \/ DecideWait(p) \/ DecideApprove(p) \/ DecideRerun(p)
             \/ DecidePrepare(p) \/ DecideBolt(p) \/ DecideMerge(p)
             \/ DecideStage(p) \/ DecideDone(p)
    <2>1. PICK l, j : Decide(p, l, j)
      BY <1>1 DEF DecideWait, DecideApprove, DecideRerun, DecidePrepare, DecideBolt,
                  DecideMerge, DecideStage, DecideDone
    <2>2. feature' = feature /\ snap' = [snap EXCEPT ![p] = feature]
          /\ Goto(p, l) /\ Take(p, j)
      BY <2>1 DEF Decide
    <2>3. snap'[p] = feature
      BY <2>2 DEF TypeInv, TypeOK
    <2>4. OthersKept(p)
      BY <2>2, OthersGoto
    <2> QED
      BY <2>2, <2>3, <2>4 DEF CopyStep, Same
  <1>2. CASE AutoApprove(p)
    <2>1. HoldsCopy(p) /\ UNCHANGED <<snap, job>>
      BY <1>2 DEF AutoApprove, HoldsCopy, local
    <2>2. \E l \in {"decide", "unmark"} : Goto(p, l)
      BY <1>2 DEF AutoApprove
    <2>3. feature' = feature \/ feature' = AdvancedFeature(snap[p], job[p].stage)
      BY <1>2 DEF AutoApprove, ApproveAndAdvance, Row, db
    <2>4. snap[p] \in Features
      BY DEF TypeInv, TypeOK
    <2>5. \/ Same(feature', feature) \/ Same(feature', snap[p])
          \/ feature'.status = "done" /\ feature'.scope = snap[p].scope
      BY <2>3, <2>4, AdvancedCopy DEF Same
    <2> QED
      BY <2>1, <2>2, <2>5, CopyDropped
  <1>3. CASE Finish(p)
    <2>1. /\ pc[p] = "finish" /\ feature'.status = "done"
          /\ feature'.scope = feature.scope
      BY <1>3 DEF Finish, TypeInv, TypeOK, Features
    <2>2. Goto(p, "unmark") /\ UNCHANGED <<snap, job>>
      BY <1>3 DEF Finish, local
    <2> QED
      BY <2>1, <2>2, CopyDropped
  <1>4. CASE \/ Spawned(p) \/ ActPrepare(p) \/ MergeBegin(p) \/ MergeEnd(p)
             \/ Unmark(p) \/ BoltCompletes(p) \/ BoltPauses(p) \/ BoltHalts(p)
             \/ ProcessFailure(p) \/ ProcessAutoApprove(p) \/ ProcessNeedsReview(p)
             \/ ResumeMarks(p) \/ ResumeExits(p) \/ LateMark(p)
    <2>1. \E l \in {"decide", "unmark", "merging", "spawned", "idle", "polling"} :
              Goto(p, l)
      BY <1>4 DEF Spawned, ActPrepare, MergeBegin, MergeEnd, Unmark, BoltCompletes,
                  BoltPauses, BoltHalts, AfterBolt, ProcessFailure, ProcessAutoApprove,
                  ProcessNeedsReview, Process, ResumeMarks, ResumeExits, LateMark
    <2>2. feature' = feature /\ (job' = job \/ \E j : Take(p, j))
          /\ (snap' = snap \/ \E f : snap' = [snap EXCEPT ![p] = f])
      BY <1>4 DEF Spawned, ActPrepare, MergeBegin, MergeEnd, Unmark, BoltCompletes,
                  BoltPauses, BoltHalts, ProcessFailure, ProcessAutoApprove,
                  ProcessNeedsReview, Process, ResumeMarks, ResumeExits, LateMark, db, local
    <2> QED
      BY <2>1, <2>2, CopyDropped DEF Same
  <1>5. CASE ActStage(p)
    <2>1. CASE status[Row(p)] = "absent"
      <3>1. Goto(p, "unmark") /\ UNCHANGED <<feature, snap, job>>
        BY <1>5, <2>1 DEF ActStage
      <3> QED
        BY <3>1, CopyDropped DEF Same
    <2>2. CASE status[Row(p)] # "absent"
      BY <1>5, <2>2, CopyBegins DEF ActStage, HoldsCopy
    <2> QED
      BY <2>1, <2>2
  <1>6. CASE BoltRunStage(p)
    BY <1>6, CopyBegins DEF BoltRunStage, HoldsCopy
  <1>7. CASE BoltStart(p)
    <2> DEFINE f == [snap[p] EXCEPT !.bolt = job[p].bolt]
    <2>1. HoldsCopy(p) /\ job' = job /\ \E l : Goto(p, l)
      BY <1>7 DEF BoltStart, HoldsCopy
    <2>2. /\ feature' = feature \/ feature' = f
          /\ snap' = snap \/ snap' = [snap EXCEPT ![p] = f]
      BY <1>7 DEF BoltStart
    <2>3. Same(f, snap[p])
      BY DEF TypeInv, TypeOK, Features, Same
    <2>4. Same(feature', feature) \/ Same(feature', snap[p])
      BY <2>2, <2>3 DEF Same
    <2> HIDE DEF f
    <2> QED
      BY <2>1, <2>2, <2>3, <2>4, CopyHeld
  <1>8. CASE BoltApprove(p)
    <2>1. job[p].stage \in BoltStages
      BY <1>8 DEF BoltApprove, TypeInv, JobsOK, JobOK
    <2>2. feature' = feature
      BY <1>8, <2>1 DEF BoltApprove, ApproveAndAdvance, AdvancedFeature, Row
    <2>3. HoldsCopy(p) /\ snap' = snap /\ (\E l : Goto(p, l))
          /\ (job' = job \/ \E j : Take(p, j))
      BY <1>8 DEF BoltApprove, HoldsCopy
    <2> QED
      BY <2>2, <2>3, CopyHeld DEF Same
  <1>9. CASE Mark(p)
    <2>1. PICK l : Goto(p, l) /\ \/ l = "boltStart" /\ job[p].kind = "boltRequest"
                                 \/ l \in {"resuming", "spawned"}
      BY <1>9 DEF Mark
    <2>2. UNCHANGED <<feature, snap, job>>
      BY <1>9 DEF Mark, db, local
    <2>3. CASE l \in {"resuming", "spawned"}
      BY <2>1, <2>2, <2>3, CopyDropped DEF Same
    <2>4. CASE l = "boltStart" /\ job[p].kind = "boltRequest"
      <3>1. HoldsCopy(p)
        BY <1>9, <2>4 DEF Mark, HoldsCopy
      <3> QED
        BY <2>1, <2>2, <3>1, CopyHeld DEF Same
    <2> QED
      BY <2>1, <2>3, <2>4
  <1>10. CASE CheckActive(p)
    <2>1. job[p].kind = "request"
      BY <1>10 DEF CheckActive, TypeInv, JobsOK, JobOK
    <2>2. PICK l, j : /\ Goto(p, l) /\ Take(p, j) /\ l \in {"idle", "marking"}
                      /\ l = "marking" => j = job[p]
      BY <1>10 DEF CheckActive
    <2>3. UNCHANGED <<feature, snap>>
      BY <1>10 DEF CheckActive, db
    <2>4. OthersKept(p) /\ pc'[p] = l
      BY <2>2, <2>3, OthersGoto
    <2>5. ~HoldsCopy(p)'
      BY <2>1, <2>2, <2>4 DEF HoldsCopy, Take, TypeInv, TypeOK
    <2> QED
      BY <2>3, <2>4, <2>5 DEF CopyStep, Same
  <1>11. CASE AgentEnds(p)
    <2>1. HoldsCopy(p) /\ UNCHANGED <<feature, snap, job>> /\ \E l : Goto(p, l)
      BY <1>11 DEF AgentEnds, AgentPasses, AgentFails, SmokeFails, QuotaExhausted,
                   DispatchFails, SetupFails, Returns, Errs, HoldsCopy
    <2> QED
      BY <2>1, CopyHeld DEF Same
  <1> QED
    BY <1>1, <1>2, <1>3, <1>4, <1>5, <1>6, <1>7, <1>8, <1>9, <1>10, <1>11 DEF Advance

\* A request leaves the processes alone, but for one idle process that may get
\* a fresh copy.
LEMMA CopyRequests ==
    ASSUME TypeInv, UserRequest
    PROVE  /\ \A q \in Procs :
                \/ pc'[q] = pc[q] /\ job'[q] = job[q] /\ snap'[q] = snap[q]
                \/ /\ pc[q] = "idle"
                   /\ HoldsCopy(q)' => snap'[q] = feature /\ feature' = feature
           /\ feature'.status \in {feature.status, "done", "cancelled"}
           /\ feature'.scope = feature.scope \/ "scope" \in Requests
  <1>1. CASE \/ RequestReject \/ RequestAccept \/ RequestJump \/ RequestAddSkipped
             \/ RequestScope \/ RequestCancel \/ RequestPrepare
    <2>1. UNCHANGED <<pc, job, snap>>
      BY <1>1 DEF RequestReject, RequestAccept, RequestJump, RequestAddSkipped,
                  RequestScope, RequestCancel, RequestPrepare, local
    <2>2. CASE RequestAccept
      <3>1. \E s : feature' = AdvancedFeature(feature, s)
        BY <2>2 DEF RequestAccept, AcceptAsIs
      <3> QED
        BY <2>1, <3>1, AdvancedCopy DEF Same, TypeInv, TypeOK
    <2>3. CASE RequestScope \/ RequestCancel
      BY <2>1, <2>3 DEF RequestScope, RequestCancel, Request, TypeInv, TypeOK, Features
    <2>4. CASE RequestReject \/ RequestJump \/ RequestAddSkipped \/ RequestPrepare
      BY <2>1, <2>4 DEF RequestReject, RequestJump, RequestAddSkipped, RequestPrepare
    <2> QED
      BY <1>1, <2>2, <2>3, <2>4
  <1>2. CASE \E p \in Procs : RequestRun(p) \/ RequestBolt(p) \/ RequestResume(p)
    <2>1. PICK p \in Procs : \E j : Accepted(p, j)
      BY <1>2 DEF RequestRun, RequestBolt, RequestResume
    <2> PICK j : Accepted(p, j)
      BY <2>1
    <2>2. /\ feature' = feature /\ pc[p] = "idle" /\ Goto(p, "marking") /\ Take(p, j)
          /\ snap' = [snap EXCEPT ![p] =
                          IF j.kind = "boltRequest" THEN feature ELSE NoFeature]
      BY DEF Accepted, db
    <2>3. OthersKept(p)
      BY <2>2, OthersGoto
    <2>4. HoldsCopy(p)' => snap'[p] = feature
      BY <2>2 DEF HoldsCopy, Goto, Take, TypeInv, TypeOK
    <2> QED
      BY <2>2, <2>3, <2>4 DEF OthersKept
  <1>3. CASE \E p \in Procs : RequestApprove(p) \/ RequestForce(p) \/ RequestMode(p)
    <2>1. PICK p \in Procs : RequestApprove(p) \/ RequestForce(p) \/ RequestMode(p)
      BY <1>3
    <2>2. pc[p] = "idle" /\ snap' = snap
      BY <2>1 DEF RequestApprove, RequestForce, RequestMode
    <2>3. PICK l, j : /\ Goto(p, l) /\ Take(p, j) /\ l \in {"checkActive", "idle", "marking"}
                      /\ j.kind # "boltRequest"
      <3>1. ASSUME NEW on, Continue(p, on)
            PROVE  \E l, j : /\ Goto(p, l) /\ Take(p, j) /\ j.kind # "boltRequest"
                             /\ l \in {"checkActive", "idle", "marking"}
        <4>1. CASE on
          <5>1. Goto(p, "checkActive") /\ Take(p, Job("request", 0, 0))
            BY <3>1, <4>1 DEF Continue
          <5>2. Job("request", 0, 0).kind # "boltRequest"
            BY DEF Job
          <5> QED
            BY <5>1, <5>2
        <4>2. CASE ~on
          <5>1. Goto(p, "idle") /\ Take(p, NoJob)
            BY <3>1, <4>2 DEF Continue
          <5>2. NoJob.kind # "boltRequest"
            BY DEF NoJob
          <5> QED
            BY <5>1, <5>2
        <4> QED
          BY <4>1, <4>2
      <3>2. CASE RequestApprove(p)
        <4>1. \E on : Continue(p, on)
          BY <3>2 DEF RequestApprove
        <4> QED
          BY <4>1, <3>1
      <3>3. CASE RequestMode(p)
        <4>1. \E on : Continue(p, on)
          BY <3>3 DEF RequestMode
        <4> QED
          BY <4>1, <3>1
      <3>4. CASE RequestForce(p)
        <4>1. PICK s \in Stage : Take(p, Job("forced", s, 0))
          BY <3>4 DEF RequestForce
        <4>2. Goto(p, "marking")
          BY <3>4 DEF RequestForce
        <4>3. Job("forced", s, 0).kind # "boltRequest"
          BY DEF Job
        <4> QED
          BY <4>1, <4>2, <4>3
      <3> QED
        BY <2>1, <3>2, <3>3, <3>4
    <2>4. OthersKept(p) /\ pc'[p] = l
      BY <2>2, <2>3, OthersGoto
    <2>5. ~HoldsCopy(p)'
      BY <2>3, <2>4 DEF HoldsCopy, Take, TypeInv, TypeOK
    <2>6. /\ feature'.status \in {feature.status, "done", "cancelled"}
          /\ feature'.scope = feature.scope
      <3>1. CASE RequestApprove(p)
        <4>1. \E s : feature' = AdvancedFeature(feature, s)
          BY <3>1 DEF RequestApprove, ApproveAndAdvance
        <4> QED
          BY <4>1, AdvancedCopy DEF Same, TypeInv, TypeOK
      <3>2. CASE RequestForce(p) \/ RequestMode(p)
        BY <3>2 DEF RequestForce, RequestMode, TypeInv, TypeOK, Features
      <3> QED
        BY <2>1, <3>1, <3>2
    <2> QED
      BY <2>2, <2>4, <2>5, <2>6 DEF OthersKept
  <1> QED
    BY <1>1, <1>2, <1>3 DEF UserRequest

-----------------------------------------------------------------------------
(* Who answers for a running row.  A row in_progress without a goroutine is *)
(* what a crash leaves in a closed feature, and a feature once closed stays *)
(* closed: no goroutine of before the crash is there to save an open copy.  *)

Orphan(r) == status[r] = "in_progress" /\ ~Owned(r)
NoResume == \A p \in Procs : /\ pc[p] \notin {"resuming", "polling"}
                             /\ job[p].kind # "resume"
ClosedEverywhere ==
    /\ feature.status # "open"
    /\ \A p \in Procs : HoldsCopy(p) => snap[p].status # "open"
ClosedForGood == (\E r \in Rows : Orphan(r)) => ClosedEverywhere
OwnedInv == NoResume /\ ClosedForGood

LEMMA NoResumeMove ==
    ASSUME TypeInv, NoResume, NEW p \in Procs, NEW l, Goto(p, l),
           l \notin {"resuming", "polling"},
           job' = job \/ \E j : Take(p, j) /\ j.kind # "resume"
    PROVE  NoResume'
  BY DEF NoResume, Goto, Take, TypeInv, TypeOK

LEMMA NoResumeStep ==
    ASSUME TypeInv, NoResume, "resume" \notin Requests, [Next]_vars
    PROVE  NoResume'
  <1>1. ASSUME NEW p \in Procs, NEW l, NEW j, Decide(p, l, j),
               l \notin {"resuming", "polling"}, j.kind # "resume"
        PROVE  NoResume'
    BY <1>1, NoResumeMove DEF Decide
  <1>2. ASSUME NEW p \in Procs,
               \/ DecideWait(p) \/ DecideApprove(p) \/ DecideRerun(p)
               \/ DecidePrepare(p) \/ DecideBolt(p) \/ DecideMerge(p)
               \/ DecideStage(p) \/ DecideDone(p)
        PROVE  NoResume'
    <2>1. CASE DecideWait(p) \/ DecideDone(p)
      BY <1>1, <2>1 DEF DecideWait, DecideDone, NoJob
    <2>2. CASE \/ DecideApprove(p) \/ DecideRerun(p) \/ DecidePrepare(p)
               \/ DecideBolt(p) \/ DecideMerge(p) \/ DecideStage(p)
      <3>1. \E l \in {"act", "boltStart"}, k \in {"approve", "bolt", "stage", "prepare", "merge"} :
                \E s, b : Decide(p, l, Job(k, s, b))
        BY <2>2 DEF DecideApprove, DecideRerun, DecidePrepare, DecideBolt,
                    DecideMerge, DecideStage
      <3> QED
        BY <1>1, <3>1 DEF Job
    <2> QED
      BY <1>2, <2>1, <2>2
  <1>3. ASSUME NEW p \in Procs,
               \/ Spawned(p) \/ AutoApprove(p) \/ ActPrepare(p) \/ MergeBegin(p)
               \/ MergeEnd(p) \/ Finish(p) \/ Unmark(p) \/ ActStage(p)
               \/ BoltStart(p) \/ BoltCompletes(p) \/ BoltPauses(p) \/ BoltHalts(p)
               \/ LateMark(p) \/ AgentEnds(p)
               \/ ProcessFailure(p) \/ ProcessAutoApprove(p) \/ ProcessNeedsReview(p)
        PROVE  NoResume'
    <2>1. job' = job \/ Take(p, NoJob)
      BY <1>3 DEF Spawned, AutoApprove, ActPrepare, MergeBegin, MergeEnd, Finish, Unmark,
                  ActStage, BoltStart, BoltCompletes, BoltPauses, BoltHalts, LateMark,
                  AgentEnds, AgentPasses, AgentFails, SmokeFails, QuotaExhausted,
                  DispatchFails, SetupFails, Returns, Errs, ProcessFailure,
                  ProcessAutoApprove, ProcessNeedsReview, Process, local
    <2>2. \E l \in PCs \ {"resuming", "polling"} : Goto(p, l)
      BY <1>3 DEF Spawned, AutoApprove, ActPrepare, MergeBegin, MergeEnd, Finish, Unmark,
                  ActStage, RunStageBegin, BoltStart, BoltCompletes, AfterBolt, BoltPauses,
                  BoltHalts, LateMark, AgentEnds, AgentPasses, AgentFails, SmokeFails,
                  QuotaExhausted, DispatchFails, SetupFails, Returns, Errs, ProcessFailure,
                  ProcessAutoApprove, ProcessNeedsReview, Process, PCs
    <2>3. NoJob.kind # "resume"
      BY DEF NoJob
    <2> QED
      BY <2>1, <2>2, <2>3, NoResumeMove
  <1>4. ASSUME NEW p \in Procs, BoltRunStage(p) \/ BoltApprove(p)
        PROVE  NoResume'
    <2>1. \E l \in {"agent", "boltNext", "spawned", "decide"} : Goto(p, l)
      BY <1>4 DEF BoltRunStage, RunStageBegin, BoltApprove, AfterBolt
    <2>2. job' = job \/ \E s, b : Take(p, Job(job[p].kind, s, b))
      BY <1>4 DEF BoltRunStage, BoltApprove
    <2>3. \A s, b : Job(job[p].kind, s, b).kind # "resume"
      BY DEF Job, NoResume
    <2> QED
      BY <2>1, <2>2, <2>3, NoResumeMove
  <1>5. ASSUME NEW p \in Procs,
               Mark(p) \/ CheckActive(p) \/ ResumeMarks(p) \/ ResumeExits(p)
        PROVE  NoResume'
    <2>1. CASE Mark(p)
      <3>1. job' = job /\ \E l \in {"boltStart", "spawned"} : Goto(p, l)
        BY <2>1 DEF Mark, local, NoResume
      <3> QED
        BY <3>1, NoResumeMove
    <2>2. CASE CheckActive(p)
      <3>1. \E l \in {"idle", "marking"} : Goto(p, l)
        BY <2>2 DEF CheckActive
      <3>2. Take(p, NoJob) \/ Take(p, job[p])
        BY <2>2 DEF CheckActive
      <3>3. NoJob.kind # "resume" /\ job[p].kind # "resume"
        BY DEF NoJob, NoResume
      <3> QED
        BY <3>1, <3>2, <3>3, NoResumeMove
    <2>3. CASE ResumeMarks(p) \/ ResumeExits(p)
      BY <2>3 DEF ResumeMarks, ResumeExits, NoResume
    <2> QED
      BY <1>5, <2>1, <2>2, <2>3
  <1>6. CASE UserRequest
    <2>1. CASE \/ RequestReject \/ RequestAccept \/ RequestJump \/ RequestAddSkipped
               \/ RequestScope \/ RequestCancel \/ RequestPrepare
      <3>1. UNCHANGED <<pc, job>>
        BY <2>1 DEF RequestReject, RequestAccept, RequestJump, RequestAddSkipped,
                    RequestScope, RequestCancel, RequestPrepare, local
      <3> QED
        BY <3>1 DEF NoResume
    <2>2. ASSUME NEW p \in Procs, RequestRun(p) \/ RequestBolt(p)
          PROVE  NoResume'
      <3>1. \E k \in {"request", "boltRequest"} : \E s, b :
                Goto(p, "marking") /\ Take(p, Job(k, s, b))
        BY <2>2 DEF RequestRun, RequestBolt, Accepted
      <3> QED
        BY <3>1, NoResumeMove DEF Job
    <2>3. ASSUME NEW p \in Procs, RequestApprove(p) \/ RequestMode(p)
          PROVE  NoResume'
      <3>1. PICK on : Continue(p, on)
        BY <2>3 DEF RequestApprove, RequestMode
      <3>2. \E l \in {"checkActive", "idle"} : Goto(p, l)
        BY <3>1 DEF Continue
      <3>3. Take(p, Job("request", 0, 0)) \/ Take(p, NoJob)
        BY <3>1 DEF Continue
      <3>4. Job("request", 0, 0).kind # "resume" /\ NoJob.kind # "resume"
        BY DEF Job, NoJob
      <3> QED
        BY <3>2, <3>3, <3>4, NoResumeMove
    <2>4. ASSUME NEW p \in Procs, RequestForce(p) PROVE NoResume'
      <3>1. Goto(p, "marking") /\ \E s : Take(p, Job("forced", s, 0))
        BY <2>4 DEF RequestForce
      <3> QED
        BY <3>1, NoResumeMove DEF Job
    <2>5. ~\E p \in Procs : RequestResume(p)
      BY DEF RequestResume, Request
    <2> QED
      BY <1>6, <2>1, <2>2, <2>3, <2>4, <2>5 DEF UserRequest
  <1>7. CASE Crash
    <2>1. \A q \in Procs : pc'[q] \in {"idle", "spawned"} /\ job'[q] = NoJob
      BY <1>7 DEF Crash
    <2> QED
      BY <2>1 DEF NoResume, NoJob
  <1>8. CASE UNCHANGED vars
    BY <1>8 DEF vars, local, NoResume
  <1> QED
    BY <1>2, <1>3, <1>4, <1>5, <1>6, <1>7, <1>8 DEF Next, Advance
\* A step of p that starts no row, or only the one p answers for then, and
\* that does not end what p answered for.
LEMMA OrphansKept ==
    ASSUME TypeInv, NEW p \in Procs, OthersKept(p), pc[p] \notin {"agent", "polling"},
           \A r \in Rows : status'[r] = "in_progress" =>
               \/ status[r] = "in_progress"
               \/ pc'[p] = "agent" /\ <<job'[p].stage, job'[p].bolt>> = r
    PROVE  \A r \in Rows : Orphan(r)' => Orphan(r)
  <1> SUFFICES ASSUME NEW r \in Rows, Orphan(r)' PROVE Orphan(r)
    OBVIOUS
  <1>1. status'[r] = "in_progress"
        /\ \A q \in Procs : pc'[q] \in {"agent", "polling"} =>
              <<job'[q].stage, job'[q].bolt>> # r
    BY DEF Orphan, Owned, Row
  <1>2. status[r] = "in_progress"
    BY <1>1
  <1>3. \A q \in Procs : pc[q] \in {"agent", "polling"} => Row(q) # r
    BY <1>1 DEF OthersKept, Row
  <1> QED
    BY <1>2, <1>3 DEF Orphan, Owned

\* An agent that ends leaves its row in another status.
LEMMA OrphansEnded ==
    ASSUME TypeInv, NEW p \in Procs, OthersKept(p), pc[p] = "agent", NEW st,
           st # "in_progress", status' = [status EXCEPT ![Row(p)] = st]
    PROVE  \A r \in Rows : Orphan(r)' => Orphan(r)
  <1> SUFFICES ASSUME NEW r \in Rows, Orphan(r)' PROVE Orphan(r)
    OBVIOUS
  <1>1. status'[r] = "in_progress"
        /\ \A q \in Procs : pc'[q] \in {"agent", "polling"} =>
              <<job'[q].stage, job'[q].bolt>> # r
    BY DEF Orphan, Owned, Row
  <1>2. Row(p) \in Rows
    BY DEF TypeInv, JobsOK, JobOK, Row
  <1>3. r # Row(p) /\ status[r] = "in_progress"
    BY <1>1, <1>2 DEF TypeInv, TypeOK
  <1>4. \A q \in Procs : pc[q] \in {"agent", "polling"} => Row(q) # r
    BY <1>1, <1>3 DEF OthersKept, Row
  <1> QED
    BY <1>3, <1>4 DEF Orphan, Owned

LEMMA OrphansAgent ==
    ASSUME TypeInv, NEW p \in Procs, AgentEnds(p), "setup" \notin Faults
    PROVE  \A r \in Rows : Orphan(r)' => Orphan(r)
  <1>1. OthersKept(p)
    BY CopySteps DEF CopyStep
  <1>2. pc[p] = "agent" /\ \E st \in {"awaiting_approval", "revising", "failed"} :
            status' = [status EXCEPT ![Row(p)] = st]
    BY DEF AgentEnds, AgentPasses, AgentFails, SmokeFails, QuotaExhausted,
           DispatchFails, SetupFails, Returns, Errs, SetRow
  <1> QED
    BY <1>1, <1>2, OrphansEnded

\* RunStage's write is the only one that opens a row, but for a resumption.
OpensNone == \A r \in Rows : status'[r] = "in_progress" => status[r] = "in_progress"

LEMMA ApproveOpensNone ==
    ASSUME TypeInv, NEW f \in Features, NEW r \in Rows, NEW ok,
           ApproveAndAdvance(f, r, ok)
    PROVE  OpensNone
  BY ApprovedRows DEF OpensNone

LEMMA OrphansSteps ==
    ASSUME TypeInv, NoResume, NEW p \in Procs, Advance(p)
    PROVE  \A r \in Rows : Orphan(r)' => Orphan(r)
  <1>1. OthersKept(p)
    BY CopySteps DEF CopyStep
  <1>2. ASSUME pc[p] # "agent", OpensNone PROVE \A r \in Rows : Orphan(r)' => Orphan(r)
    BY <1>1, <1>2, OrphansKept DEF OpensNone, NoResume
  <1>3. CASE \/ DecideWait(p) \/ DecideApprove(p) \/ DecideRerun(p)
             \/ DecidePrepare(p) \/ DecideBolt(p) \/ DecideMerge(p)
             \/ DecideStage(p) \/ DecideDone(p)
    <2>1. pc[p] = "decide"
      BY <1>3 DEF DecideWait, DecideApprove, DecideRerun, DecidePrepare, DecideBolt,
                  DecideMerge, DecideStage, DecideDone, Decide
    <2>2. OpensNone
      BY <1>3, DecidedRows DEF OpensNone
    <2> QED
      BY <1>2, <2>1, <2>2
  <1>4. CASE AutoApprove(p) \/ BoltApprove(p)
    <2>1. CASE status' = status
      BY <1>2, <1>4, <2>1 DEF AutoApprove, BoltApprove, OpensNone
    <2>2. CASE Approvable(Row(p)) /\ \E ok : ApproveAndAdvance(snap[p], Row(p), ok)
      <3>1. Row(p) \in Rows /\ snap[p] \in Features
        BY <2>2 DEF Approvable, TypeInv, TypeOK
      <3>2. OpensNone
        BY <2>2, <3>1, ApproveOpensNone
      <3> QED
        BY <1>2, <1>4, <3>2 DEF AutoApprove, BoltApprove
    <2> QED
      BY <1>4, <2>1, <2>2 DEF AutoApprove, BoltApprove, db
  <1>5. CASE \/ Spawned(p) \/ ActPrepare(p) \/ MergeBegin(p) \/ MergeEnd(p) \/ Finish(p)
             \/ Unmark(p) \/ BoltCompletes(p) \/ BoltPauses(p) \/ BoltHalts(p)
             \/ Mark(p) \/ LateMark(p) \/ CheckActive(p)
    <2>1. pc[p] # "agent" /\ status' = status
      BY <1>5 DEF Spawned, ActPrepare, MergeBegin, MergeEnd, Finish, Unmark, BoltCompletes,
                  BoltPauses, BoltHalts, Mark, LateMark, CheckActive, db
    <2> QED
      BY <1>2, <2>1 DEF OpensNone
  <1>6. CASE ProcessFailure(p) \/ ProcessAutoApprove(p) \/ ProcessNeedsReview(p)
    <2>1. pc[p] = "process" /\ \E st \in {"revising", "completed", "awaiting_approval"} :
              status' = [status EXCEPT ![Row(p)] = st]
      BY <1>6 DEF ProcessFailure, ProcessAutoApprove, ProcessNeedsReview, Process, SetRow
    <2>2. OpensNone
      BY <2>1 DEF OpensNone, TypeInv, TypeOK
    <2> QED
      BY <1>2, <2>1, <2>2
  <1>7. CASE BoltStart(p)
    <2>1. pc[p] = "boltStart" /\ OpensNone
      BY <1>7 DEF BoltStart, OpensNone
    <2> QED
      BY <1>2, <2>1
  <1>8. CASE ActStage(p)
    <2>1. CASE status[Row(p)] = "absent"
      BY <1>2, <1>8, <2>1 DEF ActStage, OpensNone
    <2>2. CASE status[Row(p)] # "absent"
      <3>1. /\ pc[p] = "act" /\ status' = [status EXCEPT ![Row(p)] = "in_progress"]
            /\ Goto(p, "agent") /\ job' = job
        BY <1>8, <2>2 DEF ActStage, RunStageBegin, SetRow
      <3>2. pc'[p] = "agent" /\ <<job'[p].stage, job'[p].bolt>> = Row(p)
        BY <3>1 DEF Goto, Row, TypeInv, TypeOK
      <3>3. \A r \in Rows : status'[r] = "in_progress" =>
                status[r] = "in_progress" \/ r = Row(p)
        BY <3>1 DEF TypeInv, TypeOK
      <3> QED
        BY <1>1, <3>1, <3>2, <3>3, OrphansKept
    <2> QED
      BY <2>1, <2>2
  <1>9. CASE BoltRunStage(p)
    <2>1. PICK s \in BoltTodo(p) :
              /\ RunStageBegin(p, <<s, job[p].bolt>>)
              /\ Take(p, Job(job[p].kind, s, job[p].bolt))
      BY <1>9 DEF BoltRunStage
    <2>2. /\ pc[p] = "boltNext" /\ pc'[p] = "agent"
          /\ status' = [status EXCEPT ![<<s, job[p].bolt>>] = "in_progress"]
      BY <1>9, <2>1 DEF BoltRunStage, RunStageBegin, SetRow, Goto, TypeInv, TypeOK
    <2>3. <<job'[p].stage, job'[p].bolt>> = <<s, job[p].bolt>>
      BY <2>1 DEF Take, Job, TypeInv, TypeOK
    <2>4. \A r \in Rows : status'[r] = "in_progress" =>
              status[r] = "in_progress" \/ r = <<s, job[p].bolt>>
      BY <2>2 DEF TypeInv, TypeOK
    <2> QED
      BY <1>1, <2>2, <2>3, <2>4, OrphansKept
  <1>10. ~ResumeMarks(p) /\ ~ResumeExits(p)
    BY DEF ResumeMarks, ResumeExits, NoResume
  <1> QED
    BY <1>3, <1>4, <1>5, <1>6, <1>7, <1>8, <1>9, <1>10 DEF Advance

LEMMA RequestsOpenNone ==
    ASSUME TypeInv, UserRequest
    PROVE  OpensNone
  <1>1. CASE \/ RequestPrepare \/ RequestScope \/ RequestCancel
             \/ \E p \in Procs : \/ RequestRun(p) \/ RequestBolt(p) \/ RequestResume(p)
                                 \/ RequestMode(p)
    <2>1. status' = status
      BY <1>1 DEF RequestPrepare, RequestScope, RequestCancel, RequestRun, RequestBolt,
                  RequestResume, RequestMode, Accepted, db
    <2> QED
      BY <2>1 DEF OpensNone
  <1>2. CASE \E p \in Procs : RequestApprove(p)
    <2>1. PICK s \in Stage : /\ Approvable(RowOf(s))
                             /\ \E ok : ApproveAndAdvance(feature, RowOf(s), ok)
      BY <1>2 DEF RequestApprove
    <2>2. RowOf(s) \in Rows /\ feature \in Features
      BY <2>1 DEF Approvable, TypeInv, TypeOK
    <2> QED
      BY <2>1, <2>2, ApproveOpensNone
  <1>3. CASE \E p \in Procs : RequestForce(p)
    BY <1>3 DEF RequestForce, OpensNone
  <1>4. CASE RequestReject
    <2>1. \E r : status' = [status EXCEPT ![r] = "revising"]
      BY <1>4 DEF RequestReject, SendBack, SetRow
    <2> QED
      BY <2>1 DEF OpensNone, TypeInv, TypeOK
  <1>5. CASE RequestAccept
    <2>1. \E r \in Rows :
              status' = Advanced([status EXCEPT ![r] = "completed"], feature, r[1])
      BY <1>5 DEF RequestAccept, AcceptAsIs
    <2> QED
      BY <2>1 DEF Advanced, OpensNone, TypeInv, TypeOK
  <1>6. CASE RequestJump
    BY <1>6 DEF RequestJump, JumpTo, Skip, OpensNone
  <1>7. CASE RequestAddSkipped
    <2>1. \E r : status' = [status EXCEPT ![r] = "not_started"]
      BY <1>7 DEF RequestAddSkipped, SetRow
    <2> QED
      BY <2>1 DEF OpensNone, TypeInv, TypeOK
  <1> QED
    BY <1>1, <1>2, <1>3, <1>4, <1>5, <1>6, <1>7 DEF UserRequest

LEMMA OrphansRequest ==
    ASSUME TypeInv, UserRequest
    PROVE  \A r \in Rows : Orphan(r)' => Orphan(r)
  <1> SUFFICES ASSUME NEW r \in Rows, Orphan(r)' PROVE Orphan(r)
    OBVIOUS
  <1>1. status'[r] = "in_progress"
        /\ \A q \in Procs : pc'[q] \in {"agent", "polling"} =>
              <<job'[q].stage, job'[q].bolt>> # r
    BY DEF Orphan, Owned, Row
  <1>2. status[r] = "in_progress"
    BY <1>1, RequestsOpenNone DEF OpensNone
  <1>3. \A q \in Procs : pc[q] \in {"agent", "polling"} => Row(q) # r
    BY <1>1, CopyRequests DEF Row
  <1> QED
    BY <1>2, <1>3 DEF Orphan, Owned

\* One row that has no goroutine after a step: it had none before it, or the
\* server was restarted.
LEMMA ClosedRow ==
    ASSUME TypeInv, NoResume, [Next]_vars, "setup" \notin Faults,
           NEW r \in Rows, Orphan(r)', Orphan(r) => ClosedEverywhere
    PROVE  ClosedEverywhere'
  <1> SUFFICES /\ feature'.status # "open"
               /\ \A q \in Procs : HoldsCopy(q)' => snap'[q].status # "open"
    BY DEF ClosedEverywhere
  <1>1. ASSUME Orphan(r)
        PROVE  /\ feature.status # "open"
               /\ \A q \in Procs : HoldsCopy(q) => snap[q].status # "open"
    BY <1>1 DEF ClosedEverywhere
  <1>2. CASE \E p \in Procs : Advance(p) \/ AgentEnds(p)
    <2>1. PICK p \in Procs : Advance(p) \/ AgentEnds(p)
      BY <1>2
    <2>2. Orphan(r)
      BY <2>1, OrphansSteps, OrphansAgent
    <2>3. CopyStep(p)
      BY <2>1, CopySteps
    <2>4. feature'.status # "open"
      BY <1>1, <2>2, <2>3 DEF CopyStep, Same
    <2>5. ASSUME NEW q \in Procs \ {p}, HoldsCopy(q)' PROVE snap'[q].status # "open"
      <3>1. HoldsCopy(q) /\ snap'[q] = snap[q]
        BY <2>3, <2>5 DEF CopyStep, OthersKept, HoldsCopy
      <3> QED
        BY <1>1, <2>2, <3>1
    <2>6. HoldsCopy(p)' => snap'[p].status # "open"
      BY <1>1, <2>2, <2>3 DEF CopyStep, Same
    <2> QED
      BY <2>4, <2>5, <2>6
  <1>3. CASE UserRequest
    <2>1. Orphan(r)
      BY <1>3, OrphansRequest
    <2>2. feature'.status # "open"
      BY <1>1, <1>3, <2>1, CopyRequests
    <2>3. ASSUME NEW q \in Procs, HoldsCopy(q)' PROVE snap'[q].status # "open"
      <3>1. \/ pc'[q] = pc[q] /\ job'[q] = job[q] /\ snap'[q] = snap[q]
            \/ snap'[q] = feature
        BY <1>3, <2>3, CopyRequests
      <3> QED
        BY <1>1, <2>1, <2>3, <3>1 DEF HoldsCopy
    <2> QED
      BY <2>2, <2>3
  <1>4. CASE Crash
    <2>1. status'[r] = "in_progress"
      BY DEF Orphan
    <2>2. feature' = feature /\ feature.status # "open"
      BY <1>4, <2>1 DEF Crash, Interrupted, With
    <2>3. \A q \in Procs : ~HoldsCopy(q)'
      <3>1. \A q \in Procs : pc'[q] \in {"idle", "spawned"}
        BY <1>4 DEF Crash
      <3> QED
        BY <3>1 DEF HoldsCopy
    <2> QED
      BY <2>2, <2>3
  <1>5. CASE UNCHANGED vars
    <2>1. /\ Orphan(r) /\ feature' = feature /\ snap' = snap
          /\ \A q \in Procs : HoldsCopy(q)' => HoldsCopy(q)
      BY <1>5 DEF vars, db, local, Orphan, Owned, Row, HoldsCopy
    <2> QED
      BY <1>1, <2>1
  <1> QED
    BY <1>2, <1>3, <1>4, <1>5 DEF Next

LEMMA ClosedStep ==
    ASSUME TypeInv, OwnedInv, [Next]_vars, "setup" \notin Faults
    PROVE  ClosedForGood'
  BY ClosedRow DEF OwnedInv, ClosedForGood

LEMMA OwnedInit == Init /\ "resume" \notin Requests => OwnedInv
  <1> SUFFICES ASSUME Init PROVE OwnedInv
    OBVIOUS
  <1>1. PICK m \in StartModes, c \in Scopes, p \in Procs, q \in Procs :
            Created(m, c, p, q)
    BY DEF Init
  <1>2. NoResume
    BY <1>1 DEF Created, NoResume, Job, NoJob
  <1>3. ClosedForGood
    BY <1>1 DEF Created, ClosedForGood, Orphan
  <1> QED
    BY <1>2, <1>3 DEF OwnedInv

\* A row in_progress of an open feature, which makes every decision wait, has a
\* goroutine that will write its outcome, whatever requests overlap, agents
\* fail and crashes restart: of a server whose stages can be set up, and as
\* long as no live session is told to continue (that row goes back to
\* in_progress for a session that nobody waits for once it has exited).
THEOREM RunningAlwaysOwned ==
    ASSUME "setup" \notin Faults, "resume" \notin Requests
    PROVE  Spec => []RunningIsOwned
  <1>1. Spec => []TypeInv
    BY TypeInit, TypeStep, PTL DEF Spec
  <1>2. OwnedInv /\ TypeInv /\ [Next]_vars => OwnedInv'
    BY NoResumeStep, ClosedStep DEF OwnedInv
  <1>3. Init => OwnedInv
    BY OwnedInit
  <1>4. Spec => []OwnedInv
    BY <1>1, <1>2, <1>3, PTL DEF Spec
  <1>5. OwnedInv => RunningIsOwned
    BY DEF OwnedInv, ClosedForGood, ClosedEverywhere, Orphan, RunningIsOwned, With
  <1> QED
    BY <1>4, <1>5, PTL
-----------------------------------------------------------------------------
(* Order.  While a linear stage is chosen, run or judged, the linear stages *)
(* before it are closed and none after it was opened: so it is that stage,  *)
(* and no other, that a user's decision can be about.                       *)

LinearRows == LinearStages \X {0}
Closed == {"completed", "skipped", "absent"}
Unopened == {"not_started", "skipped", "absent"}
Opened == {"in_progress", "awaiting_approval", "revising", "completed"}

Ordered == \A r, q \in LinearRows :
    q[1] < r[1] /\ status[r] \in Opened => status[q] \in Closed
Clear(s) == \A q \in LinearRows : /\ q[1] < s => status[q] \in Closed
                                  /\ q[1] > s => status[q] \in Unopened
LinearWork(p) == \/ pc[p] = "act" /\ job[p].kind = "stage"
                 \/ pc[p] \in {"agent", "process"} /\ job[p].stage \notin BoltStages
WorkClear == \A p \in Procs : LinearWork(p) => Clear(job[p].stage)
NoneFailed == \A r \in Rows : status[r] # "failed"
OrderInv == Ordered /\ WorkClear /\ NoneFailed

LEMMA LinearParts ==
    ASSUME NEW r \in LinearRows
    PROVE  /\ r \in Rows /\ r[1] \in LinearStages /\ r[2] = 0 /\ r = <<r[1], 0>>
           /\ r[1] \in Stage /\ r[1] \in Int
  BY StagesAssumption DEF LinearRows, Rows, LinearStages, Stage

\* (a stage at bolt_number 0 is a linear one)
LEMMA LinearIs ==
    ASSUME NEW r \in Rows, r[2] = 0 \/ r[1] \in LinearStages
    PROVE  r \in LinearRows
  BY RowParts, StagesAssumption DEF LinearRows, LinearStages, Bolt

LEMMA ClearOrders ==
    ASSUME NEW s \in Int, Clear(s)
    PROVE  Ordered
  <1> SUFFICES ASSUME NEW r \in LinearRows, NEW q \in LinearRows, q[1] < r[1],
                      status[r] \in Opened
               PROVE  status[q] \in Closed
    BY DEF Ordered
  <1>1. r[1] \in Int /\ q[1] \in Int
    BY LinearParts
  <1>2. ~(r[1] > s) \/ status[r] = "completed"
    BY DEF Clear, Opened, Unopened
  <1>3. ~(r[1] > s)
    BY DEF Clear, Opened, Unopened
  <1> QED
    BY <1>1, <1>3 DEF Clear

\* A linear row that is open has everything before it closed, and nothing opened
\* after it.
LEMMA OpenClear ==
    ASSUME TypeInv, Ordered, NoneFailed, NEW r \in LinearRows,
           status[r] \in {"in_progress", "awaiting_approval", "revising"}
    PROVE  Clear(r[1])
  <1> SUFFICES ASSUME NEW q \in LinearRows
               PROVE  /\ q[1] < r[1] => status[q] \in Closed
                      /\ q[1] > r[1] => status[q] \in Unopened
    BY DEF Clear
  <1>1. r[1] \in Int /\ q[1] \in Int /\ q \in Rows
    BY LinearParts
  <1>2. q[1] < r[1] => status[q] \in Closed
    BY DEF Ordered, Opened
  <1>3. ASSUME q[1] > r[1] PROVE status[q] \in Unopened
    <2>1. r[1] < q[1]
      BY <1>1, <1>3
    <2>2. status[q] \notin Opened
      BY <2>1 DEF Ordered, Closed
    <2> QED
      BY <1>1, <2>2 DEF NoneFailed, Opened, Unopened, TypeInv, TypeOK, RowStatus
  <1> QED
    BY <1>2, <1>3

\* Where a stage is clear, only its own row can be decided about.
LEMMA ClearApproval ==
    ASSUME NEW s \in Int, Clear(s), NEW r \in LinearRows, Approvable(r)
    PROVE  r[1] = s
  BY LinearParts DEF Clear, Approvable, Closed, Unopened

\* What happens to the row of a clear stage disturbs nothing.
LEMMA ClearKept ==
    ASSUME NEW s \in Int, Clear(s),
           \A q \in LinearRows : q[1] # s =>
               \/ status'[q] = status[q]
               \/ status[q] \in Unopened /\ status'[q] = "skipped"
               \/ status[q] \in Unopened /\ status'[q] \in Unopened /\ q[1] > s
    PROVE  Clear(s)' /\ Ordered'
  <1>1. Clear(s)'
    BY LinearParts DEF Clear, Closed, Unopened
  <1>2. (Clear(s) => Ordered)'
    <2>1. ASSUME Clear(s)' PROVE Ordered'
      <3> SUFFICES ASSUME NEW r \in LinearRows, NEW q \in LinearRows, q[1] < r[1],
                          status'[r] \in Opened
                   PROVE  status'[q] \in Closed
        BY DEF Ordered
      <3>1. r[1] \in Int /\ q[1] \in Int
        BY LinearParts
      <3>2. ~(r[1] > s)
        BY <2>1 DEF Clear, Opened, Unopened
      <3> QED
        BY <2>1, <3>1, <3>2 DEF Clear
    <2> QED
      BY <2>1
  <1> QED
    BY <1>1, <1>2

\* Passing over changes no order.
LEMMA OrderPassed ==
    ASSUME Ordered,
           \A q \in LinearRows : \/ status'[q] = status[q]
                                 \/ status[q] = "not_started" /\ status'[q] = "skipped"
    PROVE  Ordered' /\ \A s \in Int : Clear(s) => Clear(s)'
  <1>1. Ordered'
    BY DEF Ordered, Opened, Closed
  <1>2. ASSUME NEW s \in Int, Clear(s) PROVE Clear(s)'
    BY <1>2 DEF Clear, Closed, Unopened
  <1> QED
    BY <1>1, <1>2

LEMMA OrderApproved ==
    ASSUME TypeInv, Ordered, NoneFailed, NEW f \in Features, NEW r, NEW ok,
           Approvable(r), ApproveAndAdvance(f, r, ok)
    PROVE  Ordered' /\ \A s \in Int : Clear(s) => Clear(s)'
  <1>1. r \in Rows /\ status[r] \in {"awaiting_approval", "revising"}
    BY DEF Approvable
  <1>2. \A q \in Rows \ {r} :
                \/ status'[q] = status[q]
                \/ q \in NextRow(f, r[1]) /\ status'[q] \in {"not_started", "skipped"}
                \/ status[q] = "not_started" /\ status'[q] = "skipped"
    BY <1>1, ApprovedRows
  <1>3. \A q \in NextRow(f, r[1]) : q[1] > r[1] /\ r[1] \in LinearStages
    BY DEF NextRow, Follows
  <1>4. CASE r[1] \in LinearStages
    <2>1. r \in LinearRows /\ r[1] \in Int
      BY <1>1, <1>4, LinearIs, LinearParts
    <2>2. Clear(r[1])
      BY <1>1, <2>1, OpenClear
    <2>3. Clear(r[1])' /\ Ordered'
      <3>1. \A q \in LinearRows : q[1] # r[1] => q \in Rows \ {r}
        BY LinearParts
      <3>2. \A q \in LinearRows : q[1] > r[1] => status[q] \in Unopened
        BY <2>2 DEF Clear
      <3> QED
        BY <1>2, <1>3, <2>1, <2>2, <3>1, <3>2, ClearKept DEF Unopened
    <2>4. ASSUME NEW s \in Int, Clear(s) PROVE Clear(s)'
      <3>1. s = r[1]
        BY <2>1, <2>4, ClearApproval
      <3> QED
        BY <2>3, <3>1
    <2> QED
      BY <2>3, <2>4
  <1>5. CASE r[1] \notin LinearStages
    <2>1. \A q \in LinearRows : q \in Rows \ {r}
      BY <1>5, LinearParts
    <2> QED
      BY <1>2, <1>3, <1>5, <2>1, OrderPassed
  <1> QED
    BY <1>4, <1>5

\* RunStage's dispatch error is the only write of failed.
LEMMA NoneFailedStep ==
    ASSUME TypeInv, NoneFailed, "dispatch" \notin Faults, [Next]_vars
    PROVE  NoneFailed'
  <1>1. ASSUME NEW f \in Features, NEW r, NEW ok, Approvable(r), ApproveAndAdvance(f, r, ok)
        PROVE  NoneFailed'
    BY <1>1, ApprovedRows DEF Approvable, NoneFailed
  <1>2. ASSUME NEW r, NEW st, st # "failed", status' = [status EXCEPT ![r] = st]
        PROVE  NoneFailed'
    BY <1>2 DEF NoneFailed, TypeInv, TypeOK
  <1>3. ASSUME status' = status PROVE NoneFailed'
    BY <1>3 DEF NoneFailed
  <1>4. ASSUME NEW p \in Procs, Advance(p) PROVE NoneFailed'
    <2>1. CASE \/ DecideWait(p) \/ DecideApprove(p) \/ DecideRerun(p)
               \/ DecidePrepare(p) \/ DecideBolt(p) \/ DecideMerge(p)
               \/ DecideStage(p) \/ DecideDone(p)
      BY <2>1, DecidedRows DEF NoneFailed
    <2>2. CASE AutoApprove(p) \/ BoltApprove(p)
      <3>1. \/ status' = status
            \/ Approvable(Row(p)) /\ \E ok : ApproveAndAdvance(snap[p], Row(p), ok)
        BY <2>2 DEF AutoApprove, BoltApprove, db
      <3>2. snap[p] \in Features
        BY DEF TypeInv, TypeOK
      <3> QED
        BY <1>1, <1>3, <3>1, <3>2
    <2>3. CASE \/ Spawned(p) \/ ActPrepare(p) \/ MergeBegin(p) \/ MergeEnd(p) \/ Finish(p)
               \/ Unmark(p) \/ BoltCompletes(p) \/ BoltPauses(p) \/ BoltHalts(p)
               \/ Mark(p) \/ LateMark(p) \/ CheckActive(p) \/ ResumeExits(p)
      BY <1>3, <2>3 DEF Spawned, ActPrepare, MergeBegin, MergeEnd, Finish, Unmark,
                        BoltCompletes, BoltPauses, BoltHalts, Mark, LateMark, CheckActive,
                        ResumeExits, db
    <2>4. CASE ProcessFailure(p) \/ ProcessAutoApprove(p) \/ ProcessNeedsReview(p)
      <3>1. \E st \in {"revising", "completed", "awaiting_approval"} :
                status' = [status EXCEPT ![Row(p)] = st]
        BY <2>4 DEF ProcessFailure, ProcessAutoApprove, ProcessNeedsReview, Process, SetRow
      <3> QED
        BY <1>2, <3>1
    <2>5. CASE BoltStart(p) \/ ResumeMarks(p)
      BY <2>5 DEF BoltStart, ResumeMarks, NoneFailed
    <2>6. CASE ActStage(p) \/ BoltRunStage(p)
      <3>1. status' = status \/ \E r : status' = [status EXCEPT ![r] = "in_progress"]
        BY <2>6 DEF ActStage, BoltRunStage, RunStageBegin, SetRow
      <3> QED
        BY <1>2, <1>3, <3>1
    <2> QED
      BY <1>4, <2>1, <2>2, <2>3, <2>4, <2>5, <2>6 DEF Advance
  <1>5. ASSUME NEW p \in Procs, AgentEnds(p) PROVE NoneFailed'
    <2>1. \/ status' = status
          \/ \E st \in {"awaiting_approval", "revising"} :
                status' = [status EXCEPT ![Row(p)] = st]
      BY <1>5 DEF AgentEnds, AgentPasses, AgentFails, SmokeFails, QuotaExhausted,
                  DispatchFails, SetupFails, Returns, Errs, SetRow
    <2> QED
      BY <1>2, <1>3, <2>1
  <1>6. CASE UserRequest
    <2>1. CASE \/ RequestPrepare \/ RequestScope \/ RequestCancel
               \/ \E p \in Procs : \/ RequestRun(p) \/ RequestBolt(p) \/ RequestResume(p)
                                   \/ RequestMode(p)
      BY <1>3, <2>1 DEF RequestPrepare, RequestScope, RequestCancel, RequestRun, RequestBolt,
                        RequestResume, RequestMode, Accepted, db
    <2>2. CASE \E p \in Procs : RequestApprove(p)
      <3>1. PICK s \in Stage : /\ Approvable(RowOf(s))
                               /\ \E ok : ApproveAndAdvance(feature, RowOf(s), ok)
        BY <2>2 DEF RequestApprove
      <3>2. feature \in Features
        BY DEF TypeInv, TypeOK
      <3> QED
        BY <1>1, <3>1, <3>2
    <2>3. CASE (\E p \in Procs : RequestForce(p)) \/ RequestJump
      BY <2>3 DEF RequestForce, RequestJump, JumpTo, Skip, NoneFailed
    <2>4. CASE RequestReject \/ RequestAddSkipped
      <3>1. \E r : \E st \in {"revising", "not_started"} :
                status' = [status EXCEPT ![r] = st]
        BY <2>4 DEF RequestReject, RequestAddSkipped, SendBack, SetRow
      <3> QED
        BY <1>2, <3>1
    <2>5. CASE RequestAccept
      <3>1. \E r \in Rows :
                status' = Advanced([status EXCEPT ![r] = "completed"], feature, r[1])
        BY <2>5 DEF RequestAccept, AcceptAsIs
      <3> QED
        BY <3>1 DEF Advanced, NoneFailed, TypeInv, TypeOK
    <2> QED
      BY <1>6, <2>1, <2>2, <2>3, <2>4, <2>5 DEF UserRequest
  <1>7. CASE Crash
    BY <1>7 DEF Crash, NoneFailed
  <1>8. CASE UNCHANGED vars
    BY <1>3, <1>8 DEF vars, db
  <1> QED
    BY <1>4, <1>5, <1>6, <1>7, <1>8 DEF Next

\* The only goroutine there is keeps what it works on in order.
LEMMA WorkMove ==
    ASSUME TypeInv, SoleInv, NEW p \in Live, OthersKept(p),
           (LinearWork(p) => Clear(job[p].stage))'
    PROVE  WorkClear'
  <1> SUFFICES ASSUME NEW q \in Procs, LinearWork(q)' PROVE Clear(job[q].stage)'
    BY DEF WorkClear
  <1>1. CASE q = p
    BY <1>1
  <1>2. CASE q # p
    <2>1. p \in Procs
      BY DEF Live
    <2>2. pc'[q] = pc[q]
      BY <1>2, <2>1 DEF OthersKept
    <2>3. q \in Live
      BY <2>2 DEF LinearWork, Live
    <2> QED
      BY <1>2, <2>3 DEF SoleInv, AtMostOne
  <1> QED
    BY <1>1, <1>2

\* A step that keeps the linear rows and leaves nobody working who was not.
LEMMA WorkQuiet ==
    ASSUME TypeInv, OrderInv,
           \A q \in Procs : LinearWork(q)' => LinearWork(q) /\ job'[q] = job[q],
           Ordered', \A s \in Int : Clear(s) => Clear(s)'
    PROVE  Ordered' /\ WorkClear'
  <1> SUFFICES ASSUME NEW q \in Procs, LinearWork(q)' PROVE Clear(job[q].stage)'
    BY DEF WorkClear
  <1>1. LinearWork(q) /\ job'[q] = job[q]
    OBVIOUS
  <1>2. job[q].stage \in Int
    BY StagesAssumption DEF TypeInv, TypeOK, Jobs
  <1>3. Clear(job[q].stage)
    BY <1>1 DEF OrderInv, WorkClear
  <1>4. ASSUME NEW s \in Int, Clear(s), s = job[q].stage PROVE Clear(job[q].stage)'
    <2>1. Clear(s)'
      BY <1>4
    <2>2. s = job'[q].stage
      BY <1>1, <1>4
    <2> QED
      BY <2>1, <2>2 DEF Clear
  <1> QED
    BY <1>2, <1>3, <1>4

\* A step of p that leaves p without work, and the linear rows alone but for
\* what a walk passes over.
LEMMA WorkEnds ==
    ASSUME TypeInv, OrderInv, NEW p \in Procs, OthersKept(p), ~LinearWork(p)',
           \A q \in LinearRows : \/ status'[q] = status[q]
                                 \/ status[q] = "not_started" /\ status'[q] = "skipped"
    PROVE  Ordered' /\ WorkClear'
  <1>1. \A q \in Procs : LinearWork(q)' => LinearWork(q) /\ job'[q] = job[q]
    BY DEF OthersKept, LinearWork
  <1> QED
    BY <1>1, OrderPassed, WorkQuiet DEF OrderInv

\* A decision to run the first stage that is not started: the rows in scope
\* before it were, and the others before it are passed over.
LEMMA OrderChosen ==
    ASSUME TypeInv, OrderInv, NEW r \in Rows, NoneOpen,
           First(r, Walkable(feature.scope)),
           status' = Skip(status, PassedOver(status, feature.scope))
    PROVE  Clear(r[1])' /\ Ordered'
  <1> DEFINE c == feature.scope
  <1>1. r \in LinearRows /\ r[1] \in Int /\ status[r] = "not_started"
    BY LinearIs, LinearParts DEF First, Walkable, With
  <1>2. \A q \in LinearRows : status[q] \in {"absent", "not_started", "completed", "skipped"}
    BY LinearParts
       DEF NoneOpen, NoneWaiting, NoneRunning, With, OrderInv, NoneFailed, TypeInv,
           TypeOK, RowStatus
  <1>3. \A q \in LinearRows : status'[q] = IF q \in PassedOver(status, c) THEN "skipped"
                                           ELSE status[q]
    BY LinearParts DEF Skip
  <1>4. \A q \in PassedOver(status, c) : status[q] = "not_started"
    BY DEF PassedOver
  <1>5. ASSUME NEW q \in LinearRows, q[1] < r[1] PROVE status'[q] \in Closed
    <2>1. CASE status[q] # "not_started"
      BY <1>2, <1>3, <1>5, <2>1 DEF Closed
    <2>2. CASE status[q] = "not_started"
      <3>1. q \in Rows /\ q[1] \in LinearStages /\ q[1] \in Int
        BY LinearParts
      <3>2. ~InScope(c, q[1])
        BY <1>5, <2>2, <3>1 DEF First, Walkable, With, Before
      <3>3. ASSUME NEW x \in Rows, status[x] = "not_started", x[1] \in LinearStages,
                   InScope(c, x[1])
            PROVE  q[1] < x[1]
        <4>1. ~Before(x, r)
          BY <3>3 DEF First, Walkable, With
        <4>2. x[1] \in Int
          BY <3>3, LinearIs, LinearParts
        <4> QED
          BY <1>1, <1>5, <3>1, <4>1, <4>2 DEF Before
      <3>4. q \in PassedOver(status, c)
        BY <2>2, <3>1, <3>2, <3>3 DEF PassedOver
      <3> QED
        BY <1>3, <3>4 DEF Closed
    <2> QED
      BY <2>1, <2>2
  <1>6. ASSUME NEW q \in LinearRows, q[1] > r[1] PROVE status'[q] \in Unopened
    <2>1. r[1] < q[1]
      BY <1>1, <1>6, LinearParts
    <2>2. status[q] # "completed"
      BY <1>1, <2>1 DEF OrderInv, Ordered, Opened, Closed
    <2> QED
      BY <1>2, <1>3, <2>2 DEF Unopened
  <1>7. Clear(r[1])'
    BY <1>5, <1>6 DEF Clear
  <1>8. Ordered'
    BY <1>3, <1>4, OrderPassed DEF OrderInv
  <1> QED
    BY <1>7, <1>8

LEMMA OrderDecisions ==
    ASSUME TypeInv, SoleInv, OrderInv, NEW p \in Procs,
           \/ DecideWait(p) \/ DecideApprove(p) \/ DecideRerun(p)
           \/ DecidePrepare(p) \/ DecideBolt(p) \/ DecideMerge(p)
           \/ DecideStage(p) \/ DecideDone(p)
    PROVE  Ordered' /\ WorkClear'
  <1>1. OthersKept(p)
    BY CopySteps DEF CopyStep, Advance
  <1>2. pc[p] = "decide" /\ p \in Live
    BY DEF DecideWait, DecideApprove, DecideRerun, DecidePrepare, DecideBolt,
           DecideMerge, DecideStage, DecideDone, Decide, Live
  <1>3. \A q \in LinearRows : \/ status'[q] = status[q]
                              \/ status[q] = "not_started" /\ status'[q] = "skipped"
    BY DecidedRows, LinearParts
  <1>4. ASSUME NEW l, NEW j, Decide(p, l, j), ~(l = "act" /\ j.kind = "stage"),
               l \in {"unmark", "act", "boltStart", "finish"}
        PROVE  Ordered' /\ WorkClear'
    <2>1. pc'[p] = l /\ job'[p] = j
      BY <1>4 DEF Decide, Goto, Take, TypeInv, TypeOK
    <2> QED
      BY <1>1, <1>3, <1>4, <2>1, WorkEnds DEF LinearWork
  <1>5. ASSUME NEW s \in Int, Decide(p, "act", Job("stage", s, 0)), Clear(s)', Ordered'
        PROVE  Ordered' /\ WorkClear'
    <2>1. job'[p].stage = s
      BY <1>5 DEF Decide, Take, Job, TypeInv, TypeOK
    <2>2. Clear(job[p].stage)'
      BY <1>5, <2>1 DEF Clear
    <2> QED
      BY <1>1, <1>2, <1>5, <2>2, WorkMove
  <1>6. CASE DecideWait(p) \/ DecideDone(p) \/ DecideApprove(p) \/ DecidePrepare(p)
             \/ DecideBolt(p) \/ DecideMerge(p)
    BY <1>4, <1>6 DEF DecideWait, DecideDone, DecideApprove, DecidePrepare, DecideBolt,
                      DecideMerge, Job, NoJob
  <1>7. CASE DecideRerun(p)
    <2>1. PICK r \in Rows :
            /\ First(r, With("revising"))
            /\ IF r[1] \in BoltStages
               THEN Decide(p, "boltStart", Job("bolt", 1, r[2]))
               ELSE Decide(p, "act", Job("stage", r[1], 0))
      BY <1>7 DEF DecideRerun
    <2>2. CASE r[1] \in BoltStages
      BY <1>4, <2>1, <2>2
    <2>3. CASE r[1] \notin BoltStages
      <3>1. r \in LinearRows /\ r[1] \in Int /\ status[r] = "revising"
        BY <2>1, <2>3, RowParts, LinearIs, LinearParts DEF First, With
      <3>2. Clear(r[1])
        BY <3>1, OpenClear DEF OrderInv
      <3>3. Clear(r[1])' /\ Ordered'
        BY <1>3, <3>1, <3>2, OrderPassed DEF OrderInv
      <3> QED
        BY <1>5, <2>1, <2>3, <3>1, <3>3
    <2> QED
      BY <2>2, <2>3
  <1>8. CASE DecideStage(p)
    <2>1. PICK r \in Rows : /\ First(r, Walkable(feature.scope))
                            /\ Decide(p, "act", Job("stage", r[1], 0))
      BY <1>8 DEF DecideStage
    <2>2. NoneOpen /\ status' = Skip(status, PassedOver(status, feature.scope))
      BY <1>8 DEF DecideStage, LinearPart
    <2>3. Clear(r[1])' /\ Ordered'
      BY <2>1, <2>2, OrderChosen
    <2>4. r[1] \in Int
      BY <2>1, RowParts, StagesAssumption DEF Stage
    <2> QED
      BY <1>5, <2>1, <2>3, <2>4
  <1> QED
    BY <1>6, <1>7, <1>8

\* Running a linear stage, and judging it, writes the row of that stage only.
LEMMA OrderWorked ==
    ASSUME TypeInv, SoleInv, OrderInv, NEW p \in Procs, OthersKept(p), p \in Live,
           LinearWork(p), job' = job,
           \A q \in LinearRows : q[1] # job[p].stage => status'[q] = status[q]
    PROVE  Ordered' /\ WorkClear'
  <1>1. Clear(job[p].stage) /\ job[p].stage \in Int
    BY StagesAssumption DEF OrderInv, WorkClear, TypeInv, TypeOK, Jobs
  <1>2. ASSUME NEW s \in Int, s = job[p].stage PROVE Clear(s)' /\ Ordered'
    BY <1>1, <1>2, ClearKept
  <1>3. Ordered'
    BY <1>1, <1>2
  <1>4. Clear(job[p].stage)'
    BY <1>1, <1>2 DEF Clear
  <1> QED
    BY <1>3, <1>4, WorkMove

LEMMA OrderGoroutine ==
    ASSUME TypeInv, SoleInv, OrderInv, NoResume, NEW p \in Procs, Advance(p) \/ AgentEnds(p)
    PROVE  Ordered' /\ WorkClear'
  <1>1. OthersKept(p)
    BY CopySteps DEF CopyStep
  <1>2. ASSUME \A q \in LinearRows : status'[q] = status[q],
               NEW l, Goto(p, l), l \notin {"act", "agent", "process"}
        PROVE  Ordered' /\ WorkClear'
    <2>1. pc'[p] = l
      BY <1>2 DEF Goto, TypeInv, TypeOK
    <2> QED
      BY <1>1, <1>2, <2>1, WorkEnds DEF LinearWork
  <1>3. CASE \/ DecideWait(p) \/ DecideApprove(p) \/ DecideRerun(p)
             \/ DecidePrepare(p) \/ DecideBolt(p) \/ DecideMerge(p)
             \/ DecideStage(p) \/ DecideDone(p)
    BY <1>3, OrderDecisions
  <1>4. CASE \/ Spawned(p) \/ ActPrepare(p) \/ MergeBegin(p) \/ MergeEnd(p) \/ Finish(p)
             \/ Unmark(p) \/ BoltCompletes(p) \/ BoltPauses(p) \/ BoltHalts(p)
             \/ Mark(p) \/ LateMark(p) \/ CheckActive(p) \/ ResumeExits(p)
    <2>1. status' = status
      BY <1>4 DEF Spawned, ActPrepare, MergeBegin, MergeEnd, Finish, Unmark, BoltCompletes,
                  BoltPauses, BoltHalts, Mark, LateMark, CheckActive, ResumeExits, db
    <2>2. \E l \in PCs \ {"act", "agent", "process"} : Goto(p, l)
      BY <1>4 DEF Spawned, ActPrepare, MergeBegin, MergeEnd, Finish, Unmark, BoltCompletes,
                  BoltPauses, BoltHalts, Mark, LateMark, CheckActive, ResumeExits,
                  AfterBolt, PCs
    <2> QED
      BY <1>2, <2>1, <2>2
  <1>5. CASE AutoApprove(p) \/ BoltApprove(p)
    <2>1. PICK l \in {"decide", "unmark", "boltNext", "spawned"} : Goto(p, l)
      BY <1>5 DEF AutoApprove, BoltApprove, AfterBolt
    <2>2. CASE status' = status
      BY <1>2, <2>1, <2>2
    <2>3. CASE Approvable(Row(p)) /\ \E ok : ApproveAndAdvance(snap[p], Row(p), ok)
      <3>1. snap[p] \in Features
        BY DEF TypeInv, TypeOK
      <3>2. Ordered' /\ \A s \in Int : Clear(s) => Clear(s)'
        BY <2>3, <3>1, OrderApproved DEF OrderInv
      <3>3. ~LinearWork(p)'
        BY <2>1 DEF LinearWork, Goto, TypeInv, TypeOK
      <3>4. \A q \in Procs : LinearWork(q)' => LinearWork(q) /\ job'[q] = job[q]
        BY <1>1, <3>3 DEF OthersKept, LinearWork
      <3> QED
        BY <3>2, <3>4, WorkQuiet
    <2> QED
      BY <1>5, <2>2, <2>3 DEF AutoApprove, BoltApprove, db
  <1>6. CASE ProcessFailure(p) \/ ProcessAutoApprove(p) \/ ProcessNeedsReview(p)
    <2>1. /\ pc[p] = "process" /\ job' = job
          /\ \E st : status' = [status EXCEPT ![Row(p)] = st]
      BY <1>6 DEF ProcessFailure, ProcessAutoApprove, ProcessNeedsReview, Process, SetRow
    <2>2. LinearWork(p) /\ p \in Live
      BY <2>1 DEF LinearWork, Live, TypeInv, JobsOK, JobOK
    <2>3. \A q \in LinearRows : q[1] # job[p].stage => status'[q] = status[q]
      BY <2>1, LinearParts DEF Row, TypeInv, TypeOK
    <2> QED
      BY <1>1, <2>1, <2>2, <2>3, OrderWorked
  <1>7. CASE AgentEnds(p)
    <2>1. /\ pc[p] = "agent" /\ job' = job
          /\ status' = status \/ \E st : status' = [status EXCEPT ![Row(p)] = st]
      BY <1>7 DEF AgentEnds, AgentPasses, AgentFails, SmokeFails, QuotaExhausted,
                  DispatchFails, SetupFails, Returns, Errs, SetRow
    <2>2. \A q \in LinearRows : q[1] # job[p].stage => status'[q] = status[q]
      BY <2>1, LinearParts DEF Row, TypeInv, TypeOK
    <2>3. CASE ~OnBolt(p)
      <3>1. LinearWork(p) /\ p \in Live
        BY <2>1, <2>3 DEF LinearWork, Live, OnBolt
      <3> QED
        BY <1>1, <2>1, <2>2, <3>1, OrderWorked
    <2>4. CASE OnBolt(p)
      <3>1. \A q \in LinearRows : q[1] # job[p].stage
        BY <2>4, LinearParts DEF OnBolt, LinearStages
      <3>2. \E l \in {"boltGate", "unmark"} : Goto(p, l)
        BY <1>7, <2>4 DEF AgentEnds, AgentPasses, AgentFails, SmokeFails, QuotaExhausted,
                          DispatchFails, SetupFails, Returns, Errs
      <3> QED
        BY <1>2, <2>2, <3>1, <3>2
    <2> QED
      BY <2>3, <2>4
  <1>8. CASE ActStage(p)
    <2>1. CASE status[Row(p)] = "absent"
      BY <1>2, <1>8, <2>1 DEF ActStage
    <2>2. CASE status[Row(p)] # "absent"
      <3>1. /\ pc[p] = "act" /\ job[p].kind = "stage" /\ job' = job
            /\ status' = [status EXCEPT ![Row(p)] = "in_progress"]
        BY <1>8, <2>2 DEF ActStage, RunStageBegin, SetRow
      <3>2. LinearWork(p) /\ p \in Live
        BY <3>1 DEF LinearWork, Live
      <3>3. \A q \in LinearRows : q[1] # job[p].stage => status'[q] = status[q]
        BY <3>1, LinearParts DEF Row, TypeInv, TypeOK
      <3> QED
        BY <1>1, <3>1, <3>2, <3>3, OrderWorked
    <2> QED
      BY <2>1, <2>2
  <1>9. CASE BoltStart(p)
    <2>1. \A q \in LinearRows : status'[q] = status[q]
      BY <1>9, LinearParts DEF BoltStart, LinearStages
    <2>2. Goto(p, "unmark") \/ Goto(p, "boltNext")
      BY <1>9 DEF BoltStart
    <2> QED
      BY <1>2, <2>1, <2>2
  <1>10. CASE BoltRunStage(p)
    <2>1. PICK s \in BoltTodo(p) :
              /\ RunStageBegin(p, <<s, job[p].bolt>>)
              /\ Take(p, Job(job[p].kind, s, job[p].bolt))
      BY <1>10 DEF BoltRunStage
    <2>2. s \in BoltStages
      BY DEF BoltTodo
    <2>3. \A q \in LinearRows : status'[q] = status[q]
      BY <2>1, <2>2, LinearParts DEF RunStageBegin, SetRow, LinearStages, TypeInv, TypeOK
    <2>4. pc'[p] = "agent" /\ job'[p].stage = s
      BY <2>1 DEF RunStageBegin, Goto, Take, Job, TypeInv, TypeOK
    <2> QED
      BY <1>1, <2>2, <2>3, <2>4, WorkEnds DEF LinearWork
  <1>11. ~ResumeMarks(p)
    BY DEF ResumeMarks, NoResume
  <1> QED
    BY <1>3, <1>4, <1>5, <1>6, <1>7, <1>8, <1>9, <1>10, <1>11 DEF Advance

Disorder == {"force", "cancel", "late_mark", "resume", "jump", "add", "accept"}

LEMMA OrderRequests ==
    ASSUME TypeInv, OrderInv, UserRequest, Requests \cap Disorder = {}
    PROVE  Ordered' /\ WorkClear'
  <1>1. \A q \in Procs : LinearWork(q)' => LinearWork(q) /\ job'[q] = job[q]
    <2> SUFFICES ASSUME NEW q \in Procs, LinearWork(q)'
                 PROVE  LinearWork(q) /\ job'[q] = job[q]
      OBVIOUS
    <2>1. pc'[q] \in {"act", "agent", "process"}
      BY DEF LinearWork
    <2>2. pc'[q] = pc[q]
      <3>1. CASE pc' = pc
        BY <3>1
      <3>2. CASE \E p \in Procs : \E l \in {"idle", "checkActive", "marking"} : Goto(p, l)
        BY <2>1, <3>2 DEF Goto, TypeInv, TypeOK
      <3> QED
        BY <3>1, <3>2, RequestSteps
    <2>3. job'[q] = job[q]
      BY <2>1, <2>2, CopyRequests
    <2> QED
      BY <2>2, <2>3 DEF LinearWork
  <1>2. ASSUME Ordered', \A s \in Int : Clear(s) => Clear(s)'
        PROVE  Ordered' /\ WorkClear'
    BY <1>1, <1>2, WorkQuiet
  <1>3. ASSUME \A q \in LinearRows : status'[q] = status[q]
        PROVE  Ordered' /\ WorkClear'
    BY <1>2, <1>3, OrderPassed DEF OrderInv
  <1>4. CASE \/ RequestPrepare \/ RequestScope
             \/ \E p \in Procs : RequestRun(p) \/ RequestBolt(p) \/ RequestMode(p)
    BY <1>3, <1>4 DEF RequestPrepare, RequestScope, RequestRun, RequestBolt, RequestMode,
                      Accepted, db
  <1>5. CASE \E p \in Procs : RequestApprove(p)
    <2>1. PICK s \in Stage : /\ Approvable(RowOf(s))
                             /\ \E ok : ApproveAndAdvance(feature, RowOf(s), ok)
      BY <1>5 DEF RequestApprove
    <2>2. feature \in Features
      BY DEF TypeInv, TypeOK
    <2> QED
      BY <1>2, <2>1, <2>2, OrderApproved DEF OrderInv
  <1>6. CASE RequestReject
    <2>1. PICK r : Approvable(r) /\ status' = [status EXCEPT ![r] = "revising"]
      BY <1>6 DEF RequestReject, SendBack, SetRow
    <2>2. r \in Rows /\ status[r] \in {"awaiting_approval", "revising"}
      BY <2>1 DEF Approvable
    <2>3. \A q \in Rows : q # r => status'[q] = status[q]
      BY <2>1 DEF TypeInv, TypeOK
    <2>4. CASE r \in LinearRows
      <3>1. r[1] \in Int /\ Clear(r[1])
        BY <2>2, <2>4, LinearParts, OpenClear DEF OrderInv
      <3>2. \A q \in LinearRows : q[1] # r[1] => status'[q] = status[q]
        BY <2>3, LinearParts
      <3>3. Clear(r[1])' /\ Ordered'
        BY <3>1, <3>2, ClearKept
      <3>4. \A x \in Int : Clear(x) => x = r[1]
        BY <2>1, <2>4, ClearApproval
      <3>5. ASSUME NEW x \in Int, Clear(x) PROVE Clear(x)'
        BY <3>3, <3>4, <3>5
      <3> QED
        BY <1>2, <3>3, <3>5
    <2>5. CASE r \notin LinearRows
      BY <1>3, <2>3, <2>5, LinearParts
    <2> QED
      BY <2>4, <2>5
  <1>7. /\ ~RequestAccept /\ ~RequestJump /\ ~RequestAddSkipped /\ ~RequestCancel
        /\ \A p \in Procs : ~RequestForce(p) /\ ~RequestResume(p)
    BY DEF Disorder, RequestAccept, RequestJump, RequestAddSkipped, RequestCancel,
           RequestForce, RequestResume, Request
  <1> QED
    BY <1>4, <1>5, <1>6, <1>7 DEF UserRequest

LEMMA OrderStep ==
    ASSUME TypeInv, SoleInv, NoResume, OrderInv, [Next]_vars,
           "dispatch" \notin Faults, Requests \cap Disorder = {}
    PROVE  OrderInv'
  <1>1. NoneFailed'
    BY NoneFailedStep DEF OrderInv
  <1>2. CASE \E p \in Procs : Advance(p) \/ AgentEnds(p)
    BY <1>1, <1>2, OrderGoroutine DEF OrderInv
  <1>3. CASE UserRequest
    BY <1>1, <1>3, OrderRequests DEF OrderInv
  <1>4. CASE Crash
    <2>1. \A q \in Procs : ~LinearWork(q)'
      <3>1. \A q \in Procs : pc'[q] \in {"idle", "spawned"}
        BY <1>4 DEF Crash
      <3> QED
        BY <3>1 DEF LinearWork
    <2>2. \A r \in LinearRows :
             \/ status'[r] = status[r]
             \/ status[r] = "in_progress" /\ status'[r] = "revising"
      BY <1>4, LinearParts DEF Crash, Interrupted, With
    <2>3. Ordered'
      BY <2>2 DEF OrderInv, Ordered, Opened, Closed
    <2> QED
      BY <1>1, <2>1, <2>3 DEF OrderInv, WorkClear
  <1>5. CASE UNCHANGED vars
    BY <1>1, <1>5 DEF vars, db, local, OrderInv, Ordered, WorkClear, LinearWork, Clear
  <1> QED
    BY <1>2, <1>3, <1>4, <1>5 DEF Next

LEMMA OrderInit == Init => OrderInv
  <1> SUFFICES ASSUME Init PROVE OrderInv
    OBVIOUS
  <1>1. PICK m \in StartModes, c \in Scopes, p \in Procs, q \in Procs :
            Created(m, c, p, q)
    BY DEF Init
  <1>2. \A r \in Rows : status[r] \in {"not_started", "absent"}
    BY <1>1 DEF Created
  <1>3. Ordered /\ NoneFailed
    BY <1>2, LinearParts DEF Ordered, NoneFailed, Opened
  <1>4. WorkClear
    BY <1>1 DEF Created, WorkClear, LinearWork
  <1> QED
    BY <1>3, <1>4 DEF OrderInv

LEMMA OrderAlways ==
    ASSUME ~Overlap, Requests \cap Disorder = {}, "dispatch" \notin Faults
    PROVE  Spec => [](TypeInv /\ SoleInv /\ NoResume /\ OrderInv)
  <1>1. Spec => []TypeInv
    BY TypeInit, TypeStep, PTL DEF Spec
  <1>2. Spec => []SoleInv
    BY SoleAlways DEF Disorder
  <1>3. /\ Init => NoResume
        /\ TypeInv /\ NoResume /\ [Next]_vars => NoResume'
    BY OwnedInit, NoResumeStep DEF OwnedInv, Disorder
  <1>4. Spec => []NoResume
    BY <1>1, <1>3, PTL DEF Spec
  <1>5. TypeInv /\ SoleInv /\ NoResume /\ OrderInv /\ [Next]_vars => OrderInv'
    BY OrderStep
  <1> QED
    BY <1>1, <1>2, <1>4, <1>5, OrderInit, PTL DEF Spec

\* A linear stage is started by the goroutine that works on it.
LEMMA StartsClear ==
    ASSUME TypeInv, NoResume, OrderInv, [Next]_vars,
           NEW r \in LinearRows, Starts(r)
    PROVE  Clear(r[1])
  <1>1. ~OpensNone /\ status' # status
    BY LinearParts DEF Starts, OpensNone
  <1>2. PICK p \in Procs : ActStage(p) \/ BoltRunStage(p)
    <2>1. ~Crash /\ ~UserRequest
      BY <1>1, RequestsOpenNone DEF Crash, OpensNone
    <2>2. PICK p \in Procs : Advance(p) \/ AgentEnds(p)
      BY <1>1, <2>1 DEF Next, vars, db
    <2>3. ~AgentEnds(p)
      <3>1. ASSUME AgentEnds(p) PROVE OpensNone
        <4>1. \/ status' = status
              \/ \E st \in {"awaiting_approval", "revising", "failed"} :
                    status' = [status EXCEPT ![Row(p)] = st]
          BY <3>1 DEF AgentEnds, AgentPasses, AgentFails, SmokeFails, QuotaExhausted,
                      DispatchFails, SetupFails, Returns, Errs, SetRow
        <4> QED
          BY <4>1 DEF OpensNone, TypeInv, TypeOK
      <3> QED
        BY <1>1, <3>1
    <2>4. ASSUME ~ActStage(p), ~BoltRunStage(p) PROVE OpensNone
      <3>1. CASE \/ DecideWait(p) \/ DecideApprove(p) \/ DecideRerun(p)
                 \/ DecidePrepare(p) \/ DecideBolt(p) \/ DecideMerge(p)
                 \/ DecideStage(p) \/ DecideDone(p)
        BY <3>1, DecidedRows DEF OpensNone
      <3>2. CASE AutoApprove(p) \/ BoltApprove(p)
        <4>1. \/ status' = status
              \/ Approvable(Row(p)) /\ \E ok : ApproveAndAdvance(snap[p], Row(p), ok)
          BY <3>2 DEF AutoApprove, BoltApprove, db
        <4>2. snap[p] \in Features
          BY DEF TypeInv, TypeOK
        <4> QED
          BY <1>1, <4>1, <4>2, ApproveOpensNone DEF Approvable
      <3>3. CASE ProcessFailure(p) \/ ProcessAutoApprove(p) \/ ProcessNeedsReview(p)
        <4>1. \E st \in {"revising", "completed", "awaiting_approval"} :
                  status' = [status EXCEPT ![Row(p)] = st]
          BY <3>3 DEF ProcessFailure, ProcessAutoApprove, ProcessNeedsReview, Process, SetRow
        <4> QED
          BY <4>1 DEF OpensNone, TypeInv, TypeOK
      <3>4. CASE BoltStart(p)
        BY <3>4 DEF BoltStart, OpensNone
      <3>5. ~ResumeMarks(p)
        BY DEF ResumeMarks, NoResume
      <3>6. CASE \/ Spawned(p) \/ ActPrepare(p) \/ MergeBegin(p) \/ MergeEnd(p) \/ Finish(p)
                 \/ Unmark(p) \/ BoltCompletes(p) \/ BoltPauses(p) \/ BoltHalts(p)
                 \/ Mark(p) \/ LateMark(p) \/ CheckActive(p) \/ ResumeExits(p)
        BY <1>1, <3>6 DEF Spawned, ActPrepare, MergeBegin, MergeEnd, Finish, Unmark,
                          BoltCompletes, BoltPauses, BoltHalts, Mark, LateMark,
                          CheckActive, ResumeExits, db
      <3> QED
        BY <2>2, <2>3, <2>4, <3>1, <3>2, <3>3, <3>4, <3>5, <3>6 DEF Advance
    <2> QED
      BY <1>1, <2>4
  <1>3. CASE BoltRunStage(p)
    <2>1. PICK s \in BoltStages :
              status' = [status EXCEPT ![<<s, job[p].bolt>>] = "in_progress"]
      BY <1>3 DEF BoltRunStage, BoltTodo, RunStageBegin, SetRow
    <2>2. status'[r] = status[r]
      BY <2>1, LinearParts DEF LinearStages, TypeInv, TypeOK
    <2> QED
      BY <2>2 DEF Starts
  <1>4. CASE ActStage(p)
    <2>1. /\ pc[p] = "act" /\ job[p].kind = "stage"
          /\ status' = [status EXCEPT ![Row(p)] = "in_progress"]
      BY <1>1, <1>4 DEF ActStage, RunStageBegin, SetRow
    <2>2. r = Row(p)
      BY <2>1, LinearParts DEF Starts, TypeInv, TypeOK
    <2>3. Clear(job[p].stage) /\ r[1] = job[p].stage
      BY <2>1, <2>2 DEF OrderInv, WorkClear, LinearWork, Row
    <2> QED
      BY <2>3
  <1> QED
    BY <1>2, <1>3, <1>4

\* Stages run in order: a linear stage starts only when every earlier one is
\* completed or skipped, in every mode and however the scope, the mode and the
\* gates change meanwhile, agents fail and crashes restart.  It takes one
\* request handler at a time, none of the requests that rearrange stages or
\* run beside the mark, and no stage given up as failed, which a walk passes.
THEOREM StagesInOrder ==
    ASSUME ~Overlap, Requests \cap Disorder = {}, "dispatch" \notin Faults
    PROVE  Spec => InOrder
  <1> DEFINE Early(r, q) == (Starts(r) /\ r[2] = 0 /\ q[2] = 0 /\ q[1] < r[1])
                              => status[q] \in {"completed", "skipped", "absent"}
  <1>1. ASSUME TypeInv, NoResume, OrderInv, [Next]_vars, NEW r \in Rows, NEW q \in Rows
        PROVE  Early(r, q)
    <2> SUFFICES ASSUME Starts(r), r[2] = 0, q[2] = 0, q[1] < r[1]
                 PROVE  status[q] \in Closed
      BY DEF Closed
    <2>1. r \in LinearRows /\ q \in LinearRows
      BY LinearIs
    <2>2. Clear(r[1])
      BY <1>1, <2>1, StartsClear
    <2> QED
      BY <2>1, <2>2 DEF Clear
  <1>2. TypeInv /\ NoResume /\ OrderInv /\ [Next]_vars =>
            [\A r, q \in Rows : Early(r, q)]_vars
    BY <1>1
  <1>3. Spec => [](TypeInv /\ SoleInv /\ NoResume /\ OrderInv)
    BY OrderAlways
  <1> QED
    BY <1>2, <1>3, PTL DEF Spec, InOrder
-----------------------------------------------------------------------------
(* The work of the scope.  Its rows were all created with the feature, and  *)
(* the only goroutine has a copy that trails the feature by an approval at  *)
(* most: what is finished stays finished, but for the stage that it works   *)
(* on while a user approves it.                                             *)

Attended == "approve" \in Requests
EndsLinear(c) == \E s \in LinearStages : InScope(c, s) /\ LastInScope(c, s)

\* f is the feature g, or was loaded before an approval closed it.
Trails(f, g) ==
    /\ f.scope = g.scope
    /\ \/ f.status = g.status
       \/ Attended /\ g.status = "done" /\ EndsLinear(g.scope)

ScopeRows == \A r \in LinearRows :
    IF InScope(feature.scope, r[1]) THEN status[r] \notin {"absent", "skipped", "failed"}
    ELSE status[r] = "absent"
\* What stays of this when dispatches fail: the scope's rows exist, and no others.
RowsExist == \A r \in LinearRows : status[r] = "absent" <=> ~InScope(feature.scope, r[1])
AllFinished == \A s \in ScopeWork : status[<<s, 0>>] = "completed"
CopiesTrail == \A p \in Procs : HoldsCopy(p) => Trails(snap[p], feature)
WorkOpen == \A p \in Procs :
    LinearWork(p) => /\ Row(p) \in LinearRows /\ status[Row(p)] # "absent"
                     /\ status[Row(p)] = "completed" => Attended
MergeAfterCI == \A p \in Procs : MergeAhead(p) => status[<<CIStage, 0>>] = "completed"
MergedStays ==
    /\ attempts # 0 => status[<<CIStage, 0>>] = "completed"
    /\ \A p \in Procs : (LinearWork(p) /\ job[p].stage = CIStage) => attempts = 0
FinishAfterAll == \A p \in Procs : pc[p] = "finish" => AllFinished
DoneAfterAll == feature.status = "done" => AllFinished \/ Attended
WorkInv == /\ ScopeRows /\ CopiesTrail /\ WorkOpen /\ MergedStays
           /\ MergeAfterCI /\ FinishAfterAll /\ DoneAfterAll
Steady == {"run", "bolt", "prepare", "approve", "reject", "mode", "crash"}

\* The linear rows but those in S keep what is completed, and nothing vanishes.
KeptBut(S) == \A q \in LinearRows \ S :
    \/ status'[q] = status[q]
    \/ /\ status[q] \notin {"completed", "absent"}
       /\ status'[q] \in {"in_progress", "awaiting_approval", "revising"}
RowFinished(s) ==
    /\ status[<<s, 0>>] \notin {"completed", "absent"} /\ Clear(s)
    /\ status'[<<s, 0>>] = "completed" /\ KeptBut({<<s, 0>>})
    /\ attempts' = attempts /\ feature'.scope = feature.scope
RowReopened(s) ==
    /\ Attended /\ status[<<s, 0>>] = "completed" /\ Clear(s)
    /\ s = CIStage => attempts = 0
    /\ status'[<<s, 0>>] \in {"in_progress", "awaiting_approval", "revising"}
    /\ KeptBut({<<s, 0>>})
    /\ attempts' = attempts /\ Trails(feature', feature)

\* What every step comes to: it finishes nothing, the earliest open stage, the
\* merge, or the feature; or it opens the stage that was finished last.
Keeps ==
    \/ KeptBut({}) /\ attempts' = attempts /\ Trails(feature', feature)
    \/ \E s \in LinearStages :
         /\ RowFinished(s)
         /\ \/ feature'.status = feature.status
            \/ feature'.status = "done" /\ LastInScope(feature.scope, s)
            \/ Trails(feature', feature) /\ ~LastInScope(feature.scope, s)
    \/ /\ KeptBut({}) /\ Same(feature', feature) /\ attempts = 0 /\ attempts' = 1
       /\ status[<<CIStage, 0>>] = "completed"
    \/ /\ KeptBut({}) /\ attempts' = attempts /\ AllFinished
       /\ feature'.status = "done" /\ feature'.scope = feature.scope
Reopens == \E s \in LinearStages : RowReopened(s)
WorkStep == Keeps \/ Reopens

LEMMA TrailSame ==
    ASSUME NEW f, NEW g, NEW h,
           (Same(f, g) /\ Trails(g, h)) \/ (Trails(f, g) /\ Same(g, h)) \/ Same(f, h)
    PROVE  Trails(f, h)
  BY DEF Same, Trails

\* No walk passes over a row: those out of scope do not exist.
LEMMA NonePassed ==
    ASSUME RowsExist, NEW st, NEW c, c = feature.scope,
           \A r \in LinearRows : st[r] = "not_started" =>
               status[r] # "absent" \/ InScope(c, r[1])
    PROVE  PassedOver(st, c) = {}
  <1> SUFFICES ASSUME NEW r \in PassedOver(st, c) PROVE FALSE
    OBVIOUS
  <1>1. r \in LinearRows /\ st[r] = "not_started" /\ ~InScope(c, r[1])
    BY LinearIs DEF PassedOver
  <1> QED
    BY <1>1 DEF RowsExist

LEMMA ScopeExists == ScopeRows => RowsExist
  BY DEF ScopeRows, RowsExist

\* An approval completes its row, and resets none that was begun.
LEMMA ApprovedWork ==
    ASSUME TypeInv, OrderInv, ScopeRows, NEW f \in Features, f.scope = feature.scope,
           NEW r, NEW ok, Approvable(r), ApproveAndAdvance(f, r, ok)
    PROVE  /\ status'[r] = "completed"
           /\ \A q \in LinearRows : q # r => status'[q] = status[q]
  <1> DEFINE st == Advanced([status EXCEPT ![r] = "completed"], f, r[1])
             c == AdvancedFeature(f, r[1]).scope
  <1>1. status' = Skip(st, PassedOver(st, c)) \/ status' = Skip(st, {})
    BY DEF ApproveAndAdvance
  <1>2. r \in Rows /\ status[r] \in {"awaiting_approval", "revising"}
    BY DEF Approvable
  <1>3. \A q \in NextRow(f, r[1]) : /\ q \in LinearRows /\ InScope(f.scope, q[1])
                                    /\ q[1] > r[1] /\ r[1] \in LinearStages
    BY LinearIs DEF NextRow, Follows
  <1>4. r \notin NextRow(f, r[1])
    BY <1>2, <1>3, RowParts, StagesAssumption DEF Stage
  <1>5. st[r] = "completed"
    BY <1>2, <1>4 DEF Advanced, TypeInv, TypeOK
  <1>6. \A q \in LinearRows : q # r => st[q] = status[q]
    <2> SUFFICES ASSUME NEW q \in LinearRows, q # r PROVE st[q] = status[q]
      OBVIOUS
    <2>1. q \in Rows
      BY LinearParts
    <2>2. CASE q \notin NextRow(f, r[1])
      BY <2>1, <2>2 DEF Advanced, TypeInv, TypeOK
    <2>3. CASE q \in NextRow(f, r[1])
      <3>1. r \in LinearRows
        BY <1>2, <1>3, <2>3, LinearIs
      <3>2. status[q] \in Unopened
        BY <1>2, <1>3, <2>3, <3>1, OpenClear DEF Clear, OrderInv
      <3>3. status[q] = "not_started"
        BY <1>3, <2>3, <3>2 DEF ScopeRows, Unopened
      <3> QED
        BY <2>1, <2>3, <3>3 DEF Advanced
    <2> QED
      BY <2>2, <2>3
  <1>7. c = feature.scope
    BY AdvancedCopy DEF Same
  <1>8. PassedOver(st, c) = {}
    BY <1>5, <1>6, <1>7, NonePassed, ScopeExists DEF TypeInv, TypeOK
  <1>9. \A q \in Rows : status'[q] = st[q]
    BY <1>1, <1>8 DEF Skip
  <1> HIDE DEF st, c
  <1> QED
    BY <1>2, <1>5, <1>6, <1>9, LinearParts

LEMMA WorkDecisions ==
    ASSUME TypeInv, RowsExist, NEW p \in Procs,
           \/ DecideWait(p) \/ DecideApprove(p) \/ DecideRerun(p)
           \/ DecidePrepare(p) \/ DecideBolt(p) \/ DecideMerge(p)
           \/ DecideStage(p) \/ DecideDone(p)
    PROVE  status' = status /\ feature' = feature /\ attempts' = attempts
  <1>1. feature' = feature /\ attempts' = attempts
    BY DEF DecideWait, DecideApprove, DecideRerun, DecidePrepare, DecideBolt,
           DecideMerge, DecideStage, DecideDone, Decide
  <1>2. status' = status \/ status' = Skip(status, PassedOver(status, feature.scope))
    BY DEF DecideWait, DecideApprove, DecideRerun, DecidePrepare, DecideBolt,
           DecideMerge, DecideStage, DecideDone
  <1>3. PassedOver(status, feature.scope) = {}
    BY NonePassed
  <1>4. Skip(status, {}) = status
    BY DEF Skip, TypeInv, TypeOK
  <1> QED
    BY <1>1, <1>2, <1>3, <1>4

\* The stage that finishes is the one that is being worked on, and it is of the
\* scope; the approval of the last one closes the feature.
LEMMA ApprovalFinishes ==
    ASSUME TypeInv, OrderInv, ScopeRows, NEW f \in Features, Trails(f, feature),
           NEW r, NEW ok, Approvable(r), ApproveAndAdvance(f, r, ok)
    PROVE  \/ /\ KeptBut({}) /\ attempts' = attempts /\ feature' = feature
              /\ r[1] \in BoltStages
           \/ /\ r[1] \in LinearStages /\ RowFinished(r[1]) /\ InScope(feature.scope, r[1])
              /\ \/ feature'.status = "done" /\ LastInScope(feature.scope, r[1])
                 \/ /\ ~LastInScope(feature.scope, r[1])
                    /\ Trails(feature', feature) /\ feature'.status = f.status
  <1>1. /\ status'[r] = "completed"
        /\ \A q \in LinearRows : q # r => status'[q] = status[q]
    BY ApprovedWork DEF Trails
  <1>2. r \in Rows /\ status[r] \in {"awaiting_approval", "revising"}
    BY DEF Approvable
  <1>3. feature' = AdvancedFeature(f, r[1]) /\ attempts' = attempts
    BY DEF ApproveAndAdvance
  <1>4. CASE r \in LinearRows
    <2>1. r[1] \in LinearStages /\ r = <<r[1], 0>> /\ r[1] \notin BoltStages
      BY <1>4, LinearParts DEF LinearStages
    <2>2. InScope(feature.scope, r[1]) /\ f.scope = feature.scope
      BY <1>2, <1>4 DEF ScopeRows, Trails
    <2>3. CASE LastInScope(feature.scope, r[1])
      <3>1. feature' = [f EXCEPT !.status = "done", !.stage = r[1]]
        BY <1>3, <2>1, <2>2, <2>3 DEF AdvancedFeature
      <3> QED
        BY <1>1, <1>2, <1>3, <1>4, <2>1, <2>2, <2>3, <3>1, OpenClear
           DEF RowFinished, KeptBut, OrderInv, Features
    <2>4. CASE ~LastInScope(feature.scope, r[1])
      <3>1. feature' = [f EXCEPT !.stage = StageAfter(f.scope, r[1])]
        BY <1>3, <2>1, <2>2, <2>4 DEF AdvancedFeature
      <3>2. Same(feature', f)
        BY <3>1 DEF Same, Features
      <3>3. Trails(feature', feature)
        BY <3>2, TrailSame
      <3>4. RowFinished(r[1])
        BY <1>1, <1>2, <1>3, <1>4, <2>1, <2>2, <3>2, OpenClear
           DEF RowFinished, KeptBut, OrderInv, Same
      <3> QED
        BY <2>1, <2>2, <2>4, <3>2, <3>3, <3>4 DEF Same
    <2> QED
      BY <2>3, <2>4
  <1>5. CASE r \notin LinearRows
    <2>1. r[1] \in BoltStages
      BY <1>2, <1>5, RowParts, LinearIs
    <2>2. feature' = feature
      BY <1>3, <2>1 DEF AdvancedFeature
    <2> QED
      BY <1>1, <1>3, <1>5, <2>1, <2>2 DEF KeptBut
  <1> QED
    BY <1>4, <1>5

LEMMA WorkAutoApprove ==
    ASSUME TypeInv, OrderInv, WorkInv, NEW p \in Procs, AutoApprove(p)
    PROVE  Keeps
  <1>1. /\ Trails(snap[p], feature) /\ snap[p] \in Features
    BY DEF AutoApprove, WorkInv, CopiesTrail, HoldsCopy, TypeInv, TypeOK
  <1>2. CASE UNCHANGED db
    BY <1>2 DEF db, Keeps, KeptBut, Trails
  <1>3. CASE Approvable(Row(p)) /\ \E ok : ApproveAndAdvance(snap[p], Row(p), ok)
    <2>1. PICK ok : ApproveAndAdvance(snap[p], Row(p), ok)
      BY <1>3
    <2>2. \/ KeptBut({}) /\ attempts' = attempts /\ feature' = feature
          \/ \E s \in LinearStages :
                /\ RowFinished(s)
                /\ \/ feature'.status = "done" /\ LastInScope(feature.scope, s)
                   \/ Trails(feature', feature) /\ ~LastInScope(feature.scope, s)
      BY <1>1, <1>3, <2>1, ApprovalFinishes DEF WorkInv
    <2> QED
      BY <2>2 DEF Keeps, Trails
  <1> QED
    BY <1>2, <1>3 DEF AutoApprove

\* What the goroutine writes to the row it works on finishes nothing, and opens
\* it when a user approved it meanwhile.
LEMMA WorkWrites ==
    ASSUME TypeInv, OrderInv, WorkInv, NEW p \in Procs,
           attempts' = attempts, Trails(feature', feature), LinearWork(p),
           NEW st \in {"in_progress", "awaiting_approval", "revising"},
           status' = [status EXCEPT ![Row(p)] = st]
    PROVE  Keeps \/ Reopens
  <1> DEFINE s == job[p].stage
  <1>1. Row(p) \in LinearRows /\ Row(p) \in Rows
    BY LinearParts DEF WorkInv, WorkOpen
  <1>2. /\ Row(p) = <<s, 0>> /\ s \in LinearStages /\ Row(p) \in LinearRows
    BY <1>1, LinearParts DEF Row
  <1>3. status'[Row(p)] = st /\ \A q \in LinearRows : q # Row(p) => status'[q] = status[q]
    BY <1>1, LinearParts DEF TypeInv, TypeOK
  <1>4. CASE status[Row(p)] # "completed"
    <2>1. KeptBut({})
      BY <1>3, <1>4 DEF KeptBut, WorkInv, WorkOpen
    <2> QED
      BY <2>1 DEF Keeps
  <1>5. CASE status[Row(p)] = "completed"
    <2>1. Attended /\ Clear(s) /\ (s = CIStage => attempts = 0)
      BY <1>5 DEF WorkInv, WorkOpen, MergedStays, OrderInv, WorkClear
    <2>2. RowReopened(s)
      BY <1>2, <1>3, <1>5, <2>1 DEF RowReopened, KeptBut
    <2> QED
      BY <1>2, <2>2 DEF Reopens
  <1> QED
    BY <1>4, <1>5

LEMMA WorkGoroutine ==
    ASSUME TypeInv, SoleInv, MergeInv, NoResume, OrderInv, WorkInv, NEW p \in Procs,
           Advance(p) \/ AgentEnds(p), "dispatch" \notin Faults
    PROVE  Keeps \/ (LinearWork(p) /\ Reopens)
  <1>1. ASSUME attempts' = attempts, Trails(feature', feature),
               \/ \A q \in LinearRows : status'[q] = status[q]
               \/ /\ LinearWork(p)
                  /\ \E st \in {"in_progress", "awaiting_approval", "revising"} :
                        status' = [status EXCEPT ![Row(p)] = st]
        PROVE  Keeps \/ (LinearWork(p) /\ Reopens)
    <2>1. CASE \A q \in LinearRows : status'[q] = status[q]
      BY <1>1, <2>1 DEF Keeps, KeptBut
    <2>2. CASE /\ LinearWork(p)
               /\ \E st \in {"in_progress", "awaiting_approval", "revising"} :
                        status' = [status EXCEPT ![Row(p)] = st]
      BY <1>1, <2>2, WorkWrites
    <2> QED
      BY <1>1, <2>1, <2>2
  <1>2. HoldsCopy(p) => Trails(snap[p], feature)
    BY DEF WorkInv, CopiesTrail
  <1>20. feature' = feature => Trails(feature', feature)
    BY DEF Trails
  <1>3. CASE \/ DecideWait(p) \/ DecideApprove(p) \/ DecideRerun(p)
             \/ DecidePrepare(p) \/ DecideBolt(p) \/ DecideMerge(p)
             \/ DecideStage(p) \/ DecideDone(p)
    BY <1>1, <1>3, <1>20, WorkDecisions, ScopeExists DEF WorkInv
  <1>4. CASE AutoApprove(p)
    BY <1>4, WorkAutoApprove
  <1>5. CASE MergeBegin(p)
    <2>1. MergeAhead(p) /\ UNCHANGED <<status, feature>> /\ attempts' = attempts + 1
      BY <1>5 DEF MergeBegin, MergeAhead
    <2>2. attempts = 0 /\ status[<<CIStage, 0>>] = "completed"
      BY <2>1 DEF MergeInv, WorkInv, MergeAfterCI
    <2> QED
      BY <2>1, <2>2 DEF Keeps, KeptBut, Same
  <1>6. CASE Finish(p)
    <2>1. AllFinished
      BY <1>6 DEF Finish, WorkInv, FinishAfterAll
    <2> QED
      BY <1>6, <2>1 DEF Finish, Keeps, KeptBut, TypeInv, TypeOK, Features
  <1>7. CASE \/ Spawned(p) \/ ActPrepare(p) \/ MergeEnd(p) \/ Unmark(p)
             \/ BoltCompletes(p) \/ BoltPauses(p) \/ BoltHalts(p)
             \/ Mark(p) \/ LateMark(p) \/ CheckActive(p) \/ ResumeExits(p)
    <2>1. UNCHANGED <<status, feature, attempts>>
      BY <1>7 DEF Spawned, ActPrepare, MergeEnd, Unmark, BoltCompletes, BoltPauses,
                  BoltHalts, Mark, LateMark, CheckActive, ResumeExits, db
    <2> QED
      BY <1>1, <1>20, <2>1
  <1>8. CASE ProcessFailure(p) \/ ProcessNeedsReview(p)
    <2>1. /\ pc[p] = "process" /\ UNCHANGED <<feature, attempts>>
          /\ \E st \in {"awaiting_approval", "revising"} :
                status' = [status EXCEPT ![Row(p)] = st]
      BY <1>8 DEF ProcessFailure, ProcessNeedsReview, Process, SetRow
    <2>2. LinearWork(p)
      BY <2>1 DEF LinearWork, TypeInv, JobsOK, JobOK
    <2> QED
      BY <1>1, <1>20, <2>1, <2>2
  <1>9. CASE ProcessAutoApprove(p)
    <2>1. /\ pc[p] = "process" /\ UNCHANGED <<feature, attempts>>
          /\ status' = [status EXCEPT ![Row(p)] = "completed"]
      BY <1>9 DEF ProcessAutoApprove, Process, SetRow
    <2>2. LinearWork(p) /\ Row(p) \in Rows /\ job[p].stage \notin BoltStages
      BY <2>1 DEF LinearWork, TypeInv, JobsOK, JobOK, Row
    <2>3. /\ Row(p) = <<job[p].stage, 0>> /\ job[p].stage \in LinearStages
          /\ Row(p) \in LinearRows
      BY <2>2, RowParts, LinearIs DEF Row
    <2>4. Clear(job[p].stage) /\ status[Row(p)] # "absent"
      BY <2>2 DEF OrderInv, WorkClear, WorkInv, WorkOpen
    <2>5. /\ status'[Row(p)] = "completed"
          /\ \A q \in LinearRows : q # Row(p) => status'[q] = status[q]
      BY <2>1, <2>2, LinearParts DEF TypeInv, TypeOK
    <2>6. CASE status[Row(p)] = "completed"
      BY <1>1, <1>20, <2>1, <2>5, <2>6
    <2>7. CASE status[Row(p)] # "completed"
      <3>1. RowFinished(job[p].stage)
        BY <2>1, <2>3, <2>4, <2>5, <2>7 DEF RowFinished, KeptBut
      <3> QED
        BY <2>1, <2>3, <3>1 DEF Keeps
    <2> QED
      BY <2>6, <2>7
  <1>10. CASE AgentEnds(p)
    <2>1. /\ pc[p] = "agent" /\ UNCHANGED <<feature, attempts>>
          /\ \/ status' = status
             \/ \E st \in {"awaiting_approval", "revising"} :
                  status' = [status EXCEPT ![Row(p)] = st]
      BY <1>10 DEF AgentEnds, AgentPasses, AgentFails, SmokeFails, QuotaExhausted,
                   DispatchFails, SetupFails, Returns, Errs, SetRow
    <2>2. CASE OnBolt(p)
      <3>1. \A q \in LinearRows : status'[q] = status[q]
        BY <2>1, <2>2, LinearParts DEF OnBolt, Row, LinearStages, TypeInv, TypeOK
      <3> QED
        BY <1>1, <1>20, <2>1, <3>1
    <2>3. CASE ~OnBolt(p)
      <3>1. LinearWork(p)
        BY <2>1, <2>3 DEF LinearWork, OnBolt
      <3> QED
        BY <1>1, <1>20, <2>1, <3>1
    <2> QED
      BY <2>2, <2>3
  <1>11. ASSUME NEW r, RunStageBegin(p, r), HoldsCopy(p)
         PROVE  Trails(feature', feature)
    <2>1. feature' = feature \/ feature' = [snap[p] EXCEPT !.tree = TRUE]
      BY <1>11 DEF RunStageBegin, EnsureSpecWorktree
    <2>2. Same([snap[p] EXCEPT !.tree = TRUE], snap[p])
      BY DEF TypeInv, TypeOK, Features, Same
    <2> QED
      BY <1>2, <1>11, <1>20, <2>1, <2>2, TrailSame
  <1>12. CASE ActStage(p)
    <2>1. CASE status[Row(p)] = "absent"
      BY <1>1, <1>12, <1>20, <2>1 DEF ActStage
    <2>2. CASE status[Row(p)] # "absent"
      <3>1. /\ pc[p] = "act" /\ job[p].kind = "stage" /\ attempts' = attempts
            /\ status' = [status EXCEPT ![Row(p)] = "in_progress"]
            /\ RunStageBegin(p, Row(p))
        BY <1>12, <2>2 DEF ActStage, RunStageBegin, SetRow
      <3>2. LinearWork(p) /\ HoldsCopy(p)
        BY <3>1 DEF LinearWork, HoldsCopy
      <3> QED
        BY <1>1, <1>11, <3>1, <3>2
    <2> QED
      BY <2>1, <2>2
  <1>13. CASE BoltRunStage(p)
    <2>1. PICK s \in BoltTodo(p) : RunStageBegin(p, <<s, job[p].bolt>>)
      BY <1>13 DEF BoltRunStage
    <2>2. s \in BoltStages /\ HoldsCopy(p) /\ attempts' = attempts
      BY <1>13 DEF BoltTodo, BoltRunStage, HoldsCopy
    <2>3. \A q \in LinearRows : status'[q] = status[q]
      BY <2>1, <2>2, LinearParts DEF RunStageBegin, SetRow, LinearStages, TypeInv, TypeOK
    <2> QED
      BY <1>1, <1>11, <2>1, <2>2, <2>3
  <1>14. CASE BoltStart(p)
    <2> DEFINE f == [snap[p] EXCEPT !.bolt = job[p].bolt]
    <2>1. \A q \in LinearRows : status'[q] = status[q]
      BY <1>14, LinearParts DEF BoltStart, LinearStages
    <2>2. feature' = feature \/ feature' = f
      BY <1>14 DEF BoltStart
    <2>3. Same(f, snap[p])
      BY DEF TypeInv, TypeOK, Features, Same
    <2>4. HoldsCopy(p) /\ attempts' = attempts
      BY <1>14 DEF BoltStart, HoldsCopy
    <2> HIDE DEF f
    <2>5. Trails(feature', feature)
      BY <1>2, <1>20, <2>2, <2>3, <2>4, TrailSame
    <2> QED
      BY <1>1, <2>1, <2>4, <2>5
  <1>15. CASE BoltApprove(p)
    <2>1. /\ job[p].stage \in BoltStages /\ attempts' = attempts
          /\ Row(p)[1] = job[p].stage
      BY <1>15 DEF BoltApprove, ApproveAndAdvance, TypeInv, JobsOK, JobOK, Row
    <2>2. CASE UNCHANGED <<status, feature>>
      BY <1>1, <1>20, <2>1, <2>2
    <2>3. CASE Approvable(Row(p)) /\ ApproveAndAdvance(snap[p], Row(p), TRUE)
      <3>1. snap[p] \in Features /\ Trails(snap[p], feature)
        BY <1>2, <1>15 DEF BoltApprove, HoldsCopy, TypeInv, TypeOK
      <3>2. KeptBut({}) /\ feature' = feature
        BY <2>1, <2>3, <3>1, ApprovalFinishes DEF WorkInv, LinearStages
      <3> QED
        BY <1>20, <2>1, <3>2 DEF Keeps
    <2> QED
      BY <1>15, <2>2, <2>3 DEF BoltApprove
  <1>16. ~ResumeMarks(p)
    BY DEF ResumeMarks, NoResume
  <1> QED
    BY <1>3, <1>4, <1>5, <1>6, <1>7, <1>8, <1>9, <1>10, <1>12, <1>13, <1>14, <1>15, <1>16
       DEF Advance

\* A request finishes nothing but the stage that a user approves.
LEMMA WorkRequests ==
    ASSUME TypeInv, OrderInv, WorkInv, UserRequest, Requests \subseteq Steady
    PROVE  \/ KeptBut({}) /\ attempts' = attempts /\ Same(feature', feature)
           \/ /\ Attended
              /\ \E s \in LinearStages :
                    /\ RowFinished(s) /\ InScope(feature.scope, s)
                    /\ \/ feature'.status = feature.status
                       \/ feature'.status = "done" /\ LastInScope(feature.scope, s)
  <1>1. CASE \/ RequestPrepare
             \/ \E p \in Procs : RequestRun(p) \/ RequestBolt(p) \/ RequestMode(p)
    <2>1. UNCHANGED <<status, attempts>>
      BY <1>1 DEF RequestPrepare, RequestRun, RequestBolt, RequestMode, Accepted, db
    <2>2. feature' = feature \/ \E m : feature' = [feature EXCEPT !.mode = m]
      BY <1>1 DEF RequestPrepare, RequestRun, RequestBolt, RequestMode, Accepted, db
    <2>3. Same(feature', feature)
      BY <2>2 DEF Same, TypeInv, TypeOK, Features
    <2> QED
      BY <2>1, <2>3 DEF KeptBut
  <1>2. CASE RequestReject
    <2>1. PICK r : Approvable(r) /\ status' = [status EXCEPT ![r] = "revising"]
      BY <1>2 DEF RequestReject, SendBack, SetRow
    <2>2. KeptBut({})
      BY <2>1, LinearParts DEF Approvable, KeptBut, TypeInv, TypeOK
    <2> QED
      BY <1>2, <2>2 DEF RequestReject, Same
  <1>3. CASE \E p \in Procs : RequestApprove(p)
    <2>1. PICK r, ok : Approvable(r) /\ ApproveAndAdvance(feature, r, ok)
      BY <1>3 DEF RequestApprove
    <2>2. Attended
      BY <1>3 DEF RequestApprove, Request, Attended
    <2>3. feature \in Features /\ Trails(feature, feature)
      BY DEF TypeInv, TypeOK, Trails
    <2> QED
      BY <2>1, <2>2, <2>3, ApprovalFinishes DEF WorkInv, Same
  <1>4. /\ ~RequestAccept /\ ~RequestJump /\ ~RequestAddSkipped /\ ~RequestCancel
        /\ ~RequestScope
        /\ \A p \in Procs : ~RequestForce(p) /\ ~RequestResume(p)
    BY DEF Steady, RequestAccept, RequestJump, RequestAddSkipped, RequestCancel,
           RequestScope, RequestForce, RequestResume, Request
  <1> QED
    BY <1>1, <1>2, <1>3, <1>4 DEF UserRequest

LEMMA WorkSteps ==
    ASSUME TypeInv, SoleInv, MergeInv, NoResume, OrderInv, WorkInv, [Next]_vars,
           "dispatch" \notin Faults, Requests \subseteq Steady
    PROVE  WorkStep
  <1>1. CASE Crash
    <2>1. KeptBut({})
      BY <1>1, LinearParts DEF Crash, Interrupted, With, KeptBut
    <2> QED
      BY <1>1, <2>1 DEF Crash, WorkStep, Keeps, Trails
  <1>2. CASE UNCHANGED vars
    BY <1>2 DEF vars, db, WorkStep, Keeps, KeptBut, Trails
  <1>3. CASE UserRequest
    <2>1. Same(feature', feature) => Trails(feature', feature)
      BY DEF Same, Trails
    <2> QED
      BY <1>3, <2>1, WorkRequests DEF WorkStep, Keeps
  <1> QED
    BY <1>1, <1>2, <1>3, WorkGoroutine DEF Next, WorkStep

\* The rows of a scope that stays what it is stay.
LEMMA ScopeKept ==
    ASSUME TypeInv, ScopeRows, WorkStep
    PROVE  feature'.scope = feature.scope /\ ScopeWork' = ScopeWork /\ ScopeRows'
  <1>1. feature'.scope = feature.scope
    BY DEF WorkStep, Keeps, Reopens, RowFinished, RowReopened, Same, Trails
  <1>2. ScopeWork' = ScopeWork
    BY <1>1 DEF ScopeWork
  <1>3. \A q \in LinearRows :
            \/ status'[q] = status[q]
            \/ /\ status[q] # "absent"
               /\ status'[q] \in {"in_progress", "awaiting_approval", "revising", "completed"}
    <2>1. CASE KeptBut({})
      BY <2>1 DEF KeptBut
    <2>2. CASE \E s \in LinearStages : RowFinished(s) \/ RowReopened(s)
      BY <2>2 DEF RowFinished, RowReopened, KeptBut
    <2> QED
      BY <2>1, <2>2 DEF WorkStep, Keeps, Reopens
  <1>4. ScopeRows'
    BY <1>1, <1>3 DEF ScopeRows, InScope
  <1> QED
    BY <1>1, <1>2, <1>4

\* What is finished stays finished, but where a stage is opened again.
LEMMA FinishedKept ==
    ASSUME TypeInv, ScopeRows, Keeps
    PROVE  /\ \A q \in LinearRows : status[q] = "completed" => status'[q] = "completed"
           /\ AllFinished => AllFinished'
  <1>1. \A q \in LinearRows : status[q] = "completed" => status'[q] = "completed"
    <2>1. CASE KeptBut({})
      BY <2>1 DEF KeptBut
    <2>2. CASE \E s \in LinearStages : RowFinished(s)
      BY <2>2 DEF RowFinished, KeptBut
    <2> QED
      BY <2>1, <2>2 DEF Keeps
  <1>2. \A s \in ScopeWork : <<s, 0>> \in LinearRows
    BY DEF ScopeWork, LinearRows
  <1>3. ScopeWork' = ScopeWork
    BY ScopeKept DEF WorkStep
  <1> QED
    BY <1>1, <1>2, <1>3 DEF AllFinished

\* With the last stage of the scope every one is finished, as they are in order.
LEMMA LastFinishes ==
    ASSUME TypeInv, ScopeRows, NEW s \in LinearStages, RowFinished(s),
           LastInScope(feature.scope, s)
    PROVE  AllFinished'
  <1>1. ScopeWork' = ScopeWork
    BY DEF ScopeWork, RowFinished
  <1> SUFFICES ASSUME NEW t \in ScopeWork PROVE status'[<<t, 0>>] = "completed"
    BY <1>1 DEF AllFinished
  <1> DEFINE q == <<t, 0>>
  <1>2. /\ q \in LinearRows /\ q[1] = t /\ t \in Int /\ s \in Int
        /\ InScope(feature.scope, t) /\ t \in ScopeStages[feature.scope]
    BY StagesAssumption DEF ScopeWork, LinearRows, LinearStages, Stage, InScope
  <1>3. CASE t = s
    BY <1>3 DEF RowFinished
  <1>4. CASE t # s
    <2>1. t < s
      BY <1>2, <1>4 DEF LastInScope
    <2>2. status[q] \in Closed
      BY <1>2, <2>1 DEF RowFinished, Clear
    <2>3. status[q] = "completed"
      BY <1>2, <2>2 DEF ScopeRows, Closed
    <2> QED
      BY <1>2, <1>4, <2>3 DEF RowFinished, KeptBut
  <1> QED
    BY <1>3, <1>4

LEMMA DoneKept ==
    ASSUME TypeInv, WorkInv, WorkStep
    PROVE  DoneAfterAll'
  <1> SUFFICES ASSUME ~Attended, feature'.status = "done" PROVE AllFinished'
    BY DEF DoneAfterAll, Attended
  <1>1. (feature.status = "done" => AllFinished) /\ ScopeRows /\ Keeps
    BY DEF WorkInv, DoneAfterAll, WorkStep, Reopens, RowReopened
  <1>2. CASE feature'.status = feature.status
    BY <1>1, <1>2, FinishedKept
  <1>3. CASE AllFinished
    BY <1>1, <1>3, FinishedKept
  <1>4. CASE \E s \in LinearStages : RowFinished(s) /\ LastInScope(feature.scope, s)
    BY <1>1, <1>4, LastFinishes
  <1> QED
    BY <1>1, <1>2, <1>3, <1>4 DEF Keeps, Trails, Same

\* One process at most holds a copy, or is about to close the feature.
LEMMA OneHolder ==
    ASSUME SoleInv, NEW p \in Procs, NEW q \in Procs,
           HoldsCopy(p) \/ pc[p] = "finish", HoldsCopy(q)
    PROVE  p = q
  <1>1. p \in Live \/ pc[p] = "marking"
    BY DEF HoldsCopy, Live
  <1>2. q \in Live \/ pc[q] = "marking"
    BY DEF HoldsCopy, Live
  <1>3. CASE p \in Live /\ q \in Live
    BY <1>3 DEF SoleInv, AtMostOne
  <1>4. CASE pc[p] = "marking" /\ pc[q] = "marking"
    BY <1>4 DEF SoleInv, AtMostOne, Handling
  <1> QED
    BY <1>1, <1>2, <1>3, <1>4 DEF SoleInv

LEMMA CopiesKept ==
    ASSUME TypeInv, SoleInv, CopiesTrail, NEW p \in Procs, CopyStep(p)
    PROVE  CopiesTrail'
  <1> SUFFICES ASSUME NEW q \in Procs, HoldsCopy(q)' PROVE Trails(snap'[q], feature')
    BY DEF CopiesTrail, Trails, Attended
  <1>1. HoldsCopy(p) => Trails(snap[p], feature)
    BY DEF CopiesTrail
  <1>2. CASE q = p
    <2>1. CASE snap'[p] = feature /\ feature' = feature
      BY <1>2, <2>1 DEF Trails
    <2>2. CASE HoldsCopy(p) /\ Same(snap'[p], snap[p])
      <3>1. CASE Same(feature', feature)
        BY <1>1, <1>2, <2>2, <3>1 DEF Same, Trails
      <3>2. CASE Same(feature', snap[p])
        BY <1>2, <2>2, <3>2 DEF Same, Trails
      <3> QED
        BY <1>2, <3>1, <3>2 DEF CopyStep
    <2> QED
      BY <1>2, <2>1, <2>2 DEF CopyStep
  <1>3. CASE q # p
    <2>1. HoldsCopy(q) /\ snap'[q] = snap[q]
      BY <1>3 DEF CopyStep, OthersKept, HoldsCopy
    <2>2. Trails(snap[q], feature)
      BY <2>1 DEF CopiesTrail
    <2>3. ~(HoldsCopy(p) \/ pc[p] = "finish")
      BY <1>3, <2>1, OneHolder
    <2>4. Same(feature', feature)
      BY <2>3 DEF CopyStep
    <2> QED
      BY <2>1, <2>2, <2>4 DEF Same, Trails
  <1> QED
    BY <1>2, <1>3

\* Only a decision leads to an action or to the end.
LEMMA OnlyDecided ==
    ASSUME TypeInv, NEW p \in Procs, Advance(p) \/ AgentEnds(p),
           ~(\/ DecideWait(p) \/ DecideApprove(p) \/ DecideRerun(p)
             \/ DecidePrepare(p) \/ DecideBolt(p) \/ DecideMerge(p)
             \/ DecideStage(p) \/ DecideDone(p))
    PROVE  pc'[p] \notin {"act", "finish"}
  <1>1. \E l \in PCs \ {"act", "finish"} : Goto(p, l)
    <2>1. CASE AgentEnds(p)
      BY <2>1 DEF AgentEnds, AgentPasses, AgentFails, SmokeFails, QuotaExhausted,
                  DispatchFails, SetupFails, Returns, Errs, PCs
    <2>2. CASE \/ Spawned(p) \/ AutoApprove(p) \/ ActPrepare(p) \/ MergeBegin(p)
               \/ MergeEnd(p) \/ Finish(p) \/ Unmark(p) \/ ActStage(p)
               \/ BoltStart(p) \/ BoltRunStage(p) \/ BoltCompletes(p) \/ BoltApprove(p)
      BY <2>2 DEF Spawned, AutoApprove, ActPrepare, MergeBegin, MergeEnd, Finish, Unmark,
                  ActStage, RunStageBegin, BoltStart, BoltRunStage, BoltCompletes,
                  BoltApprove, AfterBolt, PCs
    <2>3. CASE \/ ProcessFailure(p) \/ ProcessAutoApprove(p) \/ ProcessNeedsReview(p)
               \/ BoltPauses(p) \/ BoltHalts(p) \/ Mark(p) \/ LateMark(p)
               \/ CheckActive(p) \/ ResumeMarks(p) \/ ResumeExits(p)
      BY <2>3 DEF ProcessFailure, ProcessAutoApprove, ProcessNeedsReview, Process,
                  BoltPauses, BoltHalts, Mark, LateMark, CheckActive, ResumeMarks,
                  ResumeExits, PCs
    <2> QED
      BY <2>1, <2>2, <2>3 DEF Advance
  <1> QED
    BY <1>1 DEF Goto, TypeInv, TypeOK

LEMMA AllFinishedAtDone ==
    ASSUME TypeInv, ScopeRows, NEW p \in Procs, DecideDone(p)
    PROVE  AllFinished
  <1> SUFFICES ASSUME NEW s \in ScopeWork PROVE status[<<s, 0>>] = "completed"
    BY DEF AllFinished
  <1> DEFINE r == <<s, 0>>
  <1>1. r \in LinearRows /\ r[1] = s /\ s \in LinearStages /\ InScope(feature.scope, s)
    BY DEF ScopeWork, LinearRows, InScope
  <1>2. r \in Rows
    BY <1>1, LinearParts
  <1>3. status[r] \notin {"absent", "skipped", "failed"}
    BY <1>1 DEF ScopeRows
  <1>4. NoneOpen /\ Walkable(feature.scope) = {}
    BY DEF DecideDone, LinearPart
  <1>5. status[r] # "not_started"
    BY <1>1, <1>2, <1>4 DEF Walkable, With
  <1> QED
    BY <1>2, <1>3, <1>4, <1>5
       DEF NoneOpen, NoneWaiting, NoneRunning, With, TypeInv, TypeOK, RowStatus

\* A stage that is worked on was worked on before, or was just chosen.
LEMMA WorkOrigin ==
    ASSUME TypeInv, RowsExist, NEW p \in Procs, Advance(p) \/ AgentEnds(p), LinearWork(p)'
    PROVE  /\ attempts' = attempts
           /\ \/ /\ status' = status /\ Row(p)' \in LinearRows
                 /\ status[Row(p)'] \in {"revising", "not_started"}
              \/ /\ LinearWork(p) /\ job' = job
                 /\ status'[Row(p)'] \in {"in_progress", "awaiting_approval", "revising"}
  <1>1. CASE DecideRerun(p) \/ DecideStage(p)
    <2>1. PICK r \in Rows : /\ status[r] \in {"revising", "not_started"}
                            /\ r[1] \notin BoltStages
                            /\ Decide(p, "act", Job("stage", r[1], 0))
      <3>1. ASSUME NEW j, Decide(p, "boltStart", j) PROVE FALSE
        BY <3>1 DEF Decide, Goto, LinearWork, TypeInv, TypeOK
      <3> QED
        BY <1>1, <3>1 DEF DecideRerun, DecideStage, First, Walkable, With, LinearStages
    <2>2. Row(p)' = r
      BY <2>1, RowParts DEF Decide, Take, Job, Row, TypeInv, TypeOK
    <2>3. status' = status /\ attempts' = attempts
      BY <1>1, WorkDecisions
    <2>4. r \in LinearRows
      BY <2>1, RowParts, LinearIs
    <2> QED
      BY <2>1, <2>2, <2>3, <2>4
  <1>2. CASE \/ DecideWait(p) \/ DecideApprove(p) \/ DecidePrepare(p)
             \/ DecideBolt(p) \/ DecideMerge(p) \/ DecideDone(p)
    <2>1. \/ \E l \in {"unmark", "finish"} : Decide(p, l, NoJob)
          \/ \E l \in {"act", "boltStart"}, k \in {"approve", "bolt", "prepare", "merge"} :
                \E s, b : Decide(p, l, Job(k, s, b))
      BY <1>2 DEF DecideWait, DecideApprove, DecidePrepare, DecideBolt,
                  DecideMerge, DecideDone
    <2>2. CASE \E l \in {"unmark", "finish"} : Decide(p, l, NoJob)
      BY <2>2 DEF Decide, Goto, LinearWork, TypeInv, TypeOK
    <2>3. CASE \E l \in {"act", "boltStart"}, k \in {"approve", "bolt", "prepare", "merge"} :
                  \E s, b : Decide(p, l, Job(k, s, b))
      BY <2>3 DEF Decide, Goto, Take, Job, LinearWork, TypeInv, TypeOK
    <2> QED
      BY <2>1, <2>2, <2>3
  <1>3. CASE ActStage(p)
    <2>1. CASE status[Row(p)] = "absent"
      BY <1>3, <2>1 DEF ActStage, Goto, LinearWork, TypeInv, TypeOK
    <2>2. CASE status[Row(p)] # "absent"
      <3>1. /\ status' = [status EXCEPT ![Row(p)] = "in_progress"]
            /\ job' = job /\ Row(p)' = Row(p) /\ Row(p) \in Rows
            /\ LinearWork(p) /\ attempts' = attempts
        BY <1>3, <2>2 DEF ActStage, RunStageBegin, SetRow, Row, LinearWork, TypeInv, JobsOK, JobOK
      <3> QED
        BY <3>1 DEF TypeInv, TypeOK
    <2> QED
      BY <2>1, <2>2
  <1>4. CASE BoltRunStage(p)
    <2>1. PICK s \in BoltTodo(p) : /\ Goto(p, "agent")
                                   /\ Take(p, Job(job[p].kind, s, job[p].bolt))
      BY <1>4 DEF BoltRunStage, RunStageBegin
    <2>2. pc'[p] = "agent" /\ job'[p].stage \in BoltStages
      BY <2>1 DEF BoltTodo, Goto, Take, Job, TypeInv, TypeOK
    <2> QED
      BY <2>2 DEF LinearWork
  <1>5. CASE AgentEnds(p)
    <2>1. CASE \E l \in {"unmark", "boltGate"} : Goto(p, l)
      BY <2>1 DEF Goto, LinearWork, TypeInv, TypeOK
    <2>2. CASE \E st \in {"awaiting_approval", "revising"} :
                  \E n, res : Returns(p, st, n, res)
      <3>1. /\ pc[p] = "agent" /\ Row(p)' = Row(p) /\ job' = job /\ attempts' = attempts
            /\ \E st \in {"awaiting_approval", "revising"} :
                  status' = [status EXCEPT ![Row(p)] = st]
        BY <2>2 DEF Returns, SetRow, Row
      <3>2. Row(p) \in Rows
        BY <3>1 DEF Row, TypeInv, JobsOK, JobOK
      <3>3. ~OnBolt(p)
        BY <2>2 DEF Returns, Goto, LinearWork, TypeInv, TypeOK
      <3>4. LinearWork(p)
        BY <3>1, <3>3 DEF LinearWork, OnBolt
      <3> QED
        BY <3>1, <3>2, <3>4 DEF TypeInv, TypeOK
    <2> QED
      BY <1>5, <2>1, <2>2 DEF AgentEnds, AgentPasses, AgentFails, SmokeFails,
                              QuotaExhausted, DispatchFails, SetupFails, Errs
  <1>6. CASE \/ Spawned(p) \/ AutoApprove(p) \/ ActPrepare(p) \/ MergeBegin(p)
             \/ MergeEnd(p) \/ Finish(p) \/ Unmark(p) \/ BoltStart(p)
             \/ BoltCompletes(p) \/ BoltApprove(p) \/ BoltPauses(p) \/ BoltHalts(p)
             \/ ProcessFailure(p) \/ ProcessAutoApprove(p) \/ ProcessNeedsReview(p)
             \/ Mark(p) \/ LateMark(p) \/ CheckActive(p) \/ ResumeMarks(p)
             \/ ResumeExits(p)
    <2>1. \E l \in PCs \ {"act", "agent", "process"} : Goto(p, l)
      BY <1>6 DEF Spawned, AutoApprove, ActPrepare, MergeBegin, MergeEnd, Finish, Unmark,
                  BoltStart, BoltCompletes, BoltApprove, BoltPauses, BoltHalts, AfterBolt,
                  ProcessFailure, ProcessAutoApprove, ProcessNeedsReview, Process, Mark,
                  LateMark, CheckActive, ResumeMarks, ResumeExits, PCs
    <2> QED
      BY <2>1 DEF Goto, LinearWork, TypeInv, TypeOK
  <1> QED
    BY <1>1, <1>2, <1>3, <1>4, <1>5, <1>6 DEF Advance

\* While one process works on a stage, no other is alive.
LEMMA WorkingAlone ==
    ASSUME SoleInv, NEW p \in Procs, NEW q \in Procs \ {p}, LinearWork(p)
    PROVE  q \notin Live
  BY DEF LinearWork, Live, SoleInv, AtMostOne

LEMMA AheadKept ==
    ASSUME TypeInv, SoleInv, WorkInv, NEW p \in Procs, Advance(p) \/ AgentEnds(p),
           Keeps \/ (LinearWork(p) /\ Reopens)
    PROVE  MergeAfterCI' /\ FinishAfterAll'
  <1>1. CASE LinearWork(p) /\ Reopens
    <2>1. pc'[p] \notin {"act", "finish"}
      <3>1. pc[p] # "decide"
        BY <1>1 DEF LinearWork
      <3> QED
        BY <3>1, OnlyDecided DEF DecideWait, DecideApprove, DecideRerun, DecidePrepare,
               DecideBolt, DecideMerge, DecideStage, DecideDone, Decide
    <2>2. ASSUME NEW q \in Procs \ {p} PROVE pc'[q] \notin {"act", "finish"}
      <3>1. pc'[q] = pc[q]
        BY CopySteps DEF CopyStep, OthersKept
      <3> QED
        BY <1>1, <3>1, WorkingAlone DEF Live
    <2> QED
      BY <2>1, <2>2 DEF MergeAfterCI, FinishAfterAll, MergeAhead
  <1>2. CASE Keeps
    <2>1. status[<<CIStage, 0>>] = "completed" => status'[<<CIStage, 0>>] = "completed"
      BY <1>2, FinishedKept, StagesAssumption DEF WorkInv, LinearRows
    <2>2. AllFinished => AllFinished'
      BY <1>2, FinishedKept DEF WorkInv
    <2>3. OthersKept(p)
      BY CopySteps DEF CopyStep
    <2>4. ASSUME NEW q \in Procs \ {p}
          PROVE  /\ MergeAhead(q)' => status'[<<CIStage, 0>>] = "completed"
                 /\ pc'[q] = "finish" => AllFinished'
      <3>1. pc'[q] = pc[q] /\ job'[q] = job[q]
        BY <2>3 DEF OthersKept
      <3> QED
        BY <2>1, <2>2, <3>1 DEF WorkInv, MergeAfterCI, FinishAfterAll, MergeAhead
    <2>5. /\ MergeAhead(p)' => status'[<<CIStage, 0>>] = "completed"
          /\ pc'[p] = "finish" => AllFinished'
      <3>1. CASE DecideMerge(p)
        <4>1. status[<<CIStage, 0>>] = "completed" /\ Goto(p, "act")
          BY <3>1 DEF DecideMerge, MergeDue, Decide
        <4> QED
          BY <2>1, <4>1 DEF Goto, TypeInv, TypeOK
      <3>2. CASE DecideDone(p)
        <4>1. AllFinished /\ Goto(p, "finish")
          BY <3>2, AllFinishedAtDone DEF DecideDone, Decide, WorkInv
        <4> QED
          BY <2>2, <4>1 DEF Goto, MergeAhead, TypeInv, TypeOK
      <3>3. CASE \/ DecideWait(p) \/ DecideApprove(p) \/ DecideRerun(p)
                 \/ DecidePrepare(p) \/ DecideBolt(p) \/ DecideStage(p)
        <4>1. \/ Decide(p, "unmark", NoJob)
              \/ \E l \in {"act", "boltStart"}, k \in {"approve", "bolt", "stage", "prepare"} :
                    \E s, b : Decide(p, l, Job(k, s, b))
          BY <3>3 DEF DecideWait, DecideApprove, DecideRerun, DecidePrepare, DecideBolt,
                      DecideStage
        <4>2. CASE Decide(p, "unmark", NoJob)
          BY <4>2 DEF Decide, Goto, MergeAhead, TypeInv, TypeOK
        <4>3. CASE \E l \in {"act", "boltStart"}, k \in {"approve", "bolt", "stage", "prepare"} :
                      \E s, b : Decide(p, l, Job(k, s, b))
          BY <4>3 DEF Decide, Goto, Take, Job, MergeAhead, TypeInv, TypeOK
        <4> QED
          BY <4>1, <4>2, <4>3
      <3>4. CASE pc'[p] \notin {"act", "finish"}
        BY <3>4 DEF MergeAhead
      <3> QED
        BY <3>1, <3>2, <3>3, <3>4, OnlyDecided
    <2> QED
      BY <2>4, <2>5 DEF MergeAfterCI, FinishAfterAll
  <1> QED
    BY <1>1, <1>2

LEMMA WorkOpenGoroutine ==
    ASSUME TypeInv, SoleInv, WorkInv, NEW p \in Procs, Advance(p) \/ AgentEnds(p)
    PROVE  WorkOpen'
  <1>1. OthersKept(p)
    BY CopySteps DEF CopyStep
  <1>2. ASSUME NEW q \in Procs \ {p}, LinearWork(q)'
        PROVE  /\ Row(q)' \in LinearRows /\ status'[Row(q)'] # "absent"
               /\ status'[Row(q)'] = "completed" => Attended
    <2>1. pc'[q] = pc[q] /\ job'[q] = job[q]
      BY <1>1 DEF OthersKept
    <2>2. LinearWork(q) /\ Row(q)' = Row(q)
      BY <1>2, <2>1 DEF LinearWork, Row
    <2>3. p \notin Live
      BY <2>2, WorkingAlone
    <2>4. Mark(p) \/ LateMark(p) \/ CheckActive(p)
      BY <2>3, RunningSteps, LiveGoto DEF Runs, Unmark, Live, LiveLabel, PCs
    <2>5. status' = status
      BY <2>4 DEF Mark, LateMark, CheckActive, db
    <2> QED
      BY <2>2, <2>5 DEF WorkInv, WorkOpen
  <1>3. ASSUME LinearWork(p)'
        PROVE  /\ Row(p)' \in LinearRows
               /\ status'[Row(p)'] # "absent" /\ status'[Row(p)'] # "completed"
    <2>1. LinearWork(p) /\ job' = job => Row(p)' \in LinearRows
      BY DEF WorkInv, WorkOpen, Row
    <2> QED
      BY <1>3, <2>1, WorkOrigin, ScopeExists DEF WorkInv
  <1> QED
    BY <1>2, <1>3 DEF WorkOpen, Attended, LinearRows

\* Once the merge is attempted nobody works on the stage before it.
LEMMA MergedGoroutine ==
    ASSUME TypeInv, SoleInv, WorkInv, NEW p \in Procs, Advance(p) \/ AgentEnds(p)
    PROVE  \A q \in Procs : (LinearWork(q)' /\ job'[q].stage = CIStage) => attempts' = 0
  <1> SUFFICES ASSUME NEW q \in Procs, LinearWork(q)', job'[q].stage = CIStage
               PROVE  attempts' = 0
    OBVIOUS
  <1>1. CASE q # p
    <2>1. pc'[q] = pc[q] /\ job'[q] = job[q]
      BY <1>1, CopySteps DEF CopyStep, OthersKept
    <2>2. LinearWork(q) /\ job[q].stage = CIStage
      BY <2>1 DEF LinearWork
    <2>3. p \notin Live
      BY <1>1, <2>2, WorkingAlone
    <2>4. Mark(p) \/ LateMark(p) \/ CheckActive(p)
      BY <2>3, RunningSteps, LiveGoto DEF Runs, Unmark, Live, LiveLabel, PCs
    <2>5. attempts' = attempts
      BY <2>4 DEF Mark, LateMark, CheckActive, db
    <2> QED
      BY <2>2, <2>5 DEF WorkInv, MergedStays
  <1>2. CASE q = p
    <2>1. CASE LinearWork(p) /\ job' = job
      BY <1>2, <2>1, WorkOrigin, ScopeExists DEF WorkInv, MergedStays
    <2>2. CASE Row(p)' \in LinearRows /\ status[Row(p)'] \in {"revising", "not_started"}
      <3>1. Row(p)'[1] = CIStage /\ attempts' = attempts
        BY <1>2, WorkOrigin, ScopeExists DEF WorkInv, Row
      <3>2. Row(p)' = <<CIStage, 0>>
        BY <2>2, <3>1, LinearParts
      <3> QED
        BY <2>2, <3>1, <3>2 DEF WorkInv, MergedStays
    <2> QED
      BY <1>2, <2>1, <2>2, WorkOrigin, ScopeExists DEF WorkInv
  <1> QED
    BY <1>1, <1>2

LEMMA CIKept ==
    ASSUME TypeInv, WorkInv, WorkStep
    PROVE  attempts' # 0 => status'[<<CIStage, 0>>] = "completed"
  <1>1. <<CIStage, 0>> \in LinearRows
    BY StagesAssumption DEF LinearRows
  <1>2. CASE Reopens
    <2>1. PICK s \in LinearStages : RowReopened(s)
      BY <1>2 DEF Reopens
    <2>2. s # CIStage => <<CIStage, 0>> \in LinearRows \ {<<s, 0>>}
      BY <1>1
    <2> QED
      BY <2>1, <2>2 DEF RowReopened, KeptBut, WorkInv, MergedStays
  <1>3. CASE Keeps
    <2>1. status[<<CIStage, 0>>] = "completed" => status'[<<CIStage, 0>>] = "completed"
      BY <1>1, <1>3, FinishedKept DEF WorkInv
    <2> QED
      BY <1>3, <2>1 DEF Keeps, RowFinished, WorkInv, MergedStays
  <1> QED
    BY <1>2, <1>3 DEF WorkStep

LEMMA RequestsWorking ==
    ASSUME TypeInv, UserRequest, NEW q \in Procs, pc'[q] \in {"act", "agent", "process", "finish"}
    PROVE  pc'[q] = pc[q] /\ job'[q] = job[q]
  <1>1. pc'[q] = pc[q]
    <2>1. CASE pc' = pc
      BY <2>1
    <2>2. CASE \E p \in Procs : \E l \in {"idle", "checkActive", "marking"} : Goto(p, l)
      BY <2>2 DEF Goto, TypeInv, TypeOK
    <2> QED
      BY <2>1, <2>2, RequestSteps
  <1> QED
    BY <1>1, CopyRequests

LEMMA WorkInvRequests ==
    ASSUME TypeInv, OrderInv, WorkInv, UserRequest, Requests \subseteq Steady
    PROVE  CopiesTrail' /\ WorkOpen' /\ MergedStays' /\ MergeAfterCI' /\ FinishAfterAll'
  <1>1. \/ KeptBut({}) /\ attempts' = attempts /\ Same(feature', feature)
        \/ /\ Attended
           /\ \E s \in LinearStages :
                 /\ RowFinished(s) /\ InScope(feature.scope, s)
                 /\ \/ feature'.status = feature.status
                    \/ feature'.status = "done" /\ LastInScope(feature.scope, s)
    BY WorkRequests
  <1>2. Keeps /\ attempts' = attempts
    BY <1>1 DEF Keeps, RowFinished, Same, Trails
  <1>3. ASSUME NEW q \in Procs, LinearWork(q)'
        PROVE  LinearWork(q) /\ job'[q] = job[q] /\ Row(q)' = Row(q)
    <2>1. pc'[q] = pc[q] /\ job'[q] = job[q]
      BY <1>3, RequestsWorking DEF LinearWork
    <2> QED
      BY <1>3, <2>1 DEF LinearWork, Row
  <1>4. CopiesTrail'
    <2> SUFFICES ASSUME NEW q \in Procs, HoldsCopy(q)' PROVE Trails(snap'[q], feature')
      BY DEF CopiesTrail, Trails, Attended
    <2>1. CASE snap'[q] = feature /\ feature' = feature
      BY <2>1 DEF Trails
    <2>2. CASE pc'[q] = pc[q] /\ job'[q] = job[q] /\ snap'[q] = snap[q]
      <3>1. Trails(snap[q], feature)
        BY <2>2 DEF HoldsCopy, WorkInv, CopiesTrail
      <3>2. CASE feature'.status = feature.status /\ feature'.scope = feature.scope
        BY <2>2, <3>1, <3>2 DEF Trails
      <3>3. CASE /\ Attended /\ feature'.status = "done" /\ feature'.scope = feature.scope
                 /\ EndsLinear(feature.scope)
        BY <2>2, <3>1, <3>3 DEF Trails
      <3> QED
        BY <1>1, <3>2, <3>3 DEF Same, RowFinished, EndsLinear
    <2> QED
      BY <2>1, <2>2, CopyRequests
  <1>5. WorkOpen'
    <2> SUFFICES ASSUME NEW q \in Procs, LinearWork(q)'
                 PROVE  /\ Row(q) \in LinearRows /\ status'[Row(q)] # "absent"
                        /\ status'[Row(q)] = "completed" => Attended
      BY <1>3 DEF WorkOpen, Attended, LinearRows
    <2>1. /\ Row(q) \in LinearRows /\ status[Row(q)] # "absent"
          /\ status[Row(q)] = "completed" => Attended
      BY <1>3 DEF WorkInv, WorkOpen
    <2> QED
      BY <1>1, <2>1 DEF KeptBut, RowFinished
  <1>6. MergedStays'
    <2>1. attempts' # 0 => status'[<<CIStage, 0>>] = "completed"
      BY <1>2, CIKept DEF WorkStep
    <2> QED
      BY <1>2, <1>3, <2>1 DEF WorkInv, MergedStays
  <1>7. MergeAfterCI'
    <2>1. status[<<CIStage, 0>>] = "completed" => status'[<<CIStage, 0>>] = "completed"
      BY <1>2, FinishedKept, StagesAssumption DEF WorkInv, LinearRows
    <2> QED
      BY <2>1, RequestsWorking DEF WorkInv, MergeAfterCI, MergeAhead
  <1>8. FinishAfterAll'
    BY <1>2, RequestsWorking, FinishedKept DEF WorkInv, FinishAfterAll
  <1> QED
    BY <1>4, <1>5, <1>6, <1>7, <1>8

LEMMA WorkInvStep ==
    ASSUME TypeInv, SoleInv, MergeInv, NoResume, OrderInv, WorkInv, [Next]_vars,
           "dispatch" \notin Faults, Requests \subseteq Steady
    PROVE  WorkInv'
  <1>1. WorkStep
    BY WorkSteps
  <1>2. ScopeRows' /\ DoneAfterAll'
    BY <1>1, ScopeKept, DoneKept DEF WorkInv
  <1>3. CASE \E p \in Procs : Advance(p) \/ AgentEnds(p)
    <2>1. PICK p \in Procs : Advance(p) \/ AgentEnds(p)
      BY <1>3
    <2>2. CopiesTrail'
      BY <2>1, CopySteps, CopiesKept DEF WorkInv
    <2>3. MergedStays'
      BY <1>1, <2>1, MergedGoroutine, CIKept DEF MergedStays
    <2>4. MergeAfterCI' /\ FinishAfterAll'
      BY <2>1, WorkGoroutine, AheadKept
    <2> QED
      BY <1>2, <2>1, <2>2, <2>3, <2>4, WorkOpenGoroutine DEF WorkInv
  <1>4. CASE UserRequest
    BY <1>2, <1>4, WorkInvRequests DEF WorkInv
  <1>5. CASE Crash
    <2>1. \A q \in Procs : pc'[q] \in {"idle", "spawned"}
      BY <1>5 DEF Crash
    <2>2. attempts' # 0 => status'[<<CIStage, 0>>] = "completed"
      BY <1>1, CIKept
    <2> QED
      BY <1>2, <2>1, <2>2 DEF WorkInv, CopiesTrail, HoldsCopy, WorkOpen, LinearWork,
                        MergeAfterCI, MergedStays, MergeAhead, FinishAfterAll
  <1>6. CASE UNCHANGED vars
    BY <1>6 DEF vars, db, local, WorkInv, ScopeRows, InScope, CopiesTrail, HoldsCopy, Trails,
                WorkOpen, LinearWork, Row, MergeAfterCI, MergedStays, MergeAhead,
                FinishAfterAll, DoneAfterAll, AllFinished, ScopeWork, Attended, LinearRows
  <1> QED
    BY <1>3, <1>4, <1>5, <1>6 DEF Next

LEMMA WorkInit == Init => WorkInv /\ Pipeline!Init
  <1> SUFFICES ASSUME Init PROVE WorkInv /\ Pipeline!Init
    OBVIOUS
  <1>1. PICK m \in StartModes, c \in Scopes, p \in Procs, q \in Procs :
            Created(m, c, p, q)
    BY DEF Init
  <1>2. /\ feature.scope = c /\ feature.status = "open" /\ attempts = 0
        /\ \A x \in Procs : /\ pc[x] \in {"marking", "lateMark", "idle"}
                            /\ job[x].kind \in {"request", "none"}
    BY <1>1 DEF Created, Job, NoJob
  <1>3. \A r \in Rows : status[r] = IF r[1] \in LinearStages /\ InScope(c, r[1])
                                    THEN "not_started" ELSE "absent"
    BY <1>1 DEF Created
  <1>4. ScopeRows
    BY <1>2, <1>3, LinearParts DEF ScopeRows
  <1>5. /\ CopiesTrail /\ WorkOpen /\ MergeAfterCI /\ MergedStays /\ FinishAfterAll
        /\ DoneAfterAll
    BY <1>2 DEF CopiesTrail, HoldsCopy, WorkOpen, LinearWork, MergeAfterCI, MergedStays,
                MergeAhead, FinishAfterAll, DoneAfterAll
  <1>6. Pipeline!Init
    <2>1. ScopeWork \subseteq Nat
      BY StagesAssumption DEF ScopeWork, LinearStages, Stage
    <2>2. \A s \in ScopeWork : status[<<s, 0>>] # "completed"
      BY <1>3, LinearRow DEF ScopeWork
    <2> QED
      BY <1>2, <2>1, <2>2 DEF Pipeline!Init
  <1> QED
    BY <1>4, <1>5, <1>6 DEF WorkInv

LEMMA WorkAlways ==
    ASSUME ~Overlap, Requests \subseteq Steady, "dispatch" \notin Faults
    PROVE  Spec => [](TypeInv /\ SoleInv /\ MergeInv /\ NoResume /\ OrderInv /\ WorkInv)
  <1>1. /\ Requests \cap Disorder = {}
        /\ Requests \cap {"force", "cancel", "late_mark"} = {}
    BY DEF Steady, Disorder
  <1>2. Spec => [](TypeInv /\ SoleInv /\ NoResume /\ OrderInv)
    BY <1>1, OrderAlways
  <1>3. Init => MergeInv
    BY DEF Init, Created, MergeInv, MergeOnce, MergeAhead
  <1>4. TypeInv /\ SoleInv /\ MergeInv /\ [Next]_vars => MergeInv'
    BY MergeStep
  <1>5. Spec => []MergeInv
    BY <1>2, <1>3, <1>4, PTL DEF Spec
  <1>6. TypeInv /\ SoleInv /\ MergeInv /\ NoResume /\ OrderInv /\ WorkInv /\ [Next]_vars
            => WorkInv'
    BY WorkInvStep
  <1> QED
    BY <1>2, <1>5, <1>6, WorkInit, PTL DEF Spec

\* Each step is one of PipelineSpec, or changes nothing that it knows of.
LEMMA StepImplements ==
    ASSUME TypeInv, WorkInv, WorkStep
    PROVE  [Pipeline!Next]_(Pipeline!vars)
  <1> DEFINE done == {s \in ScopeWork : status[<<s, 0>>] = "completed"}
             shut == feature.status = "done"
  <1>1. ScopeWork' = ScopeWork /\ feature'.scope = feature.scope
    BY ScopeKept DEF WorkInv
  <1>2. \A s \in ScopeWork : <<s, 0>> \in LinearRows /\ s \in LinearStages /\ s \in Int
    BY StagesAssumption DEF ScopeWork, LinearRows, LinearStages, Stage
  <1>3. ASSUME KeptBut({}) PROVE done' = done
    <2>1. \A s \in ScopeWork : status'[<<s, 0>>] = "completed" <=> status[<<s, 0>>] = "completed"
      BY <1>2, <1>3 DEF KeptBut
    <2> QED
      BY <1>1, <2>1
  <1>4. AllFinished => ScopeWork \subseteq done
    BY DEF AllFinished
  <1>5. CASE KeptBut({}) /\ attempts' = attempts /\ Trails(feature', feature)
    <2>1. CASE feature'.status = feature.status
      BY <1>1, <1>3, <1>5, <2>1 DEF Pipeline!vars
    <2>2. CASE Attended /\ feature.status = "done" /\ feature'.status # "done"
      <3>1. Pipeline!Uncloses
        BY <1>1, <1>3, <1>5, <2>2 DEF Pipeline!Uncloses, Attended
      <3> QED
        BY <3>1 DEF Pipeline!Next
    <2> QED
      BY <1>5, <2>1, <2>2 DEF Trails
  <1>6. CASE /\ KeptBut({}) /\ Same(feature', feature) /\ attempts = 0 /\ attempts' = 1
             /\ status[<<CIStage, 0>>] = "completed"
    <2>1. CIStage \in done
      <3>1. <<CIStage, 0>> \in LinearRows /\ CIStage \in LinearStages
        BY StagesAssumption DEF LinearRows
      <3>2. InScope(feature.scope, CIStage)
        BY <1>6, <3>1 DEF WorkInv, ScopeRows
      <3> QED
        BY <1>6, <3>1, <3>2 DEF ScopeWork, InScope
    <2>2. done' = done /\ shut' = shut
      BY <1>3, <1>6 DEF Same
    <2>3. Pipeline!Merge
      BY <1>1, <1>6, <2>1, <2>2 DEF Pipeline!Merge
    <2> QED
      BY <2>3 DEF Pipeline!Next
  <1>7. CASE /\ KeptBut({}) /\ attempts' = attempts /\ AllFinished
             /\ feature'.status = "done"
    <2>1. Pipeline!Close
      BY <1>1, <1>3, <1>4, <1>7 DEF Pipeline!Close
    <2> QED
      BY <2>1 DEF Pipeline!Next
  <1>8. ASSUME NEW s \in LinearStages, RowFinished(s),
               \/ feature'.status = feature.status
               \/ feature'.status = "done" /\ LastInScope(feature.scope, s)
               \/ Trails(feature', feature) /\ ~LastInScope(feature.scope, s)
        PROVE  [Pipeline!Next]_(Pipeline!vars)
    <2>1. <<s, 0>> \in LinearRows /\ s \in Int
      BY StagesAssumption DEF LinearRows, LinearStages, Stage
    <2>2. s \in ScopeWork
      <3>1. InScope(feature.scope, s)
        BY <1>8, <2>1 DEF RowFinished, WorkInv, ScopeRows
      <3> QED
        BY <3>1 DEF ScopeWork, InScope
    <2>3. s \notin done
      BY <1>8 DEF RowFinished
    <2>4. \A t \in ScopeWork : t < s => t \in done
      <3> SUFFICES ASSUME NEW t \in ScopeWork, t < s PROVE status[<<t, 0>>] = "completed"
        OBVIOUS
      <3>1. <<t, 0>> \in LinearRows /\ InScope(feature.scope, t)
        BY <1>2 DEF ScopeWork, InScope
      <3>2. status[<<t, 0>>] \in Closed
        BY <1>8, <3>1 DEF RowFinished, Clear
      <3> QED
        BY <3>1, <3>2 DEF Closed, WorkInv, ScopeRows
    <2>5. done' = done \cup {s}
      <3>1. \A t \in ScopeWork : t # s =>
               (status'[<<t, 0>>] = "completed" <=> status[<<t, 0>>] = "completed")
        BY <1>2, <1>8 DEF RowFinished, KeptBut
      <3>2. status'[<<s, 0>>] = "completed"
        BY <1>8 DEF RowFinished
      <3> QED
        BY <1>1, <2>2, <3>1, <3>2
    <2>6. shut' \in {shut, ScopeWork \subseteq done'}
      <3>1. CASE feature'.status = feature.status
        BY <3>1
      <3>2. CASE feature'.status = "done" /\ LastInScope(feature.scope, s)
        <4>1. AllFinished'
          BY <1>8, <3>2, LastFinishes DEF WorkInv
        <4>2. ScopeWork \subseteq done'
          BY <1>1, <4>1 DEF AllFinished
        <4> QED
          BY <3>2, <4>2
      <3>3. CASE /\ feature'.status # feature.status
                 /\ Trails(feature', feature) /\ ~LastInScope(feature.scope, s)
        <4>1. EndsLinear(feature.scope) /\ feature.status = "done" /\ shut' = FALSE
          BY <3>3 DEF Trails
        <4>2. PICK t \in LinearStages : InScope(feature.scope, t)
                                        /\ LastInScope(feature.scope, t)
          BY <4>1 DEF EndsLinear
        <4>3. t \in ScopeWork /\ t # s
          BY <3>3, <4>2 DEF ScopeWork, InScope
        <4>4. t > s
          BY <1>2, <2>1, <2>2, <4>2, <4>3 DEF LastInScope, ScopeWork
        <4>5. status[<<t, 0>>] \in Unopened
          BY <1>2, <1>8, <4>3, <4>4 DEF RowFinished, Clear
        <4>6. t \notin done'
          BY <2>5, <4>3, <4>5 DEF Unopened
        <4> QED
          BY <4>1, <4>3, <4>6
      <3> QED
        BY <1>8, <3>1, <3>2, <3>3
    <2>7. attempts' = attempts
      BY <1>8 DEF RowFinished
    <2>8. Pipeline!FinishStage(s)
      BY <1>1, <2>2, <2>3, <2>4, <2>5, <2>6, <2>7 DEF Pipeline!FinishStage
    <2> QED
      BY <2>2, <2>8 DEF Pipeline!Next
  <1>9. ASSUME NEW s \in LinearStages, RowReopened(s)
        PROVE  [Pipeline!Next]_(Pipeline!vars)
    <2>1. <<s, 0>> \in LinearRows /\ s \in Int
      BY StagesAssumption DEF LinearRows, LinearStages, Stage
    <2>2. s \in done
      <3>1. InScope(feature.scope, s) /\ status[<<s, 0>>] = "completed"
        BY <1>9, <2>1 DEF RowReopened, WorkInv, ScopeRows
      <3> QED
        BY <3>1 DEF ScopeWork, InScope
    <2>3. \A t \in done : t <= s
      <3> SUFFICES ASSUME NEW t \in done, t > s PROVE FALSE
        BY <1>2, <2>1
      <3>1. status[<<t, 0>>] \in Unopened
        BY <1>2, <1>9 DEF RowReopened, Clear
      <3> QED
        BY <3>1 DEF Unopened
    <2>4. done' = done \ {s}
      <3>1. \A t \in ScopeWork : t # s =>
               (status'[<<t, 0>>] = "completed" <=> status[<<t, 0>>] = "completed")
        BY <1>2, <1>9 DEF RowReopened, KeptBut
      <3>2. status'[<<s, 0>>] # "completed"
        BY <1>9 DEF RowReopened
      <3> QED
        BY <1>1, <2>2, <3>1, <3>2
    <2>5. shut' \in {shut, FALSE}
      BY <1>9 DEF RowReopened, Trails
    <2>6. Pipeline!Reopen(s)
      BY <1>1, <1>9, <2>2, <2>3, <2>4, <2>5 DEF Pipeline!Reopen, RowReopened, Attended
    <2> QED
      BY <2>2, <2>6 DEF Pipeline!Next
  <1> QED
    BY <1>5, <1>6, <1>7, <1>8, <1>9 DEF WorkStep, Keeps, Reopens

\* The pipeline implements PipelineSpec: in any mode and whatever agents fail,
\* sessions are rejected, gates are approved and crashes restart, the linear
\* stages of the scope are completed in order and for good, the merge comes once
\* and after CI, and the feature is done with all of them; an approval that
\* crosses the pipeline's own step on the stage it works on opens at most that
\* stage again, never one that the merge was based on.
THEOREM PipelineImplemented ==
    ASSUME ~Overlap, Requests \subseteq Steady, "dispatch" \notin Faults
    PROVE  Spec => ImplementsPipeline
  <1>1. Spec => [](TypeInv /\ SoleInv /\ MergeInv /\ NoResume /\ OrderInv /\ WorkInv)
    BY WorkAlways
  <1>2. TypeInv /\ SoleInv /\ MergeInv /\ NoResume /\ OrderInv /\ WorkInv /\ [Next]_vars
            => [Pipeline!Next]_(Pipeline!vars)
    BY WorkSteps, StepImplements
  <1>3. Init => Pipeline!Init
    BY WorkInit
  <1> QED
    BY <1>1, <1>2, <1>3, PTL DEF Spec, ImplementsPipeline, Pipeline!Spec

\* "all stages complete or skipped": a done feature has no other linear stage,
\* under the same hypotheses, but without approvals: a feature that one closed
\* may have its last stage open again.
THEOREM DoneIsComplete ==
    ASSUME ~Overlap, Requests \subseteq Steady \ {"approve"}, "dispatch" \notin Faults
    PROVE  Spec => []DoneComplete
  <1>1. Spec => [](TypeInv /\ SoleInv /\ MergeInv /\ NoResume /\ OrderInv /\ WorkInv)
    BY WorkAlways
  <1>2. ASSUME WorkInv PROVE DoneComplete
    <2> SUFFICES ASSUME feature.status = "done", NEW r \in Rows, r[1] \in LinearStages
                 PROVE  status[r] \in {"completed", "absent"}
      BY DEF DoneComplete
    <2>1. r \in LinearRows /\ r = <<r[1], 0>>
      BY LinearIs, LinearParts
    <2>2. CASE InScope(feature.scope, r[1])
      BY <1>2, <2>1, <2>2 DEF WorkInv, DoneAfterAll, Attended, AllFinished, ScopeWork, InScope
    <2>3. CASE ~InScope(feature.scope, r[1])
      BY <1>2, <2>1, <2>3 DEF WorkInv, ScopeRows
    <2> QED
      BY <2>2, <2>3
  <1> QED
    BY <1>1, <1>2, PTL
-----------------------------------------------------------------------------
(* No silent stop.  An open autonomous feature is never left alone without  *)
(* a stage that was sent back or one that could not be dispatched: wherever *)
(* the goroutine may let go of it, there is one, and nobody else can take   *)
(* it away meanwhile.                                                       *)

Settled ==
    (feature.status = "open" /\ feature.mode = "autonomous") =>
        With("revising") \cup With("failed") # {}

\* Where the loop goes on with the mode that it read.
Loops(l, k) ==
    \/ l \in {"decide", "act", "process", "merging"}
    \/ l \in {"agent", "boltStart", "boltNext", "boltGate"} /\ k # "boltRequest"

\* A copy and a mode once read are those of the feature.
ModeAt(p) ==
    /\ HoldsCopy(p) => snap[p].mode = feature.mode
    /\ Loops(pc[p], job[p].kind) => mode[p] = feature.mode
    /\ pc[p] = "agent" /\ job[p].kind = "boltRequest" => OnBolt(p)
    /\ pc[p] # "checkActive"

\* A goroutine that is at a Bolt which exists.
Building(p) ==
    \/ pc[p] \in {"boltNext", "boltGate"}
    \/ pc[p] = "agent" /\ OnBolt(p)
    \/ pc[p] = "boltStart" /\ job[p].kind # "boltRequest"

\* What is ahead of the goroutine does not fail silently.
StallAt(p) ==
    /\ pc[p] = "unmark" => Settled
    /\ pc[p] \in {"marking", "boltStart"} /\ job[p].kind = "boltRequest" => Settled
    /\ pc[p] = "act" /\ job[p].kind = "approve" => Approvable(Row(p))
    /\ Building(p) => bolts[job[p].bolt] # "absent"
    /\ pc[p] = "boltGate" =>
          \/ GateOpen(p)
          \/ result[p] = "smoke_failed" /\ status[Row(p)] = "revising"

\* A Bolt that has rows exists.
BoltBacked ==
    \A r \in Rows : r[1] \in BoltStages /\ status[r] # "absent" => bolts[r[2]] # "absent"

StallInv == /\ BoltBacked /\ (Stopped => Settled)
            /\ \A p \in Procs : ModeAt(p) /\ StallAt(p)

Driving == {"run", "bolt", "prepare", "reject"}

\* Without approvals a copy is the feature.
CopiesSame == \A p \in Procs : HoldsCopy(p) => Same(snap[p], feature)
LEMMA TrailsClosely == ~Attended => (CopiesTrail <=> CopiesSame)
  BY DEF CopiesTrail, CopiesSame, Trails, Same

\* What a goroutine works on has its row.
RowWorked == \A p \in Procs :
    LinearWork(p) => Row(p) \in LinearRows /\ status[Row(p)] # "absent"
TrackInv == RowsExist /\ CopiesSame /\ RowWorked

\* Nobody makes or removes the row of a linear stage.
LinearRowsStay ==
    /\ feature'.scope = feature.scope
    /\ \A q \in LinearRows : status'[q] = "absent" <=> status[q] = "absent"

LEMMA LinearRowWritten ==
    ASSUME TypeInv, RowWorked, NEW p \in Procs, NEW st, st # "absent", SetRow(Row(p), st),
           Row(p)[1] \in BoltStages \/ LinearWork(p)
    PROVE  \A q \in LinearRows : status'[q] = "absent" <=> status[q] = "absent"
  <1>1. \A q \in LinearRows : q \in Rows /\ q[1] \notin BoltStages
    BY LinearParts DEF LinearStages
  <1>2. \A q \in Rows : status'[q] = IF q = Row(p) THEN st ELSE status[q]
    BY DEF SetRow, TypeInv, TypeOK
  <1> QED
    BY <1>1, <1>2 DEF RowWorked

LEMMA ApprovalStays ==
    ASSUME TypeInv, NEW f \in Features, NEW r, NEW ok, Approvable(r),
           ApproveAndAdvance(f, r, ok)
    PROVE  \A q \in LinearRows : status'[q] = "absent" <=> status[q] = "absent"
  <1>1. r \in Rows /\ status[r] # "absent"
    BY DEF Approvable
  <1>2. \A q \in NextRow(f, r[1]) : status[q] # "absent"
    BY DEF NextRow
  <1> QED
    BY <1>1, <1>2, ApprovedRows, LinearParts

LEMMA GoroutineStays ==
    ASSUME TypeInv, NoResume, CopiesSame, RowWorked, NEW p \in Procs,
           Advance(p) \/ AgentEnds(p)
    PROVE  LinearRowsStay
  <1>1. feature'.scope = feature.scope
    BY CopySteps DEF CopyStep, CopiesSame, Same
  <1>2. CASE \/ DecideWait(p) \/ DecideApprove(p) \/ DecideRerun(p)
             \/ DecidePrepare(p) \/ DecideBolt(p) \/ DecideMerge(p)
             \/ DecideStage(p) \/ DecideDone(p)
    BY <1>1, <1>2, DecidedRows, LinearParts DEF LinearRowsStay
  <1>3. CASE \/ Spawned(p) \/ ActPrepare(p) \/ MergeBegin(p) \/ MergeEnd(p) \/ Finish(p)
             \/ Unmark(p) \/ BoltCompletes(p) \/ BoltPauses(p) \/ BoltHalts(p)
             \/ Mark(p) \/ LateMark(p) \/ CheckActive(p) \/ ResumeExits(p)
    <2>1. status' = status
      BY <1>3 DEF Spawned, ActPrepare, MergeBegin, MergeEnd, Finish, Unmark, BoltCompletes,
                  BoltPauses, BoltHalts, Mark, LateMark, CheckActive, ResumeExits, db
    <2> QED
      BY <1>1, <2>1 DEF LinearRowsStay
  <1>4. CASE AutoApprove(p) \/ BoltApprove(p)
    <2>1. \/ status' = status
          \/ Approvable(Row(p)) /\ \E ok : ApproveAndAdvance(snap[p], Row(p), ok)
      BY <1>4 DEF AutoApprove, BoltApprove, db
    <2>2. snap[p] \in Features
      BY DEF TypeInv, TypeOK
    <2> QED
      BY <1>1, <2>1, <2>2, ApprovalStays DEF LinearRowsStay
  <1>5. CASE ProcessFailure(p) \/ ProcessAutoApprove(p) \/ ProcessNeedsReview(p)
    <2>1. /\ pc[p] = "process"
          /\ \E st \in {"revising", "completed", "awaiting_approval"} : SetRow(Row(p), st)
      BY <1>5 DEF ProcessFailure, ProcessAutoApprove, ProcessNeedsReview, Process
    <2>2. LinearWork(p)
      BY <2>1 DEF LinearWork, TypeInv, JobsOK, JobOK
    <2> QED
      BY <1>1, <2>1, <2>2, LinearRowWritten DEF LinearRowsStay
  <1>6. CASE AgentEnds(p)
    <2>1. /\ pc[p] = "agent"
          /\ \/ status' = status
             \/ \E st \in {"revising", "failed", "awaiting_approval"} : SetRow(Row(p), st)
      BY <1>6 DEF AgentEnds, AgentPasses, AgentFails, SmokeFails, QuotaExhausted,
                  DispatchFails, SetupFails, Returns, Errs
    <2>2. Row(p)[1] \in BoltStages \/ LinearWork(p)
      BY <2>1 DEF LinearWork, Row
    <2> QED
      BY <1>1, <2>1, <2>2, LinearRowWritten DEF LinearRowsStay
  <1>7. CASE ActStage(p)
    <2>1. /\ pc[p] = "act" /\ job[p].kind = "stage"
          /\ status' = status \/ SetRow(Row(p), "in_progress")
      BY <1>7 DEF ActStage, RunStageBegin
    <2> QED
      BY <1>1, <2>1, LinearRowWritten DEF LinearRowsStay, LinearWork
  <1>8. CASE BoltRunStage(p) \/ BoltStart(p)
    <2>1. \A q \in LinearRows : q \in Rows /\ q[1] \notin BoltStages
      BY LinearParts DEF LinearStages
    <2>2. \A q \in Rows : q[1] \notin BoltStages => status'[q] = status[q]
      <3>1. CASE BoltStart(p)
        BY <3>1 DEF BoltStart
      <3>2. CASE BoltRunStage(p)
        <4>1. PICK s \in BoltStages : SetRow(<<s, job[p].bolt>>, "in_progress")
          BY <3>2 DEF BoltRunStage, BoltTodo, RunStageBegin
        <4> QED
          BY <4>1 DEF SetRow, TypeInv, TypeOK
      <3> QED
        BY <1>8, <3>1, <3>2
    <2> QED
      BY <1>1, <2>1, <2>2 DEF LinearRowsStay
  <1>9. ~ResumeMarks(p)
    BY DEF ResumeMarks, NoResume
  <1> QED
    BY <1>2, <1>3, <1>4, <1>5, <1>6, <1>7, <1>8, <1>9 DEF Advance

LEMMA ExistsKept ==
    ASSUME TypeInv, RowsExist, LinearRowsStay
    PROVE  RowsExist'
  BY DEF RowsExist, LinearRowsStay, LinearRows, InScope

\* Whatever is dispatched, the copy is the feature and the rows are the scope's.
LEMMA TrackStep ==
    ASSUME TypeInv, SoleInv, NoResume, TrackInv, [Next]_vars, Requests \subseteq Driving
    PROVE  TrackInv'
  <1>1. RowsExist /\ CopiesSame /\ RowWorked /\ CopiesTrail /\ ~Attended /\ ~Attended'
    BY TrailsClosely DEF TrackInv, Driving, Attended
  <1>2. ASSUME NEW p \in Procs, Advance(p) \/ AgentEnds(p) PROVE TrackInv'
    <2>1. LinearRowsStay /\ CopyStep(p)
      BY <1>1, <1>2, GoroutineStays, CopySteps
    <2>2. RowsExist'
      BY <1>1, <2>1, ExistsKept
    <2>3. CopiesSame'
      BY <1>1, <2>1, CopiesKept DEF CopiesTrail, CopiesSame, Trails, Same
    <2>4. ASSUME NEW q \in Procs, LinearWork(q)'
          PROVE  Row(q)' \in LinearRows /\ status'[Row(q)'] # "absent"
      <3>1. CASE q # p
        <4>1. LinearWork(q) /\ Row(q)' = Row(q)
          BY <2>1, <2>4, <3>1 DEF CopyStep, OthersKept, LinearWork, Row
        <4> QED
          BY <1>1, <2>1, <4>1 DEF RowWorked, LinearRowsStay
      <3>2. CASE q = p
        <4>1. \/ Row(p)' \in LinearRows /\ status'[Row(p)'] \in {"revising", "not_started"}
              \/ /\ LinearWork(p) /\ job' = job
                 /\ status'[Row(p)'] \in {"in_progress", "awaiting_approval", "revising"}
          BY <1>1, <1>2, <2>4, <3>2, WorkOrigin
        <4> QED
          BY <1>1, <3>2, <4>1 DEF RowWorked, Row
      <3> QED
        BY <3>1, <3>2
    <2>5. RowWorked'
      BY <2>4 DEF RowWorked, LinearRows
    <2> QED
      BY <2>2, <2>3, <2>5 DEF TrackInv
  <1>3. CASE UserRequest
    <2>1. /\ feature' = feature
          /\ status' = status \/ \E r \in Rows : status[r] # "absent" /\ SetRow(r, "revising")
      <3>1. \/ RequestReject \/ RequestPrepare
            \/ \E p \in Procs : RequestRun(p) \/ RequestBolt(p)
        BY <1>3 DEF UserRequest, Request, Driving, RequestResume, RequestApprove,
               RequestForce, RequestMode, RequestAccept, RequestJump, RequestAddSkipped,
               RequestScope, RequestCancel
      <3> QED
        BY <3>1 DEF RequestReject, SendBack, Approvable, RequestPrepare, RequestRun,
                    RequestBolt, Accepted, db
    <2>2. LinearRowsStay
      BY <2>1, LinearParts DEF LinearRowsStay, SetRow, TypeInv, TypeOK
    <2>3. RowsExist'
      BY <1>1, <2>2, ExistsKept
    <2>4. CopiesSame'
      BY <1>1, <1>3, <2>1, CopyRequests DEF CopiesSame, HoldsCopy, Same
    <2>5. ASSUME NEW q \in Procs, LinearWork(q)'
          PROVE  Row(q)' \in LinearRows /\ status'[Row(q)'] # "absent"
      <3>1. LinearWork(q) /\ Row(q)' = Row(q)
        BY <1>3, <2>5, RequestsWorking DEF LinearWork, Row
      <3> QED
        BY <1>1, <2>2, <3>1 DEF RowWorked, LinearRowsStay
    <2>6. RowWorked'
      BY <2>5 DEF RowWorked, LinearRows
    <2> QED
      BY <2>3, <2>4, <2>6 DEF TrackInv
  <1>4. ~Crash
    BY DEF Crash, Driving
  <1>5. CASE UNCHANGED vars
    BY <1>5 DEF vars, db, local, TrackInv, RowsExist, InScope, LinearRows, CopiesSame,
                HoldsCopy, Same, RowWorked, LinearWork, Row
  <1> QED
    BY <1>2, <1>3, <1>4, <1>5 DEF Next

\* Rows and Bolts are made by the start of a Bolt and by the preparation.
BoltsStay ==
    /\ \A r \in Rows : r[1] \in BoltStages /\ status'[r] # "absent" => status[r] # "absent"
    /\ \A b \in Bolt : bolts[b] # "absent" => bolts'[b] # "absent"

LEMMA BackedRow ==
    ASSUME TypeInv, BoltBacked, NEW r \in Rows, NEW st, SetRow(r, st),
           r[1] \in BoltStages => bolts[r[2]] # "absent",
           bolts' = bolts \/ \E b, t : SetBolt(b, t) /\ t # "absent"
    PROVE  BoltBacked'
  <1>1. \A b \in Bolt : bolts[b] # "absent" => bolts'[b] # "absent"
    BY DEF SetBolt, TypeInv, TypeOK
  <1>2. \A q \in Rows : q # r => status'[q] = status[q]
    BY DEF SetRow, TypeInv, TypeOK
  <1> QED
    BY <1>1, <1>2, RowParts DEF BoltBacked

LEMMA BackedKept ==
    ASSUME BoltBacked, BoltsStay
    PROVE  BoltBacked'
  BY RowParts DEF BoltBacked, BoltsStay

\* When a goroutine or a handler acts, the others are idle.
LEMMA OnlyActor ==
    ASSUME TypeInv, SoleInv, NoResume, StallInv, NEW p \in Procs, Advance(p) \/ AgentEnds(p)
    PROVE  pc[p] # "idle" /\ \A q \in Procs \ {p} : pc[q] = "idle"
  <1>1. Runs(p) \/ Unmark(p) \/ Mark(p) \/ LateMark(p) \/ CheckActive(p)
    BY RunningSteps
  <1>2. p \in Live \/ pc[p] = "marking"
    <2>1. ~LateMark(p) /\ ~CheckActive(p)
      BY DEF LateMark, CheckActive, SoleInv, NoLate, StallInv, ModeAt
    <2> QED
      BY <1>1, <2>1 DEF Runs, Unmark, Mark, Live, LiveLabel
  <1>3. ASSUME NEW q \in Procs \ {p} PROVE q \notin Live /\ pc[q] # "marking"
    BY <1>2, <1>3 DEF SoleInv, AtMostOne, Handling
  <1>4. ASSUME NEW q \in Procs \ {p} PROVE pc[q] = "idle"
    <2>1. pc[q] \notin {"marking", "lateMark", "checkActive"}
      BY <1>3 DEF SoleInv, NoLate, StallInv, ModeAt
    <2> QED
      BY <1>3, <2>1 DEF Live
  <1> QED
    BY <1>2, <1>4 DEF Live

LEMMA IdleStays ==
    ASSUME NEW q \in Procs, pc'[q] = "idle"
    PROVE  ModeAt(q)' /\ StallAt(q)'
  BY DEF ModeAt, StallAt, HoldsCopy, Loops, Building

\* A step of p to l.
LEMMA StallMove ==
    ASSUME TypeInv, SoleInv, NoResume, StallInv, NEW p \in Procs, Advance(p) \/ AgentEnds(p),
           BoltsStay \/ BoltBacked', NEW l, Goto(p, l), l # "idle" \/ Settled',
           ModeAt(p)', StallAt(p)'
    PROVE  StallInv'
  <1>1. \A q \in Procs \ {p} : pc'[q] = "idle"
    BY OnlyActor DEF Goto, TypeInv, TypeOK
  <1>2. \A q \in Procs : ModeAt(q)' /\ StallAt(q)'
    BY <1>1, IdleStays
  <1>3. Stopped' => Settled'
    BY DEF Stopped, Goto, TypeInv, TypeOK
  <1> QED
    BY <1>2, <1>3, BackedKept DEF StallInv

LEMMA StallDecides ==
    ASSUME TypeInv, SoleInv, OwnedInv, RowsExist, StallInv, NEW p \in Procs,
           \/ DecideWait(p) \/ DecideApprove(p) \/ DecideRerun(p)
           \/ DecidePrepare(p) \/ DecideBolt(p) \/ DecideMerge(p)
           \/ DecideStage(p) \/ DecideDone(p)
    PROVE  StallInv'
  <1>1. status' = status /\ feature' = feature
    BY WorkDecisions
  <1>2. /\ ModeAt(p) /\ BoltBacked /\ NoResume /\ Advance(p) /\ bolts' = bolts /\ mode' = mode
    BY DEF StallInv, OwnedInv, Advance, DecideWait, DecideApprove, DecideRerun, DecidePrepare,
           DecideBolt, DecideMerge, DecideStage, DecideDone, Decide
  <1>3. BoltsStay
    BY <1>1, <1>2 DEF BoltsStay
  <1>4. ASSUME NEW l \in {"unmark", "act", "boltStart", "finish"}, NEW j, Decide(p, l, j),
               l = "unmark" => Settled,
               l = "act" /\ j.kind = "approve" => Approvable(<<j.stage, j.bolt>>),
               l = "boltStart" => j.kind # "boltRequest" /\ bolts[j.bolt] # "absent"
        PROVE  StallInv'
    <2>1. /\ pc[p] = "decide" /\ Goto(p, l) /\ pc'[p] = l /\ job'[p] = j /\ snap'[p] = feature
      BY <1>4 DEF Decide, Goto, Take, TypeInv, TypeOK
    <2>2. mode'[p] = feature'.mode
      BY <1>1, <1>2, <2>1 DEF ModeAt, Loops
    <2>3. ModeAt(p)'
      BY <1>1, <2>1, <2>2 DEF ModeAt
    <2>4. StallAt(p)'
      BY <1>1, <1>2, <1>4, <2>1 DEF StallAt, Building, Settled, With, Approvable, Row
    <2> QED
      BY <1>2, <1>3, <2>1, <2>3, <2>4, StallMove
  <1>5. CASE DecideWait(p)
    <2>1. Decide(p, "unmark", NoJob) /\ pc[p] = "decide"
      BY <1>5 DEF DecideWait, Decide
    <2>2. mode[p] = feature.mode
      BY <1>2, <2>1 DEF ModeAt, Loops
    <2>3. ASSUME feature.status = "open", feature.mode = "autonomous" PROVE FALSE
      <3>1. ~NoneRunning
        BY <1>5, <2>2, <2>3 DEF DecideWait, AutoMode
      <3>2. PICK r \in Rows : status[r] = "in_progress"
        BY <3>1 DEF NoneRunning, With
      <3>3. \A q \in Procs : pc[q] \notin {"agent", "polling"}
        BY <1>2, <2>1, OnlyActor
      <3>4. Orphan(r)
        BY <3>2, <3>3 DEF Orphan, Owned
      <3> QED
        BY <2>3, <3>4 DEF OwnedInv, ClosedForGood, ClosedEverywhere
    <2>4. Settled
      BY <2>3 DEF Settled
    <2> QED
      BY <1>4, <2>1, <2>4
  <1>6. CASE DecideApprove(p)
    <2>1. PICK r \in With("awaiting_approval") : Decide(p, "act", Job("approve", r[1], r[2]))
      BY <1>6 DEF DecideApprove, First
    <2>2. Approvable(<<r[1], r[2]>>)
      BY RowParts DEF With, Approvable
    <2> QED
      BY <1>4, <2>1, <2>2 DEF Job
  <1>7. CASE DecideRerun(p)
    <2>1. PICK r \in With("revising") :
              IF r[1] \in BoltStages THEN Decide(p, "boltStart", Job("bolt", 1, r[2]))
              ELSE Decide(p, "act", Job("stage", r[1], 0))
      BY <1>7 DEF DecideRerun, First
    <2>2. r[1] \in BoltStages => bolts[r[2]] # "absent"
      BY <1>2 DEF BoltBacked, With
    <2> QED
      BY <1>4, <2>1, <2>2 DEF Job
  <1>8. CASE DecideBolt(p)
    <2>1. PICK b \in Bolt : FirstBolt(b) /\ Decide(p, "boltStart", Job("bolt", 1, b))
      BY <1>8 DEF DecideBolt
    <2>2. bolts[b] # "absent"
      BY <2>1 DEF FirstBolt, BoltToRun
    <2> QED
      BY <1>4, <2>1, <2>2 DEF Job
  <1>9. CASE DecidePrepare(p) \/ DecideMerge(p) \/ DecideStage(p) \/ DecideDone(p)
    <2>1. \/ \E k \in {"prepare", "merge", "stage"} : \E s : Decide(p, "act", Job(k, s, 0))
          \/ Decide(p, "finish", NoJob)
      BY <1>9 DEF DecidePrepare, DecideMerge, DecideStage, DecideDone
    <2> QED
      BY <1>4, <2>1 DEF Job
  <1> QED
    BY <1>5, <1>6, <1>7, <1>8, <1>9

\* A step that neither takes up a stage nor leaves the loop undone.
LEMMA StallGoesOn ==
    ASSUME TypeInv, SoleInv, NoResume, StallInv, NEW p \in Procs, Advance(p) \/ AgentEnds(p),
           BoltsStay \/ BoltBacked', NEW l \in {"decide", "spawned", "merging"}, Goto(p, l),
           feature'.mode = feature.mode, job' = job,
           l = "spawned" \/ (mode' = mode /\ Loops(pc[p], job[p].kind))
             \/ mode' = [mode EXCEPT ![p] = feature.mode]
    PROVE  StallInv'
  <1>1. pc'[p] = l
    BY DEF Goto, TypeInv, TypeOK
  <1>2. Loops(l, job[p].kind) => mode'[p] = feature.mode
    BY DEF Loops, StallInv, ModeAt, TypeInv, TypeOK
  <1>3. ModeAt(p)' /\ StallAt(p)'
    BY <1>1, <1>2 DEF ModeAt, StallAt, HoldsCopy, Building
  <1> QED
    BY <1>3, StallMove

\* A step that leaves the loop.
LEMMA StallLeaves ==
    ASSUME TypeInv, SoleInv, NoResume, StallInv, NEW p \in Procs, Advance(p) \/ AgentEnds(p),
           BoltsStay \/ BoltBacked', Goto(p, "unmark"), Settled'
    PROVE  StallInv'
  <1>1. pc'[p] = "unmark"
    BY DEF Goto, TypeInv, TypeOK
  <1>2. ModeAt(p)' /\ StallAt(p)'
    BY <1>1 DEF ModeAt, StallAt, HoldsCopy, Loops, Building
  <1> QED
    BY <1>2, StallMove

LEMMA StallLoop ==
    ASSUME TypeInv, SoleInv, NoResume, RowsExist, CopiesSame, StallInv, NEW p \in Procs,
           \/ Spawned(p) \/ AutoApprove(p) \/ ActPrepare(p) \/ MergeBegin(p)
           \/ MergeEnd(p) \/ Finish(p) \/ Unmark(p),
           "auth" \notin Faults
    PROVE  StallInv'
  <1>1. Advance(p) /\ ModeAt(p) /\ StallAt(p)
    BY DEF Advance, StallInv
  <1>2. CASE Spawned(p) \/ MergeBegin(p) \/ MergeEnd(p)
    <2>1. /\ BoltsStay /\ feature' = feature /\ job' = job
          /\ \/ mode' = mode /\ Loops(pc[p], job[p].kind)
             \/ mode' = [mode EXCEPT ![p] = feature.mode]
          /\ \E l \in {"decide", "merging"} : Goto(p, l)
      BY <1>2 DEF Spawned, MergeBegin, MergeEnd, db, local, BoltsStay, Loops
    <2> QED
      BY <1>1, <2>1, StallGoesOn
  <1>3. CASE ActPrepare(p)
    <2>1. BoltsStay
      BY <1>3 DEF ActPrepare, PrepareBolts, Prepared, BoltsStay
    <2>2. /\ feature' = feature /\ job' = job /\ mode' = mode /\ Goto(p, "decide")
          /\ Loops(pc[p], job[p].kind)
      BY <1>3 DEF ActPrepare, local, Loops
    <2> QED
      BY <1>1, <2>1, <2>2, StallGoesOn
  <1>4. CASE AutoApprove(p)
    <2>1. /\ pc[p] = "act" /\ Approvable(Row(p)) /\ snap[p].mode = feature.mode
          /\ snap[p].scope = feature.scope /\ snap[p] \in Features
      BY <1>1, <1>4
         DEF AutoApprove, StallAt, ModeAt, HoldsCopy, CopiesSame, Same, TypeInv, TypeOK
    <2>2. AdvanceOutcomes(snap[p], job[p].stage) = {TRUE}
      <3>1. CASE job[p].stage \in BoltStages
        BY <3>1 DEF AdvanceOutcomes
      <3>2. CASE job[p].stage \notin BoltStages
        <4>1. Row(p) \in LinearRows /\ Row(p)[1] = job[p].stage
          BY <2>1, <3>2, RowParts, LinearIs DEF Approvable, Row
        <4>2. InScope(snap[p].scope, job[p].stage)
          BY <2>1, <4>1 DEF RowsExist, Approvable
        <4> QED
          BY <3>2, <4>2 DEF AdvanceOutcomes, AdvanceMayFail
      <3> QED
        BY <3>1, <3>2
    <2>3. /\ ApproveAndAdvance(snap[p], Row(p), TRUE) /\ Goto(p, "decide")
          /\ mode' = mode /\ job' = job
      BY <1>4, <2>1, <2>2 DEF AutoApprove, local
    <2>4. BoltsStay
      <3>1. Row(p) \in Rows /\ status[Row(p)] # "absent"
        BY <2>1 DEF Approvable
      <3>2. bolts' = bolts
        BY <2>3 DEF ApproveAndAdvance
      <3> QED
        BY <2>1, <2>3, <3>1, <3>2, ApprovedRows DEF BoltsStay, NextRow
    <2>5. feature'.mode = feature.mode
      BY <2>1, <2>3, AdvancedMode DEF ApproveAndAdvance
    <2> QED
      BY <1>1, <2>1, <2>3, <2>4, <2>5, StallGoesOn DEF Loops
  <1>5. CASE Finish(p)
    <2>1. BoltsStay /\ Goto(p, "unmark")
      BY <1>5 DEF Finish, BoltsStay
    <2>2. Settled'
      BY <1>5 DEF Finish, Settled, TypeInv, TypeOK, Features
    <2> QED
      BY <1>1, <2>1, <2>2, StallLeaves
  <1>6. CASE Unmark(p)
    <2>1. BoltsStay /\ Goto(p, "idle") /\ Settled'
      BY <1>1, <1>6 DEF Unmark, BoltsStay, db, StallAt, Settled, With
    <2>2. pc'[p] = "idle"
      BY <2>1 DEF Goto, TypeInv, TypeOK
    <2> QED
      BY <1>1, <2>1, <2>2, IdleStays, StallMove
  <1> QED
    BY <1>2, <1>3, <1>4, <1>5, <1>6

\* RunStage begins: the copy that it may save has the mode of the feature.
LEMMA StallBegins ==
    ASSUME TypeInv, SoleInv, NoResume, StallInv, NEW p \in Procs, Advance(p), HoldsCopy(p),
           NEW r \in Rows, RunStageBegin(p, r), Row(p)' = r,
           job'[p].kind = job[p].kind, mode' = mode, bolts' = bolts,
           job[p].kind = "boltRequest" => r[1] \in BoltStages,
           job[p].kind # "boltRequest" => Loops(pc[p], job[p].kind),
           r[1] \in BoltStages => bolts[r[2]] # "absent"
    PROVE  StallInv'
  <1>1. pc'[p] = "agent" /\ Goto(p, "agent") /\ ModeAt(p) /\ BoltBacked
    BY DEF RunStageBegin, Goto, StallInv, TypeInv, TypeOK
  <1>2. r = <<job'[p].stage, job'[p].bolt>>
    BY DEF Row
  <1>3. feature'.mode = feature.mode /\ snap'[p].mode = feature.mode
    <2>1. snap[p].mode = feature.mode /\ snap[p] \in Features
      BY <1>1 DEF ModeAt, TypeInv, TypeOK
    <2>2. \/ UNCHANGED <<feature, snap>>
          \/ /\ feature' = [snap[p] EXCEPT !.tree = TRUE]
             /\ snap' = [snap EXCEPT ![p] = [snap[p] EXCEPT !.tree = TRUE]]
      BY DEF RunStageBegin, EnsureSpecWorktree, TypeInv, TypeOK
    <2>3. [snap[p] EXCEPT !.tree = TRUE].mode = snap[p].mode
      BY <2>1 DEF Features
    <2> QED
      BY <2>1, <2>2, <2>3 DEF TypeInv, TypeOK
  <1>4. BoltBacked'
    BY <1>1, BackedRow DEF RunStageBegin
  <1>5. ModeAt(p)'
    BY <1>1, <1>2, <1>3 DEF ModeAt, Loops, OnBolt
  <1>6. StallAt(p)'
    BY <1>1, <1>2 DEF StallAt, Building, OnBolt
  <1> QED
    BY <1>1, <1>4, <1>5, <1>6, StallMove

LEMMA StallStages ==
    ASSUME TypeInv, SoleInv, NoResume, RowWorked, StallInv, NEW p \in Procs,
           ActStage(p) \/ BoltRunStage(p)
    PROVE  StallInv'
  <1>1. Advance(p) /\ StallAt(p)
    BY DEF Advance, StallInv
  <1>2. CASE ActStage(p)
    <2>1. pc[p] = "act" /\ job[p].kind = "stage" /\ Row(p) \in Rows /\ HoldsCopy(p)
      BY <1>2 DEF ActStage, TypeInv, JobsOK, JobOK, Row, HoldsCopy
    <2>2. status[Row(p)] # "absent"
      BY <2>1 DEF RowWorked, LinearWork
    <2>3. /\ RunStageBegin(p, Row(p)) /\ job' = job /\ mode' = mode /\ bolts' = bolts
          /\ Loops(pc[p], job[p].kind)
      BY <1>2, <2>1, <2>2 DEF ActStage, Loops
    <2>4. Row(p)' = Row(p)
      BY <2>3 DEF Row
    <2>5. Row(p)[1] \in BoltStages => bolts[Row(p)[2]] # "absent"
      BY <2>1, <2>2 DEF StallInv, BoltBacked
    <2> QED
      BY <1>1, <2>1, <2>3, <2>4, <2>5, StallBegins
  <1>3. CASE BoltRunStage(p)
    <2>1. PICK s \in BoltTodo(p) :
              /\ RunStageBegin(p, <<s, job[p].bolt>>)
              /\ Take(p, Job(job[p].kind, s, job[p].bolt))
      BY <1>3 DEF BoltRunStage
    <2>2. pc[p] = "boltNext" /\ HoldsCopy(p) /\ mode' = mode /\ bolts' = bolts
      BY <1>3 DEF BoltRunStage, HoldsCopy
    <2>3. s \in BoltStages /\ <<s, job[p].bolt>> \in Rows /\ bolts[job[p].bolt] # "absent"
      BY <1>1, <2>2, BoltRow DEF BoltTodo, TypeInv, JobsOK, JobOK, StallAt, Building
    <2>4. job'[p] = Job(job[p].kind, s, job[p].bolt)
      BY <2>1 DEF Take, TypeInv, TypeOK
    <2>5. Row(p)' = <<s, job[p].bolt>> /\ job'[p].kind = job[p].kind
      BY <2>4 DEF Row, Job
    <2>6. job[p].kind # "boltRequest" => Loops(pc[p], job[p].kind)
      BY <2>2 DEF Loops
    <2> QED
      BY <1>1, <2>1, <2>2, <2>3, <2>5, <2>6, StallBegins
  <1> QED
    BY <1>2, <1>3

\* ProcessStageResult leaves the loop with a stage sent back, or in a mode
\* that is not autonomous.
LEMMA StallProcess ==
    ASSUME TypeInv, SoleInv, NoResume, StallInv, NEW p \in Procs,
           ProcessFailure(p) \/ ProcessAutoApprove(p) \/ ProcessNeedsReview(p)
    PROVE  StallInv'
  <1>1. Advance(p) /\ ModeAt(p) /\ BoltBacked
    BY DEF Advance, StallInv
  <1>2. pc[p] = "process" /\ feature' = feature /\ job' = job /\ mode' = mode
        /\ bolts' = bolts /\ \E st : SetRow(Row(p), st)
    BY DEF ProcessFailure, ProcessAutoApprove, ProcessNeedsReview, Process
  <1>3. Row(p) \in Rows /\ Row(p)[1] \notin BoltStages
    BY <1>2 DEF TypeInv, JobsOK, JobOK, Row
  <1>4. BoltBacked'
    BY <1>1, <1>2, <1>3, BackedRow
  <1>5. CASE ProcessFailure(p)
    <2>1. SetRow(Row(p), "revising") /\ Goto(p, "unmark")
      BY <1>5 DEF ProcessFailure, Process
    <2>2. Settled'
      BY <1>3, <2>1 DEF SetRow, Settled, With, TypeInv, TypeOK
    <2> QED
      BY <1>1, <1>4, <2>1, <2>2, StallLeaves
  <1>6. CASE ProcessAutoApprove(p)
    BY <1>1, <1>2, <1>4, <1>6, StallGoesOn DEF ProcessAutoApprove, Process, Loops
  <1>7. CASE ProcessNeedsReview(p)
    <2>1. snap[p].mode = feature.mode
      BY <1>1, <1>2 DEF ModeAt, HoldsCopy
    <2>2. Settled'
      BY <1>2, <1>7, <2>1 DEF ProcessNeedsReview, AutoApproved, Settled
    <2> QED
      BY <1>1, <1>4, <1>7, <2>2, StallLeaves DEF ProcessNeedsReview, Process
  <1> QED
    BY <1>5, <1>6, <1>7

\* A goroutine at a Bolt writes the row of a Bolt that exists.
LEMMA StallBolts ==
    ASSUME TypeInv, SoleInv, NoResume, CopiesSame, StallInv, NEW p \in Procs,
           \/ BoltStart(p) \/ BoltCompletes(p) \/ BoltApprove(p)
           \/ BoltPauses(p) \/ BoltHalts(p)
    PROVE  StallInv'
  <1>1. Advance(p) /\ ModeAt(p) /\ StallAt(p) /\ BoltBacked
    BY DEF Advance, StallInv
  <1>2. /\ pc[p] \in {"boltStart", "boltNext", "boltGate"} /\ mode' = mode
        /\ snap[p].mode = feature.mode /\ snap[p].status = feature.status
        /\ snap[p] \in Features
        /\ (job[p].kind # "boltRequest" => Loops(pc[p], job[p].kind))
    BY <1>1 DEF BoltStart, BoltCompletes, BoltApprove, BoltPauses, BoltHalts, local,
                ModeAt, HoldsCopy, CopiesSame, Same, Loops, TypeInv, TypeOK
  <1>3. pc[p] = "boltGate" => /\ Row(p) \in Rows /\ job[p].stage \in BoltStages
    BY DEF TypeInv, JobsOK, JobOK, Row
  <1>4. AfterBolt(p) \in {"decide", "spawned"}
        /\ (AfterBolt(p) = "decide" => Loops(pc[p], job[p].kind))
    BY <1>2 DEF AfterBolt
  <1>5. ASSUME NEW b, NEW t, SetBolt(b, t), t # "absent", status' = status
        PROVE  BoltsStay
    BY <1>5 DEF BoltsStay, SetBolt, TypeInv, TypeOK
  <1>6. CASE BoltStart(p)
    <2> DEFINE f == [snap[p] EXCEPT !.bolt = job[p].bolt]
    <2>1. f.mode = feature.mode /\ f.status = feature.status
      BY <1>2 DEF Features
    <2>2. pc[p] = "boltStart"
      BY <1>6 DEF BoltStart
    <2>3. CASE bolts[job[p].bolt] = "absent"
      <3>1. job[p].kind = "boltRequest"
        BY <1>1, <2>2, <2>3 DEF StallAt, Building
      <3>2. feature' = f /\ BoltsStay /\ status' = status /\ Goto(p, "unmark")
        BY <1>6, <2>3, <3>1 DEF BoltStart, BoltsStay
      <3>3. Settled'
        BY <1>1, <2>1, <2>2, <3>1, <3>2 DEF StallAt, Settled, With
      <3> QED
        BY <1>1, <3>2, <3>3, StallLeaves
    <2>4. CASE bolts[job[p].bolt] # "absent"
      <3>1. /\ feature' = f /\ snap' = [snap EXCEPT ![p] = f] /\ job' = job
            /\ SetBolt(job[p].bolt, "in_progress") /\ Goto(p, "boltNext")
            /\ \A r \in Rows : status'[r] = status[r] \/ r[2] = job[p].bolt
        BY <1>6, <2>4 DEF BoltStart
      <3>2. job[p].bolt \in Bolt
        BY <2>2 DEF TypeInv, JobsOK, JobOK
      <3>3. /\ pc'[p] = "boltNext" /\ snap'[p] = f /\ bolts'[job[p].bolt] = "in_progress"
            /\ \A b \in Bolt : bolts'[b] = bolts[b] \/ bolts'[b] = "in_progress"
        BY <3>1, <3>2 DEF Goto, SetBolt, TypeInv, TypeOK
      <3> HIDE DEF f
      <3>4. BoltBacked'
        BY <1>1, <3>1, <3>2, <3>3, RowParts DEF BoltBacked
      <3>5. ModeAt(p)'
        BY <1>1, <1>2, <2>1, <2>2, <3>1, <3>3 DEF ModeAt, Loops
      <3>6. StallAt(p)'
        BY <3>1, <3>3 DEF StallAt, Building
      <3> QED
        BY <1>1, <3>1, <3>4, <3>5, <3>6, StallMove
    <2> QED
      BY <2>3, <2>4
  <1>7. CASE BoltCompletes(p)
    <2>1. /\ BoltsStay /\ Goto(p, AfterBolt(p)) /\ feature' = feature /\ job' = job
      BY <1>5, <1>7 DEF BoltCompletes, local
    <2> QED
      BY <1>1, <1>2, <1>4, <2>1, StallGoesOn
  <1>8. CASE BoltApprove(p) /\ Approvable(Row(p))
    <2>1. pc[p] = "boltGate" /\ snap' = snap /\ mode' = mode /\ bolts' = bolts
          /\ ApproveAndAdvance(snap[p], Row(p), TRUE) /\ Goto(p, "boltNext")
          /\ Take(p, Job(job[p].kind, job[p].stage + 1, job[p].bolt))
      BY <1>8 DEF BoltApprove, ApproveAndAdvance
    <2>2. feature' = feature
      BY <1>3, <2>1 DEF ApproveAndAdvance, AdvancedFeature, Row
    <2>3. BoltsStay
      <3>1. Row(p) \in Rows /\ status[Row(p)] # "absent"
        BY <1>8 DEF Approvable
      <3> QED
        BY <1>2, <2>1, <3>1, ApprovedRows DEF BoltsStay, NextRow
    <2>4. /\ pc'[p] = "boltNext" /\ job'[p].kind = job[p].kind
          /\ job'[p].bolt = job[p].bolt
      BY <2>1 DEF Goto, Take, Job, TypeInv, TypeOK
    <2>5. ModeAt(p)'
      BY <1>1, <1>2, <2>1, <2>2, <2>4 DEF ModeAt, Loops
    <2>6. StallAt(p)'
      BY <1>1, <2>1, <2>4 DEF StallAt, Building
    <2> QED
      BY <1>1, <2>1, <2>3, <2>5, <2>6, StallMove
  <1>9. CASE BoltApprove(p) /\ ~Approvable(Row(p))
    <2>1. /\ SetBolt(job[p].bolt, "pending") /\ Goto(p, AfterBolt(p))
          /\ UNCHANGED <<feature, status, job>>
      BY <1>9 DEF BoltApprove
    <2>2. BoltsStay
      BY <1>5, <2>1
    <2> QED
      BY <1>1, <1>2, <1>4, <2>1, <2>2, StallGoesOn
  <1>10. CASE BoltPauses(p)
    <2>1. feature' = feature /\ Goto(p, "unmark") /\ ~AutoMode(snap[p].mode)
      BY <1>10 DEF BoltPauses
    <2>2. BoltsStay
      BY <1>5, <1>10 DEF BoltPauses
    <2>3. Settled'
      BY <1>2, <2>1 DEF Settled, AutoMode
    <2> QED
      BY <1>1, <2>1, <2>2, <2>3, StallLeaves
  <1>11. CASE BoltHalts(p)
    <2>1. /\ pc[p] = "boltGate" /\ ~GateOpen(p) /\ status' = status /\ bolts' = bolts
          /\ Goto(p, "unmark")
      BY <1>11 DEF BoltHalts, db
    <2>2. status'[Row(p)] = "revising" /\ Row(p) \in Rows
      BY <1>1, <1>3, <2>1 DEF StallAt
    <2>3. Settled' /\ BoltsStay
      BY <2>1, <2>2 DEF Settled, With, BoltsStay
    <2> QED
      BY <1>1, <2>1, <2>3, StallLeaves
  <1> QED
    BY <1>6, <1>7, <1>8, <1>9, <1>10, <1>11

LEMMA StallAgent ==
    ASSUME TypeInv, SoleInv, NoResume, StallInv, NEW p \in Procs, AgentEnds(p),
           "setup" \notin Faults
    PROVE  StallInv'
  <1>1. ModeAt(p) /\ StallAt(p) /\ BoltBacked
    BY DEF StallInv
  <1>2. CASE AgentPasses(p) \/ AgentFails(p) \/ SmokeFails(p)
    <2>1. PICK st, n, res : /\ Returns(p, st, n, res)
                            /\ \/ res \in {"default_pass", "agent_failed"}
                               \/ res = "smoke_failed" /\ st = "revising"
      BY <1>2 DEF AgentPasses, AgentFails, SmokeFails
    <2>2. /\ pc[p] = "agent" /\ SetRow(Row(p), st)
          /\ Goto(p, IF OnBolt(p) THEN "boltGate" ELSE "process")
          /\ UNCHANGED <<feature, bolts, mode, snap, job>>
      BY <2>1 DEF Returns
    <2>3. Row(p) \in Rows /\ (OnBolt(p) <=> Row(p)[1] \in BoltStages)
          /\ Row(p)[2] = job[p].bolt
      BY <2>2 DEF TypeInv, JobsOK, JobOK, Row, OnBolt
    <2>4. BoltBacked'
      BY <1>1, <2>2, <2>3, BackedRow DEF StallAt, Building
    <2>5. pc'[p] = IF OnBolt(p) THEN "boltGate" ELSE "process"
      BY <2>2 DEF Goto, TypeInv, TypeOK
    <2>6. ModeAt(p)'
      BY <1>1, <2>2, <2>5 DEF ModeAt, HoldsCopy, Loops, OnBolt
    <2>7. StallAt(p)'
      <3>1. GateOpen(p)' \/ (result'[p] = "smoke_failed" /\ status'[Row(p)] = "revising")
        BY <2>1, <2>3 DEF Returns, SetRow, GateOpen, TypeInv, TypeOK
      <3>2. Row(p)' = Row(p)
        BY <2>2 DEF Row
      <3>3. Building(p)' => bolts'[job'[p].bolt] # "absent"
        BY <1>1, <2>2, <2>5 DEF StallAt, Building
      <3> QED
        BY <2>5, <3>1, <3>2, <3>3 DEF StallAt
    <2> QED
      BY <2>2, <2>4, <2>6, <2>7, StallMove
  <1>3. CASE QuotaExhausted(p) \/ DispatchFails(p)
    <2>1. /\ pc[p] = "agent" /\ Goto(p, "unmark")
          /\ \E st \in {"revising", "failed"} : SetRow(Row(p), st)
          /\ bolts' = bolts \/ \E b, t : SetBolt(b, t) /\ t # "absent"
      BY <1>3 DEF QuotaExhausted, DispatchFails, Errs
    <2>2. Row(p) \in Rows
      BY <2>1 DEF TypeInv, JobsOK, JobOK, Row
    <2>3. Row(p)[1] \in BoltStages => bolts[Row(p)[2]] # "absent"
      BY <1>1, <2>1 DEF StallAt, Building, OnBolt, Row
    <2>4. BoltBacked'
      BY <1>1, <2>1, <2>2, <2>3, BackedRow
    <2>5. Settled'
      BY <2>1, <2>2 DEF SetRow, Settled, With, TypeInv, TypeOK
    <2> QED
      BY <2>1, <2>4, <2>5, StallLeaves
  <1>4. ~SetupFails(p)
    BY DEF SetupFails
  <1> QED
    BY <1>2, <1>3, <1>4 DEF AgentEnds

LEMMA StallMarks ==
    ASSUME TypeInv, SoleInv, NoResume, StallInv, NEW p \in Procs,
           Mark(p) \/ LateMark(p) \/ CheckActive(p) \/ ResumeMarks(p) \/ ResumeExits(p)
    PROVE  StallInv'
  <1>1. ModeAt(p) /\ StallAt(p)
    BY DEF StallInv
  <1>2. Mark(p) /\ Advance(p)
    BY <1>1 DEF LateMark, CheckActive, ResumeMarks, ResumeExits, SoleInv, NoLate, NoResume,
                ModeAt, Advance
  <1>3. /\ pc[p] = "marking" /\ UNCHANGED <<feature, status, bolts, mode, snap, job>>
        /\ BoltsStay
    BY <1>2 DEF Mark, db, local, BoltsStay
  <1>4. CASE job[p].kind = "boltRequest"
    <2>1. Goto(p, "boltStart")
      BY <1>2, <1>4 DEF Mark
    <2>2. pc'[p] = "boltStart"
      BY <2>1 DEF Goto, TypeInv, TypeOK
    <2>3. ModeAt(p)'
      BY <1>1, <1>3, <1>4, <2>2 DEF ModeAt, HoldsCopy, Loops
    <2>4. StallAt(p)'
      BY <1>1, <1>3, <1>4, <2>2 DEF StallAt, Building, Settled, With
    <2> QED
      BY <1>2, <1>3, <2>1, <2>3, <2>4, StallMove
  <1>5. CASE job[p].kind # "boltRequest"
    <2>1. Goto(p, "spawned")
      BY <1>2, <1>5 DEF Mark, NoResume
    <2> QED
      BY <1>2, <1>3, <2>1, StallGoesOn
  <1> QED
    BY <1>4, <1>5

\* A user's request, with no goroutine beside the mark.
LEMMA StallRequests ==
    ASSUME TypeInv, SoleInv, NoResume, StallInv, UserRequest,
           ~Overlap, Requests \subseteq Driving
    PROVE  StallInv'
  <1>1. ASSUME NEW p \in Procs, RequestRun(p) \/ RequestBolt(p) PROVE StallInv'
    <2>1. /\ UNCHANGED <<feature, status, bolts, mode>> /\ ~active /\ Handling = {}
          /\ Goto(p, "marking")
      BY <1>1 DEF RequestRun, RequestBolt, Request, Accepted, db
    <2>2. \A q \in Procs : pc[q] = "idle"
      BY <2>1 DEF SoleInv, Live, Handling
    <2>3. Settled'
      BY <2>1, <2>2 DEF StallInv, Stopped, Settled, With
    <2>4. pc'[p] = "marking" /\ \A q \in Procs \ {p} : pc'[q] = "idle"
      BY <2>1, <2>2 DEF Goto, TypeInv, TypeOK
    <2>5. \A q \in Procs \ {p} : ModeAt(q)' /\ StallAt(q)'
      BY <2>4, IdleStays
    <2>6. ModeAt(p)' /\ StallAt(p)'
      <3>1. HoldsCopy(p)' => snap'[p] = feature
        BY <1>1, <2>4 DEF RequestRun, RequestBolt, Accepted, HoldsCopy, Take, Job,
                          TypeInv, TypeOK
      <3> QED
        BY <2>1, <2>3, <2>4, <3>1 DEF ModeAt, StallAt, Building, Loops
    <2>7. BoltBacked' /\ ~Stopped'
      BY <2>1, <2>4 DEF StallInv, BoltBacked, Stopped
    <2> QED
      BY <2>5, <2>6, <2>7 DEF StallInv
  <1>2. CASE RequestReject
    <2>1. PICK s \in Stage : SendBack(RowOf(s))
      BY <1>2 DEF RequestReject
    <2>2. PICK r : r = RowOf(s)
      OBVIOUS
    <2>3. /\ r \in Rows /\ status[r] # "absent" /\ SetRow(r, "revising")
          /\ UNCHANGED <<feature, bolts, pc, mode, snap, job, result>>
      BY <1>2, <2>1, <2>2 DEF RequestReject, SendBack, Approvable, local
    <2>4. /\ status'[r] = "revising"
          /\ \A q \in Rows : status'[q] = status[q] \/ status'[q] = "revising"
      BY <2>3 DEF SetRow, TypeInv, TypeOK
    <2>5. Settled'
      BY <2>3, <2>4 DEF Settled, With
    <2>6. BoltBacked'
      BY <2>3, BackedRow DEF StallInv, BoltBacked
    <2>7. ASSUME NEW q \in Procs PROVE ModeAt(q)' /\ StallAt(q)'
      <3>1. ModeAt(q) /\ StallAt(q)
        BY DEF StallInv
      <3>2. ModeAt(q)'
        BY <2>3, <3>1 DEF ModeAt, HoldsCopy, OnBolt
      <3>3. Row(q)' = Row(q) /\ (Approvable(Row(q)) => Approvable(Row(q))')
        BY <2>3, <2>4 DEF Row, Approvable
      <3>4. (Building(q)' <=> Building(q)) /\ (GateOpen(q)' <=> GateOpen(q))
        BY <2>3 DEF Building, OnBolt, GateOpen
      <3>5. pc[q] = "boltGate" => Row(q) \in Rows
        BY DEF TypeInv, JobsOK, JobOK, Row
      <3> QED
        BY <2>3, <2>4, <2>5, <3>1, <3>2, <3>3, <3>4, <3>5 DEF StallAt
    <2> QED
      BY <2>5, <2>6, <2>7 DEF StallInv
  <1>3. CASE RequestPrepare
    <2>1. UNCHANGED <<feature, status, pc, mode, snap, job, result>> /\ BoltsStay
      BY <1>3 DEF RequestPrepare, PrepareBolts, Prepared, BoltsStay, local
    <2>2. ASSUME NEW q \in Procs PROVE ModeAt(q)' /\ StallAt(q)'
      <3>1. ModeAt(q) /\ StallAt(q)
        BY DEF StallInv
      <3>2. ModeAt(q)'
        BY <2>1, <3>1 DEF ModeAt, HoldsCopy, OnBolt
      <3>3. Building(q) => job[q].bolt \in Bolt
        <4>1. pc[q] \in {"boltStart", "boltNext", "boltGate", "agent"}
                  => JobOK(pc[q], job[q])
          BY DEF TypeInv, JobsOK
        <4>2. pc[q] \in {"agent", "boltGate"} /\ OnBolt(q) => Row(q)[2] \in Bolt
          BY <4>1, RowParts DEF JobOK, Row, OnBolt
        <4> QED
          BY <4>1, <4>2 DEF Building, JobOK, Row, OnBolt
      <3>4. Building(q)' => bolts'[job'[q].bolt] # "absent"
        BY <2>1, <3>1, <3>3 DEF StallAt, Building, OnBolt, BoltsStay
      <3> QED
        BY <2>1, <3>1, <3>2, <3>4 DEF StallAt, Settled, With, Approvable, Row, GateOpen
    <2>3. Stopped' => Settled'
      BY <2>1 DEF StallInv, Stopped, Settled, With
    <2> QED
      BY <2>1, <2>2, <2>3, BackedKept DEF StallInv
  <1>4. \/ RequestReject \/ RequestPrepare
        \/ \E p \in Procs : RequestRun(p) \/ RequestBolt(p)
    BY DEF UserRequest, Request, Driving, RequestResume, RequestApprove, RequestForce,
           RequestMode, RequestAccept, RequestJump, RequestAddSkipped, RequestScope,
           RequestCancel
  <1> QED
    BY <1>1, <1>2, <1>3, <1>4

LEMMA StallStep ==
    ASSUME TypeInv, SoleInv, OwnedInv, TrackInv, StallInv, [Next]_vars,
           ~Overlap, Requests \subseteq Driving, Faults \cap {"setup", "auth"} = {}
    PROVE  StallInv'
  <1>1. RowsExist /\ CopiesSame /\ RowWorked /\ NoResume
    BY DEF TrackInv, OwnedInv
  <1>2. ASSUME NEW p \in Procs, Advance(p) PROVE StallInv'
    BY <1>1, <1>2, StallDecides, StallLoop, StallStages, StallProcess, StallBolts,
       StallMarks DEF Advance
  <1>3. ASSUME NEW p \in Procs, AgentEnds(p) PROVE StallInv'
    BY <1>1, <1>3, StallAgent
  <1>4. CASE UserRequest
    BY <1>1, <1>4, StallRequests
  <1>5. ~Crash
    BY DEF Crash, Driving
  <1>6. CASE UNCHANGED vars
    BY <1>6 DEF vars, db, local, StallInv, BoltBacked, Stopped, Settled, With, ModeAt,
                HoldsCopy, OnBolt, StallAt, Building, Approvable, Row, GateOpen
  <1> QED
    BY <1>2, <1>3, <1>4, <1>5, <1>6 DEF Next

LEMMA StallInit == "late_mark" \notin Requests /\ Init => StallInv
  <1> SUFFICES ASSUME "late_mark" \notin Requests, Init PROVE StallInv
    OBVIOUS
  <1>1. PICK m \in StartModes, c \in Scopes, p \in Procs, q \in Procs :
            Created(m, c, p, q)
    BY DEF Init
  <1>2. /\ pc = [x \in Procs |-> IF x = p THEN "marking" ELSE "idle"]
        /\ job[p].kind = "request"
    BY <1>1 DEF Created, Job
  <1>3. BoltBacked
    BY <1>1 DEF Created, BoltBacked, LinearStages
  <1>4. ASSUME NEW x \in Procs PROVE ModeAt(x) /\ StallAt(x)
    BY <1>2 DEF ModeAt, StallAt, HoldsCopy, Loops, Building
  <1> QED
    BY <1>2, <1>3, <1>4 DEF StallInv, Stopped

\* "An autonomous feature stops only for something a user must look at": the
\* loop ends, for whatever an agent, a smoke test, a quota or a worktree does,
\* only where a stage was sent back, while users start runs and Bolts, prepare
\* and reject, or where a stage could not be dispatched.  What is left out are
\* the ways in which it does stop silently: a stage that cannot be set up, an
\* authorization gone at a phase boundary, a crash, a mode switched between the
\* last decision and the unmark, an approval at that moment, and two goroutines.
THEOREM NeverStallsSilently ==
    ASSUME ~Overlap, Requests \subseteq Driving, Faults \cap {"setup", "auth"} = {}
    PROVE  Spec => []NoSilentStall
  <1>1. Requests \cap {"resume", "force", "cancel", "late_mark"} = {} /\ "setup" \notin Faults
    BY DEF Driving
  <1>2. Spec => []TypeInv
    BY TypeInit, TypeStep, PTL DEF Spec
  <1>3. Spec => []SoleInv
    BY <1>1, SoleAlways
  <1>4. OwnedInv /\ TypeInv /\ [Next]_vars => OwnedInv'
    BY <1>1, NoResumeStep, ClosedStep DEF OwnedInv
  <1>5. Init => OwnedInv /\ TrackInv /\ StallInv
    <2>1. Init => TrackInv
      BY WorkInit, ScopeExists, TrailsClosely
         DEF WorkInv, TrackInv, WorkOpen, RowWorked, Driving, Attended
    <2> QED
      BY <1>1, <2>1, OwnedInit, StallInit
  <1>6. Spec => []OwnedInv
    BY <1>2, <1>4, <1>5, PTL DEF Spec
  <1>7. TypeInv /\ SoleInv /\ OwnedInv /\ TrackInv /\ [Next]_vars => TrackInv'
    BY TrackStep DEF OwnedInv
  <1>8. TypeInv /\ SoleInv /\ OwnedInv /\ TrackInv /\ StallInv /\ [Next]_vars => StallInv'
    BY StallStep
  <1>9. StallInv => NoSilentStall
    BY DEF StallInv, Settled, NoSilentStall
  <1> QED
    BY <1>2, <1>3, <1>5, <1>6, <1>7, <1>8, <1>9, PTL DEF Spec
=============================================================================
