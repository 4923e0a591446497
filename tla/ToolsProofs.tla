----------------------------- MODULE ToolsProofs -----------------------------
(* Theorems about what works on a feature beside the pipeline of            *)
(* StageMachine: the human proxy, which marks and unmarks it and recovers a *)
(* stage on its own; the commands of its agents; and the commands of a      *)
(* user's shell, which run and approve stages from a copy of the feature.   *)
EXTENDS HumanProxy, AgentCommands, CommandLine, PipelineProofs, TLAPS

-----------------------------------------------------------------------------
(* The human proxy: the types of its tables and of what it leaves of the    *)
(* pipeline's.                                                              *)

ProxyTypes ==
    /\ questions \in [Question -> QuestionStatus]
    /\ answer \in [Question -> Answers]
    /\ \A q \in Question : answer[q] # "none" <=> questions[q] = "answered"
    /\ sessions \subseteq 0..4
    /\ ppc \in [Proxies -> ProxyPCs] /\ held \in [Proxies -> Helds]

ProxyInv == TypeInv /\ ProxyTypes

LEMMA ProxyInitTypes == ProxyInit => ProxyInv
  <1> SUFFICES ASSUME ProxyInit PROVE ProxyInv
    OBVIOUS
  <1>1. TypeInv
    BY TypeInit DEF ProxyInit
  <1>2. NotHeld \in Helds
    BY StagesAssumption DEF NotHeld, Helds
  <1>3. ProxyTypes
    BY <1>2 DEF ProxyInit, ProxyStart, ProxyTypes, QuestionStatus, Answers, ProxyPCs
  <1> QED
    BY <1>1, <1>3 DEF ProxyInv

\* A request for the whole feature fits every place where it is taken up.
LEMMA RequestJob ==
    /\ Job("request", 0, 0) \in Jobs
    /\ \A l \in {"spawned", "checkActive", "marking"} :
            l \in PCs /\ JobOK(l, Job("request", 0, 0))
  <1>1. Job("request", 0, 0) \in Jobs
    BY JobType, StagesAssumption DEF Kinds
  <1> QED
    BY <1>1 DEF JobOK, Job, PCs

LEMMA HeldFeature ==
    ASSUME ProxyInv, NEW x \in Proxies
    PROVE  SavedStage(x) \in Features /\ \A st : Held(x, st) => HeldRow(x) \in Rows
  <1>1. held[x].stage \in 0..NumStages
    BY DEF ProxyInv, ProxyTypes, Helds
  <1>2. SavedStage(x) \in Features
    BY <1>1 DEF ProxyInv, TypeInv, TypeOK, SavedStage, Features
  <1> QED
    BY <1>2 DEF Held

\* What a proxy does to the pipeline: nothing, or one write of the mark, or a
\* recovery, which may start one idle process.
Spawns(p) ==
    /\ pc[p] = "idle" /\ Goto(p, "spawned") /\ Take(p, Job("request", 0, 0)) /\ active' = TRUE

LEMMA RecoveredType ==
    ASSUME TypeInv, feature' \in Features, status' \in [Rows -> RowStatus],
           revs' \in [Rows -> Nat], (\E p \in Procs : Spawns(p)) \/ UNCHANGED <<pc, job, active>>,
           UNCHANGED <<bolts, attempts, mode, snap, rev0, result, history, rare>>
    PROVE  TypeInv'
  <1>1. TypeOK /\ JobsOK
    BY DEF TypeInv
  <1>2. CASE \E p \in Procs : Spawns(p)
    <2>1. PICK p \in Procs : Spawns(p)
      BY <1>2
    <2> QED
      BY <1>1, <2>1, RequestJob, TakeType DEF Spawns, TypeOK, history
  <1>3. CASE UNCHANGED <<pc, job, active>>
    <2>1. JobsOK'
      BY <1>1, <1>3 DEF JobsOK
    <2> QED
      BY <1>1, <1>3, <2>1 DEF TypeInv, TypeOK, history
  <1> QED
    BY <1>2, <1>3

LEMMA RecoversType ==
    ASSUME ProxyInv, NEW x \in Proxies,
           RecoverApproves(x) \/ RecoverSendsBack(x) \/ RecoverProcesses(x)
    PROVE  TypeInv' /\ ((\E p \in Procs : Spawns(p)) \/ UNCHANGED <<pc, job, active>>)
  <1>1. TypeInv /\ TypeOK /\ feature \in Features /\ status \in [Rows -> RowStatus]
        /\ revs \in [Rows -> Nat]
    BY DEF ProxyInv, TypeInv, TypeOK
  <1>2. CASE RecoverApproves(x)
    <2>1. PICK ok \in AdvanceOutcomes(feature, held[x].stage) :
            /\ ApproveAndAdvance(feature, HeldRow(x), ok)
            /\ (\E p \in Procs : Spawns(p)) \/ UNCHANGED <<pc, job, active>>
      BY <1>2 DEF RecoverApproves, Spawns
    <2>2. /\ feature' \in Features /\ status' \in [Rows -> RowStatus]
          /\ revs' \in [Rows -> Nat] /\ UNCHANGED <<bolts, attempts>>
      BY <1>1, <2>1, ApproveType
    <2> QED
      BY <1>1, <1>2, <2>1, <2>2, RecoveredType DEF RecoverApproves
  <1>3. CASE RecoverSendsBack(x)
    <2>1. feature' \in Features /\ status' \in [Rows -> RowStatus]
      BY <1>1, <1>3, HeldFeature DEF RecoverSendsBack, SetRow, RowStatus
    <2> QED
      BY <1>1, <1>3, <2>1, RecoveredType DEF RecoverSendsBack, local
  <1>4. CASE RecoverProcesses(x)
    <2> DEFINE auto == AutoApproved(feature, held[x].stage)
               st == [status EXCEPT ![HeldRow(x)] =
                         IF auto THEN "completed" ELSE "awaiting_approval"]
               passed == IF auto THEN PassedOver(st, feature.scope) ELSE {}
    <2>1. /\ status' = Skip(st, passed) /\ revs' = Zero(revs, passed)
          /\ (\E p \in Procs : Spawns(p)) \/ UNCHANGED <<pc, job, active>>
          /\ feature' = SavedStage(x)
      BY <1>4 DEF RecoverProcesses, Spawns
    <2>2. st \in [Rows -> RowStatus]
      BY <1>1 DEF RowStatus
    <2> HIDE DEF st, passed, auto
    <2>3. /\ feature' \in Features /\ status' \in [Rows -> RowStatus]
          /\ revs' \in [Rows -> Nat]
      BY <1>1, <2>1, <2>2, HeldFeature, SkipType
    <2> QED
      BY <1>1, <1>4, <2>1, <2>3, RecoveredType DEF RecoverProcesses
  <1> QED
    BY <1>2, <1>3, <1>4

LEMMA ProxyStepType ==
    ASSUME ProxyInv, NEW x \in Proxies, NeedsFeedback(x) \/ ProxyStep(x)
    PROVE  TypeInv'
  <1>1. TypeInv /\ TypeOK /\ JobsOK
    BY DEF ProxyInv, TypeInv
  <1>2. CASE UNCHANGED vars
    BY <1>1, <1>2, TypeStep
  <1>3. CASE FreshDispatch(x)
    <2>1. PICK p \in Procs : Goto(p, "checkActive") /\ Take(p, Job("request", 0, 0))
      BY <1>3 DEF FreshDispatch
    <2> QED
      BY <1>1, <1>3, <2>1, RequestJob, TakeType DEF FreshDispatch, TypeOK, db, history
  <1>4. CASE ContinueSession(x) \/ ProxyUnmark(x)
    <2>1. active' \in BOOLEAN /\ UNCHANGED <<db, pc, local, history, rare>>
      BY <1>4 DEF ContinueSession, ProxyUnmark
    <2>2. JobsOK'
      BY <1>1, <2>1 DEF JobsOK, local
    <2> QED
      BY <1>1, <2>1, <2>2 DEF TypeInv, TypeOK, db, local, history
  <1>5. CASE RecoverApproves(x) \/ RecoverSendsBack(x) \/ RecoverProcesses(x)
    BY <1>5, RecoversType
  <1> QED
    BY <1>2, <1>3, <1>4, <1>5
       DEF ProxyStep, NeedsFeedback, ProxyStarts, PollEnds, LeaveForHuman, RecoverNothing

\* A proxy that moves, and what it holds.
LEMMA ProxyMoves ==
    ASSUME ProxyInv, NEW x \in Proxies, NEW l \in ProxyPCs, ProxyGoto(x, l),
           \/ UNCHANGED held
           \/ \E h \in Helds : held' = [held EXCEPT ![x] = h],
           sessions' \subseteq 0..4, UNCHANGED <<questions, answer>>
    PROVE  ProxyTypes'
  BY DEF ProxyInv, ProxyTypes, ProxyGoto

LEMMA ProxyStepTables ==
    ASSUME ProxyInv, NEW x \in Proxies, NeedsFeedback(x) \/ ProxyStep(x)
    PROVE  ProxyTypes' /\ UNCHANGED <<questions, answer>>
  <1>1. /\ held \in [Proxies -> Helds] /\ sessions \subseteq 0..4
        /\ held[x].phase \in 0..4 /\ held[x].stage \in 0..NumStages
        /\ held[x] = [phase |-> held[x].phase, stage |-> held[x].stage]
    BY DEF ProxyInv, ProxyTypes, Helds
  <1>2. feature.stage \in 0..NumStages /\ CurrentPhase(feature.stage) \in 0..4
    <2>1. feature.stage \in 0..NumStages
      BY DEF ProxyInv, TypeInv, TypeOK, Features
    <2>2. feature.stage # 0 => feature.stage \in Stage
      BY <2>1, StagesAssumption DEF Stage
    <2> QED
      BY <2>1, <2>2, StagesAssumption DEF CurrentPhase
  <1>3. NotHeld \in Helds
    BY StagesAssumption DEF NotHeld, Helds
  <1>4. CASE NeedsFeedback(x)
    <2> DEFINE ph == CurrentPhase(feature.stage)
               h == [held[x] EXCEPT !.phase = ph]
    <2>1. held' = [held EXCEPT ![x] = h]
      BY <1>4 DEF NeedsFeedback
    <2>2. ph \in 0..4 /\ held[x] \in Helds
      BY <1>1, <1>2
    <2> HIDE DEF ph
    <2>3. h \in Helds
      BY <2>2 DEF Helds
    <2> HIDE DEF h
    <2> QED
      BY <1>1, <1>4, <2>1, <2>3, ProxyMoves DEF NeedsFeedback, ProxyPCs
  <1>5. CASE ProxyStarts(x)
    <2>1. CASE ProxyGoto(x, "polling")
      <3>1. held' = [held EXCEPT ![x] = [phase |-> held[x].phase, stage |-> feature.stage]]
            /\ sessions' = sessions \cup {held[x].phase}
        BY <1>1, <1>5, <2>1 DEF ProxyStarts, ProxyEnds, ProxyGoto, ProxyInv, ProxyTypes, Helds
      <3>2. [phase |-> held[x].phase, stage |-> feature.stage] \in Helds
        BY <1>1, <1>2 DEF Helds
      <3> QED
        BY <1>1, <1>5, <2>1, <3>1, <3>2, ProxyMoves DEF ProxyStarts, ProxyPCs
    <2>2. CASE ProxyEnds(x) /\ sessions' = sessions \ {held[x].phase}
      BY <1>1, <1>3, <1>5, <2>2, ProxyMoves DEF ProxyStarts, ProxyEnds, ProxyPCs
    <2> QED
      BY <1>5, <2>1, <2>2 DEF ProxyStarts
  <1>6. CASE \/ PollEnds(x) \/ ContinueSession(x) \/ RecoverNothing(x) \/ RecoverApproves(x)
             \/ RecoverSendsBack(x) \/ RecoverProcesses(x)
    <2>1. /\ \E l \in {"judging", "continuing", "unmarking"} : ProxyGoto(x, l)
          /\ UNCHANGED <<held, questions, answer>> /\ sessions' \subseteq 0..4
      BY <1>1, <1>6 DEF PollEnds, ContinueSession, RecoverNothing, RecoverApproves,
         RecoverSendsBack, RecoverProcesses, Recovers
    <2> QED
      BY <2>1, ProxyMoves DEF ProxyPCs
  <1>7. CASE LeaveForHuman(x) \/ FreshDispatch(x) \/ ProxyUnmark(x)
    <2>1. ProxyEnds(x) /\ UNCHANGED <<questions, answer, sessions>>
      BY <1>7 DEF LeaveForHuman, FreshDispatch, ProxyUnmark
    <2> QED
      BY <1>1, <1>3, <2>1, ProxyMoves DEF ProxyEnds, ProxyPCs
  <1> QED
    BY <1>4, <1>5, <1>6, <1>7 DEF ProxyStep

LEMMA AskingTables ==
    ASSUME ProxyInv, Asking
    PROVE  /\ ProxyTypes' /\ UNCHANGED vars /\ ppc' = ppc
           /\ \A q \in Question : questions[q] = "answered"
                => answer'[q] = answer[q] /\ questions'[q] = "answered"
  <1>1. PICK q \in Question : CreateQuestion(q) \/ UserAnswers(q) \/ ProxyAnswers(q)
    BY DEF Asking
  <1>2. UNCHANGED <<sessions, ppc, held>> /\ UNCHANGED vars
    BY <1>1 DEF CreateQuestion, UserAnswers, ProxyAnswers
  <1>3. \/ /\ questions[q] = "none" /\ questions' = [questions EXCEPT ![q] = "pending"]
           /\ answer' = answer
        \/ /\ questions[q] = "pending" /\ questions' = [questions EXCEPT ![q] = "answered"]
           /\ \E who \in {"user", "proxy"} : answer' = [answer EXCEPT ![q] = who]
    BY <1>1 DEF CreateQuestion, InsertQuestion, UserAnswers, ProxyAnswers, AnswerQuestion
  <1>4. /\ questions \in [Question -> QuestionStatus] /\ answer \in [Question -> Answers]
        /\ \A r \in Question : answer[r] # "none" <=> questions[r] = "answered"
    BY DEF ProxyInv, ProxyTypes
  <1>5. /\ questions' \in [Question -> QuestionStatus] /\ answer' \in [Question -> Answers]
        /\ \A r \in Question : answer'[r] # "none" <=> questions'[r] = "answered"
    BY <1>3, <1>4 DEF QuestionStatus, Answers
  <1>6. \A r \in Question : questions[r] = "answered"
            => answer'[r] = answer[r] /\ questions'[r] = "answered"
    BY <1>3, <1>4
  <1> QED
    BY <1>2, <1>5, <1>6 DEF ProxyInv, ProxyTypes

LEMMA ProxyTypeStep == ProxyInv /\ [ProxyNext]_allVars => ProxyInv'
  <1> SUFFICES ASSUME ProxyInv, [ProxyNext]_allVars PROVE ProxyInv'
    OBVIOUS
  <1>1. TypeInv
    BY DEF ProxyInv
  <1>2. CASE PipelineStep
    <2>1. [Next]_vars /\ UNCHANGED proxyVars
      BY <1>2 DEF PipelineStep, Next
    <2>2. TypeInv'
      BY <1>1, <2>1, TypeStep
    <2> QED
      BY <2>1, <2>2 DEF ProxyInv, ProxyTypes, proxyVars
  <1>3. CASE ServerCrash
    <2>1. TypeInv'
      BY <1>1, <1>3, CrashType DEF ServerCrash
    <2>2. NotHeld \in Helds
      BY StagesAssumption DEF NotHeld, Helds
    <2> QED
      BY <1>3, <2>1, <2>2 DEF ServerCrash, ProxyInv, ProxyTypes, ProxyPCs
  <1>4. CASE Asking
    BY <1>1, <1>4, AskingTables, TypeStep DEF ProxyInv
  <1>5. CASE \E x \in Proxies : NeedsFeedback(x) \/ ProxyStep(x)
    BY <1>5, ProxyStepType, ProxyStepTables DEF ProxyInv
  <1>6. CASE (\E ph \in 0..4 : ProxyAgentExits(ph)) \/ UNCHANGED allVars
    <2>1. /\ UNCHANGED vars /\ UNCHANGED <<questions, answer, ppc, held>>
          /\ sessions' \subseteq sessions
      BY <1>6 DEF ProxyAgentExits, allVars, proxyVars
    <2>2. TypeInv'
      BY <1>1, <2>1, TypeStep
    <2> QED
      BY <2>1, <2>2 DEF ProxyInv, ProxyTypes
  <1> QED
    BY <1>2, <1>3, <1>4, <1>5, <1>6 DEF ProxyNext

\* Beside the proxies, too, every table and goroutine keeps its type, and only
\* an answered question has an answer: recoverStage, which writes the row of a
\* stage number it read up to an hour before, names a row that exists.
THEOREM ProxyTypeCorrect == ProxySpec => []ProxyTypeOK
  <1>1. ProxyInv => ProxyTypeOK
    BY DEF ProxyInv, TypeInv, ProxyTypes, ProxyTypeOK
  <1> QED
    BY ProxyInitTypes, ProxyTypeStep, <1>1, PTL DEF ProxySpec

\* The answer of a question, whichever came first, is never replaced: an
\* answer is one UPDATE of a pending row, and no row becomes pending again
\* (question.go, AnswerQuestion).
THEOREM AlwaysAnsweredOnce == ProxySpec => AnsweredOnce
  <1> DEFINE Kept == \A q \in Question : questions[q] = "answered"
                        => answer'[q] = answer[q] /\ questions'[q] = "answered"
  <1>1. ASSUME ProxyInv, [ProxyNext]_allVars PROVE [Kept]_allVars
    <2>1. CASE PipelineStep \/ ServerCrash \/ (\E ph \in 0..4 : ProxyAgentExits(ph))
      <3>1. UNCHANGED <<questions, answer>>
        BY <2>1 DEF PipelineStep, ServerCrash, ProxyAgentExits, proxyVars
      <3> QED
        BY <3>1
    <2>2. CASE Asking
      BY <1>1, <2>2, AskingTables
    <2>3. CASE \E x \in Proxies : NeedsFeedback(x) \/ ProxyStep(x)
      BY <1>1, <2>3, ProxyStepTables
    <2> QED
      BY <1>1, <2>1, <2>2, <2>3 DEF ProxyNext
  <1>2. ProxySpec => [][Kept]_allVars
    BY <1>1, ProxyInitTypes, ProxyTypeStep, PTL DEF ProxySpec
  <1> QED
    BY <1>2 DEF AnsweredOnce

-----------------------------------------------------------------------------
(* The mark, that the goroutines of the pipeline and the proxies set and    *)
(* remove: who sets it goes on to remove it.                                *)

Continuing(x) == ppc[x] \in {"continuing", "unmarking"}
MarkInv == MarkOwned /\ NoLate

LEMMA NoLateStep ==
    ASSUME TypeInv, NoLate, [Next]_vars
    PROVE  NoLate'
  <1>1. ASSUME NEW p \in Procs, NEW l, Goto(p, l), l # "lateMark" PROVE NoLate'
    BY <1>1, LiveGoto DEF NoLate
  <1>2. CASE \E p \in Procs : Advance(p) \/ AgentEnds(p)
    <2>1. PICK p \in Procs : Advance(p) \/ AgentEnds(p)
      BY <1>2
    <2>2. Runs(p) \/ Unmark(p) \/ Mark(p) \/ LateMark(p) \/ CheckActive(p)
      BY <2>1, RunningSteps
    <2>3. \E l : Goto(p, l) /\ l # "lateMark"
      <3>1. CASE Runs(p)
        BY <3>1 DEF Runs, LiveLabel
      <3>2. CASE Unmark(p) \/ LateMark(p)
        BY <3>2 DEF Unmark, LateMark
      <3>3. CASE Mark(p)
        <4>1. \E l \in {"boltStart", "resuming", "spawned"} : Goto(p, l)
          BY <3>3 DEF Mark
        <4> QED
          BY <4>1
      <3>4. CASE CheckActive(p)
        <4>1. \E l \in {"idle", "marking"} : Goto(p, l)
          BY <3>4 DEF CheckActive
        <4> QED
          BY <4>1
      <3> QED
        BY <2>2, <3>1, <3>2, <3>3, <3>4
    <2> QED
      BY <1>1, <2>3
  <1>3. CASE UserRequest
    <2>1. \/ pc' = pc
          \/ \E p \in Procs, l \in {"idle", "checkActive", "marking"} : Goto(p, l)
      BY <1>3, RequestSteps
    <2> QED
      BY <1>1, <2>1 DEF NoLate
  <1>4. CASE Crash
    BY <1>4, CrashSteps DEF NoLate
  <1> QED
    BY <1>2, <1>3, <1>4 DEF Next, NoLate, vars

\* While no proxy continues a stage, the goroutines of the pipeline keep the
\* mark; while one does, it answers for it.
LEMMA MarkPipeline ==
    ASSUME ProxyInv, ProxyInv', MarkInv, [Next]_vars, ppc' = ppc
    PROVE  MarkInv'
  <1>1. TypeInv /\ TypeInv'
    BY DEF ProxyInv
  <1>2. NoLate'
    BY <1>1, NoLateStep DEF MarkInv
  <1>3. CASE \E x \in Proxies : Continuing(x)
    BY <1>2, <1>3 DEF MarkInv, MarkOwned, Continuing
  <1>4. CASE ~\E x \in Proxies : Continuing(x)
    <2>1. ActiveInv
      BY <1>4 DEF MarkInv, MarkOwned, Continuing, ActiveInv, ActiveBacked
    <2>2. ActiveInv'
      BY <1>1, <2>1, ActiveStep
    <2> QED
      BY <2>2 DEF ActiveInv, ActiveBacked, MarkInv, MarkOwned
  <1> QED
    BY <1>3, <1>4

\* A goroutine that is started is alive, and no other goroutine ends.
LEMMA SpawnedMarks ==
    ASSUME TypeInv, NoLate, NEW p \in Procs, Spawns(p)
    PROVE  NoLate' /\ Live' # {}
  <1>1. pc'[p] = "spawned" /\ \A q \in Procs \ {p} : pc'[q] = pc[q]
    BY LiveGoto DEF Spawns
  <1>2. p \in Live'
    BY <1>1 DEF Live
  <1> QED
    BY <1>1, <1>2 DEF NoLate

LEMMA MarkProxy ==
    ASSUME ProxyInv, MarkInv, NEW x \in Proxies, NeedsFeedback(x) \/ ProxyStep(x)
    PROVE  MarkInv'
  <1>1. TypeInv /\ ppc \in [Proxies -> ProxyPCs]
    BY DEF ProxyInv, ProxyTypes
  <1>2. ASSUME NEW l, ProxyGoto(x, l)
        PROVE  ppc'[x] = l /\ \A y \in Proxies \ {x} : ppc'[y] = ppc[y]
    BY <1>1, <1>2 DEF ProxyGoto
  <1>3. CASE NeedsFeedback(x) \/ ProxyStarts(x) \/ PollEnds(x) \/ LeaveForHuman(x)
    <2>1. /\ UNCHANGED vars /\ ppc[x] \in {"idle", "starting", "polling", "judging"}
          /\ \E l : ProxyGoto(x, l)
      BY <1>3 DEF NeedsFeedback, ProxyStarts, PollEnds, LeaveForHuman, ProxyEnds
    <2>2. UNCHANGED <<active, pc>>
      BY <2>1 DEF vars
    <2> QED
      BY <1>2, <2>1, <2>2 DEF MarkInv, MarkOwned, NoLate, Live
  <1>4. CASE FreshDispatch(x)
    <2>1. PICK p \in Procs : pc[p] = "idle" /\ Goto(p, "checkActive")
      BY <1>4 DEF FreshDispatch
    <2>2. pc'[p] = "checkActive" /\ \A q \in Procs \ {p} : pc'[q] = pc[q]
      BY <1>1, <2>1, LiveGoto
    <2>3. Live' = Live /\ NoLate'
      BY <2>1, <2>2 DEF Live, MarkInv, NoLate
    <2>4. ppc[x] = "judging" /\ active' = active /\ \E l : ProxyGoto(x, l)
      BY <1>4 DEF FreshDispatch, ProxyEnds
    <2> QED
      BY <1>2, <2>3, <2>4 DEF MarkInv, MarkOwned
  <1>5. CASE ContinueSession(x)
    <2>1. ppc'[x] = "continuing" /\ pc' = pc
      BY <1>2, <1>5 DEF ContinueSession
    <2> QED
      BY <2>1 DEF MarkInv, MarkOwned, NoLate
  <1>6. CASE RecoverNothing(x)
    <2>1. ppc'[x] = "unmarking" /\ pc' = pc
      BY <1>2, <1>6 DEF RecoverNothing, Recovers, vars
    <2> QED
      BY <2>1 DEF MarkInv, MarkOwned, NoLate
  <1>7. CASE RecoverApproves(x) \/ RecoverSendsBack(x) \/ RecoverProcesses(x)
    <2>1. ppc'[x] = "unmarking"
      BY <1>2, <1>7 DEF RecoverApproves, RecoverSendsBack, RecoverProcesses, Recovers
    <2>2. NoLate'
      <3>1. (\E p \in Procs : Spawns(p)) \/ UNCHANGED <<pc, job, active>>
        BY <1>7, RecoversType
      <3> QED
        BY <1>1, <3>1, SpawnedMarks DEF MarkInv, NoLate
    <2> QED
      BY <2>1, <2>2 DEF MarkInv, MarkOwned
  <1>8. CASE ProxyUnmark(x)
    BY <1>8 DEF ProxyUnmark, MarkInv, MarkOwned, NoLate
  <1> QED
    BY <1>3, <1>4, <1>5, <1>6, <1>7, <1>8 DEF ProxyStep

LEMMA MarkStep == ProxyInv /\ ProxyInv' /\ MarkInv /\ [ProxyNext]_allVars => MarkInv'
  <1> SUFFICES ASSUME ProxyInv, ProxyInv', MarkInv, [ProxyNext]_allVars PROVE MarkInv'
    OBVIOUS
  <1>1. CASE PipelineStep
    <2>1. [Next]_vars /\ ppc' = ppc
      BY <1>1 DEF PipelineStep, Next, proxyVars
    <2> QED
      BY <2>1, MarkPipeline
  <1>2. CASE ServerCrash
    <2>1. Crash
      BY <1>2 DEF ServerCrash
    <2> QED
      BY <2>1, CrashSteps DEF MarkInv, MarkOwned, NoLate, Live
  <1>3. CASE Asking \/ (\E ph \in 0..4 : ProxyAgentExits(ph)) \/ UNCHANGED allVars
    <2>1. UNCHANGED vars /\ ppc' = ppc
      BY <1>3, AskingTables DEF ProxyAgentExits, allVars, proxyVars
    <2> QED
      BY <2>1, MarkPipeline
  <1>4. CASE \E x \in Proxies : NeedsFeedback(x) \/ ProxyStep(x)
    BY <1>4, MarkProxy
  <1> QED
    BY <1>1, <1>2, <1>3, <1>4 DEF ProxyNext

\* The mark, which every run request refuses with a conflict, is never left
\* behind by the human proxy either, which sets and removes it without looking:
\* somebody who will remove it always goes on, a goroutine of the pipeline or a
\* proxy, across crashes and with any number of proxies, overlapping requests,
\* forces and cancels, provided that createFeature does not mark after its spawn.
THEOREM MarkAlwaysOwned ==
    ASSUME "late_mark" \notin Requests
    PROVE  ProxySpec => []MarkOwned
  <1>1. ProxySpec => []ProxyInv
    BY ProxyInitTypes, ProxyTypeStep, PTL DEF ProxySpec
  <1>2. ProxyInit => MarkInv
    BY ActiveInit DEF ProxyInit, ActiveInv, ActiveBacked, MarkInv, MarkOwned
  <1>3. ProxySpec => []MarkInv
    BY <1>1, <1>2, MarkStep, PTL DEF ProxySpec
  <1>4. MarkInv => MarkOwned
    BY DEF MarkInv
  <1> QED
    BY <1>3, <1>4, PTL

-----------------------------------------------------------------------------
(* The ask command.  A file is there until an ask of it has come to its     *)
(* end: while it is there, the questions that are still to be posted have   *)
(* one row less than there were files and interrupted asks.                 *)

AskTypes ==
    /\ questionFile \in BOOLEAN
    /\ ask \in [at : {"idle", "posting", "removing"}, next : Asked]
    /\ stored \in [Asked -> Nat] /\ printed \in [Asked -> Nat]
    /\ files \in Nat /\ interrupted \in Nat

\* The questions that the ask that is under way, or the next of the file, is
\* still to post.
StillToPost ==
    {q \in Asked : /\ questionFile = TRUE
                   /\ ask.at = "idle" \/ (ask.at = "posting" /\ ask.next <= q)}

AskInv ==
    /\ AskTypes
    /\ ask.at # "idle" => questionFile = TRUE
    /\ \A q \in Asked : printed[q] <= stored[q]
    /\ \A q \in Asked : stored[q] <= files + interrupted
    /\ \A q \in StillToPost : stored[q] < files + interrupted

LEMMA AskInit == AgentsInit => AskInv
  <1> SUFFICES ASSUME AgentsInit PROVE AskInv
    OBVIOUS
  <1>1. NumAsked \in Nat \ {0} /\ 1 \in Asked
    BY CommandsAssumption DEF Asked
  <1>2. AskTypes
    BY <1>1 DEF AgentsInit, AgentsStart, AskTypes
  <1> QED
    BY <1>2 DEF AgentsInit, AgentsStart, AskInv, StillToPost

\* A post makes at most one row, and tells of none that it did not make.
LEMMA PostedOnce ==
    ASSUME AskInv, NEW row \in {0, 1}, NEW reply \in {0, 1}, reply <= row, Posted(row, reply)
    PROVE  AskInv'
  <1>1. /\ NumAsked \in Nat \ {0} /\ Asked \subseteq Nat
        /\ ask.at = "posting" /\ questionFile = TRUE
        /\ ask \in [at : {"idle", "posting", "removing"}, next : Asked]
        /\ stored \in [Asked -> Nat] /\ printed \in [Asked -> Nat]
        /\ files \in Nat /\ interrupted \in Nat
    <2>1. NumAsked \in Nat \ {0} /\ Asked \subseteq Nat
      BY CommandsAssumption DEF Asked
    <2>2. ask.at = "posting"
      BY DEF Posted
    <2>3. AskTypes /\ (ask.at # "idle" => questionFile = TRUE)
      BY DEF AskInv
    <2> QED
      BY <2>1, <2>2, <2>3 DEF AskTypes
  <1>2. PICK n \in Asked : n = ask.next
    BY <1>1
  <1>3. /\ stored' = [stored EXCEPT ![n] = stored[n] + row]
        /\ printed' = [printed EXCEPT ![n] = printed[n] + reply]
        /\ UNCHANGED <<questionFile, files, interrupted>>
    BY <1>2 DEF Posted
  <1>4. /\ ask' \in [at : {"idle", "posting", "removing"}, next : Asked]
        /\ \/ ask'.at = "posting" /\ ask'.next = n + 1
           \/ ask'.at = "removing"
    <2>1. \/ n # NumAsked /\ ask' = [ask EXCEPT !.next = n + 1]
          \/ ask' = [at |-> "removing", next |-> 1]
      BY <1>2 DEF Posted, NextQuestion
    <2>2. (n # NumAsked => n + 1 \in Asked) /\ 1 \in Asked
      BY <1>1 DEF Asked
    <2> QED
      BY <1>1, <2>1, <2>2
  <1>5. /\ n \in Nat /\ stored[n] \in Nat /\ printed[n] \in Nat
        /\ stored[n] < files + interrupted /\ printed[n] <= stored[n]
    <2>1. n <= n
      BY <1>1
    <2>2. n \in StillToPost
      BY <1>1, <1>2, <2>1 DEF StillToPost
    <2> QED
      BY <1>1, <2>2 DEF AskInv
  <1>6. AskTypes'
    <2>1. stored[n] + row \in Nat /\ printed[n] + reply \in Nat
      BY <1>5
    <2>2. stored' \in [Asked -> Nat] /\ printed' \in [Asked -> Nat]
      BY <1>1, <1>3, <2>1
    <2> QED
      BY <1>1, <1>3, <1>4, <2>2 DEF AskTypes
  <1>7. \A q \in Asked : printed'[q] <= stored'[q] /\ stored'[q] <= files + interrupted
    <2> TAKE q \in Asked
    <2>1. stored[q] \in Nat /\ printed[q] \in Nat /\ printed[q] <= stored[q]
          /\ stored[q] <= files + interrupted
      BY <1>1 DEF AskInv
    <2>2. CASE q = n
      <3>1. stored'[q] = stored[n] + row /\ printed'[q] = printed[n] + reply
        BY <1>1, <1>3, <2>2
      <3> QED
        BY <1>1, <1>5, <3>1
    <2>3. CASE q # n
      BY <1>1, <1>3, <2>1, <2>3
    <2> QED
      BY <2>2, <2>3
  <1>8. \A q \in StillToPost' : stored'[q] < files + interrupted
    <2> SUFFICES ASSUME NEW q \in StillToPost' PROVE stored'[q] < files + interrupted
      OBVIOUS
    <2>1. q \in Asked /\ n + 1 <= q
      BY <1>4 DEF StillToPost
    <2>2. q # n /\ n <= q
      BY <1>1, <1>5, <2>1
    <2>3. q \in StillToPost
      BY <1>1, <1>2, <2>1, <2>2 DEF StillToPost
    <2>4. stored'[q] = stored[q]
      BY <1>1, <1>3, <2>1, <2>2
    <2> QED
      BY <2>3, <2>4 DEF AskInv
  <1> QED
    BY <1>1, <1>3, <1>6, <1>7, <1>8 DEF AskInv

LEMMA AskSteps ==
    ASSUME AskInv, AskStep
    PROVE  AskInv'
  <1>1. /\ AskTypes /\ 1 \in Asked
        /\ \A q \in Asked : /\ stored[q] \in Nat /\ printed[q] \in Nat
                            /\ printed[q] <= stored[q] /\ stored[q] <= files + interrupted
        /\ files \in Nat /\ interrupted \in Nat
    BY CommandsAssumption DEF AskInv, AskTypes, Asked
  <1>2. CASE WriteQuestions
    <2>1. /\ ask' = ask /\ ask.at = "idle" /\ questionFile' = TRUE /\ files' = files + 1
          /\ UNCHANGED <<stored, printed, interrupted>>
      BY <1>2 DEF WriteQuestions
    <2>2. \A q \in Asked : stored[q] < files' + interrupted
      BY <1>1, <2>1
    <2>3. AskTypes'
      BY <1>1, <2>1 DEF AskTypes
    <2> QED
      BY <1>1, <2>1, <2>2, <2>3 DEF AskInv, StillToPost
  <1>3. CASE AskBegins
    <2>1. /\ questionFile /\ ask.at = "idle" /\ ask' = [at |-> "posting", next |-> 1]
          /\ UNCHANGED <<questionFile, stored, printed, files, interrupted>>
      BY <1>3 DEF AskBegins
    <2>2. \A q \in Asked : stored[q] < files + interrupted
      BY <2>1 DEF AskInv, StillToPost
    <2>3. AskTypes'
      BY <1>1, <2>1 DEF AskTypes
    <2> QED
      BY <1>1, <2>1, <2>2, <2>3 DEF AskInv, StillToPost
  <1>4. CASE PostQuestion \/ PostRefused \/ PostFails \/ ReplyLost
    <2>1. Posted(1, 1) \/ Posted(0, 0) \/ Posted(1, 0)
      BY <1>4 DEF PostQuestion, PostRefused, PostFails, ReplyLost
    <2> QED
      BY <2>1, PostedOnce
  <1>5. CASE RemoveFile
    <2>1. /\ questionFile' = FALSE /\ ask' = [at |-> "idle", next |-> 1]
          /\ UNCHANGED <<stored, printed, files, interrupted>>
      BY <1>5 DEF RemoveFile
    <2>2. AskTypes'
      BY <1>1, <2>1 DEF AskTypes
    <2> QED
      BY <1>1, <2>1, <2>2 DEF AskInv, StillToPost
  <1>6. CASE AskKilled
    <2>1. /\ ask.at # "idle" /\ ask' = [at |-> "idle", next |-> 1]
          /\ interrupted' = interrupted + 1
          /\ UNCHANGED <<questionFile, stored, printed, files>>
      BY <1>6 DEF AskKilled
    <2>2. \A q \in Asked : stored[q] < files + interrupted'
      BY <1>1, <2>1
    <2>3. AskTypes'
      BY <1>1, <2>1 DEF AskTypes
    <2> QED
      BY <1>1, <2>1, <2>2, <2>3 DEF AskInv, StillToPost
  <1> QED
    BY <1>2, <1>3, <1>4, <1>5, <1>6 DEF AskStep

LEMMA AskSpecSteps == AskInv /\ [AgentsNext]_agentVars => AskInv'
  <1> SUFFICES ASSUME AskInv, [AgentsNext]_agentVars PROVE AskInv'
    OBVIOUS
  <1>1. ASSUME UNCHANGED askVars PROVE AskInv'
    BY <1>1 DEF askVars, AskInv, AskTypes, StillToPost
  <1>2. ASSUME NEW p \in Procs,
               Walk(p) \/ Review(p) \/ ReviewerSignals(p) \/ RunStageEnds(p)
               \/ SubmitSaves(p) \/ NotesCommand(p)
               \/ (\E o \in Signals : Signal(p, o))
               \/ (\E a \in ArtifactTypes : SubmitCommand(p, a))
        PROVE  UNCHANGED askVars
    BY <1>2 DEF Walk, Review, ReviewerSignals, RunStageEnds, SubmitSaves, NotesCommand,
       Signal, SignalAs, SubmitCommand
  <1>3. CASE \/ \E a \in ArtifactTypes : EditArtifact(a)
             \/ UserRequest /\ UNCHANGED <<signalVars, askVars, submitVars>>
             \/ AgentsCrash \/ UNCHANGED agentVars
    <2>1. UNCHANGED askVars
      BY <1>3 DEF EditArtifact, AgentsCrash, agentVars
    <2> QED
      BY <1>1, <2>1
  <1>4. CASE AskStep
    BY <1>4, AskSteps
  <1> QED
    BY <1>1, <1>2, <1>3, <1>4 DEF AgentsNext

\* What the ask command tells the agent is true, and nobody is asked twice for
\* one file, but by an ask that was killed, whatever posts fail and whatever
\* answers are lost: the file goes when the last question was tried, not when
\* all were stored (cli_api.go, ask).
THEOREM AlwaysAskedOnce == AgentsSpec => []AskedOnce
  <1>1. AskInv => AskedOnce
    BY DEF AskInv, AskedOnce
  <1> QED
    BY AskInit, AskSpecSteps, <1>1, PTL DEF AgentsSpec


\* The agents' tables: a goroutine is under review while its agent is waited for.
AgentWords == AllSignals \cup {None}
Submission == [type : ArtifactTypes \cup {None}, stage : 0..NumStages, existed : BOOLEAN]
AgentTypes ==
    /\ outcomes \in [Keys -> AgentWords] /\ signalled \in [Procs -> AgentWords]
    /\ \A p \in reviewing : p \in Procs /\ AgentWorks(p)
    /\ artifacts \in [ArtifactTypes -> SUBSET (0..NumStages)]
    /\ submit \in [Procs -> Submission]
    /\ \A p \in Procs : submit[p] = NoSubmit \/ submit[p].type \in ArtifactTypes
    /\ created \subseteq ArtifactTypes /\ notes \subseteq Stage
    /\ files \in 0..MaxFiles /\ interrupted \in 0..MaxInterrupted
AgentsInv == TypeInv /\ AskInv /\ AgentTypes

LEMMA SubmissionType == NoSubmit \in Submission
  BY StagesAssumption DEF NoSubmit, Submission

LEMMA AgentsInitTypes == AgentsInit => AgentsInv
  <1> SUFFICES ASSUME AgentsInit PROVE AgentsInv
    OBVIOUS
  <1>1. TypeInv /\ AskInv
    BY TypeInit, AskInit DEF AgentsInit
  <1>2. 0 \in 0..MaxFiles /\ 0 \in 0..MaxInterrupted
    BY CommandsAssumption
  <1>3. AgentTypes
    BY <1>2, SubmissionType DEF AgentsInit, AgentsStart, AgentTypes, AgentWords
  <1> QED
    BY <1>1, <1>3 DEF AgentsInv

\* Only the end of RunStage moves a goroutine that waits for its agent.
LEMMA WorkersStay ==
    ASSUME TypeInv, NEW p \in Procs, Advance(p)
    PROVE  \A q \in Procs : AgentWorks(q) => AgentWorks(q)'
  <1>1. pc[p] # "agent"
    <2>1. CASE \/ DecideWait(p) \/ DecideApprove(p) \/ DecideRerun(p) \/ DecidePrepare(p)
               \/ DecideBolt(p) \/ DecideMerge(p) \/ DecideStage(p) \/ DecideDone(p)
      <3>1. \E l, j : Decide(p, l, j)
        BY <2>1 DEF DecideWait, DecideApprove, DecideRerun, DecidePrepare, DecideBolt,
                    DecideMerge, DecideStage, DecideDone
      <3> QED
        BY <3>1 DEF Decide
    <2>2. CASE \/ Spawned(p) \/ AutoApprove(p) \/ ActPrepare(p) \/ MergeBegin(p) \/ MergeEnd(p)
               \/ Finish(p) \/ ActStage(p) \/ BoltRunStage(p) \/ Unmark(p) \/ Mark(p)
               \/ LateMark(p) \/ CheckActive(p) \/ ResumeMarks(p) \/ ResumeExits(p)
      <3>1. pc[p] \in PCs \ {"agent"}
        BY <2>2 DEF TypeInv, TypeOK, Spawned, AutoApprove, ActPrepare, MergeBegin, MergeEnd,
                    Finish, ActStage, BoltRunStage, Unmark, Mark, LateMark, CheckActive,
                    ResumeMarks, ResumeExits
      <3> QED
        BY <3>1
    <2>3. CASE ProcessFailure(p) \/ ProcessAutoApprove(p) \/ ProcessNeedsReview(p)
      BY <2>3 DEF ProcessFailure, ProcessAutoApprove, ProcessNeedsReview, Process
    <2>4. CASE \/ BoltStart(p) \/ BoltCompletes(p) \/ BoltApprove(p) \/ BoltPauses(p)
               \/ BoltHalts(p)
      BY <2>4 DEF BoltStart, BoltCompletes, BoltApprove, BoltPauses, BoltHalts
    <2> QED
      BY <2>1, <2>2, <2>3, <2>4 DEF Advance
  <1>2. \E l : Goto(p, l)
    <2>1. CASE Unmark(p) \/ Mark(p) \/ LateMark(p) \/ CheckActive(p)
      BY <2>1 DEF Unmark, Mark, LateMark, CheckActive
    <2> QED
      BY <2>1, RunningSteps DEF Runs
  <1> QED
    BY <1>1, <1>2 DEF AgentWorks, Goto, TypeInv, TypeOK

LEMMA WorkersStayAsked ==
    ASSUME TypeInv, UserRequest
    PROVE  \A q \in Procs : AgentWorks(q) => AgentWorks(q)'
  <1>1. pc' = pc \/ \E p \in Procs : pc[p] = "idle" /\ \E l : Goto(p, l)
    BY RequestSteps
  <1> QED
    BY <1>1 DEF AgentWorks, Goto, TypeInv, TypeOK

\* The end of RunStage, with what the signals make of the result, is typed as
\* the ends are that StageMachine has.
LEMMA RunStageEndsType ==
    ASSUME TypeInv, NEW p \in Procs, RunStageEnds(p)
    PROVE  TypeInv' /\ \A q \in Procs \ {p} : AgentWorks(q) => AgentWorks(q)'
  <1>1. /\ TypeOK /\ rev0[p] \in Nat /\ rev0[p] + 1 \in Nat /\ strikes \in [Rows -> Nat]
        /\ {"awaiting_approval", "revising"} \subseteq RowStatus
        /\ {"default_pass", "smoke_failed"} \subseteq Results
    BY DEF TypeInv, TypeOK, RowStatus, Results
  <1>2. AgentEnds(p) \/ SentBack(p) \/ \E o : Heeded(p, o)
    BY DEF RunStageEnds, Passed, AgentEnds
  <1>3. CASE AgentEnds(p)
    <2>1. \E l : Goto(p, l)
      BY <1>3 DEF AgentEnds, AgentPasses, AgentFails, SmokeFails, QuotaExhausted,
                  DispatchFails, SetupFails, Returns, Errs
    <2> QED
      BY <1>1, <1>3, <2>1, AgentEndsType DEF AgentWorks, Goto, TypeOK
  <1>4. CASE SentBack(p)
    <2>1. Returns(p, "revising", rev0[p] + 1, "smoke_failed") /\ Strike(Row(p))
      BY <1>4 DEF SentBack
    <2>2. strikes' \in [Rows -> Nat]
      <3>1. strikes' = [strikes EXCEPT ![Row(p)] = strikes[Row(p)] + 1]
        BY <2>1 DEF Strike
      <3>2. Row(p) \in Rows => strikes[Row(p)] + 1 \in Nat
        BY <1>1
      <3> QED
        BY <1>1, <3>1, <3>2
    <2> QED
      BY <1>1, <2>1, <2>2, ReturnsType DEF Returns, AgentWorks, Goto, TypeOK
  <1>5. ASSUME NEW o, Heeded(p, o) PROVE TypeInv' /\ \E l : Goto(p, l)
    <2>1. PICK st \in {"awaiting_approval", "revising"} : Returns(p, st, rev0[p], "default_pass")
      BY <1>5 DEF Heeded
    <2>2. strikes' \in [Rows -> Nat]
      BY <1>1, <1>5 DEF Heeded
    <2> QED
      BY <1>1, <2>1, <2>2, ReturnsType DEF Returns
  <1> QED
    BY <1>1, <1>2, <1>3, <1>4, <1>5 DEF AgentWorks, Goto, TypeOK

LEMMA AgentsTypeInv == AgentsInv /\ [AgentsNext]_agentVars => TypeInv'
  <1> SUFFICES ASSUME AgentsInv, [AgentsNext]_agentVars PROVE TypeInv'
    OBVIOUS
  <1>1. TypeInv
    BY DEF AgentsInv
  <1>2. CASE \E p \in Procs : Walk(p)
    BY <1>1, <1>2, TypeStep DEF Walk, Next
  <1>3. CASE \E p \in Procs : RunStageEnds(p)
    BY <1>1, <1>3, RunStageEndsType
  <1>4. CASE UserRequest
    BY <1>1, <1>4, TypeStep DEF Next
  <1>5. CASE AgentsCrash
    BY <1>1, <1>5, CrashType DEF AgentsCrash
  <1>6. CASE UNCHANGED vars
    BY <1>1, <1>6, TypeStep
  <1> QED
    BY <1>2, <1>3, <1>4, <1>5, <1>6
       DEF AgentsNext, agentVars, Review, ReviewerSignals, Signal, SignalAs, SubmitSaves,
           NotesCommand, SubmitCommand, EditArtifact, AskStep, WriteQuestions, AskBegins,
           PostQuestion, PostRefused, PostFails, ReplyLost, Posted, RemoveFile, AskKilled

LEMMA AgentsTypesKept ==
    AgentsInv /\ TypeInv' /\ AskInv' /\ [AgentsNext]_agentVars => AgentTypes'
  <1> SUFFICES ASSUME AgentsInv, TypeInv', AskInv', [AgentsNext]_agentVars
               PROVE  AgentTypes'
    OBVIOUS
  <1>1. /\ TypeInv /\ TypeOK /\ AskTypes /\ AgentTypes /\ feature.stage \in 0..NumStages
        /\ NoSubmit \in Submission
    BY SubmissionType DEF AgentsInv, TypeInv, TypeOK, Features, AskInv
  <1>2. \A p \in Procs : AgentWorks(p) => job[p].stage \in Stage
    <2> SUFFICES ASSUME NEW p \in Procs, AgentWorks(p) PROVE job[p].stage \in Stage
      OBVIOUS
    <2>1. JobOK("agent", job[p])
      BY <1>1 DEF TypeInv, JobsOK, AgentWorks
    <2>2. PICK r \in Rows : r[1] = job[p].stage
      BY <2>1 DEF JobOK
    <2> QED
      BY <2>2, RowParts
  <1>3. CASE \E p \in Procs : Walk(p)
    <2>1. PICK p \in Procs : Walk(p)
      BY <1>3
    <2>2. outcomes' \in [Keys -> AgentWords] /\ signalled' \in [Procs -> AgentWords]
      BY <1>1, <2>1 DEF Walk, AgentTypes, AgentWords
    <2>3. \A q \in reviewing' : q \in Procs /\ AgentWorks(q)'
      BY <1>1, <2>1, WorkersStay DEF Walk, AgentTypes
    <2> QED
      BY <1>1, <2>1, <2>2, <2>3 DEF Walk, AgentTypes, askVars, submitVars
  <1>4. ASSUME NEW p \in Procs, Review(p) PROVE AgentTypes'
    <2>1. pc' = pc /\ AgentWorks(p) /\ reviewing' = reviewing \cup {p}
      BY <1>4 DEF Review, vars
    <2> QED
      BY <1>1, <1>4, <2>1 DEF Review, AgentTypes, AgentWorks, askVars, submitVars
  <1>5. ASSUME NEW p \in Procs, NEW o \in AllSignals, SignalAs(p, o) PROVE AgentTypes'
    <2>1. outcomes' \in [Keys -> AgentWords] /\ signalled' \in [Procs -> AgentWords]
      BY <1>1, <1>5 DEF SignalAs, AgentTypes, AgentWords
    <2>2. pc' = pc /\ reviewing' = reviewing
      BY <1>5 DEF SignalAs, vars
    <2> QED
      BY <1>1, <1>5, <2>1, <2>2 DEF SignalAs, AgentTypes, AgentWorks, askVars, submitVars
  <1>6. ASSUME NEW p \in Procs, RunStageEnds(p) PROVE AgentTypes'
    <2>1. /\ AgentWorks(p) /\ reviewing' = reviewing \ {p}
          /\ notes' = notes \/ notes' = notes \cup {job[p].stage}
          /\ UNCHANGED <<outcomes, signalled, askVars, artifacts, submit, created>>
      BY <1>6 DEF RunStageEnds
    <2>2. \A q \in reviewing' : q \in Procs /\ AgentWorks(q)'
      BY <1>1, <1>6, <2>1, RunStageEndsType DEF AgentTypes
    <2>3. notes' \subseteq Stage
      BY <1>1, <1>2, <2>1 DEF AgentTypes
    <2> QED
      BY <1>1, <2>1, <2>2, <2>3 DEF AgentTypes, askVars
  <1>7. ASSUME NEW p \in Procs, SubmitSaves(p) PROVE AgentTypes'
    <2>1. /\ submit[p] # NoSubmit /\ submit[p] \in Submission /\ submit[p].type \in ArtifactTypes
          /\ submit[p].stage \in 0..NumStages
      BY <1>1, <1>7 DEF SubmitSaves, AgentTypes, Submission
    <2>2. /\ artifacts' \in [ArtifactTypes -> SUBSET (0..NumStages)]
          /\ created' \subseteq ArtifactTypes
      BY <1>1, <1>7, <2>1 DEF SubmitSaves, Tagged, RecordAuditEvent, AgentTypes
    <2>3. /\ submit' \in [Procs -> Submission]
          /\ \A q \in Procs : submit'[q] = NoSubmit \/ submit'[q].type \in ArtifactTypes
      BY <1>1, <1>7 DEF SubmitSaves, AgentTypes
    <2>4. pc' = pc /\ UNCHANGED <<signalVars, askVars, notes>>
      BY <1>7 DEF SubmitSaves, vars
    <2> QED
      BY <1>1, <2>2, <2>3, <2>4 DEF AgentTypes, AgentWorks, signalVars, askVars
  <1>8. ASSUME NEW p \in Procs, NotesCommand(p) PROVE AgentTypes'
    <2>1. notes' \subseteq Stage
      BY <1>1, <1>2, <1>8 DEF NotesCommand, AddNote, AgentTypes
    <2>2. pc' = pc /\ UNCHANGED <<signalVars, askVars, artifacts, submit, created>>
      BY <1>8 DEF NotesCommand, vars
    <2> QED
      BY <1>1, <2>1, <2>2 DEF AgentTypes, AgentWorks, signalVars, askVars
  <1>9. ASSUME NEW p \in Procs, NEW a \in ArtifactTypes, SubmitCommand(p, a) PROVE AgentTypes'
    <2> DEFINE sub == [type |-> a, stage |-> feature.stage, existed |-> artifacts[a] # {}]
    <2>1. submit' = [submit EXCEPT ![p] = sub]
      BY <1>9 DEF SubmitCommand, SubmitReads
    <2>2. sub \in Submission /\ sub.type = a
      BY <1>1 DEF Submission
    <2> HIDE DEF sub
    <2>3. /\ submit' \in [Procs -> Submission]
          /\ \A q \in Procs : submit'[q] = NoSubmit \/ submit'[q].type \in ArtifactTypes
      BY <1>1, <2>1, <2>2 DEF AgentTypes
    <2>4. pc' = pc /\ UNCHANGED <<signalVars, askVars, artifacts, created, notes>>
      BY <1>9 DEF SubmitCommand, vars
    <2> QED
      BY <1>1, <2>3, <2>4 DEF AgentTypes, AgentWorks, signalVars, askVars
  <1>10. ASSUME NEW a \in ArtifactTypes, EditArtifact(a) PROVE AgentTypes'
    <2>1. artifacts' \in [ArtifactTypes -> SUBSET (0..NumStages)]
      <3>1. {0} \in SUBSET (0..NumStages)
        BY StagesAssumption
      <3> QED
        BY <1>1, <1>10, <3>1 DEF EditArtifact, Tagged, AgentTypes
    <2>2. pc' = pc /\ UNCHANGED <<signalVars, askVars, submit, created, notes>>
      BY <1>10 DEF EditArtifact, vars
    <2> QED
      BY <1>1, <2>1, <2>2 DEF AgentTypes, AgentWorks, signalVars, askVars
  <1>11. CASE UserRequest /\ UNCHANGED <<signalVars, askVars, submitVars>>
    BY <1>1, <1>11, WorkersStayAsked DEF AgentTypes, signalVars, askVars, submitVars
  <1>12. CASE AskStep
    <2>1. pc' = pc /\ UNCHANGED <<signalVars, submitVars>>
      BY <1>12 DEF AskStep, WriteQuestions, AskBegins, PostQuestion, PostRefused, PostFails,
                   ReplyLost, Posted, RemoveFile, AskKilled, vars
    <2>2. /\ files' = files \/ (files < MaxFiles /\ files' = files + 1)
          /\ \/ interrupted' = interrupted
             \/ interrupted < MaxInterrupted /\ interrupted' = interrupted + 1
      BY <1>12 DEF AskStep, WriteQuestions, AskBegins, PostQuestion, PostRefused, PostFails,
                   ReplyLost, Posted, RemoveFile, AskKilled
    <2>3. files' \in 0..MaxFiles /\ interrupted' \in 0..MaxInterrupted
      BY <1>1, <2>2, CommandsAssumption DEF AgentTypes
    <2> QED
      BY <1>1, <2>1, <2>3 DEF AgentTypes, AgentWorks, signalVars, submitVars
  <1>13. CASE AgentsCrash
    BY <1>1, <1>13 DEF AgentsCrash, AgentTypes, AgentWords, askVars
  <1>14. CASE UNCHANGED agentVars
    BY <1>1, <1>14 DEF agentVars, vars, AgentTypes, AgentWorks, signalVars, askVars, submitVars
  <1>15. ASSUME NEW p \in Procs,
                ReviewerSignals(p) \/ \E o \in Signals : Signal(p, o)
         PROVE  \E o \in AllSignals : SignalAs(p, o)
    BY <1>15, CommandsAssumption DEF ReviewerSignals, Signal, AllSignals
  <1> QED
    BY <1>3, <1>4, <1>5, <1>6, <1>7, <1>8, <1>9, <1>10, <1>11, <1>12, <1>13, <1>14, <1>15
       DEF AgentsNext

\* What the agents signal, submit, ask and note keeps its type, and only a
\* goroutine that waits for its agent is under review, whatever the agents and
\* the user do to the pipeline, and in which order (agent_handlers.go;
\* stage_runner.go; cli_api.go).
THEOREM AgentsTypeCorrect == AgentsSpec => []AgentsTypeOK
  <1>1. AgentsInit => AgentsInv
    BY AgentsInitTypes
  <1>2. AgentsInv /\ [AgentsNext]_agentVars => AgentsInv'
    BY AgentsTypeInv, AgentsTypesKept, AskSpecSteps DEF AgentsInv
  <1>3. AgentsInv => AgentsTypeOK
    BY DEF AgentsInv, TypeInv, AskInv, AskTypes, AgentTypes, AgentWords, AgentsTypeOK
  <1> QED
    BY <1>1, <1>2, <1>3, PTL DEF AgentsSpec

-----------------------------------------------------------------------------
(* The commands of a shell.  A row in_progress with no goroutine, no shell  *)
(* and no excuse is what a restart leaves in a closed feature; a shell that *)
(* saves an open copy of it is why the copies of the commands matter.       *)

ShellPCs == {"new", "loaded", "agent", "done"}
Processes == [at : ShellPCs, do : Verbs \cup {"none"}, copy : Features,
              row : Rows \cup {<<0, 0>>}, rev0 : Nat]
ShellTypes ==
    /\ shell \in [Shells -> Processes] /\ orphaned \subseteq Rows
    /\ \A x \in Shells : shell[x].at = "agent" => shell[x].row \in Rows
RunBy(x, r) == shell[x].at = "agent" /\ shell[x].row = r
Unanswered(r) == Orphan(r) /\ r \notin orphaned /\ \A x \in Shells : ~RunBy(x, r)
LeftClosed == (\E r \in Rows : Unanswered(r)) => ClosedEverywhere
ShellTyped == TypeInv /\ ShellTypes
ShellInv == ShellTyped /\ NoResume /\ LeftClosed
\* A step keeps the types whatever ran before, and with them the rest.
ShellKept == ShellTyped' /\ (ShellInv => ShellInv')

LEMMA SubmittedType == Submitted => TypeInv /\ NoResume
  <1> SUFFICES ASSUME Submitted PROVE TypeInv /\ NoResume
    OBVIOUS
  <1>1. feature \in Features
    BY StagesAssumption DEF Submitted, Features, Modes
  <1>2. /\ snap \in [Procs -> Features] /\ job \in [Procs -> Jobs]
        /\ mode \in [Procs -> Modes] /\ result \in [Procs -> Results]
        /\ pc \in [Procs -> PCs] /\ modesSeen \subseteq Modes
    BY NoFeatureType, NoJobType DEF Submitted, Modes, Results, PCs
  <1>3. /\ status \in [Rows -> RowStatus] /\ bolts \in [Bolt -> BoltStatus]
        /\ revs \in [Rows -> Nat] /\ strikes \in [Rows -> Nat] /\ rev0 \in [Procs -> Nat]
        /\ attempts \in Nat /\ rare \in Nat /\ userOK \subseteq Rows /\ active \in BOOLEAN
    BY DEF Submitted, RowStatus, BoltStatus
  <1>4. \A p \in Procs : pc[p] = "idle" /\ job[p] = NoJob
    BY DEF Submitted
  <1>5. JobsOK /\ NoResume
    BY <1>4 DEF JobsOK, JobOK, NoJob, NoResume
  <1> QED
    BY <1>1, <1>2, <1>3, <1>5 DEF TypeInv, TypeOK

LEMMA ShellStarts ==
    ShellInit => ShellTyped /\ ("resume" \notin Requests => ShellInv)
  <1> SUFFICES ASSUME ShellInit
               PROVE  ShellTyped /\ ("resume" \notin Requests => ShellInv)
    OBVIOUS
  <1>1. TypeInv /\ ("resume" \notin Requests => NoResume)
    BY TypeInit, OwnedInit, SubmittedType DEF ShellInit, OwnedInv
  <1>2. ShellTypes
    <2>1. NoShell \in Processes /\ NoShell.at = "new"
      BY NoFeatureType DEF NoShell, Processes, ShellPCs
    <2> QED
      BY <2>1 DEF ShellInit, ShellStart, ShellTypes
  <1>3. \A r \in Rows : status[r] # "in_progress"
    <2>1. CASE Init
      BY <2>1 DEF Init, Created
    <2>2. CASE Submitted
      BY <2>2 DEF Submitted
    <2> QED
      BY <2>1, <2>2 DEF ShellInit
  <1>4. LeftClosed
    BY <1>3 DEF LeftClosed, Unanswered, Orphan
  <1> QED
    BY <1>1, <1>2, <1>4 DEF ShellTyped, ShellInv

LEMMA InitialisedType ==
    ASSUME TypeInv, NEW c
    PROVE  /\ Initialised(c) \in [Rows -> RowStatus]
           /\ \A r \in Rows : Initialised(c)[r] = "in_progress" => status[r] = "in_progress"
  BY DEF Initialised, TypeInv, TypeOK, RowStatus

\* The server's own steps, with the run-stage that makes the rows.
LEMMA FirstRunKeeps ==
    ASSUME TypeInv, NEW p \in Procs, FirstRun(p)
    PROVE  /\ TypeInv' /\ (NoResume => NoResume')
           /\ \A r \in Rows : ~Orphan(r)'
  <1>1. TypeOK /\ rare' \in Nat /\ Initialised(feature.scope) \in [Rows -> RowStatus]
    BY CountedType, InitialisedType DEF FirstRun, Request, TypeInv
  <1>2. TypeInv'
    BY <1>1, RequestJob, TakeType DEF FirstRun, TypeOK, history
  <1>3. \A r \in Rows : status[r] = "absent"
    BY DEF FirstRun, With
  <1>4. NoResume => NoResume'
    BY NoResumeMove DEF FirstRun, Job
  <1> QED
    BY <1>2, <1>3, <1>4, InitialisedType DEF FirstRun, Orphan

LEMMA ServerKeeps ==
    ASSUME ShellTyped, ServerStep \/ UNCHANGED shellVars
    PROVE  /\ ShellTyped'
           /\ ("setup" \notin Faults /\ "resume" \notin Requests) => (ShellInv => ShellInv')
  <1>1. TypeInv /\ ShellTypes
    BY DEF ShellTyped
  <1>2. /\ shell' = shell
        /\ \/ orphaned' = {r \in orphaned : status'[r] = "in_progress"}
           \/ orphaned' = orphaned
    BY DEF ServerStep, Left, shellVars
  <1>3. ShellTypes'
    BY <1>1, <1>2 DEF ShellTypes
  <1>4. CASE \E p \in Procs : FirstRun(p)
    <2>1. PICK p \in Procs : FirstRun(p)
      BY <1>4
    <2>2. TypeInv' /\ (NoResume => NoResume') /\ \A r \in Rows : ~Orphan(r)'
      BY <1>1, <2>1, FirstRunKeeps
    <2>3. LeftClosed'
      BY <2>2 DEF LeftClosed, Unanswered
    <2> QED
      BY <1>3, <2>2, <2>3 DEF ShellTyped, ShellInv
  <1>5. CASE [Next]_vars
    <2>1. TypeInv'
      BY <1>1, <1>5, TypeStep
    <2>2. ASSUME ShellInv, "setup" \notin Faults, "resume" \notin Requests
          PROVE  NoResume' /\ LeftClosed'
      <3>1. NoResume /\ LeftClosed /\ NoResume'
        BY <1>1, <1>5, <2>2, NoResumeStep DEF ShellInv
      <3>2. ASSUME NEW r \in Rows, Unanswered(r)' PROVE ClosedEverywhere'
        <4>1. Orphan(r)' /\ r \notin orphaned' /\ \A x \in Shells : ~RunBy(x, r)'
          BY <3>2 DEF Unanswered
        <4>2. r \notin orphaned /\ \A x \in Shells : ~RunBy(x, r)
          BY <1>2, <4>1 DEF Orphan, RunBy
        <4>3. Orphan(r) => ClosedEverywhere
          BY <3>1, <4>2 DEF LeftClosed, Unanswered
        <4> QED
          BY <1>1, <1>5, <2>2, <3>1, <4>1, <4>3, ClosedRow
      <3> QED
        BY <3>1, <3>2 DEF LeftClosed
    <2> QED
      BY <1>3, <2>1, <2>2 DEF ShellTyped, ShellInv
  <1> QED
    BY <1>4, <1>5 DEF ServerStep, shellVars

\* A command leaves the goroutines and their copies alone.
LEMMA CommandType ==
    ASSUME ShellTyped, feature' \in Features, status' \in [Rows -> RowStatus],
           revs' \in [Rows -> Nat], strikes' \in [Rows -> Nat], userOK' \subseteq Rows,
           UNCHANGED <<bolts, attempts, active, pc, local, modesSeen, rare>>
    PROVE  TypeInv' /\ (NoResume => NoResume')
  <1>1. TypeInv /\ TypeOK
    BY DEF ShellTyped, TypeInv
  <1>2. NoResume => NoResume'
    BY <1>1 DEF NoResume, local
  <1> QED
    BY <1>1, <1>2, TablesType DEF TypeOK

LEMMA CommandClosed ==
    ASSUME UNCHANGED <<pc, local>>,
           \A r \in Rows : Unanswered(r)' =>
                /\ status[r] = "in_progress" /\ r \notin orphaned
                /\ \A x \in Shells : ~RunBy(x, r)
                /\ feature.status # "open" => feature'.status # "open"
    PROVE  LeftClosed => LeftClosed'
  <1> SUFFICES ASSUME LeftClosed, NEW r \in Rows, Unanswered(r)' PROVE ClosedEverywhere'
    BY DEF LeftClosed
  <1>1. ~Owned(r)
    BY DEF Unanswered, Orphan, Owned, Row, local
  <1>2. Unanswered(r)
    BY <1>1 DEF Unanswered, Orphan
  <1>3. ClosedEverywhere
    BY <1>2 DEF LeftClosed
  <1> QED
    BY <1>3 DEF ClosedEverywhere, HoldsCopy, local

\* What a command that has no agent does to the other commands: nothing.
LEMMA CommandMoves ==
    ASSUME ShellTypes, NEW x \in Shells, NEW l \in {"loaded", "done"}, ShellAt(x, l),
           orphaned' \subseteq Rows
    PROVE  /\ ShellTypes'
           /\ \A r : shell[x].at # "agent" =>
                \A y \in Shells : RunBy(y, r) => RunBy(y, r)'
           /\ \A r : r # shell[x].row =>
                \A y \in Shells : RunBy(y, r) => RunBy(y, r)'
  <1>1. shell' = [shell EXCEPT ![x] = [shell[x] EXCEPT !.at = l]]
    BY DEF ShellAt, ShellTypes
  <1>2. shell[x] \in Processes
    BY DEF ShellTypes
  <1>3. /\ [shell[x] EXCEPT !.at = l] \in Processes
        /\ [shell[x] EXCEPT !.at = l].at = l
    BY <1>2 DEF Processes, ShellPCs
  <1> QED
    BY <1>1, <1>3 DEF ShellTypes, RunBy

LEMMA LoadKeeps ==
    ASSUME ShellTyped, NEW x \in Shells, Load(x)
    PROVE  ShellKept
  <1>1. ShellTypes /\ TypeInv /\ TypeOK /\ UNCHANGED <<pc, local, status, feature, orphaned>>
        /\ UNCHANGED vars
    BY DEF ShellTyped, TypeInv, Load, vars, db
  <1>2. PICK v \in Verbs :
            shell' = [shell EXCEPT ![x] = [shell[x] EXCEPT !.at = "loaded", !.do = v,
                                                           !.copy = feature]]
    BY <1>1 DEF Load, ShellTypes
  <1> DEFINE s == [shell[x] EXCEPT !.at = "loaded", !.do = v, !.copy = feature]
  <1>3. shell[x] \in Processes /\ shell[x].at = "new" /\ feature \in Features
    BY <1>1 DEF Load, ShellTypes, TypeOK
  <1>4. s \in Processes /\ s.at = "loaded"
    BY <1>3 DEF Processes, ShellPCs
  <1>5. shell' = [shell EXCEPT ![x] = s]
    BY <1>2
  <1> HIDE DEF s
  <1>6. ShellTypes' /\ \A r : \A y \in Shells : RunBy(y, r) => RunBy(y, r)'
    BY <1>1, <1>3, <1>4, <1>5 DEF ShellTypes, RunBy
  <1>7. LeftClosed => LeftClosed'
    BY <1>1, <1>6, CommandClosed DEF Unanswered, Orphan
  <1>8. TypeInv' /\ (NoResume => NoResume')
    BY <1>1, CommandType DEF TypeOK, vars, db, local, history
  <1> QED
    BY <1>6, <1>7, <1>8 DEF ShellKept, ShellTyped, ShellInv

LEMMA RunBeginsKeeps ==
    ASSUME ShellTyped, NEW x \in Shells, RunBegins(x)
    PROVE  ShellKept
  <1>1. ShellTypes /\ TypeInv /\ TypeOK /\ shell[x] \in Processes
        /\ UNCHANGED <<pc, local, revs, strikes, bolts, attempts, active, modesSeen, rare>>
    BY DEF ShellTyped, ShellTypes, TypeInv, RunBegins, ServerRest
  <1>2. shell[x].at = "loaded" /\ Copy(x) \in Features
    BY <1>1 DEF RunBegins, Does, Copy, Processes
  <1> DEFINE st == Initialised(Copy(x).scope)
  <1>3. st \in [Rows -> RowStatus]
        /\ \A r \in Rows : st[r] = "in_progress" => status[r] = "in_progress"
    BY <1>1, InitialisedType
  <1>4. CASE status' = st /\ ShellAt(x, "done") /\ UNCHANGED <<feature, userOK, orphaned>>
    <2>1. ShellTypes' /\ \A r : \A y \in Shells : RunBy(y, r) => RunBy(y, r)'
      BY <1>1, <1>2, <1>4, CommandMoves DEF ShellTypes
    <2>2. LeftClosed => LeftClosed'
      BY <1>1, <1>3, <1>4, <2>1, CommandClosed DEF Unanswered, Orphan
    <2>3. TypeInv' /\ (NoResume => NoResume')
      BY <1>1, <1>3, <1>4, CommandType DEF TypeOK
    <2> QED
      BY <2>1, <2>2, <2>3 DEF ShellKept, ShellTyped, ShellInv
  <1>5. ASSUME NEW r \in Rows,
               /\ status' = [st EXCEPT ![r] = "in_progress"]
               /\ feature' = IF Copy(x).tree THEN feature ELSE [Copy(x) EXCEPT !.tree = TRUE]
               /\ shell' = [shell EXCEPT ![x].at = "agent", ![x].row = r, ![x].rev0 = revs[r]]
               /\ userOK' = userOK \ {r}
               /\ orphaned' = (orphaned \cup Reopened) \ {r}
        PROVE  ShellKept
    <2> DEFINE s == [shell[x] EXCEPT !.at = "agent", !.row = r, !.rev0 = revs[r]]
    <2>1. s \in Processes /\ s.at = "agent" /\ s.row = r
      BY <1>1 DEF Processes, ShellPCs, TypeOK
    <2>2. shell' = [shell EXCEPT ![x] = s]
      BY <1>1, <1>5 DEF ShellTypes
    <2> HIDE DEF s, st
    <2>3. Reopened \subseteq Rows
      BY DEF Reopened, With
    <2>4. ShellTypes' /\ RunBy(x, r)' /\ \A q : \A y \in Shells : RunBy(y, q) => RunBy(y, q)'
      <3>1. shell' \in [Shells -> Processes] /\ orphaned' \subseteq Rows
        <4>1. shell \in [Shells -> Processes] /\ orphaned \subseteq Rows
          BY <1>1 DEF ShellTypes
        <4>2. shell' \in [Shells -> Processes]
          BY <2>1, <2>2, <4>1
        <4>3. orphaned' \subseteq Rows
          BY <1>5, <2>3, <4>1
        <4> QED
          BY <4>2, <4>3
      <3>2. \A y \in Shells : shell'[y] = IF y = x THEN s ELSE shell[y]
        BY <1>1, <2>2 DEF ShellTypes
      <3>3. ShellTypes'
        BY <1>1, <2>1, <3>1, <3>2 DEF ShellTypes
      <3> QED
        BY <1>2, <2>1, <3>2, <3>3 DEF RunBy
    <2>5. feature' \in Features
      BY <1>1, <1>2, <1>5 DEF TypeOK, Features
    <2>6. status' \in [Rows -> RowStatus]
      BY <1>3, <1>5 DEF RowStatus
    <2>7. TypeInv' /\ (NoResume => NoResume')
      BY <1>1, <1>5, <2>5, <2>6, CommandType DEF TypeOK
    <2>8. ASSUME NEW q \in Rows, Unanswered(q)'
          PROVE  /\ status[q] = "in_progress" /\ q \notin orphaned
                 /\ \A y \in Shells : ~RunBy(y, q)
                 /\ feature.status # "open" => feature'.status # "open"
      <3>1. /\ status'[q] = "in_progress" /\ q \notin orphaned'
            /\ \A y \in Shells : ~RunBy(y, q)'
        BY <2>8 DEF Unanswered, Orphan
      <3>2. q # r
        BY <2>4, <3>1
      <3>3. status[q] = "in_progress"
        BY <1>3, <1>5, <3>1, <3>2
      <3>4. q \notin orphaned /\ q \notin Reopened
        BY <1>5, <3>1, <3>2
      <3> QED
        BY <2>4, <3>1, <3>3, <3>4 DEF Reopened, With
    <2>9. LeftClosed => LeftClosed'
      BY <1>1, <2>8, CommandClosed
    <2> QED
      BY <2>4, <2>7, <2>9 DEF ShellKept, ShellTyped, ShellInv
  <1> QED
    BY <1>4, <1>5 DEF RunBegins

LEMMA RunEndsKeeps ==
    ASSUME ShellTyped, NEW x \in Shells, RunEnds(x)
    PROVE  ShellKept
  <1>1. /\ ShellTypes /\ TypeInv /\ TypeOK /\ shell[x] \in Processes
        /\ shell[x].at = "agent" /\ shell[x].row \in Rows /\ shell[x].rev0 \in Nat
        /\ feature \in Features /\ userOK \subseteq Rows /\ strikes \in [Rows -> Nat]
        /\ status \in [Rows -> RowStatus] /\ revs \in [Rows -> Nat]
    BY DEF ShellTyped, ShellTypes, TypeInv, TypeOK, RunEnds, Processes
  <1>2. /\ ShellAt(x, "done") /\ UNCHANGED <<feature, userOK>>
        /\ UNCHANGED <<pc, local, bolts, attempts, active, modesSeen, rare>>
    BY DEF RunEnds, ServerRest
  <1>3. /\ strikes' \in [Rows -> Nat]
        /\ \/ \E st \in {"awaiting_approval", "revising", "failed"}, n \in Nat :
                  RunWrites(x, st, n)
           \/ RunLeaves(x)
    <2>1. /\ UNCHANGED strikes \/ Strike(shell[x].row)
          /\ \/ \E st \in {"awaiting_approval", "revising", "failed"} :
                    RunWrites(x, st, shell[x].rev0) \/ RunWrites(x, st, shell[x].rev0 + 1)
             \/ RunLeaves(x)
      BY DEF RunEnds
    <2>2. strikes' \in [Rows -> Nat]
      BY <1>1, <2>1 DEF Strike
    <2>3. shell[x].rev0 + 1 \in Nat
      BY <1>1
    <2> QED
      BY <1>1, <2>1, <2>2, <2>3
  <1>4. ASSUME status' \in [Rows -> RowStatus], revs' \in [Rows -> Nat], orphaned' \subseteq Rows,
               \A q \in Rows : status'[q] = "in_progress" /\ q \notin orphaned' =>
                    /\ status[q] = "in_progress" /\ q \notin orphaned
                    /\ q # shell[x].row
        PROVE  ShellKept
    <2>1. ShellTypes' /\ \A r : r # shell[x].row =>
                            \A y \in Shells : RunBy(y, r) => RunBy(y, r)'
      BY <1>1, <1>2, <1>4, CommandMoves
    <2>2. TypeInv' /\ (NoResume => NoResume')
      BY <1>1, <1>2, <1>3, <1>4, CommandType
    <2>3. LeftClosed => LeftClosed'
      BY <1>2, <1>4, <2>1, CommandClosed DEF Unanswered, Orphan
    <2> QED
      BY <2>1, <2>2, <2>3 DEF ShellKept, ShellTyped, ShellInv
  <1>5. CASE RunLeaves(x)
    <2>1. /\ status' = status /\ revs' = revs
          /\ orphaned' = orphaned \cup ({shell[x].row} \cap With("in_progress"))
      BY <1>5 DEF RunLeaves
    <2>2. orphaned' \subseteq Rows
      BY <1>1, <2>1 DEF ShellTypes
    <2>3. \A q \in Rows : status'[q] = "in_progress" /\ q \notin orphaned' =>
              status[q] = "in_progress" /\ q \notin orphaned /\ q # shell[x].row
      BY <2>1 DEF With
    <2> QED
      BY <1>1, <1>4, <2>1, <2>2, <2>3
  <1>6. ASSUME NEW st \in {"awaiting_approval", "revising", "failed"}, NEW n \in Nat,
               RunWrites(x, st, n)
        PROVE  ShellKept
    <2>1. /\ status' = [status EXCEPT ![shell[x].row] = st]
          /\ revs' = [revs EXCEPT ![shell[x].row] = n]
          /\ orphaned' = orphaned \ {shell[x].row}
      BY <1>6 DEF RunWrites
    <2>2. /\ status' \in [Rows -> RowStatus] /\ revs' \in [Rows -> Nat]
          /\ orphaned' \subseteq Rows
      BY <1>1, <2>1 DEF ShellTypes, RowStatus
    <2>3. \A q \in Rows : status'[q] = "in_progress" /\ q \notin orphaned' =>
              status[q] = "in_progress" /\ q \notin orphaned /\ q # shell[x].row
      BY <1>1, <2>1
    <2> QED
      BY <1>4, <2>2, <2>3
  <1> QED
    BY <1>3, <1>5, <1>6

\* approve, reject, jump: tables written from a copy, no row opened, and
\* whatever the save of the copy reopens is in the history.
LEMMA TablesKeep ==
    ASSUME ShellTyped, NEW x \in Shells, shell[x].at = "loaded", ShellAt(x, "done"),
           feature' \in Features, status' \in [Rows -> RowStatus],
           revs' \in [Rows -> Nat], strikes' \in [Rows -> Nat], userOK' \subseteq Rows,
           UNCHANGED <<bolts, attempts, active, pc, local, modesSeen, rare>>, OpensNone,
           \/ Left(orphaned \cup Reopened)
           \/ orphaned' = orphaned /\ feature' = feature
           \/ Left(orphaned) /\ feature' = feature
    PROVE  ShellKept
  <1>1. ShellTypes
    BY DEF ShellKept, ShellTyped, ShellInv
  <1>2. orphaned' \subseteq Rows
    BY <1>1 DEF ShellTypes, Left, Reopened, With
  <1>3. ShellTypes' /\ \A r : \A y \in Shells : RunBy(y, r) => RunBy(y, r)'
    BY <1>1, <1>2, CommandMoves
  <1>4. TypeInv' /\ (NoResume => NoResume')
    BY CommandType
  <1>5. ASSUME NEW r \in Rows, Unanswered(r)'
        PROVE  /\ status[r] = "in_progress" /\ r \notin orphaned
               /\ \A y \in Shells : ~RunBy(y, r)
               /\ feature.status # "open" => feature'.status # "open"
    <2>1. status'[r] = "in_progress" /\ r \notin orphaned' /\ \A y \in Shells : ~RunBy(y, r)'
      BY <1>5 DEF Unanswered, Orphan
    <2>2. status[r] = "in_progress"
      BY <2>1 DEF OpensNone
    <2>3. r \notin orphaned /\ (r \notin Reopened \/ feature' = feature)
      BY <2>1 DEF Left
    <2> QED
      BY <1>3, <2>1, <2>2, <2>3 DEF Reopened, With
  <1>6. LeftClosed => LeftClosed'
    BY <1>5, CommandClosed
  <1> QED
    BY <1>3, <1>4, <1>6 DEF ShellKept, ShellTyped, ShellInv

LEMMA DecisionsKeep ==
    ASSUME ShellTyped, NEW x \in Shells,
           ApproveStage(x) \/ RejectStage(x) \/ JumpToStage(x) \/ Refused(x)
    PROVE  ShellKept
  <1>1. /\ TypeInv /\ TypeOK /\ ShellTypes /\ shell[x] \in Processes
        /\ shell[x].at = "loaded" /\ ShellAt(x, "done") /\ Copy(x) \in Features
        /\ feature \in Features /\ userOK \subseteq Rows /\ strikes \in [Rows -> Nat]
        /\ status \in [Rows -> RowStatus] /\ revs \in [Rows -> Nat]
    BY DEF ShellTyped, TypeInv, TypeOK, ShellTypes, Processes, Copy, Does,
           ApproveStage, RejectStage, JumpToStage, Refused
  <1>2. CASE ApproveStage(x)
    <2>1. PICK s \in Stage : /\ Approvable(Named(x, s))
                             /\ \E ok : ApproveAndAdvance(Copy(x), Named(x, s), ok)
                             /\ userOK' = userOK \cup {Named(x, s)}
      BY <1>2 DEF ApproveStage
    <2>2. PICK ok : ApproveAndAdvance(Copy(x), Named(x, s), ok)
      BY <2>1
    <2>3. Named(x, s) \in Rows
      BY <2>1 DEF Approvable
    <2>4. /\ feature' \in Features /\ status' \in [Rows -> RowStatus]
          /\ revs' \in [Rows -> Nat] /\ UNCHANGED <<bolts, attempts>>
      BY <1>1, <2>2, ApproveType
    <2>5. OpensNone
      BY <1>1, <2>2, <2>3, ApproveOpensNone
    <2>6. userOK' \subseteq Rows
      BY <1>1, <2>1, <2>3
    <2> QED
      BY <1>1, <1>2, <2>4, <2>5, <2>6, TablesKeep DEF ApproveStage
  <1>3. CASE RejectStage(x)
    <2>1. PICK s \in Stage : SendBack(Named(x, s))
      BY <1>3 DEF RejectStage
    <2>2. /\ Named(x, s) \in Rows /\ status' = [status EXCEPT ![Named(x, s)] = "revising"]
          /\ revs' = [revs EXCEPT ![Named(x, s)] = @ + 1]
          /\ strikes' = [strikes EXCEPT ![Named(x, s)] = @ + 1]
      BY <2>1 DEF SendBack, Approvable, SetRow, Strike
    <2>3. /\ status' \in [Rows -> RowStatus] /\ revs' \in [Rows -> Nat]
          /\ strikes' \in [Rows -> Nat] /\ OpensNone
      BY <1>1, <2>2 DEF RowStatus, OpensNone
    <2> QED
      BY <1>1, <1>3, <2>3, TablesKeep DEF RejectStage, ServerRest
  <1>4. CASE JumpToStage(x)
    <2>1. PICK s : JumpTo(Copy(x).scope, s)
      BY <1>4 DEF JumpToStage
    <2> DEFINE skipped == JumpSkips(Copy(x).scope, s)
               target == {r \in Rows : r = <<s, 0>> /\ status[r] # "absent"}
    <2>2. /\ status' = [r \in Rows |->
                  IF r \in target THEN "not_started" ELSE Skip(status, skipped)[r]]
          /\ revs' = Zero(revs, skipped \cup target)
      BY <2>1 DEF JumpTo
    <2> HIDE DEF skipped, target
    <2>3. Skip(status, skipped) \in [Rows -> RowStatus] /\ revs' \in [Rows -> Nat]
      BY <1>1, <2>2, SkipType
    <2>4. status' \in [Rows -> RowStatus]
      BY <2>2, <2>3 DEF RowStatus
    <2>5. OpensNone
      BY <2>2 DEF OpensNone, Skip
    <2> QED
      BY <1>1, <1>4, <2>3, <2>4, <2>5, TablesKeep DEF JumpToStage, ServerRest
  <1>5. CASE Refused(x)
    <2>1. UNCHANGED <<feature, status, revs, strikes, userOK, orphaned>>
          /\ UNCHANGED <<bolts, attempts, active, pc, local, modesSeen, rare>> /\ OpensNone
      BY <1>5 DEF Refused, vars, db, history, OpensNone
    <2> QED
      BY <1>1, <2>1, TablesKeep
  <1> QED
    BY <1>2, <1>3, <1>4, <1>5

LEMMA ShellSteps ==
    ASSUME ShellTyped, [ShellNext]_shellVars
    PROVE  /\ ShellTyped'
           /\ ("setup" \notin Faults /\ "resume" \notin Requests) => (ShellInv => ShellInv')
  <1>1. CASE ServerStep \/ UNCHANGED shellVars
    BY <1>1, ServerKeeps
  <1>2. CASE \E x \in Shells : ShellStep(x)
    <2>1. ShellKept
      BY <1>2, LoadKeeps, RunBeginsKeeps, RunEndsKeeps, DecisionsKeep DEF ShellStep
    <2> QED
      BY <2>1 DEF ShellKept
  <1> QED
    BY <1>1, <1>2 DEF ShellNext

\* The commands' processes, the copies of the feature they were started with,
\* the rows they run and the history have their types, beside the tables the
\* server and any number of shells write (main.go).
THEOREM ShellTypeCorrect == ShellSpec => []ShellTypeOK
  <1>1. ShellInit => ShellTyped
    BY ShellStarts
  <1>2. ShellTyped /\ [ShellNext]_shellVars => ShellTyped'
    BY ShellSteps
  <1>3. ShellTyped => ShellTypeOK
    BY DEF ShellTyped, TypeInv, ShellTypes, Processes, ShellPCs, ShellTypeOK
  <1> QED
    BY <1>1, <1>2, <1>3, PTL DEF ShellSpec

\* In a feature that is open, a row in_progress has a goroutine or a command
\* that will write its outcome, or the command that ran it was killed, could
\* not set it up, or opened the feature again with the save of an old copy:
\* whatever the server and any number of shells do to each other's rows, and
\* for every number of stages, Bolts, goroutines and commands.  (Of the
\* server's own stages: with a setup that works, no live session continued.)
THEOREM RunningAlwaysHasRunner ==
    ASSUME "setup" \notin Faults, "resume" \notin Requests
    PROVE  ShellSpec => []RunningHasRunner
  <1>1. ShellInit => ShellInv
    BY ShellStarts
  <1>2. ShellInv /\ [ShellNext]_shellVars => ShellInv'
    BY ShellSteps DEF ShellInv
  <1>3. ShellInv => RunningHasRunner
    <2> SUFFICES ASSUME ShellInv, feature.status = "open", NEW r \in With("in_progress"),
                        ~Owned(r), r \notin orphaned, \A x \in Shells : ~RunBy(x, r)
                 PROVE  FALSE
      BY DEF RunningHasRunner, RunBy
    <2>1. r \in Rows /\ Unanswered(r)
      BY DEF With, Unanswered, Orphan
    <2> QED
      BY <2>1 DEF ShellInv, LeftClosed, ClosedEverywhere
  <1> QED
    BY <1>1, <1>2, <1>3, PTL DEF ShellSpec
=============================================================================
