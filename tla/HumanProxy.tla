----------------------------- MODULE HumanProxy -----------------------------
(* Questions of stage agents and the human proxy.  An agent that signals   *)
(* needs_feedback in guided or autonomous mode makes the server start a    *)
(* proxy goroutine: it runs the proxy agent in a tmux session, waits for   *)
(* its end, tells the stage's session to continue, waits again, and        *)
(* recovers the stage it found current when it began.  The pipeline of     *)
(* StageMachine goes on meanwhile: a stage agent is no tmux process, and   *)
(* the session of its phase is a shell that nothing ends before the phase. *)
(***************************************************************************)
EXTENDS StageMachine

CONSTANTS
    Question,  \* the questions agents may ask
    Proxies    \* the proxy goroutines there may be at a time

ASSUME ProxyAssumption == Proxies # {} /\ Proxies \cap Procs = {}

VARIABLES
    questions, \* questions.status of each row ("none": no such row)
    answer,    \* questions.answer: whose answer is stored
    sessions,  \* phases whose "-proxy" tmux session is alive
    ppc,       \* where each proxy goroutine is
    held       \* the phase it was started for and the CurrentStage it read

proxyVars == <<questions, answer, sessions, ppc, held>>
allVars == <<vars, proxyVars>>

QuestionStatus == {"none", "pending", "answered"}
Answers == {"none", "user", "proxy"}
ProxyPCs == {"idle", "starting", "polling", "judging", "continuing", "unmarking"}
Helds == [phase : 0..4, stage : 0..NumStages]
NotHeld == [phase |-> 0, stage |-> 0]

ProxyStart ==
    /\ questions = [q \in Question |-> "none"]
    /\ answer = [q \in Question |-> "none"]
    /\ sessions = {}
    /\ ppc = [x \in Proxies |-> "idle"]
    /\ held = [x \in Proxies |-> NotHeld]

ProxyInit == Init /\ ProxyStart

ProxyGoto(x, label) == ppc' = [ppc EXCEPT ![x] = label]
\* A goroutine that ends forgets what it held.
ProxyEnds(x) == ProxyGoto(x, "idle") /\ held' = [held EXCEPT ![x] = NotHeld]

-----------------------------------------------------------------------------
(* Requests of agents, of the user and of the proxy agent.                 *)

AgentRuns == \E p \in Procs : pc[p] = "agent"

\* CurrentPhase: ideation before there is a current stage.
CurrentPhase(s) == IF s = 0 THEN 1 ELSE PhaseOf[s]

\* A question is stored without an answer, and pending.
InsertQuestion(q) == questions' = [questions EXCEPT ![q] = "pending"]

CreateQuestion(q) ==
    /\ AgentRuns /\ questions[q] = "none"
    /\ InsertQuestion(q)
    /\ UNCHANGED <<vars, answer, sessions, ppc, held>>

\* The phase is the feature's at the signal.
NeedsFeedback(x) ==
    /\ AgentRuns /\ ppc[x] = "idle" /\ AutoMode(feature.mode)
    /\ ProxyGoto(x, "starting")
    /\ held' = [held EXCEPT ![x].phase = CurrentPhase(feature.stage)]
    /\ UNCHANGED <<vars, questions, answer, sessions>>

\* (as a mutant: the UPDATE has no condition on the status)
AnswerAnyStatus(q, who) ==
    /\ questions[q] # "none"
    /\ questions' = [questions EXCEPT ![q] = "answered"]
    /\ answer' = [answer EXCEPT ![q] = who]

\* (as a mutant: the answer is not written)
AnswerLost(q, who) ==
    /\ questions[q] = "pending"
    /\ questions' = [questions EXCEPT ![q] = "answered"]
    /\ UNCHANGED answer

\* One UPDATE of a pending row; a conflict changes nothing.
AnswerQuestion(q, who) ==
    /\ questions[q] = "pending"
    /\ questions' = [questions EXCEPT ![q] = "answered"]
    /\ answer' = [answer EXCEPT ![q] = who]

UserAnswers(q) == AnswerQuestion(q, "user") /\ UNCHANGED <<vars, sessions, ppc, held>>

ProxyAnswers(q) ==
    /\ sessions # {}
    /\ AnswerQuestion(q, "proxy")
    /\ UNCHANGED <<vars, sessions, ppc, held>>

-----------------------------------------------------------------------------
(* dispatchHumanProxy.                                                     *)

\* A session of the same name, an earlier proxy's, is killed and replaced;
\* creating the session may fail.
ProxyStarts(x) ==
    /\ ppc[x] = "starting"
    /\ \/ /\ sessions' = sessions \cup {held[x].phase}
          /\ held' = [held EXCEPT ![x].stage = feature.stage]
          /\ ProxyGoto(x, "polling")
       \/ sessions' = sessions \ {held[x].phase} /\ ProxyEnds(x)
    /\ UNCHANGED <<vars, questions, answer>>

ProxyAgentExits(ph) ==
    /\ ph \in sessions
    /\ sessions' = sessions \ {ph}
    /\ UNCHANGED <<vars, questions, answer, ppc, held>>

\* The session ended, or ten minutes have passed and it is killed, and with
\* it the session of a later proxy of the same phase.
PollEnds(x) ==
    /\ ppc[x] = "polling"
    /\ sessions' = sessions \ {held[x].phase}
    /\ ProxyGoto(x, "judging")
    /\ UNCHANGED <<vars, questions, answer, held>>

\* GetPendingQuestions names a column that the table does not have; its error
\* is dropped and the list is empty.
StillPending == {}

LeaveForHuman(x) ==
    /\ ppc[x] = "judging"
    /\ StillPending # {} \/ held[x].stage = 0
    /\ ProxyEnds(x)
    /\ UNCHANGED <<vars, questions, answer, sessions>>

\* The stage's session is dead: start AdvanceFeature unless the feature runs.
FreshDispatch(x) ==
    /\ ppc[x] = "judging" /\ StillPending = {} /\ held[x].stage # 0
    /\ \E p \in Procs :
        /\ pc[p] = "idle"
        /\ Goto(p, "checkActive") /\ Take(p, Job("request", 0, 0))
    /\ ProxyEnds(x)
    /\ UNCHANGED <<db, active, mode, snap, rev0, result, history, rare,
                   questions, answer, sessions>>

\* It is alive: mark the feature, unless it is marked, and wait for its end.
ContinueSession(x) ==
    /\ ppc[x] = "judging" /\ StillPending = {} /\ held[x].stage # 0
    /\ active' = TRUE
    /\ ProxyGoto(x, "continuing")
    /\ UNCHANGED <<db, pc, local, history, rare, questions, answer, sessions, held>>

-----------------------------------------------------------------------------
(* recoverStage, up to 50 minutes later, on the row at bolt_number 0.      *)

HeldRow(x) == <<held[x].stage, 0>>
Held(x, st) == HeldRow(x) \in Rows /\ status[HeldRow(x)] = st
Recovers(x) == ppc[x] = "continuing" /\ ProxyGoto(x, "unmarking")
\* recoverStage loads the feature, and saves it with the stage it was given.
SavedStage(x) == [feature EXCEPT !.stage = held[x].stage]
WalkLeft(st, c) == \E r \in Rows :
    st[r] = "not_started" /\ r[1] \in LinearStages /\ InScope(c, r[1])

RecoverNothing(x) ==
    /\ Recovers(x)
    /\ ~Held(x, "in_progress")
    /\ Held(x, "awaiting_approval") =>
          ~(AutoMode(feature.mode) /\ AutoApproved(feature, held[x].stage))
    /\ UNCHANGED <<vars, questions, answer, sessions, held>>

\* A gate an automatic mode would open: approve, and go on if nobody does.
RecoverApproves(x) ==
    /\ Recovers(x) /\ Held(x, "awaiting_approval")
    /\ AutoMode(feature.mode) /\ AutoApproved(feature, held[x].stage)
    /\ \E ok \in AdvanceOutcomes(feature, held[x].stage) :
        /\ ApproveAndAdvance(feature, HeldRow(x), ok)
        /\ IF ok /\ WalkLeft(status', feature'.scope) /\ ~active
           THEN \E p \in Procs : /\ pc[p] = "idle" /\ Goto(p, "spawned")
                                 /\ Take(p, Job("request", 0, 0))
                                 /\ active' = TRUE
           ELSE UNCHANGED <<pc, job, active>>
    /\ UNCHANGED <<mode, snap, rev0, result, history, rare, questions, answer,
                   sessions, held>>

\* Running, with no artifact of the stage: send it back, its count as read.
RecoverSendsBack(x) ==
    /\ Recovers(x) /\ Held(x, "in_progress")
    /\ SetRow(HeldRow(x), "revising")
    /\ feature' = SavedStage(x)
    /\ UNCHANGED <<revs, bolts, attempts, active, pc, local, history, rare,
                   questions, answer, sessions, held>>

\* Running, with artifacts: ProcessStageResult decides as if it had passed,
\* and the next stage is started whether or not the feature runs.
RecoverProcesses(x) ==
    /\ Recovers(x) /\ Held(x, "in_progress")
    /\ feature' = SavedStage(x)
    /\ LET auto == AutoApproved(feature, held[x].stage)
           st == [status EXCEPT ![HeldRow(x)] =
                      IF auto THEN "completed" ELSE "awaiting_approval"]
           passed == IF auto THEN PassedOver(st, feature.scope) ELSE {}
       IN  /\ status' = Skip(st, passed)
           /\ revs' = Zero(revs, passed)
           /\ IF auto /\ WalkLeft(st, feature.scope)
              THEN \E p \in Procs : /\ pc[p] = "idle" /\ Goto(p, "spawned")
                                    /\ Take(p, Job("request", 0, 0))
                                    /\ active' = TRUE
              ELSE UNCHANGED <<pc, job, active>>
    /\ UNCHANGED <<bolts, attempts, mode, snap, rev0, result, history, rare,
                   questions, answer, sessions, held>>

\* (as a mutant: the mark is left)
ProxyUnmarkForgotten(x) ==
    /\ ppc[x] = "unmarking"
    /\ ProxyEnds(x)
    /\ UNCHANGED <<vars, questions, answer, sessions>>

\* The deferred unmark, whoever else has marked the feature meanwhile.
ProxyUnmark(x) ==
    /\ ppc[x] = "unmarking"
    /\ active' = FALSE
    /\ ProxyEnds(x)
    /\ UNCHANGED <<db, pc, local, history, rare, questions, answer, sessions>>

-----------------------------------------------------------------------------

PipelineStep ==
    /\ (\E p \in Procs : Advance(p) \/ AgentEnds(p)) \/ UserRequest
    /\ UNCHANGED proxyVars

\* A crash ends the goroutines; tmux sessions and questions outlive it.
ServerCrash ==
    /\ Crash
    /\ ppc' = [x \in Proxies |-> "idle"]
    /\ held' = [x \in Proxies |-> NotHeld]
    /\ UNCHANGED <<questions, answer, sessions>>

Asking == \E q \in Question : CreateQuestion(q) \/ UserAnswers(q) \/ ProxyAnswers(q)

ProxyStep(x) ==
    \/ ProxyStarts(x) \/ PollEnds(x) \/ LeaveForHuman(x) \/ FreshDispatch(x)
    \/ ContinueSession(x) \/ RecoverNothing(x) \/ RecoverApproves(x)
    \/ RecoverSendsBack(x) \/ RecoverProcesses(x) \/ ProxyUnmark(x)

ProxyNext ==
    \/ PipelineStep \/ ServerCrash \/ Asking
    \/ \E x \in Proxies : NeedsFeedback(x) \/ ProxyStep(x)
    \/ \E ph \in 0..4 : ProxyAgentExits(ph)

ProxySpec == ProxyInit /\ [][ProxyNext]_allVars

-----------------------------------------------------------------------------
(* Properties.                                                             *)

\* The tables, sessions and goroutines of the proxy have their types, and only
\* an answered question has an answer.
ProxyTypeOK ==
    /\ TypeOK
    /\ questions \in [Question -> QuestionStatus]
    /\ answer \in [Question -> Answers]
    /\ \A q \in Question : answer[q] # "none" <=> questions[q] = "answered"
    /\ sessions \subseteq 0..4
    /\ ppc \in [Proxies -> ProxyPCs] /\ held \in [Proxies -> Helds]

\* "Atomic check-and-update to prevent race": the answer of a question, the
\* user's or the proxy's, whichever came first, is never replaced.
AnsweredOnce ==
    [][\A q \in Question : questions[q] = "answered"
            => answer'[q] = answer[q] /\ questions'[q] = "answered"]_allVars

\* A feature marked active, which every run request refuses, is being advanced
\* or continued by a goroutine that will unmark it, whatever proxies, which
\* mark and unmark it on their own, and crashes come in between.
MarkOwned ==
    active => Live # {} \/ \E x \in Proxies : ppc[x] \in {"continuing", "unmarking"}

\* "All questions answered - resume the existing tmux session": the proxy
\* goroutine goes on only when no question of the feature is pending.
ContinuesAnswered ==
    [][\A x \in Proxies :
         (ppc[x] = "judging" /\ ppc'[x] = "continuing")
            => \A q \in Question : questions[q] # "pending"]_allVars

=============================================================================
