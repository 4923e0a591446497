---------------------------- MODULE AgentSessions ---------------------------
(* The tmux sessions of a feature: one for each phase, and in construction *)
(* one for each Bolt.  RunStage finds or makes the session's row, the      *)
(* dispatch makes the tmux session if it is dead, the reviewer's dispatch  *)
(* makes one of the phase's name, which for a Bolt stage has no row, a     *)
(* gate leaves them, and the end of a phase kills those with rows.  The    *)
(* user resumes and kills sessions meanwhile; a resume is a RunStage of    *)
(* its own.  (A human proxy's session, of a name of its own and without a  *)
(* row, is made and killed by its goroutine: module HumanProxy.)           *)
(***************************************************************************)
EXTENDS Naturals, Sequences, FiniteSets

CONSTANTS
    SessionPath, \* the stages of the walk: [phase, bolt] of each, in order
    BoltPhase,   \* the construction phase; a stage of it with bolt 0 runs once
    WithReview,  \* the places of the walk whose stages have a reviewer
    Resumes,     \* the resume requests
    MaxKills     \* bound: sessions killed, and steps of RunStage that fail

Runners == {"loop"} \cup Resumes
Places == 1..Len(SessionPath)
SessionKey ==
    {SessionPath[i] : i \in Places} \cup [phase : {BoltPhase}, bolt : {0}]
SessionPhases == {key.phase : key \in SessionKey}

ASSUME WalkAssumption ==
    /\ Len(SessionPath) \in Nat \ {0} /\ WithReview \subseteq Places
    /\ "loop" \notin Resumes /\ MaxKills \in Nat
    /\ \A i \in Places : LET stage == SessionPath[i]
                         IN  /\ stage = [phase |-> stage.phase, bolt |-> stage.bolt]
                             /\ stage.bolt \in Nat
                             /\ stage.phase # BoltPhase => stage.bolt = 0

VARIABLES
    tmuxRow,  \* the tmux_sessions rows: state and stage ("none": no row)
    alive,    \* the tmux sessions there are
    place,    \* feature.CurrentStage, as a place of the walk
    marked,   \* the feature's in-memory active mark
    rpc,      \* where each RunStage is
    runs,     \* the place whose stage it runs, and the Bolt in its copy of the feature
    faults,   \* how many kills and failures there were
    loose,    \* history: phases in which the user resumed, or jumped over
    unsaved   \* history: sessions whose row could not be saved once

sessionPast == <<loose, unsaved>>
sessionVars == <<tmuxRow, alive, place, marked, rpc, runs, faults, sessionPast>>

SessionStates == {"created", "running", "awaiting_gate", "resuming", "done", "expired"}
NoRow == [state |-> "none", stage |-> 0]
SessionRow(state, stage) == [state |-> state, stage |-> stage]

\* feature.CurrentBolt, once the walk has come to a Bolt.
CurrentBolt ==
    LET begun == {i \in 1..place :
                     SessionPath[i].phase = BoltPhase /\ SessionPath[i].bolt > 0}
        last == CHOOSE i \in begun : \A j \in begun : j <= i
    IN  IF begun = {} THEN 0 ELSE SessionPath[last].bolt
KeyOf(phase) == [phase |-> phase, bolt |-> IF phase = BoltPhase THEN CurrentBolt ELSE 0]
NoRun == [stage |-> 1, bolt |-> 0]
Run(i) == [stage |-> i, bolt |-> CurrentBolt]
RunKey(x) ==
    LET phase == SessionPath[runs[x].stage].phase
    IN  [phase |-> phase, bolt |-> IF phase = BoltPhase THEN runs[x].bolt ELSE 0]

\* The reviewer's dispatch names no session, so it gets that of the phase.
ReviewKey(x) == [phase |-> SessionPath[runs[x].stage].phase, bolt |-> 0]
BoltReviews == [phase |-> BoltPhase, bolt |-> 0]

SessionInit ==
    /\ tmuxRow = [key \in SessionKey |-> NoRow] /\ alive = {}
    /\ place = 1 /\ marked = FALSE
    /\ rpc = [x \in Runners |-> "idle"] /\ runs = [x \in Runners |-> NoRun]
    /\ faults = 0 /\ loose = {} /\ unsaved = {}

RGoto(x, label) == rpc' = [rpc EXCEPT ![x] = label]

\* UpdateTmuxSessionState: an UPDATE, so nothing without the row.
SetState(key, state, stage) ==
    tmuxRow' = [tmuxRow EXCEPT ![key] =
                   IF @ = NoRow THEN @ ELSE SessionRow(state, stage)]

-----------------------------------------------------------------------------
(* RunStage.                                                               *)

\* For the first stage of a phase there is no row yet, and none is made here.
SetSessionRunning(x) ==
    /\ rpc[x] = "starting"
    /\ SetState(RunKey(x), "running", runs[x].stage)
    /\ RGoto(x, "resolving")
    /\ UNCHANGED <<alive, place, marked, runs, faults, sessionPast>>

\* (as a mutant: a session found alive is taken without its row)
ResolveAlive(x) ==
    /\ rpc[x] = "resolving"
    /\ IF RunKey(x) \in alive \/ tmuxRow[RunKey(x)] = NoRow THEN UNCHANGED tmuxRow
       ELSE tmuxRow' = [tmuxRow EXCEPT ![RunKey(x)] = SessionRow("created", 0)]
    /\ RGoto(x, "launching")
    /\ UNCHANGED <<alive, place, marked, runs, faults, sessionPast>>

\* A row whose session is dead is as good as new, and so is a new one.  A row
\* that cannot be saved is only logged: the session is made without it.
ResolveOrCreateSession(x) ==
    /\ rpc[x] = "resolving"
    /\ \/ /\ tmuxRow[RunKey(x)] # NoRow /\ RunKey(x) \in alive
          /\ UNCHANGED <<tmuxRow, faults, unsaved>>
       \/ /\ tmuxRow[RunKey(x)] = NoRow \/ RunKey(x) \notin alive
          /\ tmuxRow' = [tmuxRow EXCEPT ![RunKey(x)] = SessionRow("created", 0)]
          /\ UNCHANGED <<faults, unsaved>>
       \/ /\ tmuxRow[RunKey(x)] = NoRow /\ faults < MaxKills
          /\ faults' = faults + 1 /\ unsaved' = unsaved \cup {RunKey(x)}
          /\ UNCHANGED tmuxRow
    /\ RGoto(x, "launching")
    /\ UNCHANGED <<alive, place, marked, runs, loose>>

\* DispatchStreaming makes the session unless it is alive.
LaunchSession(x) ==
    /\ rpc[x] = "launching"
    /\ alive' = alive \cup {RunKey(x)}
    /\ RGoto(x, "agent")
    /\ UNCHANGED <<tmuxRow, place, marked, runs, faults, sessionPast>>

Unmarks(x) ==
    /\ marked' = FALSE
    /\ RGoto(x, IF x = "loop" THEN "idle" ELSE "answered")
    /\ runs' = [runs EXCEPT ![x] = NoRun]

\* The context or the role cannot be loaded, the session or the agent cannot be
\* started, or the smoke test or the reviewer rejects: no session is updated.
StageFails(x) ==
    /\ rpc[x] \in {"resolving", "launching", "agent", "reviewer"} /\ faults < MaxKills
    /\ faults' = faults + 1
    /\ Unmarks(x)
    /\ UNCHANGED <<tmuxRow, alive, place, sessionPast>>

\* DispatchStreaming again, for dispatchReviewer: it makes the phase's session
\* unless it is alive, and for a Bolt stage that is not the one with the row.  A
\* dispatch that fails is only logged.
LaunchReviewer(x) ==
    /\ rpc[x] = "agent" /\ runs[x].stage \in WithReview
    /\ \/ alive' = alive \cup {ReviewKey(x)} /\ UNCHANGED faults
       \/ faults < MaxKills /\ faults' = faults + 1 /\ UNCHANGED alive
    /\ RGoto(x, "reviewer")
    /\ UNCHANGED <<tmuxRow, place, marked, runs, sessionPast>>

\* The session of the stage's own Bolt: a construction stage that runs once
\* updates the phase's, which is not the one its agent ran in.
GateKey(x) == IF SessionPath[runs[x].stage].bolt > 0 THEN RunKey(x) ELSE ReviewKey(x)

\* After the reviewer, or without one: an agent that failed is not reviewed.
SetSessionAwaitingGate(x) ==
    /\ rpc[x] \in {"agent", "reviewer"}
    /\ SetState(GateKey(x), "awaiting_gate", runs[x].stage)
    /\ IF x = "loop" THEN RGoto(x, "gate") /\ UNCHANGED <<marked, runs>> ELSE Unmarks(x)
    /\ UNCHANGED <<alive, place, faults, sessionPast>>

-----------------------------------------------------------------------------
(* The loop.                                                               *)

LoopRuns ==
    /\ rpc["loop"] = "idle" /\ ~marked
    /\ marked' = TRUE
    /\ RGoto("loop", "starting") /\ runs' = [runs EXCEPT !["loop"] = Run(place)]
    /\ UNCHANGED <<tmuxRow, alive, place, faults, sessionPast>>

\* (as a mutant: only the session of the current Bolt is ended)
CompleteOne(phase) ==
    /\ alive' = alive \ {KeyOf(phase)}
    /\ tmuxRow' = [tmuxRow EXCEPT ![KeyOf(phase)] =
                       IF @ # NoRow THEN SessionRow("done", 0) ELSE @]

\* CompletePhaseSessions: of every Bolt, as far as there are rows.
CompletePhaseSessions(phase) ==
    LET ended == {key \in SessionKey : key.phase = phase /\ tmuxRow[key] # NoRow}
    IN  /\ alive' = alive \ ended
        /\ tmuxRow' = [key \in SessionKey |->
                          IF key \in ended THEN SessionRow("done", 0) ELSE tmuxRow[key]]

\* The gate is approved: AdvanceStage.  After the last stage no session ends.
AdvanceToNext ==
    /\ rpc["loop"] = "gate" /\ place < Len(SessionPath)
    /\ place' = place + 1
    /\ IF SessionPath[place].phase # SessionPath[place + 1].phase
       THEN CompletePhaseSessions(SessionPath[place].phase)
       ELSE UNCHANGED <<alive, tmuxRow>>
    /\ Unmarks("loop")
    /\ UNCHANGED <<faults, sessionPast>>

\* The gate is rejected, or waits for the user.
LeaveGate == rpc["loop"] = "gate" /\ Unmarks("loop")
             /\ UNCHANGED <<tmuxRow, alive, place, faults, sessionPast>>

\* JumpToStage, and the walk goes on there; it ends no session.
Jump(i) ==
    /\ rpc["loop"] = "idle" /\ i > place
    /\ place' = i
    /\ loose' = loose \cup {SessionPath[j].phase : j \in place..(i - 1)}
    /\ UNCHANGED <<tmuxRow, alive, marked, rpc, runs, faults, unsaved>>

-----------------------------------------------------------------------------
(* Requests of the user.                                                   *)

\* resumeSession: the row's stage, or else the feature's, whatever its phase.
\* The row says "resuming" before the mark is looked at.
ResumeSession(x, phase) ==
    /\ rpc[x] = "idle" /\ tmuxRow[KeyOf(phase)] # NoRow
    /\ LET row == tmuxRow[KeyOf(phase)]
           i == IF row.stage # 0 THEN row.stage ELSE place
       IN  /\ tmuxRow' = [tmuxRow EXCEPT ![KeyOf(phase)] = SessionRow("resuming", i)]
           /\ runs' = [runs EXCEPT ![x] = Run(i)]
           /\ loose' = loose \cup {phase, SessionPath[i].phase}
    /\ RGoto(x, "checking")
    /\ UNCHANGED <<alive, place, marked, faults, unsaved>>

ResumeChecks(x) ==
    /\ rpc[x] = "checking"
    /\ IF marked THEN RGoto(x, "answered") /\ runs' = [runs EXCEPT ![x] = NoRun]
                 ELSE RGoto(x, "marking") /\ UNCHANGED runs
    /\ UNCHANGED <<tmuxRow, alive, place, marked, faults, sessionPast>>

ResumeSessionMarks(x) ==
    /\ rpc[x] = "marking"
    /\ marked' = TRUE
    /\ RGoto(x, "starting")
    /\ UNCHANGED <<tmuxRow, alive, place, runs, faults, sessionPast>>

\* This ends the tmux session, not the agent, which is no part of it.
KillSession(k) == alive' = alive \ {k} /\ SetState(k, "expired", 0)

KillRequest(phase) ==
    /\ faults < MaxKills
    /\ faults' = faults + 1
    /\ KillSession(KeyOf(phase))
    /\ UNCHANGED <<place, marked, rpc, runs, sessionPast>>

\* forceRerunStage, and the proxy's goroutine when the agent does not end, kill
\* the tmux session by its name and leave its row.
KillByName(phase) ==
    /\ faults < MaxKills /\ KeyOf(phase) \in alive
    /\ faults' = faults + 1
    /\ alive' = alive \ {KeyOf(phase)}
    /\ UNCHANGED <<tmuxRow, place, marked, rpc, runs, sessionPast>>

-----------------------------------------------------------------------------

SessionNext ==
    \/ \E x \in Runners :
        \/ SetSessionRunning(x) \/ ResolveOrCreateSession(x) \/ LaunchSession(x)
        \/ LaunchReviewer(x) \/ StageFails(x) \/ SetSessionAwaitingGate(x)
    \/ LoopRuns \/ AdvanceToNext \/ LeaveGate
    \/ \E i \in Places : Jump(i)
    \/ \E x \in Resumes : ResumeChecks(x) \/ ResumeSessionMarks(x)
    \/ \E x \in Resumes, phase \in SessionPhases : ResumeSession(x, phase)
    \/ \E phase \in SessionPhases : KillRequest(phase) \/ KillByName(phase)

SessionSpec == SessionInit /\ [][SessionNext]_sessionVars

-----------------------------------------------------------------------------
(* Properties.                                                             *)

\* The sessions' variables have their types.
SessionTypeOK ==
    /\ tmuxRow \in [SessionKey ->
          {NoRow} \cup [state : SessionStates, stage : 0..Len(SessionPath)]]
    /\ alive \subseteq SessionKey /\ place \in Places /\ marked \in BOOLEAN
    /\ runs \in [Runners -> [stage : Places, bolt : {key.bolt : key \in SessionKey}]]
    /\ loose \subseteq SessionPhases /\ unsaved \subseteq SessionKey

\* A live session that the API cannot list, resume or kill, for want of a row, is
\* the one in which the reviewers of Bolt stages run, or one whose row could not
\* be saved, however runs, resumes and kills interleave.
AliveKnown ==
    \A key \in alive : tmuxRow[key] # NoRow \/ key \in unsaved \cup {BoltReviews}

\* Of a phase the walk has left no session lives that has a row, of no Bolt
\* either, unless the user resumed in it or jumped over it; one without a row is
\* that of the Bolts' reviewers, or its row could not be saved.
PhaseSessionsEnd ==
    \A key \in alive :
        \/ key.phase \in loose \/ key.phase = SessionPath[place].phase
        \/ tmuxRow[key] = NoRow /\ key \in unsaved \cup {BoltReviews}

=============================================================================
