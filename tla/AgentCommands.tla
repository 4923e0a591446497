--------------------------- MODULE AgentCommands ---------------------------
(* The devteam commands of stage agents, each an HTTP call of the server:   *)
(* ask the questions of a file, signal an outcome, submit an artifact, add  *)
(* a note; beside them the user edits artifacts.  The pipeline of           *)
(* StageMachine runs the agents, has a reviewer agent read what some of the *)
(* stages made, and looks up what the agents signalled.                     *)
(****************************************************************************)
EXTENDS StageMachine

CONSTANTS
    NumAsked,       \* an agent's file holds the questions 1..NumAsked
    Malformed,      \* those without a phase and type the server accepts
    Signals,        \* the outcomes agents signal
    Reviewed,       \* the stages with a reviewer
    ArtifactTypes,  \* the artifacts agents submit
    CommandFaults,  \* the ways a command fails
    MaxFiles,       \* bound: question files written
    MaxInterrupted  \* bound: ask commands killed

Asked == 1..NumAsked
AllSignals == {"pass", "recirculate", "needs_feedback", "failed"}
AllCommandFaults == {"post", "reply", "note", "save"}

ASSUME CommandsAssumption ==
    /\ NumAsked \in Nat \ {0} /\ Malformed \subseteq Asked
    /\ Signals \subseteq AllSignals /\ Reviewed \subseteq Stage
    /\ CommandFaults \subseteq AllCommandFaults
    /\ MaxFiles \in Nat /\ MaxInterrupted \in Nat

VARIABLES
    outcomes,     \* the latest row of the outcomes table for each key
    reviewing,    \* the processes whose stage the reviewer reads
    signalled,    \* history: what the agent of each process signalled last
    questionFile, \* is questions.json in the working directory?
    ask,          \* the ask command: where it is, and the next question
    stored,       \* how many rows were made of each question
    printed,      \* history: how often "Created question" was printed for it
    files,        \* how many question files were written
    interrupted,  \* how many ask commands were killed
    artifacts,    \* spec_artifacts.stage_id of each type, {} without a row
    submit,       \* the submission of each process: the type, the stage and
                  \* whether there was a row, as its handler read them
    created,      \* the types with an ARTIFACT_CREATED event
    notes         \* the stages with a note

askVars == <<questionFile, ask, stored, printed, files, interrupted>>
submitVars == <<artifacts, submit, created, notes>>
signalVars == <<outcomes, reviewing, signalled>>
agentVars == <<vars, signalVars, askVars, submitVars>>

None == "none"
NoSubmit == [type |-> None, stage |-> 0, existed |-> FALSE]
Keys == ({"phase"} \X (0..4)) \cup ({"stage", "review"} \X Stage)

AgentsStart ==
    /\ outcomes = [k \in Keys |-> None] /\ reviewing = {}
    /\ signalled = [p \in Procs |-> None]
    /\ questionFile = FALSE /\ ask = [at |-> "idle", next |-> 1]
    /\ stored = [q \in Asked |-> 0] /\ printed = [q \in Asked |-> 0]
    /\ files = 0 /\ interrupted = 0
    /\ artifacts = [a \in ArtifactTypes |-> {}]
    /\ submit = [p \in Procs |-> NoSubmit]
    /\ created = {} /\ notes = {}

AgentsInit == Init /\ AgentsStart

AgentWorks(p) == pc[p] = "agent"

-----------------------------------------------------------------------------
(* devteam signal: the outcome is recorded for the feature's phase.        *)

SignalKey == <<"phase", IF feature.stage = 0 THEN 1 ELSE PhaseOf[feature.stage]>>

SignalAs(p, o) ==
    /\ outcomes' = [outcomes EXCEPT ![SignalKey] = o]
    /\ signalled' = [signalled EXCEPT ![p] = o]
    /\ UNCHANGED <<vars, reviewing, askVars, submitVars>>

Signal(p, o) == AgentWorks(p) /\ p \notin reviewing /\ SignalAs(p, o)

\* The reviewer is told to signal pass, or recirculate when it is NOT-READY.
ReviewerSignals(p) == p \in reviewing /\ SignalAs(p, "recirculate")

\* RunStage deletes and looks up the outcomes of the stage.
LatestOutcome(s) == outcomes[<<"stage", s>>]

Walk(p) ==
    /\ Advance(p)
    /\ IF pc'[p] = "agent"
       THEN /\ outcomes' = [outcomes EXCEPT ![<<"stage", job'[p].stage>>] = None]
            /\ signalled' = [signalled EXCEPT ![p] = None]
       ELSE UNCHANGED <<outcomes, signalled>>
    /\ UNCHANGED <<reviewing, askVars, submitVars>>

\* A stage that passed, as far as RunStage knows, is read by its reviewer.  When
\* the reviewer cannot be started, the result is that of one who says nothing.
Review(p) ==
    /\ AgentWorks(p) /\ p \notin reviewing /\ job[p].stage \in Reviewed
    /\ LatestOutcome(job[p].stage) \in {None, "pass"}
    /\ reviewing' = reviewing \cup {p}
    /\ UNCHANGED <<vars, outcomes, signalled, askVars, submitVars>>

\* The reviewer's outcome is looked up under a name of its own; without one the
\* verdict is READY.
NotReady(p) == p \in reviewing /\ outcomes[<<"review", job[p].stage>>] = "recirculate"

SentBack(p) ==
    /\ Returns(p, "revising", rev0[p] + 1, "smoke_failed")
    /\ Strike(Row(p))

\* With a signal the row is sent back only by "failed", and the result is
\* "agent_signal", which ProcessStageResult treats as it does "default_pass".
\* The summary of the outcome is noted under the stage.
Heeded(p, o) ==
    /\ Returns(p, IF o = "failed" THEN "revising" ELSE "awaiting_approval",
               rev0[p], "default_pass")
    /\ UNCHANGED strikes

Passed(p, o) == IF o = None THEN AgentPasses(p) ELSE Heeded(p, o)

RunStageEnds(p) ==
    /\ AgentWorks(p)
    /\ LET o == LatestOutcome(job[p].stage)
       IN  \/ /\ p \notin reviewing
              /\ \/ QuotaExhausted(p) \/ DispatchFails(p) \/ SetupFails(p)
                 \/ o \in {None, "pass"} /\ SmokeFails(p)
                 \/ o = None /\ AgentFails(p)
                 \/ o \notin {None, "pass"} /\ Heeded(p, o)
                 \/ o \in {None, "pass"} /\ job[p].stage \notin Reviewed /\ Passed(p, o)
           \/ p \in reviewing /\ (IF NotReady(p) THEN SentBack(p) ELSE Passed(p, o))
    /\ reviewing' = reviewing \ {p}
    /\ notes' = IF pc'[p] \in {"process", "boltGate"} THEN notes \cup {job[p].stage}
                ELSE notes
    /\ UNCHANGED <<outcomes, signalled, askVars, artifacts, submit, created>>

-----------------------------------------------------------------------------
(* devteam questions ask: each question of the file is posted in turn, the *)
(* failed posts are reported, and the file is removed whatever came of it. *)

WriteQuestions ==
    /\ \E p \in Procs : AgentWorks(p)
    /\ ~questionFile /\ ask.at = "idle" /\ files < MaxFiles
    /\ questionFile' = TRUE /\ files' = files + 1
    /\ UNCHANGED <<vars, signalVars, ask, stored, printed, interrupted, submitVars>>

AskBegins ==
    /\ \E p \in Procs : AgentWorks(p)
    /\ questionFile /\ ask.at = "idle"
    /\ ask' = [at |-> "posting", next |-> 1]
    /\ UNCHANGED <<vars, signalVars, questionFile, stored, printed, files,
                   interrupted, submitVars>>

NextQuestion ==
    ask' = IF ask.next = NumAsked THEN [at |-> "removing", next |-> 1]
           ELSE [ask EXCEPT !.next = @ + 1]

\* The command prints that the question was created, when it is told so.
Posted(row, reply) ==
    /\ ask.at = "posting"
    /\ stored' = [stored EXCEPT ![ask.next] = @ + row]
    /\ printed' = [printed EXCEPT ![ask.next] = @ + reply]
    /\ NextQuestion
    /\ UNCHANGED <<vars, signalVars, questionFile, files, interrupted, submitVars>>

PostQuestion == ask.next \notin Malformed /\ Posted(1, 1)

\* A question without a valid phase, role or type is a bad request.
PostRefused == ask.next \in Malformed /\ Posted(0, 0)

\* The server is away, or the table refuses the row.
PostFails == "post" \in CommandFaults /\ Posted(0, 0)

\* The row is written, and the server goes away before it answers.
ReplyLost == "reply" \in CommandFaults /\ ask.next \notin Malformed /\ Posted(1, 0)

\* (as a mutant: the file is kept when a question failed)
RemoveUnlessFailed ==
    /\ ask.at = "removing"
    /\ questionFile' = \E q \in Asked : printed[q] = 0
    /\ ask' = [at |-> "idle", next |-> 1]
    /\ UNCHANGED <<vars, signalVars, stored, printed, files, interrupted, submitVars>>

RemoveFile ==
    /\ ask.at = "removing"
    /\ questionFile' = FALSE
    /\ ask' = [at |-> "idle", next |-> 1]
    /\ UNCHANGED <<vars, signalVars, stored, printed, files, interrupted, submitVars>>

\* The agent, and the command with it, is killed: the file stays.
AskKilled ==
    /\ ask.at # "idle" /\ interrupted < MaxInterrupted
    /\ ask' = [at |-> "idle", next |-> 1]
    /\ interrupted' = interrupted + 1
    /\ UNCHANGED <<vars, signalVars, questionFile, stored, printed, files, submitVars>>

-----------------------------------------------------------------------------
(* devteam artifact submit, devteam notes add, and the user's edits.       *)

\* The artifact will be tagged with the current stage of the feature, which an
\* automatic approval does not move.
SubmitReads(p, a) ==
    submit' = [submit EXCEPT ![p] =
                  [type |-> a, stage |-> feature.stage, existed |-> artifacts[a] # {}]]

SubmitCommand(p, a) ==
    /\ AgentWorks(p) /\ submit[p] = NoSubmit
    /\ SubmitReads(p, a)
    /\ UNCHANGED <<vars, signalVars, askVars, artifacts, created, notes>>

Tagged(a, s) == artifacts' = [artifacts EXCEPT ![a] = {s}]

\* ARTIFACT_CREATED, or ARTIFACT_UPDATED where there was a row.
RecordAuditEvent(sub) == created' = IF sub.existed THEN created ELSE created \cup {sub.type}

\* The upsert may fail; then there is no event.
SubmitSaves(p) ==
    /\ submit[p] # NoSubmit
    /\ \/ /\ Tagged(submit[p].type, submit[p].stage)
          /\ RecordAuditEvent(submit[p])
       \/ "save" \in CommandFaults /\ UNCHANGED <<artifacts, created>>
    /\ submit' = [submit EXCEPT ![p] = NoSubmit]
    /\ UNCHANGED <<vars, signalVars, askVars, notes>>

\* updateArtifact saves without a stage, makes a row where there is none, and
\* records ARTIFACT_UPDATED.
EditArtifact(a) ==
    /\ Tagged(a, 0)
    /\ UNCHANGED <<vars, signalVars, askVars, submit, created, notes>>

\* handleAddNote says "recorded" whether or not AddNote stored it.
AddNote(s) == notes' = notes \cup {s} \/ ("note" \in CommandFaults /\ UNCHANGED notes)

NotesCommand(p) ==
    /\ AgentWorks(p) /\ AddNote(job[p].stage)
    /\ UNCHANGED <<vars, signalVars, askVars, artifacts, submit, created>>

-----------------------------------------------------------------------------

\* A crash ends the handlers; the agents' commands and files outlive it.
AgentsCrash ==
    /\ Crash
    /\ reviewing' = {} /\ signalled' = [p \in Procs |-> None]
    /\ submit' = [p \in Procs |-> NoSubmit]
    /\ UNCHANGED <<outcomes, askVars, artifacts, created, notes>>

AskStep ==
    \/ WriteQuestions \/ AskBegins \/ PostQuestion \/ PostRefused \/ PostFails
    \/ ReplyLost \/ RemoveFile \/ AskKilled

AgentsNext ==
    \/ \E p \in Procs : Walk(p) \/ Review(p) \/ ReviewerSignals(p) \/ RunStageEnds(p)
    \/ \E p \in Procs : SubmitSaves(p) \/ NotesCommand(p)
    \/ \E p \in Procs, o \in Signals : Signal(p, o)
    \/ \E p \in Procs, a \in ArtifactTypes : SubmitCommand(p, a)
    \/ \E a \in ArtifactTypes : EditArtifact(a)
    \/ UserRequest /\ UNCHANGED <<signalVars, askVars, submitVars>>
    \/ AskStep \/ AgentsCrash

AgentsSpec == AgentsInit /\ [][AgentsNext]_agentVars

-----------------------------------------------------------------------------
(* Properties.                                                             *)

\* The tables, commands and files have their types.
AgentsTypeOK ==
    /\ TypeOK
    /\ outcomes \in [Keys -> AllSignals \cup {None}]
    /\ reviewing \subseteq {p \in Procs : AgentWorks(p)}
    /\ signalled \in [Procs -> AllSignals \cup {None}]
    /\ questionFile \in BOOLEAN
    /\ ask \in [at : {"idle", "posting", "removing"}, next : Asked]
    /\ stored \in [Asked -> Nat] /\ printed \in [Asked -> Nat]
    /\ files \in 0..MaxFiles /\ interrupted \in 0..MaxInterrupted
    /\ artifacts \in [ArtifactTypes -> SUBSET (0..NumStages)]
    /\ \A p \in Procs : submit[p] = NoSubmit \/ submit[p].type \in ArtifactTypes
    /\ created \subseteq ArtifactTypes /\ notes \subseteq Stage

\* What the ask command tells the agent is true, and nobody is asked twice:
\* a question reported created has its row, and there is at most one row of it
\* for each file and for each ask that was killed before it removed the file,
\* whatever posts fail and whatever answers are lost (cli_api.go, ask).
AskedOnce ==
    \A q \in Asked : printed[q] <= stored[q] /\ stored[q] <= files + interrupted

\* "Save outcome to DB - pipeline reads this after dispatch completes": a stage
\* whose agent signalled that it failed, or whose reviewer that it is not ready,
\* is not taken for passed.
SignalHeard ==
    \A p \in Procs : (pc[p] = "process" /\ signalled[p] \in {"failed", "recirculate"})
        => result[p] # "default_pass"

=============================================================================
