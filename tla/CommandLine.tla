---------------------------- MODULE CommandLine ----------------------------
(* The devteam commands of a user's shell that run the pipeline themselves: *)
(* run-stage, approve, reject and jump, and the intake that creates a       *)
(* feature.  Each is a process of its own: it loads the feature and works   *)
(* on that copy beside the server, whose active mark it neither sees nor    *)
(* sets, and a crash of the server does not end it.                         *)
(****************************************************************************)
EXTENDS StageMachine

CONSTANTS
    Shells,      \* processes that run a command
    Verbs,       \* the commands that they run
    ShellFaults  \* how the agents of run-stage fail ("kill": Ctrl-C)

ASSUME ShellsAssumption ==
    /\ Verbs \subseteq {"run-stage", "approve", "reject", "jump"}
    /\ ShellFaults \subseteq {"agent", "smoke", "quota", "dispatch", "setup", "kill"}

VARIABLES
    shell,    \* each process: where it is, its command, its copy of the
              \* feature, and run-stage's row with the revision count it read
    orphaned  \* history: rows left in_progress by a command that was killed
              \* or could not set the stage up, or in a closed feature that the
              \* save of a command's old copy opened again

shellVars == <<vars, shell, orphaned>>
NoShell == [at |-> "new", do |-> "none", copy |-> NoFeature, row |-> <<0, 0>>, rev0 |-> 0]

-----------------------------------------------------------------------------
(* intake: the feature is saved without any stage row.                     *)

Submitted ==
    /\ \E c \in Scopes :
          feature = [status |-> "open", mode |-> "human", scope |-> c, stage |-> 0,
                     bolt |-> 0, tree |-> FALSE]
    /\ status = [r \in Rows |-> "absent"] /\ revs = [r \in Rows |-> 0]
    /\ bolts = [b \in Bolt |-> "absent"] /\ attempts = 0
    /\ active = FALSE /\ pc = [p \in Procs |-> "idle"]
    /\ mode = [p \in Procs |-> "human"] /\ snap = [p \in Procs |-> NoFeature]
    /\ job = [p \in Procs |-> NoJob] /\ rev0 = [p \in Procs |-> 0]
    /\ result = [p \in Procs |-> "none"]
    /\ strikes = [r \in Rows |-> 0] /\ userOK = {} /\ modesSeen = {"human"}
    /\ rare = 0

ShellStart == shell = [x \in Shells |-> NoShell] /\ orphaned = {}

ShellInit == (Init \/ Submitted) /\ ShellStart

\* InitFeatureStages, when the feature has no row.
Initialised(c) ==
    [r \in Rows |-> IF With("absent") = Rows /\ r[1] \in LinearStages /\ InScope(c, r[1])
                    THEN "not_started" ELSE status[r]]

\* The run-stage request of the server makes the rows, too.  (RequestRun: they
\* exist, or the error of InitFeatureStages is ignored.)
FirstRun(p) ==
    /\ Request("run") /\ pc[p] = "idle" /\ ~active
    /\ With("absent") = Rows
    /\ status' = Initialised(feature.scope)
    /\ Goto(p, "marking") /\ Take(p, Job("request", 0, 0))
    /\ UNCHANGED <<feature, revs, bolts, attempts, active, mode, snap, rev0, result,
                   history>>

Left(S) == orphaned' = {r \in S : status'[r] = "in_progress"}

\* What the server does is not told to the commands.
ServerStep ==
    /\ \/ Next
       \/ \E p \in Procs : FirstRun(p)
    /\ Left(orphaned)
    /\ UNCHANGED shell

-----------------------------------------------------------------------------

ServerRest == <<bolts, attempts, active, pc, local, modesSeen, rare>>
ShellAt(x, label) == shell' = [shell EXCEPT ![x].at = label]

Load(x) ==
    /\ shell[x].at = "new"
    /\ \E v \in Verbs :
          shell' = [shell EXCEPT ![x] = [@ EXCEPT !.at = "loaded", !.do = v, !.copy = feature]]
    /\ UNCHANGED <<vars, orphaned>>

Does(x, v) == shell[x].at = "loaded" /\ shell[x].do = v
Copy(x) == shell[x].copy

\* The running rows of a closed feature that the save of an old copy opens.
Reopened ==
    IF feature.status # "open" /\ feature'.status = "open" THEN With("in_progress") ELSE {}

\* run-stage: RunStage with the copy, which EnsureSpecWorktree saves.
RunBegins(x) ==
    /\ Does(x, "run-stage")
    /\ \E s \in Stage :
        LET st == Initialised(Copy(x).scope)
            r == <<s, IF s \in BoltStages THEN Copy(x).bolt ELSE 0>>
        IN  IF r \in Rows /\ st[r] # "absent"
            THEN /\ status' = [st EXCEPT ![r] = "in_progress"]
                 /\ feature' = IF Copy(x).tree THEN feature ELSE [Copy(x) EXCEPT !.tree = TRUE]
                 /\ shell' = [shell EXCEPT ![x].at = "agent", ![x].row = r, ![x].rev0 = revs[r]]
                 /\ userOK' = userOK \ {r}
                 /\ orphaned' = (orphaned \cup Reopened) \ {r}
            ELSE /\ status' = st
                 /\ ShellAt(x, "done")
                 /\ UNCHANGED <<feature, userOK, orphaned>>
    /\ UNCHANGED <<revs, strikes, ServerRest>>

\* The row is written; no gate is decided and nothing is advanced.
RunWrites(x, st, n) ==
    /\ status' = [status EXCEPT ![shell[x].row] = st]
    /\ revs' = [revs EXCEPT ![shell[x].row] = n]
    /\ orphaned' = orphaned \ {shell[x].row}

\* The row is left as it is.
RunLeaves(x) ==
    /\ orphaned' = orphaned \cup ({shell[x].row} \cap With("in_progress"))
    /\ UNCHANGED <<status, revs>>

\* (as a mutant: an exhausted quota ends the command at once)
RunEndsAtQuota(x) ==
    /\ shell[x].at = "agent"
    /\ LET n == shell[x].rev0
       IN  \/ RunWrites(x, "awaiting_approval", n) /\ UNCHANGED strikes
           \/ "quota" \in ShellFaults /\ UNCHANGED <<status, revs, orphaned, strikes>>
    /\ ShellAt(x, "done")
    /\ UNCHANGED <<feature, userOK, ServerRest>>

RunEnds(x) ==
    /\ shell[x].at = "agent"
    /\ LET n == shell[x].rev0
       IN  \/ RunWrites(x, "awaiting_approval", n) /\ UNCHANGED strikes
           \/ /\ {"agent", "quota"} \cap ShellFaults # {}
              /\ RunWrites(x, "revising", n) /\ UNCHANGED strikes
           \/ /\ "smoke" \in ShellFaults
              /\ RunWrites(x, "revising", n + 1) /\ Strike(shell[x].row)
           \/ /\ "dispatch" \in ShellFaults
              /\ RunWrites(x, "failed", n) /\ UNCHANGED strikes
           \/ /\ {"setup", "kill"} \cap ShellFaults # {}
              /\ RunLeaves(x) /\ UNCHANGED strikes
    /\ ShellAt(x, "done")
    /\ UNCHANGED <<feature, userOK, ServerRest>>

\* approve and reject pass CurrentBolt for every stage: once a Bolt was run
\* the row of a linear stage is not found.
Named(x, s) == <<s, Copy(x).bolt>>

ApproveStage(x) ==
    /\ Does(x, "approve")
    /\ \E s \in Stage :
        /\ Approvable(Named(x, s))
        /\ \E ok \in AdvanceOutcomes(Copy(x), s) : ApproveAndAdvance(Copy(x), Named(x, s), ok)
        /\ userOK' = userOK \cup {Named(x, s)}
    /\ ShellAt(x, "done")
    /\ Left(orphaned \cup Reopened)
    /\ UNCHANGED <<active, pc, local, strikes, modesSeen, rare>>

RejectStage(x) ==
    /\ Does(x, "reject")
    /\ \E s \in Stage : SendBack(Named(x, s))
    /\ ShellAt(x, "done")
    /\ UNCHANGED <<feature, userOK, orphaned, ServerRest>>

\* jump, to a stage or to the first stage of a phase in the copy's scope.
JumpToStage(x) ==
    /\ Does(x, "jump")
    /\ \E s \in ScopeStages[Copy(x).scope] : JumpTo(Copy(x).scope, s)
    /\ Left(orphaned)
    /\ ShellAt(x, "done")
    /\ UNCHANGED <<feature, strikes, userOK, ServerRest>>

\* The stage is not found, or its status refuses the command.
Refused(x) ==
    /\ Does(x, "approve") \/ Does(x, "reject")
    /\ ShellAt(x, "done")
    /\ UNCHANGED <<vars, orphaned>>

ShellStep(x) ==
    \/ Load(x) \/ RunBegins(x) \/ RunEnds(x) \/ ApproveStage(x) \/ RejectStage(x)
    \/ JumpToStage(x) \/ Refused(x)

ShellNext == ServerStep \/ \E x \in Shells : ShellStep(x)

ShellSpec == ShellInit /\ [][ShellNext]_shellVars

-----------------------------------------------------------------------------

\* The processes and their copies have their types.
ShellTypeOK ==
    /\ TypeOK
    /\ shell \in [Shells ->
          [at : {"new", "loaded", "agent", "done"}, do : Verbs \cup {"none"},
           copy : Features, row : Rows \cup {<<0, 0>>}, rev0 : Nat]]
    /\ orphaned \subseteq Rows

\* A row in_progress, which makes every decision wait, has a runner, in the
\* server or in a shell, that will write its outcome, unless the command that
\* ran it was killed or could not set it up: neither a restart of the server,
\* which sends the rows of commands back, too, nor two runners of one row leave
\* it behind.
RunningHasRunner ==
    feature.status = "open" =>
        \A r \in With("in_progress") :
            \/ Owned(r) \/ r \in orphaned
            \/ \E x \in Shells : shell[x].at = "agent" /\ shell[x].row = r

=============================================================================
