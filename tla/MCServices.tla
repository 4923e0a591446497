----------------------------- MODULE MCServices -----------------------------
(* Instances of the components around the stage pipeline for TLC.  They      *)
(* share no variable, but for the pipeline that three of them extend, each by*)
(* itself: a behaviour moves only one of them, its part, and the states TLC  *)
(* explores are those of each component by itself.                           *)
(****************************************************************************)
EXTENDS HumanProxy, AgentCommands, CommandLine, AgentOutput, EventStream, Chat,
        AgentSessions, Providers, Defaults, Boot, Registry, GitHubClient, Worktrees, TLC

CONSTANT Parts  \* the components that move

VARIABLE part   \* the one that does

services == <<allVars, agentVars, shellVars, outputVars, streamVars, chatVars,
              sessionVars, providerVars, defaultsVars, bootVars, registryVars, githubVars, worktreeVars>>

ServicesInit ==
    /\ part \in Parts
    /\ Init \/ (part = "shells" /\ Submitted)
    /\ ProxyStart /\ AgentsStart /\ ShellStart /\ OutputInit /\ StreamInit /\ ChatInit
    /\ SessionInit /\ ProvidersInit /\ DefaultsInit /\ BootInit
    /\ RegistryInit /\ GitHubInit /\ WorktreesInit
    /\ \A r \in ImplRepos :
          primary[r] = "none" \/ (part = "worktrees" /\ r = "a")

\* Every component but the one that moves.
StandStill ==
    /\ UNCHANGED part
    /\ part \notin {"proxy", "agents", "shells"} => UNCHANGED vars
    /\ part \notin {"proxy"} => UNCHANGED proxyVars
    /\ part \notin {"agents"} => UNCHANGED <<signalVars, askVars, submitVars>>
    /\ part \notin {"shells"} => UNCHANGED <<shell, orphaned>>
    /\ part \notin {"output"} => UNCHANGED outputVars
    /\ part \notin {"events"} => UNCHANGED streamVars
    /\ part \notin {"chat"} => UNCHANGED chatVars
    /\ part \notin {"sessions"} => UNCHANGED sessionVars
    /\ part \notin {"providers"} => UNCHANGED providerVars
    /\ part \notin {"defaults"} => UNCHANGED defaultsVars
    /\ part \notin {"boot"} => UNCHANGED bootVars
    /\ part \notin {"commands", "repos"} => UNCHANGED registryVars
    /\ part \notin {"github"} => UNCHANGED githubVars
    /\ part \notin {"worktrees"} => UNCHANGED worktreeVars

ServicesNext ==
    \/ part = "proxy" /\ ProxyNext /\ StandStill
    \/ part = "agents" /\ AgentsNext /\ StandStill
    \/ part = "shells" /\ ShellNext /\ StandStill
    \/ part = "output" /\ OutputNext /\ StandStill
    \/ part = "events" /\ StreamNext /\ StandStill
    \/ part = "chat" /\ ChatNext /\ StandStill
    \/ part = "sessions" /\ SessionNext /\ StandStill
    \/ part = "providers" /\ ProvidersNext /\ StandStill
    \/ part = "defaults" /\ DefaultsNext /\ StandStill
    \/ part = "boot" /\ BootNext /\ StandStill
    \/ part = "commands" /\ RepoCommandNext /\ StandStill
    \/ part = "repos" /\ RepoTableNext /\ StandStill
    \/ part = "github" /\ GitHubNext /\ StandStill
    \/ part = "worktrees" /\ WorktreesNext /\ StandStill

ServicesSpec == ServicesInit /\ [][ServicesNext]_<<part, services>>

-----------------------------------------------------------------------------
(* Constants and bounds.                                                   *)

\* The pipeline: 1 is the phase end of ideation and 2, the plan, of inception; 3
\* is run for a Bolt.  Once 1 is finished there is a current stage for human
\* proxies to find.
AskPhase == <<1, 2, 3>>
AskScope == [all |-> 1..3]

\* AgentOutput: two dispatches of one row, a stage that is run again.
SameLog == <<"row", "row">>

\* AgentSessions: a reviewed stage in each of two Bolts, the build after them, and
\* a stage of the next phase.
WalkStage(phase, bolt) == [phase |-> phase, bolt |-> bolt]
BoltWalk == <<WalkStage("c", 1), WalkStage("c", 2), WalkStage("c", 0), WalkStage("o", 0)>>

\* Chat: the expert calls a tool that changes something, a destructive one or
\* none that is known; the second message is answered without a word.
ChatLine(kind) == [kind |-> kind, cmd |-> NoVerb]
VerbLine(cmd) == [kind |-> "verb", cmd |-> cmd]
ToolCallOf(cmd) == <<ChatLine("tool-call"), VerbLine(cmd), ChatLine("/tool-call")>>
SignalCall == <<ToolCallOf(<<"signal", "f", "pass">>)>>
CancelCall == <<ToolCallOf(<<"feature", "cancel", "f">>)>>
UnknownCall == <<ToolCallOf(<<"jump", "f">>)>>
ChatOutputs == "r1" :> {SignalCall, CancelCall, UnknownCall} @@ "r2" :> {<<>>}

\* A proposal is decided, and the session deleted, before both messages are
\* sent; and both are sent with the destructive call only.
ChatBounds ==
    \/ hpc["r2"] = "away"
    \/ hpc["r1"] = "away"
    \/ /\ chatSession /\ \A c \in Confirmations : wpc[c] = "idle"
       /\ expert["r1"] \notin {SignalCall, UnknownCall}

\* The first dispatch writes little, and its client stays.
OutputBounds == written[1] <= 1 /\ ~cancelled[1]

\* No artifact is submitted, and no reviewer at work, while questions are asked.
AgentBounds ==
    ask.at = "idle" \/ (reviewing = {} /\ \A p \in Procs : submit[p] = NoSubmit)

ServicesSymmetry == Permutations(Procs)

-----------------------------------------------------------------------------

\* The type invariants of all the components.
ServicesTypeOK ==
    /\ ProxyTypeOK /\ AgentsTypeOK /\ ShellTypeOK /\ OutputTypeOK /\ StreamTypeOK /\ ChatTypeOK
    /\ SessionTypeOK /\ ProvidersTypeOK /\ DefaultsTypeOK /\ BootTypeOK
    /\ RegistryTypeOK /\ GitHubTypeOK /\ WorktreesTypeOK

=============================================================================
