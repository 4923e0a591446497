-------------------------- MODULE MCServicesProofs --------------------------
(* All the components around the stage pipeline side by side, whichever of   *)
(* them moves.  Most have their variables to themselves, and a behaviour of  *)
(* the services is one of theirs; the human proxy, the agents and the shells *)
(* find one pipeline, and each must leave it typed to the others.            *)
EXTENDS MCServices, ToolsProofs, OutputProofs, ChatProofs, ServicesProofs

-----------------------------------------------------------------------------
(* The components with variables of their own.                               *)

LEMMA OutputPart == ServicesSpec => OutputSpec
<1>1. ServicesInit => OutputInit
  BY DEF ServicesInit
<1>2. [ServicesNext]_<<part, services>> => [OutputNext]_outputVars
  BY DEF ServicesNext, StandStill, services
<1> QED
  BY <1>1, <1>2, PTL DEF ServicesSpec, OutputSpec

LEMMA StreamPart == ServicesSpec => StreamSpec
<1>1. ServicesInit => StreamInit
  BY DEF ServicesInit
<1>2. [ServicesNext]_<<part, services>> => [StreamNext]_streamVars
  BY DEF ServicesNext, StandStill, services
<1> QED
  BY <1>1, <1>2, PTL DEF ServicesSpec, StreamSpec

LEMMA ChatPart == ServicesSpec => ChatSpec
<1>1. ServicesInit => ChatInit
  BY DEF ServicesInit
<1>2. [ServicesNext]_<<part, services>> => [ChatNext]_chatVars
  BY DEF ServicesNext, StandStill, services
<1> QED
  BY <1>1, <1>2, PTL DEF ServicesSpec, ChatSpec

LEMMA SessionPart == ServicesSpec => SessionSpec
<1>1. ServicesInit => SessionInit
  BY DEF ServicesInit
<1>2. [ServicesNext]_<<part, services>> => [SessionNext]_sessionVars
  BY DEF ServicesNext, StandStill, services
<1> QED
  BY <1>1, <1>2, PTL DEF ServicesSpec, SessionSpec

LEMMA ProvidersPart == ServicesSpec => ProvidersSpec
<1>1. ServicesInit => ProvidersInit
  BY DEF ServicesInit
<1>2. [ServicesNext]_<<part, services>> => [ProvidersNext]_providerVars
  BY DEF ServicesNext, StandStill, services
<1> QED
  BY <1>1, <1>2, PTL DEF ServicesSpec, ProvidersSpec

LEMMA DefaultsPart == ServicesSpec => DefaultsSpec
<1>1. ServicesInit => DefaultsInit
  BY DEF ServicesInit
<1>2. [ServicesNext]_<<part, services>> => [DefaultsNext]_defaultsVars
  BY DEF ServicesNext, StandStill, services
<1> QED
  BY <1>1, <1>2, PTL DEF ServicesSpec, DefaultsSpec

LEMMA BootPart == ServicesSpec => BootSpec
<1>1. ServicesInit => BootInit
  BY DEF ServicesInit
<1>2. [ServicesNext]_<<part, services>> => [BootNext]_bootVars
  BY DEF ServicesNext, StandStill, services
<1> QED
  BY <1>1, <1>2, PTL DEF ServicesSpec, BootSpec

LEMMA RegistryPart == ServicesSpec => RegistrySpec
<1>1. ServicesInit => RegistryInit
  BY DEF ServicesInit
<1>2. [ServicesNext]_<<part, services>> => [RegistryNext]_registryVars
  BY DEF ServicesNext, StandStill, services, RegistryNext
<1> QED
  BY <1>1, <1>2, PTL DEF ServicesSpec, RegistrySpec

LEMMA GitHubPart == ServicesSpec => GitHubSpec
<1>1. ServicesInit => GitHubInit
  BY DEF ServicesInit
<1>2. [ServicesNext]_<<part, services>> => [GitHubNext]_githubVars
  BY DEF ServicesNext, StandStill, services
<1> QED
  BY <1>1, <1>2, PTL DEF ServicesSpec, GitHubSpec

LEMMA WorktreesPart == ServicesSpec => WorktreesSpec
<1>1. ServicesInit => WorktreesInit
  BY DEF ServicesInit
<1>2. [ServicesNext]_<<part, services>> => [WorktreesNext]_worktreeVars
  BY DEF ServicesNext, StandStill, services
<1> QED
  BY <1>1, <1>2, PTL DEF ServicesSpec, WorktreesSpec

-----------------------------------------------------------------------------
(* The three that share the pipeline.                                        *)

\* Nobody reviews unless the agents move: a goroutine that a shell or a proxy
\* takes on would not be known to wait for its agent.
SharedTypes ==
    /\ TypeInv /\ ProxyTypes /\ AskInv /\ AgentTypes /\ ShellTypes
    /\ part # "agents" => reviewing = {}

LEMMA SharedInit == ServicesInit => SharedTypes
<1> SUFFICES ASSUME ServicesInit PROVE SharedTypes
  OBVIOUS
<1>1. TypeInv
  BY TypeInit, SubmittedType DEF ServicesInit
<1>2. ProxyTypes
  <2>1. NotHeld \in Helds
    BY StagesAssumption DEF NotHeld, Helds
  <2> QED
    BY <2>1 DEF ServicesInit, ProxyStart, ProxyTypes, QuestionStatus, Answers, ProxyPCs
<1>3. AskInv
  <2>1. NumAsked \in Nat \ {0} /\ 1 \in Asked
    BY CommandsAssumption DEF Asked
  <2>2. AskTypes
    BY <2>1 DEF ServicesInit, AgentsStart, AskTypes
  <2> QED
    BY <2>2 DEF ServicesInit, AgentsStart, AskInv, StillToPost
<1>4. AgentTypes /\ reviewing = {}
  <2>1. 0 \in 0..MaxFiles /\ 0 \in 0..MaxInterrupted
    BY CommandsAssumption
  <2> QED
    BY <2>1, SubmissionType DEF ServicesInit, AgentsStart, AgentTypes, AgentWords
<1>5. ShellTypes
  <2>1. NoShell \in Processes /\ NoShell.at = "new"
    BY NoFeatureType DEF NoShell, Processes, ShellPCs
  <2> QED
    BY <2>1 DEF ServicesInit, ShellStart, ShellTypes
<1> QED
  BY <1>1, <1>2, <1>3, <1>4, <1>5 DEF SharedTypes

LEMMA SharedStep == SharedTypes /\ [ServicesNext]_<<part, services>> => SharedTypes'
<1> SUFFICES ASSUME SharedTypes, [ServicesNext]_<<part, services>> PROVE SharedTypes'
  OBVIOUS
<1>1. part' = part
  BY DEF ServicesNext, StandStill
<1>2. ASSUME UNCHANGED proxyVars PROVE ProxyTypes'
  BY <1>2 DEF proxyVars, ProxyTypes, SharedTypes
<1>3. ASSUME UNCHANGED askVars PROVE AskInv'
  BY <1>3 DEF askVars, AskInv, AskTypes, StillToPost, SharedTypes
<1>4. ASSUME UNCHANGED <<signalVars, askVars, submitVars>>, reviewing = {}
      PROVE  AgentTypes' /\ reviewing' = {}
  BY <1>4 DEF signalVars, askVars, submitVars, AgentTypes, SharedTypes
<1>5. ASSUME UNCHANGED <<shell, orphaned>> PROVE ShellTypes'
  BY <1>5 DEF ShellTypes, SharedTypes
<1>6. CASE part = "proxy"
  <2>1. [ProxyNext]_allVars /\ UNCHANGED <<signalVars, askVars, submitVars, shell, orphaned>>
    BY <1>6 DEF ServicesNext, StandStill, services, agentVars, shellVars
  <2>2. TypeInv' /\ ProxyTypes'
    BY <2>1, ProxyTypeStep DEF SharedTypes, ProxyInv
  <2> QED
    BY <1>1, <1>3, <1>4, <1>5, <1>6, <2>1, <2>2 DEF SharedTypes
<1>7. CASE part = "agents"
  <2>1. [AgentsNext]_agentVars /\ UNCHANGED <<proxyVars, shell, orphaned>>
    BY <1>7 DEF ServicesNext, StandStill, services, allVars, shellVars
  <2>2. AgentsInv /\ AskInv'
    BY <2>1, AskSpecSteps DEF SharedTypes, AgentsInv
  <2>3. TypeInv' /\ AgentTypes'
    BY <2>1, <2>2, AgentsTypeInv, AgentsTypesKept
  <2> QED
    BY <1>1, <1>2, <1>5, <1>7, <2>1, <2>2, <2>3 DEF SharedTypes
<1>8. CASE part = "shells"
  <2>1. [ShellNext]_shellVars /\ UNCHANGED <<proxyVars, signalVars, askVars, submitVars>>
    BY <1>8 DEF ServicesNext, StandStill, services, allVars, agentVars
  <2>2. TypeInv' /\ ShellTypes'
    BY <2>1, ShellSteps DEF SharedTypes, ShellTyped
  <2> QED
    BY <1>1, <1>2, <1>3, <1>4, <1>8, <2>1, <2>2 DEF SharedTypes
<1>9. CASE part \notin {"proxy", "agents", "shells"}
  <2>1. UNCHANGED <<vars, proxyVars, signalVars, askVars, submitVars, shell, orphaned>>
    BY <1>9 DEF ServicesNext, StandStill, services, allVars, agentVars, shellVars
  <2>2. TypeInv'
    BY <2>1, TypeStep DEF SharedTypes
  <2> QED
    BY <1>1, <1>2, <1>3, <1>4, <1>5, <1>9, <2>1, <2>2 DEF SharedTypes
<1> QED
  BY <1>6, <1>7, <1>8, <1>9

LEMMA SharedPart == ServicesSpec => [](ProxyTypeOK /\ AgentsTypeOK /\ ShellTypeOK)
<1>1. SharedTypes => ProxyTypeOK
  BY DEF SharedTypes, TypeInv, ProxyTypes, ProxyTypeOK
<1>2. SharedTypes => AgentsTypeOK
  BY DEF SharedTypes, TypeInv, AskInv, AskTypes, AgentTypes, AgentWords, AgentsTypeOK
<1>3. SharedTypes => ShellTypeOK
  BY DEF SharedTypes, TypeInv, ShellTypes, Processes, ShellPCs, ShellTypeOK
<1> QED
  BY SharedInit, SharedStep, <1>1, <1>2, <1>3, PTL DEF ServicesSpec

\* Every variable of every component around the pipeline keeps its type,
\* whichever component moves: what a proxy, an agent or a shell leaves of the
\* stage pipeline is typed for whoever finds it next, and an answer, a review,
\* a streamed line, a tool call of the chat, a session, a row of the repository
\* table and a worktree are only ever what their code can read.
THEOREM ServicesTypeCorrect == ServicesSpec => []ServicesTypeOK
  BY OutputPart, StreamPart, ChatPart, SessionPart, ProvidersPart, DefaultsPart, BootPart,
     RegistryPart, GitHubPart, WorktreesPart, SharedPart, OutputTypeCorrect, StreamTypeCorrect,
     ChatTypeCorrect, SessionTypeCorrect, ProvidersTypeCorrect, DefaultsTypeCorrect,
     BootTypeCorrect, RegistryTypeCorrect, GitHubTypeCorrect, WorktreesTypeCorrect,
     PTL DEF ServicesTypeOK

\* What each of the components with variables of their own promises by itself
\* holds when they stand side by side: slots and logs, up to the save of the
\* whole output (streamer.go, state_machine.go), events (server.go), the chat's
\* operations and streams (service.go, stream.go), tmux sessions but for those
\* that never had a row (stage_runner.go, session_manager.go), providers, defaults
\* and managed repositories (the settings and the registry), migrations, tokens,
\* and of the working copies' commits those that a check has told of (manager.go).
THEOREM ServicesKeepPromises ==
    ServicesSpec => [](/\ SlotsHeld /\ LogComplete /\ ShownIsLogged /\ NoGap
                       /\ OpsAuthorized /\ OpsAudited /\ DonePersisted /\ NoStreamLeak
                       /\ AliveKnown /\ PhaseSessionsEnd /\ UnknownOnlyNew /\ ShownIsUsed
                       /\ CreatedFromCurrent /\ MigratedOnce /\ SetOnlyManaged
                       /\ TokenInLife /\ TakesAll)
<1>1. ServicesSpec => [](SlotsHeld /\ LogComplete /\ ShownIsLogged /\ NoGap)
  BY OutputPart, StreamPart, SlotsAlwaysHeld, LogsComplete, ShownAlwaysLogged, StreamHasNoGap, PTL
<1>2. ServicesSpec => [](OpsAuthorized /\ OpsAudited /\ DonePersisted /\ NoStreamLeak)
  BY ChatPart, OperationsAuthorized, OperationsAudited, DoneAfterStored, StreamLeaksNothing, PTL
<1>3. ServicesSpec => [](AliveKnown /\ PhaseSessionsEnd /\ UnknownOnlyNew /\ ShownIsUsed)
  BY SessionPart, ProvidersPart, AliveAlwaysKnown, PhaseSessionsAlwaysEnd, UnknownIsNew,
     ShownAlwaysUsed, PTL
<1>4. ServicesSpec => [](/\ CreatedFromCurrent /\ MigratedOnce /\ SetOnlyManaged
                        /\ TokenInLife /\ TakesAll)
  BY DefaultsPart, BootPart, RegistryPart, GitHubPart, WorktreesPart, CreatedAlwaysFromCurrent,
     AlwaysMigratedOnce, SettingsOnlyManaged, TokenAlwaysInLife, PushAndMergeTakeAll, PTL
<1> QED
  BY <1>1, <1>2, <1>3, <1>4, PTL
=============================================================================
