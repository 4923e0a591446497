------------------------------ MODULE Registry ------------------------------
(* The two tables of repositories. repo_registry holds what discovery      *)
(* finds: `devteam repo list` refreshes it, `repo manage` curates it and   *)
(* `repo set` writes the settings of a managed repository, as processes    *)
(* side by side. The repos table of the settings page is written by the    *)
(* server, which refuses to delete a repository that features reference.   *)
(***************************************************************************)
EXTENDS Naturals, FiniteSets

CONSTANTS
    RegistryRepos, \* repositories
    RepoCommands,  \* devteam repo processes, each run once
    DeleteReqs     \* DELETE /api/repos requests

VARIABLES
    registry,     \* per repository its repo_registry row: absent, found, managed
    repoSettings, \* repositories with a repo_settings row
    repoCmd,      \* each command: where it is, what it is about, its exit code
    repoTable,    \* the repos table
    referenced,   \* repositories with a feature_repos row
    deletion      \* each delete request

registryVars == <<registry, repoSettings, repoCmd, repoTable, referenced, deletion>>

NoCommand == [at |-> "new", repo |-> "", todo |-> {}]

RegistryInit ==
    /\ registry = [r \in RegistryRepos |-> "absent"] /\ repoSettings = {}
    /\ repoCmd = [k \in RepoCommands |-> NoCommand]
    /\ repoTable = {} /\ referenced = {}
    /\ deletion = [d \in DeleteReqs |-> [at |-> "new", repo |-> ""]]

CmdAt(k, at) == repoCmd[k].at = at
CmdGoes(k, at) == repoCmd' = [repoCmd EXCEPT ![k].at = at]
CmdStarts(k, at, r, todo) ==
    /\ CmdAt(k, "new")
    /\ repoCmd' = [repoCmd EXCEPT ![k] = [at |-> at, repo |-> r, todo |-> todo]]
Tables == <<repoTable, referenced, deletion>>

-----------------------------------------------------------------------------
(* devteam repo.                                                           *)

\* repo list: with a github block it discovers first, any repositories the
\* identity sees, or exits 1; without, it only lists.
ListRepos(k) == \E found \in SUBSET RegistryRepos :
    /\ CmdStarts(k, "discovering", "", found)
    /\ UNCHANGED <<registry, repoSettings>> /\ UNCHANGED Tables
ListFails(k) ==
    /\ CmdStarts(k, "exit 1", "", {})
    /\ UNCHANGED <<registry, repoSettings>> /\ UNCHANGED Tables

\* Mutant: the conflict clause also sets managed.
UpsertUnmanaged(k) == \E r \in repoCmd[k].todo :
    /\ CmdAt(k, "discovering")
    /\ registry' = [registry EXCEPT ![r] = "found"]
    /\ repoCmd' = [repoCmd EXCEPT ![k].todo = @ \ {r}]
    /\ UNCHANGED repoSettings /\ UNCHANGED Tables

\* UpsertRepoRegistry, of each repository that was found.
UpsertRepoRegistry(k) == \E r \in repoCmd[k].todo :
    /\ CmdAt(k, "discovering")
    /\ registry' = [registry EXCEPT ![r] = IF @ = "absent" THEN "found" ELSE @]
    /\ repoCmd' = [repoCmd EXCEPT ![k].todo = @ \ {r}]
    /\ UNCHANGED repoSettings /\ UNCHANGED Tables
ListEnds(k) ==
    /\ CmdAt(k, "discovering") /\ repoCmd[k].todo = {} /\ CmdGoes(k, "exit 0")
    /\ UNCHANGED <<registry, repoSettings>> /\ UNCHANGED Tables

\* The update of no row is the error that the command exits 1 with.
SetRepoManaged(r) ==
    registry' = [registry EXCEPT ![r] = IF @ = "absent" THEN @ ELSE "managed"]

\* repo manage; its dry run writes nothing and asks nothing.
ManageRepo(k) == \E r \in RegistryRepos :
    /\ CmdStarts(k, IF registry[r] = "absent" THEN "exit 1" ELSE "exit 0", r, {})
    /\ SetRepoManaged(r)
    /\ UNCHANGED repoSettings /\ UNCHANGED Tables
DryRun(k) ==
    /\ CmdStarts(k, "exit 0", "", {})
    /\ UNCHANGED <<registry, repoSettings>> /\ UNCHANGED Tables

\* repo set of a field outside the MVP set, before the database is opened.
RefuseField(k) ==
    /\ CmdStarts(k, "exit 2", "", {})
    /\ UNCHANGED <<registry, repoSettings>> /\ UNCHANGED Tables

\* repo set reads the registry row; a dry run ends here, a destructive change
\* without --confirm asks, and any other goes on to write.
SetReadsRow(k) == \E r \in RegistryRepos :
    /\ \E at \in IF registry[r] # "managed" THEN {"exit 1"}
                 ELSE {"exit 0", "asking", "writing"} : CmdStarts(k, at, r, {})
    /\ UNCHANGED <<registry, repoSettings>> /\ UNCHANGED Tables
Confirmed(k) ==
    /\ CmdAt(k, "asking") /\ \E at \in {"writing", "exit 1"} : CmdGoes(k, at)
    /\ UNCHANGED <<registry, repoSettings>> /\ UNCHANGED Tables
\* UpsertRepoSettings refuses a value that is none of the column's.
SetWrites(k) ==
    /\ CmdAt(k, "writing")
    /\ \/ repoSettings' = repoSettings \cup {repoCmd[k].repo} /\ CmdGoes(k, "exit 0")
       \/ UNCHANGED repoSettings /\ CmdGoes(k, "exit 1")
    /\ UNCHANGED registry /\ UNCHANGED Tables

-----------------------------------------------------------------------------
(* The repos table.                                                        *)

\* ON CONFLICT DO NOTHING: a name that is there is a conflict, and stays.
InsertRepo(r) == r \notin repoTable /\ repoTable' = repoTable \cup {r}

CreateRepo == \E r \in RegistryRepos :
    /\ InsertRepo(r)
    /\ UNCHANGED <<registry, repoSettings, repoCmd, referenced, deletion>>

\* PrepareImplRepos records the feature's repositories, which the repos table
\* need not hold, and removes them when repos.yaml came to list none.
Reference == \E r \in RegistryRepos \ referenced :
    /\ referenced' = referenced \cup {r}
    /\ UNCHANGED <<registry, repoSettings, repoCmd, repoTable, deletion>>
Unreference ==
    /\ referenced # {} /\ referenced' = {}
    /\ UNCHANGED <<registry, repoSettings, repoCmd, repoTable, deletion>>

\* deleteRepoHandler counts the references and deletes in two statements.
CountReferences(d) == \E r \in RegistryRepos :
    /\ deletion[d].at = "new"
    /\ deletion' = [deletion EXCEPT ![d] =
                      [at |-> IF r \in referenced THEN "409" ELSE "unreferenced",
                       repo |-> r]]
    /\ UNCHANGED <<registry, repoSettings, repoCmd, repoTable, referenced>>
DeleteRepo(d) ==
    /\ deletion[d].at = "unreferenced"
    /\ deletion' = [deletion EXCEPT ![d].at =
                      IF deletion[d].repo \in repoTable THEN "204" ELSE "404"]
    /\ repoTable' = repoTable \ {deletion[d].repo}
    /\ UNCHANGED <<registry, repoSettings, repoCmd, referenced>>

RepoCommandNext ==
    \E k \in RepoCommands :
       \/ ListRepos(k) \/ ListFails(k) \/ UpsertRepoRegistry(k) \/ ListEnds(k)
       \/ ManageRepo(k) \/ DryRun(k) \/ RefuseField(k)
       \/ SetReadsRow(k) \/ Confirmed(k) \/ SetWrites(k)
RepoTableNext ==
    \/ CreateRepo \/ Reference \/ Unreference
    \/ \E d \in DeleteReqs : CountReferences(d) \/ DeleteRepo(d)

RegistryNext == RepoCommandNext \/ RepoTableNext

RegistrySpec == RegistryInit /\ [][RegistryNext]_registryVars

-----------------------------------------------------------------------------
(* Properties.                                                             *)

\* The tables, commands and delete requests have their types.
RegistryTypeOK ==
    /\ registry \in [RegistryRepos -> {"absent", "found", "managed"}]
    /\ repoSettings \subseteq RegistryRepos
    /\ \A k \in RepoCommands :
          repoCmd[k].at \in {"new", "discovering", "asking", "writing",
                             "exit 0", "exit 1", "exit 2"}
    /\ repoTable \subseteq RegistryRepos /\ referenced \subseteq RegistryRepos
    /\ \A d \in DeleteReqs :
          deletion[d].at \in {"new", "unreferenced", "204", "404", "409"}

\* Only a managed repository has settings, though `repo set` tests it before a
\* prompt that may wait for ever and discovery rewrites the rows meanwhile
\* (repo.go, repoSet; repo_registry_store.go: the curation is not reset by a sync).
SetOnlyManaged == \A r \in repoSettings : registry[r] = "managed"

=============================================================================
