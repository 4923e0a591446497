----------------------------- MODULE Worktrees ------------------------------
(* One feature's working copies of its repositories: preparing them before *)
(* an implementation stage, committing and pushing them at the end of a    *)
(* phase, and merging them when construction is complete, while an agent   *)
(* edits and commits, git and GitHub fail, and a directory may be gone.    *)
(***************************************************************************)
EXTENDS Naturals, FiniteSets

CONSTANTS
    ImplRepos,  \* the repositories repos.yaml lists
    MaxCommits  \* bound: commits in one working copy

ASSUME WorktreesAssumption == MaxCommits \in Nat

Commits == 1..MaxCommits

VARIABLES
    dir,      \* per repository: absent, cloned, or on the feature branch
    recorded, \* the feature_repos rows
    localBranch, \* the commits of the feature branch in the working copy
    dirty,    \* whether it holds uncommitted changes
    remote,   \* the commits of the feature branch on origin
    main,     \* the feature's commits that origin's main holds
    primary,  \* the checkout ~/source/<name>: none, or without the branch, or
              \* with a stale one
    work      \* what the pipeline does, and what it has claimed

worktreeVars == <<dir, recorded, localBranch, dirty, remote, main, primary, work>>

\* Of this, begin, untold and merged are history.
NoWork == [kind |-> "idle", at |-> "", todo |-> {}, repo |-> "", failed |-> FALSE,
          begin |-> [r \in ImplRepos |-> {}], untold |-> {}, merged |-> {}]

WorktreesInit ==
    /\ dir = [r \in ImplRepos |-> "absent"] /\ recorded = {}
    /\ localBranch = [r \in ImplRepos |-> {}] /\ dirty = [r \in ImplRepos |-> FALSE]
    /\ remote = [r \in ImplRepos |-> {}] /\ main = [r \in ImplRepos |-> {}]
    /\ primary \in [ImplRepos -> {"none", "no branch", "stale"}]
    /\ work = NoWork

Copies == <<dir, localBranch, dirty>>
Origin == <<remote, main>>
NextCommit(r) ==
    CHOOSE c \in Commits : c \notin localBranch[r] \cup remote[r] \cup main[r]
MayCommit(r) == localBranch[r] \cup remote[r] \cup main[r] # Commits
Begins(kind, todo) ==
    /\ work.kind = "idle"
    /\ work' = [NoWork EXCEPT !.kind = kind, !.at = "next", !.todo = todo,
                              !.begin = localBranch]
WorkReturns(kind) ==
    work' = [work EXCEPT !.kind = "idle", !.at = kind, !.todo = {}, !.repo = ""]
NextRepo(at, r) == work' = [work EXCEPT !.at = at, !.repo = r, !.todo = @ \ {r}]
WorkGoes(at) == work' = [work EXCEPT !.at = at]
Working(kind, at) == work.kind = kind /\ work.at = at
This == work.repo

-----------------------------------------------------------------------------
(* The agent, and whoever else touches the directories.                    *)

AgentEdits == \E r \in ImplRepos :
    /\ dir[r] = "branched" /\ dirty' = [dirty EXCEPT ![r] = TRUE]
    /\ UNCHANGED <<dir, localBranch, recorded, primary, work>> /\ UNCHANGED Origin

\* CommitIn: git commit of everything in the working copy.
CommitIn(r) ==
    /\ localBranch' = [localBranch EXCEPT ![r] = @ \cup {NextCommit(r)}]
    /\ dirty' = [dirty EXCEPT ![r] = FALSE]
AgentCommits == \E r \in ImplRepos :
    /\ dir[r] = "branched" /\ dirty[r] /\ MayCommit(r) /\ CommitIn(r)
    /\ UNCHANGED <<dir, recorded, primary, work>> /\ UNCHANGED Origin

DirectoryRemoved == \E r \in ImplRepos :
    /\ work.kind = "idle" /\ dir[r] # "absent"
    /\ dir' = [dir EXCEPT ![r] = "absent"]
    /\ localBranch' = [localBranch EXCEPT ![r] = {}]
    /\ dirty' = [dirty EXCEPT ![r] = FALSE]
    /\ UNCHANGED <<recorded, primary, work>> /\ UNCHANGED Origin

-----------------------------------------------------------------------------
(* PrepareImplRepos.                                                       *)

\* All recorded copies there: nothing to do.
Prepare ==
    /\ recorded = {} \/ \E r \in recorded : dir[r] = "absent"
    /\ Begins("prepare", ImplRepos)
    /\ UNCHANGED <<recorded, primary>> /\ UNCHANGED Copies /\ UNCHANGED Origin

\* CloneForFeature clones main, or fetches in a copy that is there;
\* CreateFeatureBranch branches, or checks out the branch it finds. The first
\* failure ends the preparation, before any row is saved.
PrepareRepo == \E r \in work.todo :
    /\ Working("prepare", "next")
    /\ \/ dir' = [dir EXCEPT ![r] = "branched"] /\ NextRepo("next", r)
       \/ dir' = [dir EXCEPT ![r] = IF @ = "absent" THEN "cloned" ELSE @]
          /\ WorkReturns("unprepared")
       \/ UNCHANGED dir /\ WorkReturns("unprepared")
    /\ UNCHANGED <<localBranch, dirty, recorded, primary>> /\ UNCHANGED Origin

\* SaveFeatureRepo for each; a row that cannot be saved is a warning.
SaveEach(saved) == recorded' = recorded \cup saved

SaveFeatureRepos == \E saved \in SUBSET ImplRepos :
    /\ Working("prepare", "next") /\ work.todo = {}
    /\ SaveEach(saved) /\ WorkReturns("prepared")
    /\ UNCHANGED primary /\ UNCHANGED Copies /\ UNCHANGED Origin

-----------------------------------------------------------------------------
(* PushPhaseChanges: commit everywhere, then push everywhere.              *)

PushPhase ==
    /\ recorded # {} /\ Begins("commit", recorded)
    /\ UNCHANGED <<recorded, primary>> /\ UNCHANGED Copies /\ UNCHANGED Origin

\* CommitAll; the first failure ends it, and one is certain without a copy.
CommitAcrossRepos == \E r \in work.todo :
    /\ Working("commit", "next")
    /\ \/ dir[r] = "branched" /\ ~dirty[r] /\ NextRepo("next", r) /\ UNCHANGED Copies
       \/ /\ dir[r] = "branched" /\ dirty[r] /\ MayCommit(r)
          /\ CommitIn(r) /\ NextRepo("next", r) /\ UNCHANGED dir
       \/ WorkReturns("not pushed") /\ UNCHANGED Copies
    /\ UNCHANGED <<recorded, primary>> /\ UNCHANGED Origin

AllCommitted ==
    /\ Working("commit", "next") /\ work.todo = {}
    /\ work' = [work EXCEPT !.kind = "push", !.todo = recorded]
    /\ UNCHANGED <<recorded, primary>> /\ UNCHANGED Copies /\ UNCHANGED Origin

\* git push refuses what would lose commits of the remote branch.
PushTakes(r) == dir[r] = "branched" /\ remote[r] \subseteq localBranch[r]
Ahead(r) == localBranch[r] # {} /\ localBranch[r] # remote[r]

\* The answers of hasUnpushedCommits: what is there, or, when git fails on the
\* branch, FALSE and no error, and when it fails on origin's branch only, that all
\* there is is new.
HasUnpushedCommits(r) == {Ahead(r), FALSE, localBranch[r] # {}}

\* PushAcrossRepos collects the pushes that fail and goes on; a repository that
\* is said to have nothing to push is skipped, and nobody is told.
PushAcrossRepos == \E r \in work.todo :
    /\ Working("push", "next")
    /\ \/ /\ FALSE \in HasUnpushedCommits(r) /\ UNCHANGED remote
          /\ work' = [work EXCEPT !.todo = @ \ {r}, !.repo = r,
                                  !.untold = IF Ahead(r) THEN @ \cup {r} ELSE @]
       \/ /\ TRUE \in HasUnpushedCommits(r) /\ PushTakes(r) /\ NextRepo("next", r)
          /\ remote' = [remote EXCEPT ![r] = localBranch[r]]
       \/ /\ TRUE \in HasUnpushedCommits(r) /\ UNCHANGED remote
          /\ work' = [work EXCEPT !.todo = @ \ {r}, !.repo = r, !.failed = TRUE]
    /\ UNCHANGED <<recorded, primary, main>> /\ UNCHANGED Copies

PushEnds ==
    /\ Working("push", "next") /\ work.todo = {}
    /\ WorkReturns(IF work.failed THEN "not pushed" ELSE "pushed")
    /\ UNCHANGED <<recorded, primary>> /\ UNCHANGED Copies /\ UNCHANGED Origin

-----------------------------------------------------------------------------
(* MergeFeatureToMain: repository by repository; a failure skips the       *)
(* repository, and the whole returns no error.                             *)

Merge ==
    /\ recorded # {} /\ Begins("merge", recorded)
    /\ UNCHANGED <<recorded, primary>> /\ UNCHANGED Copies /\ UNCHANGED Origin

MergeRepo == \E r \in work.todo :
    /\ Working("merge", "next")
    /\ NextRepo(IF dir[r] = "absent" THEN "next" ELSE "commit", r)
    /\ UNCHANGED <<recorded, primary>> /\ UNCHANGED Copies /\ UNCHANGED Origin

\* gitCommitIfChanges; a commit that fails is logged, and the merge goes on.
GitCommitIfChanges ==
    /\ Working("merge", "commit") /\ WorkGoes("push")
    /\ \/ dir[This] = "branched" /\ dirty[This] /\ MayCommit(This) /\ CommitIn(This)
          /\ UNCHANGED dir
       \/ UNCHANGED Copies
    /\ UNCHANGED <<recorded, primary>> /\ UNCHANGED Origin

\* Mutant: a branch that cannot be pushed is merged as origin has it.
PushOrNot ==
    /\ Working("merge", "push") /\ WorkGoes("merge")
    /\ \/ PushTakes(This) /\ remote' = [remote EXCEPT ![This] = localBranch[This]]
       \/ UNCHANGED remote
    /\ UNCHANGED <<recorded, primary, main>> /\ UNCHANGED Copies

PushBranch ==
    /\ Working("merge", "push")
    /\ \/ /\ PushTakes(This) /\ WorkGoes("merge")
          /\ remote' = [remote EXCEPT ![This] = localBranch[This]]
       \/ UNCHANGED remote /\ WorkGoes("next")
    /\ UNCHANGED <<recorded, primary, main>> /\ UNCHANGED Copies

\* The checkout of the repository this machine has beside the worktrees.
FindMainRepoDir == primary[This]

\* The primary checkout merges the branch of that name it has itself and pushes
\* main: with a stale one that adds nothing of this run. Without the branch, or
\* with one that conflicts, the merge fails, and a pull request is tried.
MergeInPrimary ==
    /\ Working("merge", "merge")
    /\ \/ FindMainRepoDir = "stale" /\ WorkGoes("next")
       \/ WorkGoes("pull request")
    /\ UNCHANGED <<recorded, primary>> /\ UNCHANGED Copies /\ UNCHANGED Origin

\* mergeViaPR: gh creates the request and merges what origin's branch holds.
MergeViaPR ==
    /\ Working("merge", "pull request")
    /\ \/ /\ main' = [main EXCEPT ![This] = @ \cup remote[This]]
          /\ work' = [work EXCEPT !.at = "next", !.merged = @ \cup {This}]
       \/ UNCHANGED main /\ WorkGoes("next")
    /\ UNCHANGED <<recorded, primary, remote>> /\ UNCHANGED Copies

MergeReturnsNil ==
    /\ Working("merge", "next") /\ work.todo = {} /\ WorkReturns("merged")
    /\ UNCHANGED <<recorded, primary>> /\ UNCHANGED Copies /\ UNCHANGED Origin

WorktreesNext ==
    \/ AgentEdits \/ AgentCommits \/ DirectoryRemoved
    \/ Prepare \/ PrepareRepo \/ SaveFeatureRepos
    \/ PushPhase \/ CommitAcrossRepos \/ AllCommitted \/ PushAcrossRepos \/ PushEnds
    \/ Merge \/ MergeRepo \/ GitCommitIfChanges \/ PushBranch \/ MergeInPrimary
    \/ MergeViaPR \/ MergeReturnsNil

WorktreesSpec == WorktreesInit /\ [][WorktreesNext]_worktreeVars

-----------------------------------------------------------------------------
(* Properties.                                                             *)

\* The repositories, working copies and the pipeline's work have their types.
WorktreesTypeOK ==
    /\ dir \in [ImplRepos -> {"absent", "cloned", "branched"}]
    /\ recorded \subseteq ImplRepos
    /\ \A r \in ImplRepos : localBranch[r] \cup remote[r] \cup main[r] \subseteq Commits
    /\ dirty \in [ImplRepos -> BOOLEAN]
    /\ work.kind \in {"idle", "prepare", "commit", "push", "merge"}
    /\ work.todo \cup work.untold \cup work.merged \subseteq ImplRepos

\* A phase push that returns no error leaves every commit that was there when it
\* began on origin's branch, but in a repository where the check for commits to
\* push failed, which it does not tell (untold: manager.go, hasUnpushedCommits).
\* A pull request that was merged took every commit its working copy held when
\* the merge began, those as well that a phase's push has left behind
\* (pipeline.go, PushPhaseChanges and MergeFeatureToMain).
TakesAll ==
    /\ work.at = "pushed" =>
          \A r \in recorded \ work.untold : work.begin[r] \subseteq remote[r]
    /\ \A r \in work.merged : work.begin[r] \subseteq main[r]

=============================================================================
