-------------------------------- MODULE Boot --------------------------------
(* Opening the database, as the server and every command-line call do it:  *)
(* the pending migrations in order, each with its record in a transaction. *)
(* The server then seeds the stages and, into an empty table, the          *)
(* repositories of repos.yaml, checks its GitHub identity, and serves.     *)
(* Processes start side by side and are killed at any step.                *)
(***************************************************************************)
EXTENDS Naturals, FiniteSets

CONSTANTS
    Servers,     \* server processes, started one after the other
    Commands,    \* command-line processes
    NumVersions, \* migrations 1..NumVersions
    YamlRepos,   \* the repositories repos.yaml lists
    MaxKilled    \* bound: processes killed

ASSUME BootAssumption == NumVersions \in Nat /\ MaxKilled \in Nat

Openers == Servers \cup Commands
Versions == 1..NumVersions

VARIABLES
    schemaMigrations, \* the versions recorded as applied
    upCommitted,      \* per version, how many of its Up were committed
    opener,           \* each process: where it is, what it read, its version
    repos,            \* the repos table
    killed            \* how many processes were killed

bootVars == <<schemaMigrations, upCommitted, opener, repos, killed>>

NoOpener == [at |-> "new", applied |-> {}, version |-> 0, todo |-> {}]

BootInit ==
    /\ schemaMigrations = {} /\ upCommitted = [v \in Versions |-> 0]
    /\ opener = [o \in Openers |-> NoOpener]
    /\ repos = {} /\ killed = 0

At(o, at) == opener[o].at = at
Moves(o, at) == opener' = [opener EXCEPT ![o].at = at]

\* sortedMigrations: the next pending version, 0 when none is left.
NextPending(o, v) ==
    LET todo == {x \in Versions : x > v /\ x \notin opener[o].applied}
    IN  IF todo = {} THEN 0 ELSE CHOOSE x \in todo : \A y \in todo : x <= y
Turns(o, v) ==
    opener' = [opener EXCEPT ![o].version = NextPending(o, v),
                  ![o].at = IF NextPending(o, v) # 0 THEN "up"
                            ELSE IF o \in Servers THEN "seeding" ELSE "opened"]

\* migrate reads the applied versions once. Server processes do not overlap:
\* they would listen on one address.
ReadApplied(o) ==
    /\ At(o, "new")
    /\ o \in Servers => \A p \in Servers \ {o} : opener[p].at \in {"new", "exited"}
    /\ opener' = [opener EXCEPT ![o].applied = schemaMigrations, ![o].at = "read"]
    /\ UNCHANGED <<schemaMigrations, upCommitted, repos, killed>>

FirstPending(o) ==
    /\ At(o, "read") /\ Turns(o, 0)
    /\ UNCHANGED <<schemaMigrations, upCommitted, repos, killed>>

\* Up in an open transaction; it may fail on what another process committed.
UpRuns(o) ==
    /\ At(o, "up")
    /\ \/ Moves(o, "record")
       \/ opener[o].version \in schemaMigrations /\ Moves(o, "exited")
    /\ UNCHANGED <<schemaMigrations, upCommitted, repos, killed>>

\* Mutant: a version recorded meanwhile is no error.
RecordAnyway(o) ==
    /\ At(o, "record") /\ ~\E p \in Openers : At(p, "commit")
                             /\ opener[p].version = opener[o].version
    /\ Moves(o, "commit")
    /\ UNCHANGED <<schemaMigrations, upCommitted, repos, killed>>

\* The INSERT into schema_migrations waits for a transaction that holds the same
\* version, and fails, with a rollback, when that one committed.
RecordMigration(o) ==
    /\ At(o, "record") /\ ~\E p \in Openers : At(p, "commit")
                             /\ opener[p].version = opener[o].version
    /\ Moves(o, IF opener[o].version \in schemaMigrations THEN "exited" ELSE "commit")
    /\ UNCHANGED <<schemaMigrations, upCommitted, repos, killed>>

CommitMigration(o) ==
    /\ At(o, "commit")
    /\ schemaMigrations' = schemaMigrations \cup {opener[o].version}
    /\ upCommitted' = [upCommitted EXCEPT ![opener[o].version] = @ + 1]
    /\ Turns(o, opener[o].version) /\ UNCHANGED <<repos, killed>>

\* SeedStages is INSERT ... ON CONFLICT; SeedReposFromYAML skips a table with rows.
CountRepos(o) ==
    /\ At(o, "seeding")
    /\ opener' = [opener EXCEPT ![o].todo = IF repos = {} THEN YamlRepos ELSE {},
                                ![o].at = "repos"]
    /\ UNCHANGED <<schemaMigrations, upCommitted, repos, killed>>

SeedRepo(o) == \E r \in opener[o].todo :
    /\ At(o, "repos") /\ repos' = repos \cup {r}
    /\ opener' = [opener EXCEPT ![o].todo = @ \ {r}]
    /\ UNCHANGED <<schemaMigrations, upCommitted, killed>>

\* startupAuthHealth, when the github block is configured, ends a server whose
\* identity is not alive.
StartServing(o) ==
    /\ At(o, "repos") /\ opener[o].todo = {}
    /\ Moves(o, "opened") \/ Moves(o, "exited")
    /\ UNCHANGED <<schemaMigrations, upCommitted, repos, killed>>

\* A killed process's open transaction is rolled back; the server starts again.
Killed(o) ==
    /\ opener[o].at \notin {"new", "exited"} /\ killed < MaxKilled
    /\ killed' = killed + 1
    /\ opener' = [opener EXCEPT ![o] =
                    IF o \in Servers THEN NoOpener
                     ELSE [NoOpener EXCEPT !.at = "exited"]]
    /\ UNCHANGED <<schemaMigrations, upCommitted, repos>>

BootNext == \E o \in Openers :
    \/ ReadApplied(o) \/ FirstPending(o) \/ UpRuns(o) \/ RecordMigration(o)
    \/ CommitMigration(o) \/ CountRepos(o) \/ SeedRepo(o) \/ StartServing(o)
    \/ Killed(o)

BootSpec == BootInit /\ [][BootNext]_bootVars

-----------------------------------------------------------------------------
(* Properties.                                                             *)

\* The tables and processes have their types.
BootTypeOK ==
    /\ schemaMigrations \subseteq Versions /\ upCommitted \in [Versions -> Nat]
    /\ \A o \in Openers :
          /\ opener[o].applied \subseteq Versions /\ opener[o].todo \subseteq YamlRepos
          /\ opener[o].version \in 0..NumVersions
          /\ opener[o].at \in {"new", "read", "up", "record", "commit", "seeding",
                               "repos", "opened", "exited"}
    /\ repos \subseteq YamlRepos /\ killed \in 0..MaxKilled

\* Each migration's effect is committed exactly when it is recorded, once, in
\* order, and whoever gets past migrate works on the complete schema, though
\* processes migrate side by side from what they read at first and are killed
\* half-way (migrations.go, migrate).
MigratedOnce ==
    /\ \A v \in Versions : upCommitted[v] = IF v \in schemaMigrations THEN 1 ELSE 0
    /\ \A v \in schemaMigrations : 1..v \subseteq schemaMigrations
    /\ \A o \in Openers :
          opener[o].at \in {"seeding", "repos", "opened"} => schemaMigrations = Versions

=============================================================================
