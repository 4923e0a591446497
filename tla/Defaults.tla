------------------------------ MODULE Defaults ------------------------------
(* The feature defaults, one global row and one for a repository, and what *)
(* a feature created meanwhile takes from them. A write of the global row  *)
(* is an UPDATE and, when that met no row, an INSERT; a create reads the   *)
(* defaults up to four times.                                              *)
(***************************************************************************)
EXTENDS Naturals, FiniteSets

CONSTANTS
    GlobalPuts,  \* PUT requests for the global row, each made at most once
    RepoPuts,    \* PUT requests for the repository's row
    RepoDeletes, \* DELETE requests for it
    BlankPuts,   \* those PUTs that leave the field empty
    HeavyPuts,   \* those whose scope requires a repository
    Creates      \* createFeature requests

ASSUME DefaultsAssumption ==
    /\ BlankPuts \subseteq GlobalPuts \cup RepoPuts
    /\ HeavyPuts \subseteq (GlobalPuts \cup RepoPuts) \ BlankPuts
    /\ GlobalPuts \cap RepoPuts = {} /\ RepoDeletes \cap (GlobalPuts \cup RepoPuts) = {}
    /\ Creates \cap (GlobalPuts \cup RepoPuts \cup RepoDeletes) = {}

DefaultWrites == GlobalPuts \cup RepoPuts \cup RepoDeletes

VARIABLES
    globalRows, \* the rows with repo IS NULL: by who inserted it, who wrote it last
    repoRow,    \* the repository's row: the PUT that wrote it last, or "none"
    dput,       \* where each write is
    before,     \* history: <<w, x>> when w was answered before x began
    creates     \* each createFeature request

defaultsVars == <<globalRows, repoRow, dput, before, creates>>

\* A row is a write; the field it holds is empty for a blank one. In a created
\* feature "" is a scope that was given or detected.
Field(w) == IF w \in BlankPuts \cup {"none", ""} THEN "" ELSE w
\* QueryRow takes the first row of any order; with no row it reads empty fields.
ReadGlobal == IF DOMAIN globalRows = {} THEN {""}
              ELSE {Field(globalRows[i]) : i \in DOMAIN globalRows}

NoCreate == [at |-> "new", repos |-> FALSE, given |-> FALSE, read |-> "",
             repo |-> "", scope |-> ""]

DefaultsInit ==
    /\ globalRows = [i \in {} |-> ""] /\ repoRow = "none"
    /\ dput = [w \in DefaultWrites |-> "new"] /\ before = {}
    /\ creates = [c \in Creates |-> NoCreate]

Answered(w) == dput[w] = "answered"
AnsweredWrites == {w \in DefaultWrites : Answered(w)}
SameRow(w, x) == x \in Creates \/ (w \in GlobalPuts <=> x \in GlobalPuts)
FollowsAnswered(x) ==
    before' = before \cup {<<w, x>> : w \in {v \in AnsweredWrites : SameRow(v, x)}}

-----------------------------------------------------------------------------
(* Store.upsert and DeleteForRepo.                                         *)

\* Mutant: the upsert names the conflict on repo, which two NULLs never meet.
UpdateNothing(w) ==
    /\ dput' = [dput EXCEPT ![w] = "insert"]
    /\ UNCHANGED globalRows

\* The UPDATE writes every row with repo IS NULL.
UpdateGlobal(w) ==
    /\ globalRows' = [i \in DOMAIN globalRows |-> w]
    /\ dput' = [dput EXCEPT ![w] =
                   IF DOMAIN globalRows = {} THEN "insert" ELSE "answered"]

PutGlobal(w) ==
    /\ w \in GlobalPuts /\ dput[w] = "new" /\ FollowsAnswered(w)
    /\ UpdateGlobal(w)
    /\ UNCHANGED <<repoRow, creates>>

InsertGlobal(w) ==
    /\ dput[w] = "insert"
    /\ globalRows' = [i \in DOMAIN globalRows \cup {w} |->
                        IF i = w THEN w ELSE globalRows[i]]
    /\ dput' = [dput EXCEPT ![w] = "answered"]
    /\ UNCHANGED <<repoRow, before, creates>>

\* PutForRepo, one statement; DeleteForRepo answers 404 without a row.
PutForRepo(w) ==
    /\ w \in RepoPuts /\ dput[w] = "new" /\ FollowsAnswered(w)
    /\ repoRow' = w /\ dput' = [dput EXCEPT ![w] = "answered"]
    /\ UNCHANGED <<globalRows, creates>>

DeleteForRepo(w) ==
    /\ w \in RepoDeletes /\ dput[w] = "new" /\ FollowsAnswered(w)
    /\ repoRow' = "none" /\ dput' = [dput EXCEPT ![w] = "answered"]
    /\ UNCHANGED <<globalRows, creates>>

-----------------------------------------------------------------------------
(* createFeature.                                                          *)

Goes(c, at) == creates' = [creates EXCEPT ![c].at = at]

\* The request names repositories or not, a scope or not. Without both, the
\* global default tells whether this scope needs a repository; a detected scope
\* may be of either kind.
CreateBegins(c) == \E forRepos, given \in BOOLEAN : \E field \in ReadGlobal :
    /\ creates[c].at = "new" /\ FollowsAnswered(c)
    /\ \E at \in IF forRepos THEN {"repo row"}
                 ELSE IF given \/ field = "" THEN {"global", "refused"}
                 ELSE IF field \in HeavyPuts THEN {"refused"} ELSE {"global"} :
          creates' = [creates EXCEPT ![c] = [NoCreate EXCEPT
                        !.at = at, !.repos = forRepos, !.given = given]]
    /\ UNCHANGED <<globalRows, repoRow, dput>>

\* GetForRepo: the row, and then, in a second query, whether there is one.
ReadRepoRow(c) ==
    /\ creates[c].at = "repo row"
    /\ creates' = [creates EXCEPT ![c].at = "repo exists?", ![c].read = Field(repoRow)]
    /\ UNCHANGED <<globalRows, repoRow, dput, before>>

RepoRowExists(c) ==
    /\ creates[c].at = "repo exists?"
    /\ creates' = [creates EXCEPT ![c].at = "global",
                      ![c].repo = IF repoRow = "none" THEN "" ELSE creates[c].read]
    /\ UNCHANGED <<globalRows, repoRow, dput, before>>

\* GetGlobal, and the first of: the request, the repository's row, the global
\* row, the fallback; SaveFeature.
CreateSaves(c) == \E field \in ReadGlobal :
    /\ creates[c].at = "global"
    /\ creates' = [creates EXCEPT ![c].at = "created",
                      ![c].scope = IF creates[c].given THEN ""
                                   ELSE IF creates[c].repo # "" THEN creates[c].repo
                                   ELSE field]
    /\ UNCHANGED <<globalRows, repoRow, dput, before>>

DefaultsNext ==
    \/ \E w \in DefaultWrites :
          \/ PutGlobal(w) \/ InsertGlobal(w) \/ PutForRepo(w) \/ DeleteForRepo(w)
    \/ \E c \in Creates :
          \/ CreateBegins(c) \/ ReadRepoRow(c) \/ RepoRowExists(c) \/ CreateSaves(c)

DefaultsSpec == DefaultsInit /\ [][DefaultsNext]_defaultsVars

-----------------------------------------------------------------------------
(* Properties.                                                             *)

\* The rows, their writers and the requests have their types.
DefaultsTypeOK ==
    /\ DOMAIN globalRows \subseteq GlobalPuts
    /\ \A i \in DOMAIN globalRows : globalRows[i] \in GlobalPuts
    /\ repoRow \in RepoPuts \cup {"none"}
    /\ dput \in [DefaultWrites -> {"new", "insert", "answered"}]
    /\ before \subseteq DefaultWrites \X (DefaultWrites \cup Creates)
    /\ \A c \in Creates : creates[c].scope \in GlobalPuts \cup RepoPuts \cup {""}

\* x was replaced for good before y began: a write of the same row that began
\* after x was answered was itself answered before y began.
ReplacedBefore(x, y) ==
    \E w \in IF x \in GlobalPuts THEN GlobalPuts ELSE RepoPuts \cup RepoDeletes :
       <<x, w>> \in before /\ <<w, y>> \in before

\* A feature never takes its scope from a default that had been replaced, or
\* deleted, before the feature's creation began, also when two first writes of
\* the global default leave two rows (store.go, upsert; server.go, createFeature).
CreatedFromCurrent == \A c \in Creates :
    creates[c].scope # "" => ~ReplacedBefore(creates[c].scope, c)

=============================================================================
