---------------------------- MODULE GitHubClient ----------------------------
(* The server's GitHub identity: callers share one cached installation     *)
(* token, each exchanges a new one when the cache is cold or old, and the  *)
(* checks at start and at phase boundaries probe GitHub with it. Stored    *)
(* tokens and the PAT never engage: the credential store's statements use  *)
(* placeholders that the raw PostgreSQL connection does not take.          *)
(***************************************************************************)
EXTENDS Naturals

CONSTANTS
    GitHubCallers, \* calls of the client, each made once
    TokenLife,     \* how long GitHub lets a token live
    HttpTimeout,   \* when the client gives a request up
    MaxTime        \* bound: the clock

ASSUME GitHubAssumption ==
    /\ TokenLife \in Nat /\ HttpTimeout \in 1..TokenLife /\ MaxTime \in Nat \ {0}

VARIABLES
    now,       \* the clock
    cache,     \* tokenCache: the expiry of its token, 0 when never set
    installed, \* whether GitHub accepts the installation
    ghcall     \* each call: where it is, since when, the expiry of its token

githubVars == <<now, cache, installed, ghcall>>

\* A token is its expiry; cache.until is when the cache entry ends.
NoCall == [at |-> "new", since |-> 0, token |-> 0, got |-> 0]

GitHubInit ==
    /\ now = 1 /\ cache = [token |-> 0, until |-> 0] /\ installed = TRUE
    /\ ghcall = [c \in GitHubCallers |-> NoCall]

InFlight(c) == ghcall[c].at \in {"exchanging", "minted"}

\* Time passes, but not past the timeout of a request under way.
TimePasses ==
    /\ now < MaxTime
    /\ \A c \in GitHubCallers : InFlight(c) => now < ghcall[c].since + HttpTimeout
    /\ now' = now + 1 /\ UNCHANGED <<cache, installed, ghcall>>

\* The organisation suspends or revokes the installation, or restores it.
InstallationChanges ==
    /\ installed' = ~installed /\ UNCHANGED <<now, cache, ghcall>>

Hands(c, token) ==
    ghcall' = [ghcall EXCEPT ![c].at = "token", ![c].token = token, ![c].got = now]
Ends(c, at) == ghcall' = [ghcall EXCEPT ![c].at = at]

\* tokenCache.get; a key file that cannot be read ends the call (exchange).
GetToken(c) ==
    /\ ghcall[c].at = "new"
    /\ IF cache.token # 0 /\ now <= cache.until THEN Hands(c, cache.token)
       ELSE \/ ghcall' = [ghcall EXCEPT ![c].at = "exchanging", ![c].since = now]
            \/ Ends(c, "auth error")
    /\ UNCHANGED <<now, cache, installed>>

\* GitHub answers the exchange: a token, or 401, 403, 404 or a server error.
Mints(c) ==
    /\ ghcall[c].at = "exchanging"
    /\ IF installed THEN ghcall' = [ghcall EXCEPT ![c].at = "minted",
                                                  ![c].token = now + TokenLife]
       ELSE Ends(c, "auth error")
    /\ UNCHANGED <<now, cache, installed>>

\* The exchange times out, or fails on the way; there is no PAT to fall back to.
ExchangeFails(c) ==
    /\ InFlight(c) /\ Ends(c, "auth error") /\ UNCHANGED <<now, cache, installed>>

\* Mutant: the entry is kept for a whole token life from now.
KeptFor(token) == now + TokenLife
\* tokenCache.set: for time.Until(expiresAt) from now.
CachedUntil(token) == token

\* The answer arrives; storing the token in the database fails, unnoticed.
ReceivesToken(c) ==
    /\ ghcall[c].at = "minted"
    /\ cache' = [token |-> ghcall[c].token, until |-> CachedUntil(ghcall[c].token)]
    /\ Hands(c, ghcall[c].token) /\ UNCHANGED <<now, installed>>

\* AuthHealthCheck lists one repository with the token.
Probe(c) ==
    /\ ghcall[c].at = "token"
    /\ \/ installed /\ now <= ghcall[c].token /\ Ends(c, "alive")
       \/ Ends(c, "auth error")
    /\ UNCHANGED <<now, cache, installed>>

GitHubNext ==
    \/ TimePasses \/ InstallationChanges
    \/ \E c \in GitHubCallers :
          GetToken(c) \/ Mints(c) \/ ExchangeFails(c) \/ ReceivesToken(c) \/ Probe(c)

GitHubSpec == GitHubInit /\ [][GitHubNext]_githubVars

-----------------------------------------------------------------------------
(* Properties.                                                             *)

\* The clock, the cache and the calls have their types.
GitHubTypeOK ==
    /\ now \in 1..MaxTime /\ installed \in BOOLEAN
    /\ cache.token \in 0..(MaxTime + TokenLife)
    /\ \A c \in GitHubCallers : ghcall[c].at \in
          {"new", "exchanging", "minted", "token", "alive", "auth error"}

\* A token is never handed out after it expired: neither from the cache, which
\* callers fill side by side with tokens of different ages, nor after an answer
\* that came late (native.go, getToken; token_cache.go).
TokenInLife ==
    \A c \in GitHubCallers : ghcall[c].token # 0 /\ ghcall[c].got # 0
                               => ghcall[c].got <= ghcall[c].token

=============================================================================
