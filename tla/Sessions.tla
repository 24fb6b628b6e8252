------------------------------ MODULE Sessions ------------------------------
(***************************************************************************)
(* SessionManager (src/src/auth/session) over the session map of the       *)
(* in-memory store, with the TokenManager (src/src/auth/tokens.rs) that    *)
(* it shares with the rest of the server, and the background tasks that    *)
(* clean both.  A section under the manager's RwLock is one step; calls    *)
(* that release the lock and take it again are several.                    *)
(*                                                                         *)
(* Sessions and tokens are numbered in the order of their creation, which  *)
(* stands for their random identifiers.  Time goes in steps of one second. *)
(***************************************************************************)
EXTENDS Integers, Sequences, FiniteSets, FiniteSetsExt

CONSTANTS
    Users,       \* user names
    Creators,    \* tasks in create_session_full or get_session_info
    Limit,       \* max_sessions_per_user
    SessionTtl,  \* ttl of a session
    AccessTtl,   \* access_token_ttl
    RefreshTtl,  \* refresh_token_ttl
    MaxIds,      \* bound: sessions created
    MaxTokens,   \* bound: tokens issued
    MaxNow       \* bound: the clock

VARIABLES
    now,       \* the clock
    sessions,  \* session -> its data, for the sessions in the map
    doing,     \* task -> what is left of its call
    ids,       \* sessions created so far
    tokens,    \* token -> its claims, for the tokens issued
    revoked,   \* token -> exp, in revoked_tokens
    everRevoked, \* tokens that revoke_token was called for
    overlap    \* a session was created while create_session_full was in progress

sessVars == <<now, sessions, doing, ids, tokens, revoked, everRevoked, overlap>>

NoToken == 0
AtEnd == <<"end">>
Present == DOMAIN sessions
Of(u) == {s \in Present : sessions[s].user = u}
Expired(s) == now >= sessions[s].expires

SessionData(u, tok) ==
    [user |-> u, token |-> tok, created |-> now, expires |-> now + SessionTtl]

Oldest(S) == CHOOSE s \in S : \A r \in S : sessions[s].created < sessions[r].created
                                 \/ (sessions[s].created = sessions[r].created /\ s <= r)

SessionsInit ==
    /\ now = 1
    /\ sessions = [s \in {} |-> 0]
    /\ doing = [c \in Creators |-> AtEnd]
    /\ ids = 0
    /\ tokens = [t \in {} |-> 0]
    /\ revoked = [t \in {} |-> 0]
    /\ everRevoked = {}
    /\ overlap = FALSE

Drop(S) == sessions' = [s \in Present \ S |-> sessions[s]]

Forget(f, S) == [x \in DOMAIN f \ S |-> f[x]]

Creating == {c \in Creators : doing[c][1] \in {"evict", "insert"}}

-----------------------------------------------------------------------------
(* Creating a session.  From a token, the limit is checked and the session *)
(* inserted under one write lock.                                          *)

WithinLimit(u) == IF Cardinality(Of(u)) >= Limit THEN Present \ {Oldest(Of(u))} ELSE Present

CreateFromToken(t) ==
    LET u == tokens[t].user
        data == SessionData(u, t)
        kept == WithinLimit(u)
    IN /\ ids < MaxIds
       /\ ids' = ids + 1
       /\ sessions' = [s \in kept \cup {ids'} |-> IF s = ids' THEN data ELSE sessions[s]]
       /\ overlap' = (overlap \/ Creating # {})
       /\ UNCHANGED <<now, doing, tokens, revoked, everRevoked>>

(* create_session_full counts under a read lock, removes the oldest under  *)
(* a write lock, and inserts the new session, whose data it has built by   *)
(* then, under another.  Its one caller, create_session, passes no token.  *)
CreateFull(c, u) ==
    /\ doing[c] = AtEnd
    /\ ids < MaxIds
    /\ ids' = ids + 1
    /\ doing' = [doing EXCEPT ![c] =
          IF Cardinality(Of(u)) >= Limit
          THEN <<"evict", Oldest(Of(u)), ids', u>>
          ELSE <<"insert", ids', SessionData(u, NoToken)>>]
    /\ overlap' = (overlap \/ Creating # {})
    /\ UNCHANGED <<now, sessions, tokens, revoked, everRevoked>>

CreateEvict(c) ==
    LET d == doing[c] IN
    /\ d[1] = "evict"
    /\ Drop({d[2]})
    /\ doing' = [doing EXCEPT ![c] =
          <<"insert", d[3], SessionData(d[4], NoToken)>>]
    /\ UNCHANGED <<now, ids, tokens, revoked, everRevoked, overlap>>

CreateInsert(c) ==
    LET d == doing[c] IN
    /\ d[1] = "insert"
    /\ sessions' = [s \in Present \cup {d[2]} |-> IF s = d[2] THEN d[3] ELSE sessions[s]]
    /\ doing' = [doing EXCEPT ![c] = AtEnd]
    /\ UNCHANGED <<now, ids, tokens, revoked, everRevoked, overlap>>

-----------------------------------------------------------------------------
(* Validating a session, which gives it a new time to live.  A request     *)
(* from another address or user agent is refused and changes nothing, so   *)
(* only the requests that match are steps.                                 *)

Renew(s) ==
    /\ sessions' = [sessions EXCEPT ![s].expires = now + SessionTtl]
    /\ UNCHANGED <<now, doing, ids, tokens, revoked, everRevoked, overlap>>

Validate(s) == ~Expired(s) /\ Renew(s)

(* is_token_expired, and the list of revoked tokens                        *)
TokenAccepted(t) == t # NoToken => tokens[t].exp >= now /\ t \notin DOMAIN revoked

AcceptsFully(s) == ~Expired(s) /\ TokenAccepted(sessions[s].token)

ValidateFull(s) == AcceptsFully(s) /\ Renew(s)

-----------------------------------------------------------------------------
(* Removing sessions.  get_username drops an expired session at once,      *)
(* get_session_info after it has exchanged its read lock for a write lock. *)

GetUsername(s) ==
    /\ Expired(s)
    /\ Drop({s})
    /\ UNCHANGED <<now, doing, ids, tokens, revoked, everRevoked, overlap>>

GetSessionInfo(c, s) ==
    /\ doing[c] = AtEnd
    /\ Expired(s)
    /\ doing' = [doing EXCEPT ![c] = <<"info", s>>]
    /\ UNCHANGED <<now, sessions, ids, tokens, revoked, everRevoked, overlap>>

InfoRemove(c) ==
    /\ doing[c][1] = "info"
    /\ Drop({doing[c][2]})
    /\ doing' = [doing EXCEPT ![c] = AtEnd]
    /\ UNCHANGED <<now, ids, tokens, revoked, everRevoked, overlap>>

(* The tokens of the sessions that are revoked are revoked with them.      *)
RevokeTokens(new) ==
    /\ revoked' = [t \in DOMAIN revoked \cup new |-> tokens[t].exp]
    /\ everRevoked' = everRevoked \cup new

TokensOf(S) == {sessions[s].token : s \in S} \ {NoToken}

RevokeSession(s) ==
    /\ RevokeTokens(TokensOf({s}))
    /\ Drop({s})
    /\ UNCHANGED <<now, doing, ids, tokens, overlap>>

RevokeUserSessions(u) ==
    /\ RevokeTokens(TokensOf(Of(u)))
    /\ Drop(Of(u))
    /\ UNCHANGED <<now, doing, ids, tokens, overlap>>

(* cleanup_expired, called by the manager and by the task of cleanup.rs    *)
CleanupSessions ==
    /\ \E s \in Present : Expired(s)
    /\ Drop({s \in Present : Expired(s)})
    /\ UNCHANGED <<now, doing, ids, tokens, revoked, everRevoked, overlap>>

-----------------------------------------------------------------------------
(* Tokens.  The signature is left out: every token here is one that the    *)
(* manager signed.                                                         *)

Issue(u) ==
    LET n == Cardinality(DOMAIN tokens) IN
    /\ n + 2 <= MaxTokens
    /\ tokens' = [t \in 1..(n + 2) |->
          IF t <= n THEN tokens[t]
          ELSE IF t = n + 1 THEN [user |-> u, exp |-> now + AccessTtl, type |-> "access"]
          ELSE [user |-> u, exp |-> now + RefreshTtl, type |-> "refresh"]]

GenerateTokenPair(u) ==
    /\ Issue(u)
    /\ UNCHANGED <<now, sessions, doing, ids, revoked, everRevoked, overlap>>

(* verify_token and introspect                                             *)
Verified(t) == tokens[t].exp >= now /\ t \notin DOMAIN revoked

RefreshAccessToken(t) ==
    /\ Verified(t)
    /\ tokens[t].type = "refresh"
    /\ Issue(tokens[t].user)
    /\ UNCHANGED <<now, sessions, doing, ids, revoked, everRevoked, overlap>>

RevokeTokenClaims(t) ==
    /\ Verified(t)
    /\ RevokeTokens({t})
    /\ UNCHANGED <<now, sessions, doing, ids, tokens, overlap>>

DroppedEarly(t) == revoked[t] - 1 <= now
Dropped(t) == revoked[t] <= now

CleanupTokens ==
    /\ \E t \in DOMAIN revoked : Dropped(t)
    /\ revoked' = Forget(revoked, {t \in DOMAIN revoked : Dropped(t)})
    /\ UNCHANGED <<now, sessions, doing, ids, tokens, everRevoked, overlap>>

NextSecond ==
    /\ now < MaxNow
    /\ now' = now + 1
    /\ UNCHANGED <<sessions, doing, ids, tokens, revoked, everRevoked, overlap>>

-----------------------------------------------------------------------------

CreatorStep(c) == CreateEvict(c) \/ CreateInsert(c) \/ InfoRemove(c)

SessionsNext ==
    \/ NextSecond \/ CleanupSessions \/ CleanupTokens
    \/ \E u \in Users : RevokeUserSessions(u) \/ GenerateTokenPair(u)
    \/ \E t \in DOMAIN tokens :
          CreateFromToken(t) \/ RefreshAccessToken(t) \/ RevokeTokenClaims(t)
    \/ \E s \in Present :
          RevokeSession(s) \/ GetUsername(s) \/ Validate(s) \/ ValidateFull(s)
    \/ \E c \in Creators :
          \/ CreatorStep(c)
          \/ \E u \in Users : CreateFull(c, u)
          \/ \E s \in Present : GetSessionInfo(c, s)

SessionsSpec == SessionsInit /\ [][SessionsNext]_sessVars

-----------------------------------------------------------------------------

(* An expired session is not brought back: validation refuses it, so the   *)
(* decision to remove it is still right when it is carried out.            *)
ExpiredStays ==
    [][\A s \in Present : Expired(s) /\ s \in DOMAIN sessions' => Expired(s)']_sessVars

(* A session that has not expired is removed only because it, or its user, *)
(* was revoked, or to make room for a new session of its user.  In         *)
(* particular get_session_info, which decides under a read lock and        *)
(* removes under a later write lock, and the cleanups never take a session *)
(* that is in use.                                                         *)
LiveSessionsStay ==
    [][\A s \in Present :
          \/ s \in DOMAIN sessions' \/ Expired(s)
          \/ RevokeSession(s) \/ RevokeUserSessions(sessions[s].user)
          \/ \E t \in DOMAIN tokens : CreateFromToken(t)
          \/ \E c \in Creators : CreateEvict(c)]_sessVars

(* As long as no session was created while create_session_full was between *)
(* its count and its insert, no user has more than Limit sessions.         *)
LimitKept == ~overlap => \A u \in Users : Cardinality(Of(u)) <= Limit

(* A token that was revoked is not accepted again, although the list of    *)
(* revoked tokens is cleaned: the cleaning forgets only tokens that have   *)
(* expired.  The last second of a token, in which verify_token still       *)
(* accepts it and cleanup_expired already drops it, is the exception.      *)
RevokedRefused ==
    /\ \A t \in everRevoked : Verified(t) => tokens[t].exp = now
    /\ \A s \in Present : sessions[s].token \in everRevoked /\ AcceptsFully(s) =>
          tokens[sessions[s].token].exp = now

(* Sessions and tokens are given up for a reason and for good: expired     *)
(* sessions stay expired, live ones stay, revoked tokens are refused, and  *)
(* the limit holds (session/manager.rs, tokens.rs).                        *)
SessionsSound == [](LimitKept /\ RevokedRefused) /\ ExpiredStays /\ LiveSessionsStay
=============================================================================
