---------------------------- MODULE AuthSessions ----------------------------
(***************************************************************************)
(* Refresh tokens: login issues one, refresh spends one and issues the     *)
(* next, logout revokes one (application/auth/authService.ts over          *)
(* refreshTokenRepository.ts).  The service keeps no lock and opens no     *)
(* transaction, so requests that present the same token interleave between *)
(* their queries, and a request may die after any of them.                 *)
(*                                                                         *)
(* A request issues at most one token, from 32 random bytes, so a token is *)
(* named by the request that issued it.  Accounts adds the users table and *)
(* the access tokens that are signed beside the refresh tokens.            *)
(***************************************************************************)
CONSTANTS Requests,   \* POST /auth/login, /auth/refresh and /auth/logout calls
          Users,      \* rows of the users table whose password a client knows
          Null

ASSUME NullAssumption == Null \notin Requests \cup Users

VARIABLES
    token,        \* token[r]: the refresh_tokens row that r inserted
    expired,      \* tokens whose expiresAt has passed
    disabled,     \* users whose status is no longer ACTIVE
    kind,         \* kind[r]: what r asks for
    presented,    \* presented[r]: the token r carries (refresh, logout)
    subject,      \* subject[r]: the user r acts for, and the owner of its token
    at,           \* at[r]: where the handler of r is
    late          \* requests whose user was disabled before they read its row

vars == <<token, expired, disabled, kind, presented, subject, at, late>>
world == <<expired, disabled>>
request == <<kind, presented, subject, late>>

\* "found": the token was active and unexpired; "checked": its user is ACTIVE;
\* "issuing": only the insert is left; then one of three ends.
Points == {"idle", "found", "checked", "issuing", "answered", "refused", "failed"}

\* A client can only present a token it was given.
Delivered(t) == at[t] = "answered" /\ token[t] # "unissued"

----------------------------------------------------------------------------
Init ==
    /\ token = [r \in Requests |-> "unissued"]
    /\ expired = {}
    /\ disabled = {}
    /\ kind = [r \in Requests |-> "none"]
    /\ presented = [r \in Requests |-> Null]
    /\ subject = [r \in Requests |-> Null]
    /\ at = [r \in Requests |-> "idle"]
    /\ late = {}

Begins(r, k, t, u, point) ==
    /\ at[r] = "idle"
    /\ kind' = [kind EXCEPT ![r] = k]
    /\ presented' = [presented EXCEPT ![r] = t]
    /\ subject' = [subject EXCEPT ![r] = u]
    /\ at' = [at EXCEPT ![r] = point]
    /\ late' = IF u \in disabled THEN late \cup {r} ELSE late

Goes(r, from, to) ==
    /\ at[r] = from
    /\ at' = [at EXCEPT ![r] = to]

----------------------------------------------------------------------------
(* refreshTokenRepository.                                                 *)

\* The lookup without "revoked_at IS NULL".
FindsEvenRevoked(t) == token[t] # "unissued"

FindsActive(t) == token[t] = "active"

\* The UPDATE matching no row.
RevokesNothing(t) == UNCHANGED token

\* A DELETE in place of the update: the audit trail of the session is gone.
DeletesTheRow(t) == token' = [token EXCEPT ![t] = "deleted"]

\* UPDATE ... SET revoked_at WHERE id, whatever the row's state.
Revoke(t) == token' = [token EXCEPT ![t] = "revoked"]

InsertToken(r) == token' = [token EXCEPT ![r] = "active"]

----------------------------------------------------------------------------
(* login: the user and the password are checked, then issue().             *)

LoginPoint(u) == IF u \in disabled THEN "refused" ELSE "issuing"

LoginVerifies(r, u) ==
    /\ Begins(r, "login", Null, u, LoginPoint(u))
    /\ UNCHANGED <<token, world>>

----------------------------------------------------------------------------
(* refresh: four queries, one action each.                                 *)

LookupPoint(t) == IF FindsActive(t) /\ t \notin expired THEN "found" ELSE "refused"

RefreshFinds(r, t) ==
    /\ Delivered(t)
    /\ Begins(r, "refresh", t, subject[t], LookupPoint(t))
    /\ UNCHANGED <<token, world>>

\* The user's status is read on login alone.
AnyUserPasses(u) == "checked"

UserPoint(u) == IF u \in disabled THEN "refused" ELSE "checked"

RefreshChecksUser(r) ==
    /\ kind[r] = "refresh"
    /\ Goes(r, "found", UserPoint(subject[r]))
    /\ UNCHANGED <<token, world, request>>

\* The rotation: the presented token is revoked before the next is issued.  The
\* update may take effect and its answer be lost.
RefreshRevokes(r) ==
    /\ kind[r] = "refresh"
    /\ Goes(r, "checked", "issuing") \/ Goes(r, "checked", "failed")
    /\ Revoke(presented[r])
    /\ UNCHANGED <<world, request>>

\* issue(): the end of login and of refresh.  The insert may commit and its
\* answer be lost: then nobody holds the token.
Issues(r) ==
    /\ Goes(r, "issuing", "answered") \/ Goes(r, "issuing", "failed")
    /\ InsertToken(r)
    /\ UNCHANGED <<world, request>>

----------------------------------------------------------------------------
(* logout: an active token is revoked, expired or not; any other is ignored. *)

LogoutPoint(t) == IF FindsActive(t) THEN "found" ELSE "answered"

LogoutFinds(r, t) ==
    /\ Delivered(t)
    /\ Begins(r, "logout", t, subject[t], LogoutPoint(t))
    /\ UNCHANGED <<token, world>>

LogoutRevokes(r) ==
    /\ kind[r] = "logout"
    /\ Goes(r, "found", "answered") \/ Goes(r, "found", "failed")
    /\ Revoke(presented[r])
    /\ UNCHANGED <<world, request>>

----------------------------------------------------------------------------
\* A handler that gives the spent token back when it cannot issue the next.
FailsAndRestores(r) ==
    /\ kind[r] = "refresh"
    /\ Goes(r, "issuing", "failed")
    /\ token' = [token EXCEPT ![presented[r]] = "active"]
    /\ UNCHANGED <<world, request>>

\* A query fails, or the API dies: what the request did so far stays.
RequestFails(r) ==
    /\ at[r] \in {"found", "checked", "issuing"}
    /\ at' = [at EXCEPT ![r] = "failed"]
    /\ UNCHANGED <<token, world, request>>

Expires(t) ==
    /\ token[t] # "unissued" /\ t \notin expired
    /\ expired' = expired \cup {t}
    /\ UNCHANGED <<token, disabled, request, at>>

\* An operator takes a user out of service, in the database.
DisableUser(u) ==
    /\ u \notin disabled
    /\ disabled' = disabled \cup {u}
    /\ late' = late \cup {r \in Requests : /\ kind[r] = "refresh" /\ at[r] = "found"
                                          /\ subject[r] = u}
    /\ UNCHANGED <<token, expired, kind, presented, subject, at>>

\* The user is back in service, for requests that have not read its row too.
EnableUser(u) ==
    /\ u \in disabled
    /\ disabled' = disabled \ {u}
    /\ late' = {r \in late : subject[r] # u}
    /\ UNCHANGED <<token, expired, kind, presented, subject, at>>

Next ==
    \/ \E r \in Requests :
          \/ \E u \in Users : LoginVerifies(r, u)
          \/ \E t \in Requests : RefreshFinds(r, t) \/ LogoutFinds(r, t)
          \/ RefreshChecksUser(r) \/ RefreshRevokes(r) \/ Issues(r)
          \/ LogoutRevokes(r) \/ RequestFails(r)
          \/ Expires(r)
    \/ \E u \in Users : DisableUser(u) \/ EnableUser(u)

Spec == Init /\ [][Next]_vars

----------------------------------------------------------------------------
(* Properties.                                                             *)

TypeOK ==
    /\ token \in [Requests -> {"unissued", "active", "revoked"}]
    /\ expired \subseteq Requests
    /\ disabled \subseteq Users
    /\ kind \in [Requests -> {"none", "login", "refresh", "logout"}]
    /\ presented \in [Requests -> Requests \cup {Null}]
    /\ subject \in [Requests -> Users \cup {Null}]
    /\ at \in [Requests -> Points]
    /\ late \subseteq Requests

\* A session is handed on, never copied forward: once a refresh has issued a
\* token, the token it was bought with is dead and belonged to the same user,
\* whatever logouts and other refreshes did to that token meanwhile.
ParentsAreRevoked ==
    \A r \in Requests :
        kind[r] = "refresh" /\ token[r] # "unissued" =>
            /\ token[presented[r]] = "revoked"
            /\ subject[r] = subject[presented[r]]

\* A token that an answered refresh or logout presented can buy nothing any more:
\* a request that presents it afterwards does not get past its lookup.
SpentTokensAreRefused ==
    [][\A q, r \in Requests :
          (/\ at[q] = "answered" /\ kind[q] \in {"refresh", "logout"}
           /\ at[r] = "idle" /\ kind'[r] = "refresh"
           /\ presented'[r] = presented[q])
          => at'[r] = "refused"]_vars

\* Revocation is final: a logout that lands between the queries of a refresh is
\* not undone, and no row is ever reactivated or deleted.
RevokedIsForever ==
    [][\A t \in Requests : token[t] = "revoked" => token'[t] = "revoked"]_vars

\* A user taken out of service gets no session from a request that had not read
\* the users table by then, neither by logging in nor by a refresh, be it one that
\* had already found its session active.
DisabledUserGetsNoSession ==
    \A r \in late : token[r] = "unissued"

----------------------------------------------------------------------------
(* What the source says and concurrent requests do not keep.               *)

\* authService.ts, on the rotation: the presented token is single-use.
SingleUse ==
    \A q, r \in Requests :
        (/\ kind[q] = "refresh" /\ at[q] = "answered"
         /\ kind[r] = "refresh" /\ at[r] = "answered"
         /\ presented[q] = presented[r])
        => q = r
=============================================================================
