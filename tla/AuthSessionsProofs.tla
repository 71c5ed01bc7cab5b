------------------------ MODULE AuthSessionsProofs ------------------------
(***************************************************************************)
(* Safety of AuthSessions for any number of concurrent requests and users. *)
(* The invariant follows a token through its life: not there before the    *)
(* insert of its request, and, once it is the parent of another or was     *)
(* given up in a logout, revoked.                                          *)
(***************************************************************************)
EXTENDS AuthSessions, TLAPS

\* A request that has begun has a kind, and a token it presented exists and
\* belongs to the user it acts for.
RequestsWellFormed ==
    \A r \in Requests :
        /\ at[r] # "idle" <=> kind[r] # "none"
        /\ at[r] # "idle" => subject[r] \in Users
        /\ kind[r] = "logout" => at[r] \notin {"checked", "issuing"}
        /\ kind[r] \in {"refresh", "logout"} =>
              /\ presented[r] \in Requests
              /\ at[presented[r]] # "idle"
              /\ token[presented[r]] # "unissued"
              /\ subject[r] = subject[presented[r]]

\* The insert is the last thing a request does.
NoTokenBeforeTheInsert ==
    \A r \in Requests :
        at[r] \in {"idle", "found", "checked", "issuing"} => token[r] = "unissued"

\* A request that is past its update of the presented token.
Spent(r) ==
    \/ kind[r] = "refresh" /\ at[r] \in {"issuing", "answered"}
    \/ kind[r] = "refresh" /\ token[r] # "unissued"
    \/ kind[r] = "logout" /\ at[r] = "answered"

SpentIsRevoked == \A r \in Requests : Spent(r) => token[presented[r]] = "revoked"

\* A request of a user who was disabled in time stops at the check of the user.
LateStops ==
    \A r \in late :
        /\ subject[r] \in disabled
        /\ at[r] \notin {"idle", "checked", "issuing"}
        /\ token[r] = "unissued"

IInv ==
    /\ TypeOK
    /\ RequestsWellFormed
    /\ NoTokenBeforeTheInsert
    /\ SpentIsRevoked
    /\ LateStops

\* No request has begun and no token exists.
LEMMA InitIInv == Init => IInv
  BY NullAssumption
     DEF Init, IInv, TypeOK, Points, RequestsWellFormed, NoTokenBeforeTheInsert,
         SpentIsRevoked, Spent, LateStops

----------------------------------------------------------------------------
(* Two ways a step writes to a token.                                      *)

\* A request begins: nothing but the request's own fields is written.
LEMMA BeginsPreserves ==
    ASSUME IInv, NEW r \in Requests, NEW k \in {"login", "refresh", "logout"},
           NEW t \in Requests \cup {Null}, NEW u \in Users,
           NEW point \in {"found", "issuing", "answered", "refused"},
           Begins(r, k, t, u, point), UNCHANGED <<token, world>>,
           k # "login" => /\ t \in Requests /\ at[t] # "idle"
                          /\ token[t] # "unissued" /\ subject[t] = u,
           point = "answered" => k = "logout" /\ token[t] = "revoked",
           point = "issuing" => k = "login" /\ u \notin disabled
    PROVE  IInv'
<1> USE NullAssumption DEF IInv
<1>1. TypeOK'
  BY DEF Begins, TypeOK, Points, world
<1>2. /\ at[r] = "idle" /\ token[r] = "unissued"
      /\ \A q \in Requests :
            kind[q] \in {"refresh", "logout"} => presented[q] # r
  BY DEF Begins, NoTokenBeforeTheInsert, RequestsWellFormed
<1>3. \A q \in Requests \ {r} :
         /\ at'[q] = at[q] /\ kind'[q] = kind[q] /\ subject'[q] = subject[q]
         /\ presented'[q] = presented[q] /\ token'[q] = token[q]
  BY DEF Begins, TypeOK
<1>4. /\ at'[r] = point /\ kind'[r] = k /\ subject'[r] = u
      /\ presented'[r] = t /\ token'[r] = "unissued"
  BY <1>2 DEF Begins, TypeOK
<1>5. RequestsWellFormed'
  BY <1>2, <1>3, <1>4 DEF RequestsWellFormed
<1>6. NoTokenBeforeTheInsert'
  BY <1>3, <1>4 DEF NoTokenBeforeTheInsert
<1>7. SpentIsRevoked'
  <2> SUFFICES ASSUME NEW q \in Requests, Spent(q)'
               PROVE  token'[presented'[q]] = "revoked"
    BY DEF SpentIsRevoked
  <2>1. CASE q = r
    BY <1>4, <2>1 DEF Spent
  <2>2. CASE q # r
    <3>1. Spent(q) /\ kind[q] \in {"refresh", "logout"}
      BY <1>3, <2>2 DEF Spent
    <3> QED
      BY <1>3, <2>2, <3>1 DEF SpentIsRevoked
  <2> QED
    BY <2>1, <2>2
<1>8. LateStops'
  BY <1>2, <1>3, <1>4 DEF LateStops, Begins, TypeOK, world
<1> QED
  BY <1>1, <1>5, <1>6, <1>7, <1>8

\* A request goes on without writing to a token.
LEMMA GoesPreserves ==
    ASSUME IInv, NEW r \in Requests, NEW point \in {"checked", "refused", "failed"},
           at[r] \in {"found", "checked", "issuing"},
           at' = [at EXCEPT ![r] = point], UNCHANGED <<token, world, request>>,
           point = "checked" => kind[r] = "refresh" /\ subject[r] \notin disabled
    PROVE  IInv'
<1> USE DEF IInv, request, world
<1>1. TypeOK' /\ RequestsWellFormed'
  BY DEF TypeOK, Points, RequestsWellFormed
<1>2. NoTokenBeforeTheInsert' /\ LateStops'
  BY DEF TypeOK, NoTokenBeforeTheInsert, LateStops
<1>3. \A q \in Requests : Spent(q)' => Spent(q)
  BY DEF TypeOK, Spent
<1>4. SpentIsRevoked'
  BY <1>3 DEF SpentIsRevoked
<1> QED
  BY <1>1, <1>2, <1>4

\* The presented token is revoked, by the update of a refresh or of a logout.
LEMMA RevokePreserves ==
    ASSUME IInv, NEW r \in Requests, NEW point \in {"issuing", "answered", "failed"},
           kind[r] \in {"refresh", "logout"},
           at[r] = IF kind[r] = "refresh" THEN "checked" ELSE "found",
           point = "issuing" => kind[r] = "refresh",
           point = "answered" => kind[r] = "logout",
           at' = [at EXCEPT ![r] = point],
           Revoke(presented[r]), UNCHANGED <<world, request>>
    PROVE  IInv'
<1> DEFINE t == presented[r]
<1> USE DEF IInv, request, world
<1>1. t \in Requests /\ token[t] # "unissued" /\ token[r] = "unissued"
  BY DEF RequestsWellFormed, NoTokenBeforeTheInsert
<1>2. \A q \in Requests : token'[q] = IF q = t THEN "revoked" ELSE token[q]
  BY <1>1 DEF Revoke, TypeOK
<1>3. \A q \in Requests : at'[q] = IF q = r THEN point ELSE at[q]
  BY DEF TypeOK
<1>4. TypeOK'
  BY <1>1 DEF Revoke, TypeOK, Points
<1>5. RequestsWellFormed'
  BY <1>2, <1>3 DEF RequestsWellFormed
<1>6. NoTokenBeforeTheInsert'
  BY <1>1, <1>2, <1>3 DEF NoTokenBeforeTheInsert
<1>7. SpentIsRevoked'
  <2> SUFFICES ASSUME NEW q \in Requests, Spent(q)'
               PROVE  token'[presented[q]] = "revoked"
    BY DEF SpentIsRevoked
  <2>1. CASE q = r
    BY <1>1, <1>2, <2>1
  <2>2. CASE q # r
    <3>1. Spent(q)
      BY <1>1, <1>2, <1>3, <2>2 DEF Spent
    <3>2. token[presented[q]] = "revoked" /\ presented[q] \in Requests
      BY <3>1 DEF SpentIsRevoked, RequestsWellFormed, Spent
    <3> QED
      BY <1>2, <3>2
  <2> QED
    BY <2>1, <2>2
<1>8. LateStops'
  BY <1>1, <1>2, <1>3 DEF LateStops, TypeOK
<1> QED
  BY <1>4, <1>5, <1>6, <1>7, <1>8

\* The insert: the request's own token, which nobody can have presented yet.
LEMMA IssuePreserves ==
    ASSUME IInv, NEW r \in Requests, Issues(r)
    PROVE  IInv'
<1> USE DEF IInv, request, world
<1>1. PICK point \in {"answered", "failed"} : at' = [at EXCEPT ![r] = point]
  BY DEF Issues, Goes
<1>2. at[r] = "issuing" /\ token[r] = "unissued"
  BY DEF Issues, Goes, NoTokenBeforeTheInsert
<1>3. \A q \in Requests : token'[q] = IF q = r THEN "active" ELSE token[q]
  BY DEF Issues, InsertToken, TypeOK
<1>4. \A q \in Requests : at'[q] = IF q = r THEN point ELSE at[q]
  BY <1>1 DEF TypeOK
<1>5. UNCHANGED <<world, request>>
  BY DEF Issues
<1>6. TypeOK'
  BY <1>1, <1>5 DEF Issues, InsertToken, TypeOK, Points
<1>7. RequestsWellFormed' /\ NoTokenBeforeTheInsert'
  BY <1>2, <1>3, <1>4, <1>5 DEF RequestsWellFormed, NoTokenBeforeTheInsert
<1>8. SpentIsRevoked'
  <2> SUFFICES ASSUME NEW q \in Requests, Spent(q)'
               PROVE  token'[presented[q]] = "revoked"
    BY <1>5 DEF SpentIsRevoked
  <2>1. Spent(q)
    BY <1>2, <1>3, <1>4, <1>5 DEF Spent, RequestsWellFormed
  <2>2. token[presented[q]] = "revoked" /\ presented[q] \in Requests
    BY <2>1 DEF SpentIsRevoked, RequestsWellFormed, Spent
  <2> QED
    BY <1>2, <1>3, <2>2
<1>9. LateStops'
  BY <1>2, <1>3, <1>4, <1>5 DEF LateStops, TypeOK
<1> QED
  BY <1>6, <1>7, <1>8, <1>9

----------------------------------------------------------------------------
\* Every step preserves the invariant: requests begin, go on, revoke and issue.
LEMMA NextIInv == IInv /\ [Next]_vars => IInv'
<1> SUFFICES ASSUME IInv, [Next]_vars PROVE IInv'
  OBVIOUS
<1>1. ASSUME NEW r \in Requests, NEW u \in Users, LoginVerifies(r, u)
      PROVE  IInv'
  BY <1>1, BeginsPreserves DEF LoginVerifies, LoginPoint
<1>2. ASSUME NEW r \in Requests, NEW t \in Requests,
             RefreshFinds(r, t) \/ LogoutFinds(r, t)
      PROVE  IInv'
  <2>1. at[t] # "idle" /\ token[t] # "unissued" /\ subject[t] \in Users
    BY <1>2 DEF RefreshFinds, LogoutFinds, Delivered, IInv, RequestsWellFormed
  <2>2. token[t] # "active" => token[t] = "revoked"
    BY <2>1 DEF IInv, TypeOK
  <2>3. CASE RefreshFinds(r, t)
    BY <2>1, <2>3, BeginsPreserves DEF RefreshFinds, LookupPoint
  <2>4. CASE LogoutFinds(r, t)
    BY <2>1, <2>2, <2>4, BeginsPreserves
       DEF LogoutFinds, LogoutPoint, FindsActive
  <2> QED
    BY <1>2, <2>3, <2>4
<1>3. ASSUME NEW r \in Requests, RefreshChecksUser(r) PROVE IInv'
  BY <1>3, GoesPreserves DEF RefreshChecksUser, Goes, UserPoint
<1>4. ASSUME NEW r \in Requests, RefreshRevokes(r) PROVE IInv'
  BY <1>4, RevokePreserves DEF RefreshRevokes, Goes
<1>5. ASSUME NEW r \in Requests, LogoutRevokes(r) PROVE IInv'
  BY <1>5, RevokePreserves DEF LogoutRevokes, Goes
<1>6. ASSUME NEW r \in Requests, Issues(r) PROVE IInv'
  BY <1>6, IssuePreserves
<1>7. ASSUME NEW r \in Requests, RequestFails(r) PROVE IInv'
  BY <1>7, GoesPreserves DEF RequestFails
<1>8. ASSUME NEW t \in Requests, Expires(t) PROVE IInv'
  BY <1>8 DEF Expires, request, IInv, TypeOK, RequestsWellFormed,
              NoTokenBeforeTheInsert, SpentIsRevoked, Spent, LateStops
<1>9. ASSUME NEW u \in Users, DisableUser(u) PROVE IInv'
  BY <1>9 DEF DisableUser, request, IInv, TypeOK, RequestsWellFormed,
              NoTokenBeforeTheInsert, SpentIsRevoked, Spent, LateStops
<1>10. ASSUME NEW u \in Users, EnableUser(u) PROVE IInv'
  BY <1>10 DEF EnableUser, IInv, TypeOK, RequestsWellFormed,
               NoTokenBeforeTheInsert, SpentIsRevoked, Spent, LateStops
<1>11. CASE UNCHANGED vars
  BY <1>11 DEF vars, IInv, TypeOK, RequestsWellFormed, NoTokenBeforeTheInsert,
               SpentIsRevoked, Spent, LateStops
<1> QED
  BY <1>1, <1>2, <1>3, <1>4, <1>5, <1>6, <1>7, <1>8, <1>9, <1>10, <1>11 DEF Next

\* The inductive invariant, and type correctness with it.
THEOREM Invariance == Spec => []IInv
  BY InitIInv, NextIInv, PTL DEF Spec

\* TypeOK: a token is not there, active or revoked, and a request is at one of
\* the awaits of its handler, whatever requests overlap.
THEOREM TypeCorrect == Spec => []TypeOK
<1>1. IInv => TypeOK
  BY DEF IInv
<1> QED
  BY <1>1, Invariance, PTL

\* ParentsAreRevoked: whatever requests overlap, a token that bought another is
\* revoked by the time the other exists, and both belong to one user.
THEOREM ParentsCorrect == Spec => []ParentsAreRevoked
<1>1. IInv => ParentsAreRevoked
  BY DEF IInv, TypeOK, RequestsWellFormed, SpentIsRevoked, Spent, ParentsAreRevoked
<1> QED
  BY <1>1, Invariance, PTL

\* DisabledUserGetsNoSession: a request that reads the users table after its user
\* was disabled issues nothing.
THEOREM DisabledCorrect == Spec => []DisabledUserGetsNoSession
<1>1. IInv => DisabledUserGetsNoSession
  BY DEF IInv, LateStops, DisabledUserGetsNoSession
<1> QED
  BY <1>1, Invariance, PTL

\* RevokedIsForever: no step of any request revives a revoked token.
THEOREM RevocationCorrect == Spec => RevokedIsForever
<1>1. ASSUME IInv, [Next]_vars, NEW t \in Requests, token[t] = "revoked"
      PROVE  token'[t] = "revoked"
  <2>1. CASE UNCHANGED token
    BY <1>1, <2>1
  <2>2. ASSUME NEW q \in Requests, Revoke(q) PROVE token'[t] = "revoked"
    BY <1>1, <2>2 DEF Revoke, IInv, TypeOK
  <2>3. ASSUME NEW r \in Requests, Issues(r) PROVE token'[t] = "revoked"
    BY <1>1, <2>3 DEF Issues, Goes, InsertToken, IInv, TypeOK,
                      NoTokenBeforeTheInsert
  <2>4. ASSUME NEW r \in Requests, RefreshRevokes(r) \/ LogoutRevokes(r)
        PROVE  Revoke(presented[r]) /\ presented[r] \in Requests
    BY <1>1, <2>4 DEF RefreshRevokes, LogoutRevokes, IInv, RequestsWellFormed
  <2> QED
    BY <1>1, <2>1, <2>2, <2>3, <2>4
       DEF Next, vars, LoginVerifies, RefreshFinds, LogoutFinds, RefreshChecksUser,
           RequestFails, Expires, DisableUser, EnableUser
<1>2. IInv /\ [Next]_vars
        => [\A t \in Requests : token[t] = "revoked" => token'[t] = "revoked"]_vars
  BY <1>1
<1> QED
  BY <1>2, Invariance, PTL DEF Spec, RevokedIsForever

\* SpentTokensAreRefused: a refresh that begins after another refresh or a logout
\* of the same token was answered ends at its lookup.
THEOREM SpentCorrect == Spec => SpentTokensAreRefused
<1> DEFINE Refused ==
      \A q, r \in Requests :
          (/\ at[q] = "answered" /\ kind[q] \in {"refresh", "logout"}
           /\ at[r] = "idle" /\ kind'[r] = "refresh"
           /\ presented'[r] = presented[q])
          => at'[r] = "refused"
<1>1. ASSUME IInv, [Next]_vars, NEW q \in Requests, NEW r \in Requests,
             at[q] = "answered", kind[q] \in {"refresh", "logout"},
             at[r] = "idle", kind'[r] = "refresh", presented'[r] = presented[q]
      PROVE  at'[r] = "refused"
  <2> USE <1>1 DEF IInv
  <2>1. token[presented[q]] = "revoked"
    BY DEF SpentIsRevoked, Spent
  <2>2. kind[r] = "none"
    BY DEF TypeOK, RequestsWellFormed
  <2>3. \A t \in Requests : RefreshFinds(r, t) => at'[r] = "refused"
    <3> SUFFICES ASSUME NEW t \in Requests, RefreshFinds(r, t)
                 PROVE  at'[r] = "refused"
      OBVIOUS
    <3>1. presented'[r] = t /\ at'[r] = LookupPoint(t)
      BY DEF RefreshFinds, Begins, TypeOK
    <3> QED
      BY <2>1, <3>1 DEF LookupPoint, FindsActive
  <2>4. \E t \in Requests : RefreshFinds(r, t)
    BY <2>2 DEF Next, vars, request, LoginVerifies, RefreshFinds, LogoutFinds,
                Begins, RefreshChecksUser, RefreshRevokes, Issues, LogoutRevokes,
                RequestFails, Expires, DisableUser, EnableUser, TypeOK
  <2> QED
    BY <2>3, <2>4
<1>2. IInv /\ [Next]_vars => [Refused]_vars
  BY <1>1
<1> QED
  BY <1>2, Invariance, PTL DEF Spec, SpentTokensAreRefused
=============================================================================
