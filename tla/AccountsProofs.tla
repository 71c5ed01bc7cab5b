--------------------------- MODULE AccountsProofs ---------------------------
(***************************************************************************)
(* Accounts, proved for any number of requests, calls, emails and roles.   *)
(* Every step of it is a step of AuthSessions or leaves the sessions       *)
(* alone, so what AuthSessionsProofs shows of sessions holds here too.     *)
(* The inductive invariant adds to the properties what has been set by     *)
(* each point of a handler: a request acts for a user who has a row and    *)
(* has no role before it reads it; a call past the gate has an email.      *)
(***************************************************************************)
EXTENDS Accounts, AuthSessionsProofs

----------------------------------------------------------------------------
(* The sessions of Accounts are those of AuthSessions.                     *)

LEMMA SessionsStep == [AccountsNext]_accountsVars => [Next]_vars
<1> SUFFICES ASSUME [AccountsNext]_accountsVars PROVE [Next]_vars
  OBVIOUS
<1>1. ASSUME NEW r \in Requests, NEW u \in Users, LoginReads(r, u) PROVE Next
  BY <1>1 DEF LoginReads, Next
<1>2. ASSUME NEW r \in Requests, RefreshReads(r) PROVE Next
  BY <1>2 DEF RefreshReads, Next
<1>3. ASSUME NEW r \in Requests, SessionStep(r) PROVE Next
  BY <1>3 DEF SessionStep, Next
<1>4. ASSUME NEW u \in Managed, ChangeStatus(u) PROVE Next
  BY <1>4, AccountsAssumption DEF ChangeStatus, Next
<1>5. ASSUME NEW r \in Requests, Lapses(r) PROVE UNCHANGED vars
  BY <1>5 DEF Lapses
<1>6. ASSUME NEW c \in Calls,
             \/ \E t \in Requests, e \in Emails : CreateEnters(c, t, e)
             \/ CreateLooksUp(c) \/ CallFails(c)
             \/ \E role \in Roles : CreateInserts(c, role)
      PROVE  UNCHANGED vars
  BY <1>6 DEF CreateEnters, CreateLooksUp, CreateInserts, CallFails
<1>7. ASSUME NEW u \in Managed, NEW role \in Roles, ChangeRole(u, role)
      PROVE  UNCHANGED vars
  BY <1>7 DEF ChangeRole
<1>8. CASE UNCHANGED accountsVars
  BY <1>8 DEF accountsVars
<1> QED
  BY <1>1, <1>2, <1>3, <1>4, <1>5, <1>6, <1>7, <1>8 DEF AccountsNext

\* Accounts implements AuthSessions: whatever operators and calls of POST /users
\* do besides, the requests are logins, refreshes and logouts of that module.
THEOREM AccountsKeepSessions == AccountsSpec => Spec
<1>1. AccountsInit => Init
  BY DEF AccountsInit
<1> QED
  BY <1>1, SessionsStep, PTL DEF AccountsSpec, Spec

\* How a request moves: it leaves "idle" and "found" for good, stays failed, and
\* never changes the user it acts for.
LEMMA RequestsMoveOn ==
    ASSUME IInv, [Next]_vars, NEW q \in Requests
    PROVE  /\ at'[q] = "idle" => at[q] = "idle"
           /\ at'[q] = "found" => at[q] \in {"idle", "found"}
           /\ at[q] = "failed" => at'[q] = "failed"
           /\ at[q] # "idle" => subject'[q] = subject[q]
           /\ at[q] # "idle" => kind'[q] = kind[q]
<1> USE DEF IInv, TypeOK, request, world
<1>1. ASSUME NEW r \in Requests,
             \/ \E u \in Users : LoginVerifies(r, u)
             \/ \E t \in Requests : RefreshFinds(r, t) \/ LogoutFinds(r, t)
      PROVE  /\ at[r] = "idle"
             /\ \E point \in Points \ {"idle"} : at' = [at EXCEPT ![r] = point]
             /\ \E u \in Users \cup {Null} : subject' = [subject EXCEPT ![r] = u]
             /\ \E k \in {"login", "refresh", "logout"} : kind' = [kind EXCEPT ![r] = k]
  BY <1>1 DEF LoginVerifies, RefreshFinds, LogoutFinds, Begins, LoginPoint,
              LookupPoint, LogoutPoint, Points
<1>2. ASSUME NEW r \in Requests,
             RefreshChecksUser(r) \/ RefreshRevokes(r) \/ Issues(r)
             \/ LogoutRevokes(r) \/ RequestFails(r)
      PROVE  /\ at[r] \in {"found", "checked", "issuing"}
             /\ \E point \in Points \ {"idle", "found"} : at' = [at EXCEPT ![r] = point]
             /\ UNCHANGED <<subject, kind>>
  BY <1>2 DEF RefreshChecksUser, RefreshRevokes, Issues, LogoutRevokes, RequestFails,
              Goes, UserPoint, Points
<1>3. ASSUME \/ \E t \in Requests : Expires(t)
             \/ \E u \in Users : DisableUser(u) \/ EnableUser(u)
             \/ UNCHANGED vars
      PROVE  UNCHANGED <<at, subject, kind>>
  BY <1>3 DEF Expires, DisableUser, EnableUser, vars
<1>4. \/ \E r \in Requests : \/ \E u \in Users : LoginVerifies(r, u)
                             \/ \E t \in Requests : RefreshFinds(r, t) \/ LogoutFinds(r, t)
      \/ \E r \in Requests : RefreshChecksUser(r) \/ RefreshRevokes(r) \/ Issues(r)
                             \/ LogoutRevokes(r) \/ RequestFails(r)
      \/ \E t \in Requests : Expires(t)
      \/ \E u \in Users : DisableUser(u) \/ EnableUser(u)
      \/ UNCHANGED vars
  BY DEF Next
<1> QED
  BY <1>1, <1>2, <1>3, <1>4

----------------------------------------------------------------------------
(* The inductive invariant.                                                *)

\* A request acts for a user who has a row, and carries no role before it has
\* read that row.
RolesAreRead ==
    \A r \in Requests :
        /\ at[r] # "idle" => account[subject[r]] # Null
        /\ at[r] \in {"idle", "found"} => granted[r] = Null

\* A call that got past the gate has an email.
CallsAreFilled ==
    \A c \in Calls :
        callAt[c] \in {"authorized", "hashing", "created", "conflict"} => email[c] \in Emails

AccountsIInv ==
    /\ IInv
    /\ AccountsTypeOK
    /\ RolesAreRead
    /\ CallsAreFilled
    /\ OneAccountPerEmail
    /\ AnswersMatchTheTable

\* The founder's is the only account, and no request or call has begun.
LEMMA InitAccounts == AccountsInit => AccountsIInv
<1> SUFFICES ASSUME AccountsInit PROVE AccountsIInv
  OBVIOUS
<1> USE AccountsAssumption DEF AccountsInit
<1>1. IInv
  BY InitIInv
<1>2. AccountsTypeOK
  BY <1>1 DEF IInv, AccountsTypeOK, CallPoints, Refusals, Rows
<1>3. RolesAreRead /\ CallsAreFilled
  BY DEF Init, RolesAreRead, CallsAreFilled
<1>4. \A u \in Users : account[u] # Null => u = Founder
  OBVIOUS
<1>5. OneAccountPerEmail
  BY <1>4 DEF OneAccountPerEmail, Holds
<1>6. AnswersMatchTheTable
  BY <1>4 DEF AnswersMatchTheTable
<1> QED
  BY <1>1, <1>2, <1>3, <1>5, <1>6 DEF AccountsIInv

\* Steps of the sessions leave the table and the calls alone, so only the
\* requests' roles are to be looked at.
LEMMA TableStands ==
    ASSUME AccountsIInv, UNCHANGED <<account, calls>>
    PROVE  CallsAreFilled' /\ OneAccountPerEmail' /\ AnswersMatchTheTable'
  BY DEF AccountsIInv, calls, CallsAreFilled, OneAccountPerEmail, AnswersMatchTheTable,
         Holds

\* login and refresh read the row of a user in service and sign its role.
LEMMA ReadsPreserve ==
    ASSUME AccountsIInv, NEW r \in Requests,
           (\E u \in Users : LoginReads(r, u)) \/ RefreshReads(r)
    PROVE  AccountsIInv'
<1> USE DEF AccountsIInv
<1>1. IInv'
  BY NextIInv DEF LoginReads, RefreshReads, Next
<1>2. PICK u \in Users :
         /\ account[u] # Null /\ Reads(r, u) /\ subject'[r] = u
         /\ at[r] \in {"idle", "found"} /\ at'[r] \notin {"idle", "found"}
  <2>1. ASSUME NEW u \in Users, LoginReads(r, u)
        PROVE  /\ account[u] # Null /\ Reads(r, u) /\ subject'[r] = u
               /\ at[r] = "idle" /\ at'[r] \notin {"idle", "found"}
    BY <2>1 DEF LoginReads, LoginVerifies, LoginPoint, Begins, IInv, TypeOK
  <2>2. ASSUME RefreshReads(r)
        PROVE  /\ subject[r] \in Users /\ account[subject[r]] # Null
               /\ Reads(r, subject[r]) /\ subject'[r] = subject[r]
               /\ at[r] = "found" /\ at'[r] \notin {"idle", "found"}
    BY <2>2 DEF RefreshReads, RefreshChecksUser, Goes, UserPoint, request, IInv, TypeOK,
                RequestsWellFormed, RolesAreRead
  <2> QED
    BY <2>1, <2>2
<1>3. account[u].role \in Roles
  BY <1>2 DEF AccountsTypeOK, Rows
<1>4. \A q \in Requests \ {r} : granted'[q] = granted[q]
  BY <1>2 DEF Reads, AccountsTypeOK
<1>5. AccountsTypeOK'
  BY <1>1, <1>2, <1>3 DEF Reads, SignedRole, calls, AccountsTypeOK, IInv
<1>6. RolesAreRead'
  <2> SUFFICES ASSUME NEW q \in Requests
               PROVE  /\ at'[q] # "idle" => account'[subject'[q]] # Null
                      /\ at'[q] \in {"idle", "found"} => granted'[q] = Null
    BY DEF RolesAreRead
  <2>1. CASE q = r
    BY <1>2, <2>1 DEF Reads
  <2>2. CASE q # r
    <3>1. at'[q] = at[q] /\ subject'[q] = subject[q]
      BY <2>2 DEF LoginReads, LoginVerifies, Begins, RefreshReads, RefreshChecksUser,
                  Goes, request, IInv, TypeOK
    <3> QED
      BY <1>2, <1>4, <2>2, <3>1 DEF Reads, RolesAreRead
  <2> QED
    BY <2>1, <2>2
<1>7. UNCHANGED <<account, calls>>
  BY <1>2 DEF Reads
<1> QED
  BY <1>1, <1>5, <1>6, <1>7, TableStands

\* The other steps of a request act for whoever the presented token belongs to.
LEMMA SessionPreserves ==
    ASSUME AccountsIInv, NEW r \in Requests, SessionStep(r)
    PROVE  AccountsIInv'
<1> USE DEF AccountsIInv
<1>1. [Next]_vars
  BY SessionsStep DEF SessionStep, Next
<1>2. IInv'
  BY <1>1, NextIInv
<1>3. UNCHANGED <<account, granted, lapsed, calls>>
  BY DEF SessionStep, access
<1>4. \A q \in Requests : at[q] = "idle" /\ at'[q] # "idle" =>
         \E t \in Requests : at[t] # "idle" /\ subject'[q] = subject[t]
  <2> SUFFICES ASSUME NEW q \in Requests, at[q] = "idle", at'[q] # "idle"
               PROVE  \E t \in Requests : at[t] # "idle" /\ subject'[q] = subject[t]
    OBVIOUS
  <2>1. PICK t \in Requests : RefreshFinds(r, t) \/ LogoutFinds(r, t)
    BY DEF SessionStep, RefreshRevokes, Issues, LogoutRevokes, RequestFails, Expires,
           Goes, IInv, TypeOK
  <2>2. at[t] # "idle" /\ at' = [at EXCEPT ![r] = at'[r]]
        /\ subject' = [subject EXCEPT ![r] = subject[t]]
    BY <2>1 DEF RefreshFinds, LogoutFinds, Begins, Delivered, IInv, TypeOK
  <2> QED
    BY <2>2 DEF IInv, TypeOK
<1>5. RolesAreRead'
  BY <1>1, <1>3, <1>4, RequestsMoveOn DEF RolesAreRead
<1>6. AccountsTypeOK'
  BY <1>2, <1>3 DEF AccountsTypeOK, IInv, calls
<1> QED
  BY <1>2, <1>3, <1>5, <1>6, TableStands

\* An access token lapses.
LEMMA LapsePreserves ==
    ASSUME AccountsIInv, NEW t \in Requests, Lapses(t)
    PROVE  AccountsIInv'
<1> USE DEF AccountsIInv
<1>1. IInv' /\ UNCHANGED <<vars, account, granted, calls>>
  BY NextIInv DEF Lapses
<1>2. AccountsTypeOK' /\ RolesAreRead'
  BY <1>1 DEF Lapses, vars, calls, IInv, AccountsTypeOK, RolesAreRead
<1> QED
  BY <1>1, <1>2, TableStands

----------------------------------------------------------------------------
(* POST /users.                                                            *)

\* A call has stored a row only if it ended as created or failed.
LEMMA NoRowYet ==
    ASSUME AccountsIInv, NEW c \in Calls, callAt[c] \notin {"created", "failed"}
    PROVE  account[c] = Null
  BY DEF AccountsIInv, AnswersMatchTheTable

\* What a call needs of a step that stores nothing.
LEMMA CallGoesOn ==
    ASSUME AccountsIInv, NEW c \in Calls, account[c] = Null,
           NEW point \in CallPoints \ {"created"}, callAt' = [callAt EXCEPT ![c] = point],
           NEW e \in Emails \cup {Null}, email' = [email EXCEPT ![c] = e],
           UNCHANGED <<vars, account, access>>,
           point \in {"authorized", "hashing", "conflict"} => e \in Emails,
           point = "conflict" => Taken(e)
    PROVE  AccountsIInv'
<1> USE DEF AccountsIInv
<1>1. IInv' /\ RolesAreRead'
  BY NextIInv DEF vars, access, RolesAreRead
<1>2. AccountsTypeOK' /\ CallsAreFilled'
  BY <1>1 DEF IInv, AccountsTypeOK, access, CallsAreFilled
<1>3. OneAccountPerEmail'
  BY DEF OneAccountPerEmail, Holds
<1>4. AnswersMatchTheTable'
  <2> SUFFICES ASSUME NEW d \in Calls
               PROVE  /\ callAt'[d] = "created" => Holds(d, email[d])'
                      /\ callAt'[d] = "conflict" => \E u \in Users \ {d} : Holds(u, email[d])'
                      /\ account'[d] # Null => callAt'[d] \in {"created", "failed"}
    BY DEF AnswersMatchTheTable
  <2>1. CASE d = c
    BY <2>1 DEF AccountsTypeOK, Taken, Holds
  <2>2. CASE d # c
    BY <2>2 DEF AccountsTypeOK, AnswersMatchTheTable, Holds
  <2> QED
    BY <2>1, <2>2
<1> QED
  BY <1>1, <1>2, <1>3, <1>4

\* The gate, the lookup, and a call that dies.
LEMMA CallPreserves ==
    ASSUME AccountsIInv, NEW c \in Calls,
           \/ \E t \in Requests, e \in Emails : CreateEnters(c, t, e)
           \/ CreateLooksUp(c) \/ CallFails(c)
    PROVE  AccountsIInv'
<1> USE DEF AccountsIInv, CallPoints, Refusals
<1>1. account[c] = Null
  BY NoRowYet DEF CreateEnters, CreateLooksUp, CallFails, CallGoes
<1>2. ASSUME NEW t \in Requests, NEW e \in Emails, CreateEnters(c, t, e)
      PROVE  AccountsIInv'
  <2>1. Gate(t) \in {"unauthenticated", "forbidden", "authorized"}
    BY DEF Gate
  <2> QED
    BY <1>1, <1>2, <2>1, CallGoesOn DEF CreateEnters, CallGoes
<1>3. ASSUME CreateLooksUp(c) \/ CallFails(c) PROVE AccountsIInv'
  <2>1. /\ email' = [email EXCEPT ![c] = email[c]] /\ email[c] \in Emails
        /\ UNCHANGED <<vars, account, access>>
    BY <1>3 DEF CreateLooksUp, CallFails, CallGoes, AccountsTypeOK, CallsAreFilled
  <2>2. PICK point \in {"conflict", "hashing", "failed"} :
           /\ callAt' = [callAt EXCEPT ![c] = point]
           /\ point = "conflict" => Taken(email[c])
    BY <1>3 DEF CreateLooksUp, CallFails, CallGoes
  <2> QED
    BY <1>1, <2>1, <2>2, CallGoesOn
<1> QED
  BY <1>2, <1>3

\* The insert finds the email free under the unique index, or is refused by it.
LEMMA InsertPreserves ==
    ASSUME AccountsIInv, NEW c \in Calls, NEW role \in Roles, CreateInserts(c, role)
    PROVE  AccountsIInv'
<1> USE DEF AccountsIInv
<1>1. callAt[c] = "hashing" /\ account[c] = Null /\ email[c] \in Emails
  BY NoRowYet DEF CreateInserts, CallGoes, CallsAreFilled
<1>2. CASE Taken(email[c])
  <2>1. PICK point \in {"internal"} : callAt' = [callAt EXCEPT ![c] = point]
    BY <1>2 DEF CreateInserts, CallGoes
  <2>2. /\ email' = [email EXCEPT ![c] = email[c]]
        /\ UNCHANGED <<vars, account, access>>
    BY <1>2 DEF CreateInserts, CallGoes, AccountsTypeOK
  <2> QED
    BY <1>1, <2>1, <2>2, CallGoesOn DEF CallPoints, Refusals
<1>3. CASE ~ Taken(email[c])
  <2>1. PICK point \in {"created", "failed"} : callAt' = [callAt EXCEPT ![c] = point]
    BY <1>3 DEF CreateInserts, CallGoes
  <2>2. /\ account' = [account EXCEPT ![c] = NewRow(c, role)]
        /\ UNCHANGED <<vars, access, email>>
    BY <1>3 DEF CreateInserts
  <2>3. NewRow(c, role) \in Rows
    BY <1>1 DEF NewRow, Rows
  <2>4. /\ account'[c] = NewRow(c, role) /\ account'[c] # Null
        /\ account'[c].email = email[c]
        /\ \A u \in Users \ {c} : account'[u] = account[u]
    BY <2>2, <2>3, AccountsAssumption DEF AccountsTypeOK, NewRow
  <2>5. IInv'
    BY <2>2, NextIInv
  <2>6. RolesAreRead'
    BY <2>2, <2>4 DEF vars, access, RolesAreRead, IInv, RequestsWellFormed
  <2>7. AccountsTypeOK' /\ CallsAreFilled'
    BY <1>1, <2>1, <2>2, <2>3, <2>5
       DEF IInv, AccountsTypeOK, access, CallPoints, CallsAreFilled
  <2>8. OneAccountPerEmail'
    BY <1>3, <2>4 DEF OneAccountPerEmail, Holds, Taken
  <2>9. AnswersMatchTheTable'
    <3> SUFFICES ASSUME NEW d \in Calls
                 PROVE  /\ callAt'[d] = "created" => Holds(d, email[d])'
                        /\ callAt'[d] = "conflict" =>
                              \E u \in Users \ {d} : Holds(u, email[d])'
                        /\ account'[d] # Null => callAt'[d] \in {"created", "failed"}
      BY DEF AnswersMatchTheTable
    <3>1. CASE d = c
      BY <2>1, <2>2, <2>4, <3>1 DEF Holds, AccountsTypeOK
    <3>2. CASE d # c
      <4>1. callAt'[d] = callAt[d] /\ account'[d] = account[d] /\ email'[d] = email[d]
        BY <2>1, <2>2, <2>4, <3>2, AccountsAssumption DEF AccountsTypeOK
      <4>2. \A u \in Users : Holds(u, email[d]) => Holds(u, email[d])'
        BY <1>1, <2>4, <4>1 DEF Holds
      <4> QED
        BY <4>1, <4>2, AccountsAssumption DEF AnswersMatchTheTable
    <3> QED
      BY <3>1, <3>2
  <2> QED
    BY <2>5, <2>6, <2>7, <2>8, <2>9
<1> QED
  BY <1>2, <1>3

----------------------------------------------------------------------------
(* Operators.                                                              *)

\* A change of role leaves every email with its row.
LEMMA ChangeRolePreserves ==
    ASSUME AccountsIInv, NEW u \in Users, NEW role \in Roles, ChangeRole(u, role)
    PROVE  AccountsIInv'
<1> USE DEF AccountsIInv
<1> DEFINE row == [email |-> account[u].email, role |-> role]
<1>1. account[u] \in Rows /\ account[u] # Null
  BY DEF ChangeRole, AccountsTypeOK
<1>2. row \in Rows /\ row # Null /\ row.email = account[u].email
  BY <1>1, AccountsAssumption DEF Rows
<1>3. /\ account'[u] = row /\ \A v \in Users \ {u} : account'[v] = account[v]
      /\ UNCHANGED <<vars, access, calls>>
  BY DEF ChangeRole, AccountsTypeOK
<1>4. \A v \in Users : /\ account'[v] # Null <=> account[v] # Null
                       /\ \A e \in Emails \cup {Null} : Holds(v, e)' <=> Holds(v, e)
  BY <1>1, <1>2, <1>3 DEF Holds
<1>5. IInv'
  BY <1>3, NextIInv
<1>6. RolesAreRead' /\ CallsAreFilled'
  BY <1>3, <1>4 DEF vars, access, calls, RolesAreRead, CallsAreFilled, IInv,
                    RequestsWellFormed
<1>7. AccountsTypeOK'
  BY <1>2, <1>3, <1>5 DEF ChangeRole, IInv, AccountsTypeOK, access, calls
<1>8. OneAccountPerEmail'
  BY <1>4 DEF OneAccountPerEmail
<1>9. AnswersMatchTheTable'
  <2> SUFFICES ASSUME NEW d \in Calls
               PROVE  /\ callAt'[d] = "created" => Holds(d, email[d])'
                      /\ callAt'[d] = "conflict" => \E v \in Users \ {d} : Holds(v, email[d])'
                      /\ account'[d] # Null => callAt'[d] \in {"created", "failed"}
    BY DEF AnswersMatchTheTable
  <2>1. callAt'[d] = callAt[d] /\ email'[d] = email[d] /\ email[d] \in Emails \cup {Null}
    BY <1>3 DEF calls, AccountsTypeOK
  <2>2. \A v \in Users : Holds(v, email[d])' <=> Holds(v, email[d])
    BY <1>4, <2>1 DEF Holds
  <2> QED
    BY <1>4, <2>1, <2>2, AccountsAssumption DEF AnswersMatchTheTable
<1> QED
  BY <1>5, <1>6, <1>7, <1>8, <1>9

\* A change of status is a step of the sessions.
LEMMA ChangeStatusPreserves ==
    ASSUME AccountsIInv, NEW u \in Users, ChangeStatus(u)
    PROVE  AccountsIInv'
<1> USE DEF AccountsIInv
<1>1. IInv' /\ UNCHANGED <<at, subject, account, granted, lapsed, calls>>
  BY NextIInv DEF ChangeStatus, DisableUser, EnableUser, Next, access
<1>2. AccountsTypeOK' /\ RolesAreRead'
  BY <1>1 DEF calls, IInv, AccountsTypeOK, RolesAreRead
<1> QED
  BY <1>1, <1>2, TableStands

----------------------------------------------------------------------------
\* The invariant holds throughout, for any requests, calls, emails and roles.
LEMMA AccountsNextIInv == AccountsIInv /\ [AccountsNext]_accountsVars => AccountsIInv'
<1> SUFFICES ASSUME AccountsIInv, [AccountsNext]_accountsVars PROVE AccountsIInv'
  OBVIOUS
<1>1. CASE AccountsNext
  BY <1>1, AccountsAssumption, ReadsPreserve, SessionPreserves, LapsePreserves,
     CallPreserves, InsertPreserves, ChangeRolePreserves, ChangeStatusPreserves
     DEF AccountsNext
<1>2. CASE UNCHANGED accountsVars
  <2>1. IInv'
    BY <1>2, NextIInv DEF accountsVars, AccountsIInv
  <2> QED
    BY <1>2, <2>1, TableStands
       DEF accountsVars, vars, access, calls, AccountsIInv, IInv, AccountsTypeOK,
           RolesAreRead
<1> QED
  BY <1>1, <1>2

THEOREM AccountsInvariance == AccountsSpec => []AccountsIInv
  BY InitAccounts, AccountsNextIInv, PTL DEF AccountsSpec

\* AccountsTypeOK: the users table, the tokens and every handler keep their types.
THEOREM AccountsTypeCorrect == AccountsSpec => []AccountsTypeOK
  BY AccountsInvariance, PTL DEF AccountsIInv

\* OneAccountPerEmail, however many calls of POST /users race for it.
THEOREM EmailsAreUnique == AccountsSpec => []OneAccountPerEmail
  BY AccountsInvariance, PTL DEF AccountsIInv

\* AnswersMatchTheTable: the answers of POST /users agree with the users table.
THEOREM AnswersCorrect == AccountsSpec => []AnswersMatchTheTable
  BY AccountsInvariance, PTL DEF AccountsIInv

\* ParentsAreRevoked, DisabledUserGetsNoSession, RevokedIsForever and
\* SpentTokensAreRefused, beside operators and POST /users: the sessions are those
\* of AuthSessions.
THEOREM SessionsStayCorrect ==
    AccountsSpec => /\ []ParentsAreRevoked /\ []DisabledUserGetsNoSession
                    /\ RevokedIsForever /\ SpentTokensAreRefused
  BY AccountsKeepSessions, ParentsCorrect, DisabledCorrect, RevocationCorrect, SpentCorrect,
     PTL

----------------------------------------------------------------------------
(* Power.                                                                  *)

\* Only a user in power is granted ADMIN, and only by a request that reads the row.
LEMMA GrantsNeedPower ==
    ASSUME AccountsIInv, [AccountsNext]_accountsVars, NEW q \in Requests,
           granted'[q] = "ADMIN"
    PROVE  \/ /\ at[q] # "idle" /\ granted[q] = "ADMIN"
              /\ subject'[q] = subject[q]
           \/ subject'[q] \in Users /\ InPower(subject'[q])
<1> USE DEF AccountsIInv
<1>1. [Next]_vars
  BY SessionsStep
<1>2. CASE granted'[q] = granted[q]
  <2>1. granted[q] # Null
    BY <1>2, AccountsAssumption
  <2>2. at[q] # "idle"
    BY <2>1 DEF RolesAreRead
  <2> QED
    BY <1>1, <1>2, <2>2, RequestsMoveOn
<1>3. CASE granted'[q] # granted[q]
  <2>1. PICK r \in Requests : (\E u \in Users : LoginReads(r, u)) \/ RefreshReads(r)
    BY <1>3 DEF AccountsNext, accountsVars, SessionStep, Lapses, CreateEnters,
                CreateLooksUp, CreateInserts, CallFails, ChangeRole, ChangeStatus, access
  <2>2. ASSUME NEW u \in Users, LoginReads(r, u)
        PROVE  Reads(r, u) /\ account[u] # Null /\ subject'[r] = u
    BY <2>2 DEF LoginReads, LoginVerifies, Begins, IInv, TypeOK
  <2>3. ASSUME RefreshReads(r)
        PROVE  /\ subject[r] \in Users /\ Reads(r, subject[r])
               /\ account[subject[r]] # Null /\ subject'[r] = subject[r]
    BY <2>3 DEF RefreshReads, RefreshChecksUser, Goes, request, RolesAreRead, IInv,
                RequestsWellFormed
  <2>4. PICK u \in Users : Reads(r, u) /\ account[u] # Null /\ subject'[r] = u
    BY <2>1, <2>2, <2>3
  <2>5. /\ q = r /\ u \notin disabled
        /\ granted'[q] = account[u].role
    BY <1>3, <2>4 DEF Reads, SignedRole, AccountsTypeOK
  <2> QED
    BY <2>4, <2>5 DEF InPower
<1> QED
  BY <1>2, <1>3

\* Whoever has no power and is not given it by an operator stays without.
LEMMA PowerlessStep ==
    ASSUME AccountsIInv, [AccountsNext]_accountsVars, NEW u \in Users,
           Powerless(u), ~ InPower(u)'
    PROVE  Powerless(u)'
<1> SUFFICES ASSUME NEW t \in Requests, granted'[t] = "ADMIN", subject'[t] = u
             PROVE  t \in lapsed' \/ at'[t] = "failed"
  BY DEF Powerless
<1>1. granted[t] = "ADMIN" /\ subject[t] = u
  BY GrantsNeedPower DEF Powerless
<1>2. t \in lapsed \/ at[t] = "failed"
  BY <1>1 DEF Powerless
<1>3. lapsed \subseteq lapsed'
  BY DEF AccountsNext, accountsVars, LoginReads, RefreshReads, Reads, SessionStep, Lapses,
         CreateEnters, CreateLooksUp, CreateInserts, CallFails, ChangeRole, ChangeStatus,
         access
<1>4. at[t] = "failed" => at'[t] = "failed"
  BY SessionsStep, RequestsMoveOn DEF AccountsIInv
<1> QED
  BY <1>2, <1>3, <1>4

\* LostPowerStaysLost: no session and no refresh under way gives an administrator
\* who was demoted or disabled, and whose tokens have lapsed, another ADMIN token.
THEOREM PowerEnds == AccountsSpec => LostPowerStaysLost
<1>1. AccountsIInv /\ [AccountsNext]_accountsVars =>
        [\A u \in Users : Powerless(u) /\ ~ InPower(u)' => Powerless(u)']_accountsVars
  BY PowerlessStep
<1> QED
  BY <1>1, AccountsInvariance, PTL DEF AccountsSpec, LostPowerStaysLost

\* PowerComesFromPower: where nobody has power, no request or call makes an
\* administrator or opens an account.
THEOREM PowerIsGiven == AccountsSpec => PowerComesFromPower
<1>1. ASSUME AccountsIInv, [AccountsNext]_accountsVars, NobodyHasPower,
             \A u \in Users : account[u] # Null => ~ InPower(u)'
      PROVE  NobodyHasPower' /\ \A c \in Calls : account'[c] # Null => account[c] # Null
  <2>1. ASSUME NEW c \in Calls, NEW role \in Roles PROVE ~ CreateInserts(c, role)
    BY <1>1 DEF CreateInserts, CallGoes, NobodyHasPower
  <2>2. \A u \in Users : account'[u] # Null => account[u] # Null
    BY <1>1, <2>1
       DEF AccountsNext, accountsVars, LoginReads, RefreshReads, Reads, SessionStep, Lapses,
           CreateEnters, CreateLooksUp, CallFails, ChangeRole, ChangeStatus,
           AccountsIInv, AccountsTypeOK
  <2>3. \A u \in Users : Powerless(u)'
    BY <1>1, <2>2, PowerlessStep DEF NobodyHasPower, InPower
  <2>4. ASSUME NEW c \in Calls, NEW t \in Requests, NEW e \in Emails, CreateEnters(c, t, e)
        PROVE  Gate(t) \notin {"authorized", "hashing"}
    <3>1. at[t] = "answered" /\ subject[t] \in Users
      BY <1>1, <2>4 DEF CreateEnters, Delivered, AccountsIInv, IInv, RequestsWellFormed
    <3>2. granted[t] = "ADMIN" => t \in lapsed
      BY <1>1, <3>1 DEF NobodyHasPower, Powerless
    <3> QED
      BY <3>2 DEF Gate
  <2>5. ASSUME NEW d \in Calls PROVE callAt'[d] \notin {"authorized", "hashing"}
    <3>1. ASSUME NEW c \in Calls, NEW t \in Requests, NEW e \in Emails, CreateEnters(c, t, e)
          PROVE  callAt'[d] \notin {"authorized", "hashing"}
      BY <1>1, <2>4, <3>1 DEF CreateEnters, CallGoes, NobodyHasPower, AccountsIInv,
                              AccountsTypeOK
    <3>2. ASSUME NEW c \in Calls, CallFails(c)
          PROVE  callAt'[d] \notin {"authorized", "hashing"}
      BY <1>1, <3>2 DEF CallFails, NobodyHasPower
    <3>3. ASSUME NEW c \in Calls, CreateLooksUp(c) PROVE FALSE
      BY <1>1, <3>3 DEF CreateLooksUp, CallGoes, NobodyHasPower
    <3>4. CASE UNCHANGED callAt
      BY <1>1, <3>4 DEF NobodyHasPower
    <3> QED
      BY <1>1, <2>1, <3>1, <3>2, <3>3, <3>4
         DEF AccountsNext, accountsVars, LoginReads, RefreshReads, Reads, SessionStep,
             Lapses, ChangeRole, ChangeStatus, calls
  <2> QED
    BY <2>2, <2>3, <2>5, AccountsAssumption DEF NobodyHasPower
<1>2. AccountsIInv /\ [AccountsNext]_accountsVars =>
        [(NobodyHasPower /\ \A u \in Users : account[u] # Null => ~ InPower(u)')
          => NobodyHasPower' /\ \A c \in Calls : account'[c] # Null => account[c] # Null
        ]_accountsVars
  BY <1>1
<1> QED
  BY <1>2, AccountsInvariance, PTL DEF AccountsSpec, PowerComesFromPower
=============================================================================
