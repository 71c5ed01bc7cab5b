------------------------------ MODULE Accounts ------------------------------
(***************************************************************************)
(* AuthSessions with the users table and the access tokens: login and      *)
(* refresh sign the role they read beside the refresh token they issue     *)
(* (authService.ts), and POST /users opens accounts for whoever shows an   *)
(* ADMIN token (plugins/auth.ts, routes/users.ts, userService.ts over      *)
(* userRepository.ts).                                                     *)
(*                                                                         *)
(* An access token is stateless: it is believed until its "exp", whatever  *)
(* became of its user or its session.  createUser checks the email, hashes *)
(* the password and inserts, in separate steps; only the unique index      *)
(* stands between two calls for one email.                                 *)
(***************************************************************************)
EXTENDS AuthSessions

CONSTANTS Calls,         \* POST /users calls
          Emails,        \* the emails they ask for
          Roles,         \* the roles there are: ADMIN, and others that POST /users refuses
          Founder,       \* an administrator inserted by hand, before the API runs
          FounderEmail,
          Managed        \* users whom operators change in the database

Rows == [email: Emails \cup {FounderEmail}, role: Roles]

\* A users row is named by the call that inserts it.
ASSUME AccountsAssumption ==
    /\ Users = Calls \cup {Founder}
    /\ Founder \notin Calls
    /\ "ADMIN" \in Roles
    /\ Managed \subseteq Users
    /\ Null \notin Rows \cup Roles \cup Emails

VARIABLES
    account,   \* account[u]: the users row u; its status is AuthSessions' "disabled"
    granted,   \* granted[r]: the role that r read for the access token it signs
    lapsed,    \* access tokens past their "exp"
    callAt,    \* callAt[c]: where the handler of c is, or how it was answered
    email      \* email[c]: the email it asks an account for

access == <<granted, lapsed>>
calls == <<callAt, email>>
accountsVars == <<vars, account, access, calls>>

Refusals == {"unauthenticated", "forbidden", "conflict", "internal"}
CallPoints == {"idle", "authorized", "hashing", "created", "failed"} \cup Refusals

----------------------------------------------------------------------------
AccountsInit ==
    /\ Init
    /\ account = [u \in Users |-> IF u = Founder
                                  THEN [email |-> FounderEmail, role |-> "ADMIN"]
                                  ELSE Null]
    /\ granted = [r \in Requests |-> Null]
    /\ lapsed = {}
    /\ callAt = [c \in Calls |-> "idle"]
    /\ email = [c \in Calls |-> Null]

----------------------------------------------------------------------------
(* login and refresh: the row that is read for the user's status is the    *)
(* row the role is signed from, after whatever queries are left.           *)

\* The refreshed token repeats the role of the token before it.
RoleOfTheSession(r, u) ==
    IF kind[r] = "refresh" THEN granted[presented[r]] ELSE account[u].role

SignedRole(r, u) == account[u].role

\* r reads the row of u.
Reads(r, u) ==
    /\ granted' = IF u \in disabled THEN granted
                  ELSE [granted EXCEPT ![r] = SignedRole(r, u)]
    /\ UNCHANGED <<account, lapsed, calls>>

\* An email nobody has is answered like a disabled user's.
LoginReads(r, u) == account[u] # Null /\ LoginVerifies(r, u) /\ Reads(r, u)

RefreshReads(r) == RefreshChecksUser(r) /\ Reads(r, subject[r])

SessionStep(r) ==
    /\ \/ \E t \in Requests : RefreshFinds(r, t) \/ LogoutFinds(r, t)
       \/ RefreshRevokes(r) \/ Issues(r) \/ LogoutRevokes(r) \/ RequestFails(r)
       \/ Expires(r)
    /\ UNCHANGED <<account, access, calls>>

Lapses(t) ==
    /\ Delivered(t) /\ t \notin lapsed
    /\ lapsed' = lapsed \cup {t}
    /\ UNCHANGED <<vars, account, granted, calls>>

----------------------------------------------------------------------------
(* POST /users.                                                            *)

CallGoes(c, from, to) ==
    /\ callAt[c] = from
    /\ callAt' = [callAt EXCEPT ![c] = to]

\* A gate that only authenticates.
AnyRole(t) == IF t \in lapsed THEN "unauthenticated" ELSE "authorized"

\* authenticate, then requireRole('ADMIN'), both on what the token says.
Gate(t) ==
    IF t \in lapsed THEN "unauthenticated"
    ELSE IF granted[t] # "ADMIN" THEN "forbidden" ELSE "authorized"

CreateEnters(c, t, e) ==
    /\ Delivered(t)
    /\ CallGoes(c, "idle", Gate(t))
    /\ email' = [email EXCEPT ![c] = e]
    /\ UNCHANGED <<vars, account, access>>

Holds(u, e) == account[u] # Null /\ account[u].email = e

Taken(e) == \E u \in Users : Holds(u, e)

\* findByEmail, before the password is hashed.
CreateLooksUp(c) ==
    /\ CallGoes(c, "authorized", IF Taken(email[c]) THEN "conflict" ELSE "hashing")
    /\ UNCHANGED <<vars, account, access, email>>

\* The role the call asks for matters to nobody before the insert.
NewRow(c, role) == [email |-> email[c], role |-> role]

\* An insert with no unique index behind it.
InsertsAnyway(c, role) ==
    /\ CallGoes(c, "hashing", "created")
    /\ account' = [account EXCEPT ![c] = NewRow(c, role)]
    /\ UNCHANGED <<vars, access, email>>

\* An upsert on the email: the row that is there takes the new role.
Upserts(c, role) ==
    /\ CallGoes(c, "hashing", "created")
    /\ account' = IF Taken(email[c])
                  THEN [u \in Users |->
                           IF Holds(u, email[c]) THEN NewRow(c, role) ELSE account[u]]
                  ELSE [account EXCEPT ![c] = NewRow(c, role)]
    /\ UNCHANGED <<vars, access, email>>

\* The insert: the unique index refuses a second row, as an error nobody
\* translates; or the row is stored, and the answer may be lost.
CreateInserts(c, role) ==
    /\ \/ /\ Taken(email[c])
          /\ CallGoes(c, "hashing", "internal")
          /\ UNCHANGED account
       \/ /\ ~ Taken(email[c])
          /\ CallGoes(c, "hashing", "created") \/ CallGoes(c, "hashing", "failed")
          /\ account' = [account EXCEPT ![c] = NewRow(c, role)]
    /\ UNCHANGED <<vars, access, email>>

\* A query fails or the API dies in the middle of a call.
CallFails(c) ==
    /\ callAt[c] \in {"authorized", "hashing"}
    /\ callAt' = [callAt EXCEPT ![c] = "failed"]
    /\ UNCHANGED <<vars, account, access, email>>

----------------------------------------------------------------------------
(* Operators change users in the database.                                 *)

ChangeRole(u, role) ==
    /\ account[u] # Null
    /\ account[u].role # role
    /\ account' = [account EXCEPT ![u] = [email |-> account[u].email, role |-> role]]
    /\ UNCHANGED <<vars, access, calls>>

ChangeStatus(u) ==
    /\ account[u] # Null
    /\ DisableUser(u) \/ EnableUser(u)
    /\ UNCHANGED <<account, access, calls>>

AccountsNext ==
    \/ \E r \in Requests :
          \/ \E u \in Users : LoginReads(r, u)
          \/ RefreshReads(r) \/ SessionStep(r) \/ Lapses(r)
    \/ \E c \in Calls :
          \/ \E t \in Requests, e \in Emails : CreateEnters(c, t, e)
          \/ CreateLooksUp(c) \/ CallFails(c)
          \/ \E role \in Roles : CreateInserts(c, role)
    \/ \E u \in Managed :
          \/ \E role \in Roles : ChangeRole(u, role)
          \/ ChangeStatus(u)

AccountsSpec == AccountsInit /\ [][AccountsNext]_accountsVars

----------------------------------------------------------------------------
(* Properties.                                                             *)

AccountsTypeOK ==
    /\ TypeOK
    /\ account \in [Users -> Rows \cup {Null}]
    /\ granted \in [Requests -> Roles \cup {Null}]
    /\ lapsed \subseteq Requests
    /\ callAt \in [Calls -> CallPoints]
    /\ email \in [Calls -> Emails \cup {Null}]

\* However many calls looked an email up and found it free, one account is
\* opened for it, in service or not.
OneAccountPerEmail ==
    \A u, v \in Users : \A e \in Emails : Holds(u, e) /\ Holds(v, e) => u = v

\* What the caller of POST /users is told is what happened to the table: 201 only
\* if the account is there, 409 only if somebody else has the email, and nothing
\* is stored by a call that was refused.
AnswersMatchTheTable ==
    \A c \in Calls :
        /\ callAt[c] = "created" => Holds(c, email[c])
        /\ callAt[c] = "conflict" => \E u \in Users \ {c} : Holds(u, email[c])
        /\ account[c] # Null => callAt[c] \in {"created", "failed"}

InPower(u) == account[u] # Null /\ account[u].role = "ADMIN" /\ u \notin disabled

\* Neither an administrator in service nor holder of an ADMIN token that works or
\* is about to be delivered.
Powerless(u) ==
    /\ ~ InPower(u)
    /\ \A t \in Requests :
          granted[t] = "ADMIN" /\ subject[t] = u => t \in lapsed \/ at[t] = "failed"

\* The power of a demoted or disabled administrator ends with the last ADMIN
\* token signed for them: once that has lapsed, no session of theirs, and no
\* refresh that was under way, earns another until they are back in power.
LostPowerStaysLost ==
    [][\A u \in Users : Powerless(u) /\ ~ InPower(u)' => Powerless(u)']_accountsVars

NobodyHasPower ==
    /\ \A u \in Users : Powerless(u)
    /\ \A c \in Calls : callAt[c] \notin {"authorized", "hashing"}

\* POST /users takes an administrator: when nobody has power, and no call that
\* somebody with power began is under way, no login, refresh or call of anybody
\* else opens an account, until an operator makes an administrator by hand.
PowerComesFromPower ==
    [][(NobodyHasPower /\ \A u \in Users : account[u] # Null => ~ InPower(u)')
          => NobodyHasPower' /\ \A c \in Calls : account'[c] # Null => account[c] # Null
      ]_accountsVars

----------------------------------------------------------------------------
(* What the docs say and racing calls do not keep.                         *)

\* api-design.md: a duplicate is answered 409.
DuplicatesAreConflicts == \A c \in Calls : callAt[c] # "internal"
=============================================================================
