------------------------------ MODULE Accounts ------------------------------
(***************************************************************************)
(* POST /auth/register (RegisterHandler) and POST /auth/login              *)
(* (AuthenticateHandler) over the users table.  accountPc names the await  *)
(* a request has reached; any of them may fail, and the process that       *)
(* serves a request may die.  No code deactivates a user, so the status    *)
(* that login looks at is left out.                                        *)
(***************************************************************************)
CONSTANTS
    Signups,    \* registrations of users; also the ids that generateId() gives them
    Logins,     \* logins
    Emails,     \* e-mail addresses
    Passwords,  \* passwords
    NoAccount   \* null

Callers == Signups \cup Logins
Credentials == [email : Emails, password : Passwords]
Users == [id : Signups, email : Emails, password : Passwords]

\* The user whose token comes with the answer, if one does.
Replies == [status : {200, 201, 400, 401, 409, 500}, userId : Signups \cup {NoAccount}]

ASSUME CallersAssumption == Signups \cap Logins = {}
ASSUME NoAccountAssumption == NoAccount \notin Signups \cup Users \cup Credentials \cup Replies

VARIABLES
    users,        \* the User table
    accountPc,    \* what each request is waiting for
    credentials,  \* the e-mail and password that each request carries
    loaded,       \* the user that a request has in hand
    accountReply  \* the answer to each request

accountVars == <<users, accountPc, credentials, loaded, accountReply>>

AccountSteps == {"getByEmail", "save", "validatePassword", "generateToken"}

AccountsTypeOK ==
    /\ users \subseteq Users
    /\ accountPc \in [Callers -> {"idle", "answered", "lost"} \cup AccountSteps]
    /\ credentials \in [Callers -> Credentials \cup {NoAccount}]
    /\ loaded \in [Callers -> Users \cup {NoAccount}]
    /\ accountReply \in [Callers -> Replies \cup {NoAccount}]

AccountsInit ==
    /\ users = {}
    /\ accountPc = [r \in Callers |-> "idle"]
    /\ credentials = [r \in Callers |-> NoAccount]
    /\ loaded = [r \in Callers |-> NoAccount]
    /\ accountReply = [r \in Callers |-> NoAccount]

------------------------------------------------------------------------------
AccountGoto(r, step) == accountPc' = [accountPc EXCEPT ![r] = step]

Reply(r, status, userId) ==
    /\ AccountGoto(r, "answered")
    /\ accountReply' = [accountReply EXCEPT ![r] = [status |-> status, userId |-> userId]]

Refuse(r, status) == Reply(r, status, NoAccount)

\* The row that registration s inserts under the id generated for it.
NewUser(s) == [id |-> s, email |-> credentials[s].email, password |-> credentials[s].password]

HasEmail(user, r) == user.email = credentials[r].email

Ask(r, c) ==
    /\ accountPc[r] = "idle"
    /\ AccountGoto(r, "getByEmail")
    /\ credentials' = [credentials EXCEPT ![r] = c]
    /\ UNCHANGED <<users, loaded, accountReply>>

\* The check for a free e-mail; the aggregate then validates password and name.
CheckEmail(s) ==
    /\ accountPc[s] = "getByEmail"
    /\ LET taken == \E user \in users : HasEmail(user, s)
       IN \/ taken /\ Refuse(s, 409)
          \/ ~taken /\ Refuse(s, 400)
          \/ ~taken /\ AccountGoto(s, "save") /\ UNCHANGED accountReply
          \/ Refuse(s, 500)
    /\ UNCHANGED <<users, credentials, loaded>>

\* MUTANT: the e-mail column has no unique index.
SaveWithoutIndex(s) ==
    /\ accountPc[s] = "save"
    /\ users' = users \cup {NewUser(s)}
    /\ loaded' = [loaded EXCEPT ![s] = NewUser(s)]
    /\ AccountGoto(s, "generateToken")
    /\ UNCHANGED <<credentials, accountReply>>

\* MUTANT: the upsert is keyed by e-mail, so it replaces the account it finds.
SaveByEmail(s) ==
    /\ accountPc[s] = "save"
    /\ users' = {user \in users : ~HasEmail(user, s)} \cup {NewUser(s)}
    /\ loaded' = [loaded EXCEPT ![s] = NewUser(s)]
    /\ AccountGoto(s, "generateToken")
    /\ UNCHANGED <<credentials, accountReply>>

\* MUTANT: a refused insert is ignored, as a duplicate reading is.
SaveIgnoresConflict(s) ==
    /\ accountPc[s] = "save"
    /\ users' = IF \E user \in users : HasEmail(user, s) THEN users ELSE users \cup {NewUser(s)}
    /\ loaded' = [loaded EXCEPT ![s] = NewUser(s)]
    /\ AccountGoto(s, "generateToken")
    /\ UNCHANGED <<credentials, accountReply>>

\* The upsert by a fresh id is an insert.  The unique index on email refuses it
\* when another registration was faster (P2002, which the error filter answers
\* with 409); a database failure may come before or after it took effect.
SaveUser(s) ==
    /\ accountPc[s] = "save"
    /\ LET taken == \E user \in users : HasEmail(user, s)
       IN \/ taken /\ Refuse(s, 409) /\ UNCHANGED <<users, loaded>>
          \/ Refuse(s, 500) /\ UNCHANGED <<users, loaded>>
          \/ ~taken /\ users' = users \cup {NewUser(s)} /\ Refuse(s, 500) /\ UNCHANGED loaded
          \/ /\ ~taken
             /\ users' = users \cup {NewUser(s)}
             /\ loaded' = [loaded EXCEPT ![s] = NewUser(s)]
             /\ AccountGoto(s, "generateToken")
             /\ UNCHANGED accountReply
    /\ UNCHANGED credentials

\* MUTANT: an unknown e-mail is reported as a missing user.
UnknownEmailIsMissing(l) ==
    /\ accountPc[l] = "getByEmail"
    /\ \/ (\A user \in users : ~HasEmail(user, l)) /\ Refuse(l, 404) /\ UNCHANGED loaded
       \/ \E user \in users : /\ HasEmail(user, l)
                              /\ loaded' = [loaded EXCEPT ![l] = user]
                              /\ AccountGoto(l, "validatePassword")
                              /\ UNCHANGED accountReply
    /\ UNCHANGED <<users, credentials>>

\* The lookup of a login; an unknown e-mail is answered like a wrong password.
FindUser(l) ==
    /\ accountPc[l] = "getByEmail"
    /\ \/ (\A user \in users : ~HasEmail(user, l)) /\ Refuse(l, 401) /\ UNCHANGED loaded
       \/ \E user \in users : /\ HasEmail(user, l)
                              /\ loaded' = [loaded EXCEPT ![l] = user]
                              /\ AccountGoto(l, "validatePassword")
                              /\ UNCHANGED accountReply
       \/ Refuse(l, 500) /\ UNCHANGED loaded
    /\ UNCHANGED <<users, credentials>>

ValidatePassword(l) ==
    /\ accountPc[l] = "validatePassword"
    /\ \/ loaded[l].password = credentials[l].password /\ AccountGoto(l, "generateToken") /\ UNCHANGED accountReply
       \/ loaded[l].password # credentials[l].password /\ Refuse(l, 401)
    /\ UNCHANGED <<users, credentials, loaded>>

\* The token carries the id of the user in hand.
GenerateToken(r) ==
    /\ accountPc[r] = "generateToken"
    /\ Reply(r, IF r \in Signups THEN 201 ELSE 200, loaded[r].id)
    /\ UNCHANGED <<users, credentials, loaded>>

\* The process that serves request r dies.
AccountCrash(r) ==
    /\ accountPc[r] \in AccountSteps
    /\ AccountGoto(r, "lost")
    /\ UNCHANGED <<users, credentials, loaded, accountReply>>

AccountsNext ==
    \/ \E r \in Callers : GenerateToken(r) \/ AccountCrash(r) \/ \E c \in Credentials : Ask(r, c)
    \/ \E s \in Signups : CheckEmail(s) \/ SaveUser(s)
    \/ \E l \in Logins : FindUser(l) \/ ValidatePassword(l)

AccountsSpec == AccountsInit /\ [][AccountsNext]_accountVars

------------------------------------------------------------------------------
(* What the handlers promise.                                              *)

\* However registrations race, an e-mail address never has two accounts.
OneAccountPerEmail == \A a, b \in users : a.email = b.email => a = b

HasToken(r) == accountReply[r] # NoAccount /\ accountReply[r].userId # NoAccount

\* A token is handed out only to one who gave the e-mail and the password of the
\* account that it names, and that account is stored.
TokensNameAccounts ==
    \A r \in Callers : HasToken(r) =>
        [id |-> accountReply[r].userId, email |-> credentials[r].email,
         password |-> credentials[r].password] \in users

\* Once a registration was answered 201, a login with its e-mail and password
\* that comes later is never refused as a wrong one.
RegisteredCanLogIn ==
    \A s \in Signups, l \in Logins :
        [](/\ HasToken(s)
           /\ accountPc[l] = "getByEmail"
           /\ credentials[l] = credentials[s]
           => [](accountReply[l] # NoAccount => accountReply[l].status # 401))
==============================================================================
