--------------------------- MODULE RegistryProofs ---------------------------
(***************************************************************************)
(* Proofs about Registry for any number of users, logins, devices and      *)
(* registrations, and for failures anywhere.                               *)
(***************************************************************************)
EXTENDS Registry, TLAPS

vars == <<accountVars, registryVars>>

\* A request has credentials from the moment it is received, and its answer only
\* in the end.
CallersAreKnown ==
    \A r \in Callers : /\ accountPc[r] # "idle" => credentials[r] \in Credentials
                       /\ accountPc[r] # "answered" => accountReply[r] = NoAccount

\* The user a request has in hand is stored and is the caller's.
LoadedIsStored ==
    \A r \in Callers :
        /\ accountPc[r] \in {"validatePassword", "generateToken"} => loaded[r] \in users /\ HasEmail(loaded[r], r)
        /\ accountPc[r] = "generateToken" => loaded[r].password = credentials[r].password

AccountsInv ==
    /\ AccountsTypeOK
    /\ CallersAreKnown
    /\ LoadedIsStored
    /\ OneAccountPerEmail
    /\ TokensNameAccounts

\* Registrations are known when they are received, answered only in the end, and
\* name an owner with an account.
RegistrationsAreKnown ==
    \A r \in Registrations :
        /\ registryPc[r] # "idle" => /\ registration[r] \in [deviceId : Devices, ownerId : Owners]
                                     /\ \E user \in users : user.id = registration[r].ownerId
        /\ registryPc[r] # "answered" => registryReply[r] = Unregistered

RegistryInv ==
    /\ AccountsInv
    /\ RegistryTypeOK
    /\ RegistrationsAreKnown
    /\ DevicesHaveAccounts

------------------------------------------------------------------------------
(* Accounts.                                                               *)

\* No step of the two handlers breaks AccountsInv or removes an account.
LEMMA AccountStepsPreserve ==
    ASSUME AccountsInv, [AccountsNext]_accountVars
    PROVE  AccountsInv' /\ users \subseteq users'
<1> USE CallersAssumption, NoAccountAssumption
        DEF AccountsInv, AccountsTypeOK, AccountGoto, AccountSteps, Callers
<1>1. ASSUME NEW r \in Callers, NEW c \in Credentials, Ask(r, c)
      PROVE  AccountsInv' /\ users \subseteq users'
  <2> USE <1>1 DEF Ask
  <2>1. AccountsTypeOK' /\ CallersAreKnown' /\ OneAccountPerEmail'
    BY DEF CallersAreKnown, OneAccountPerEmail
  <2>2. LoadedIsStored'
    BY DEF LoadedIsStored, HasEmail
  <2>3. TokensNameAccounts'
    BY DEF TokensNameAccounts, HasToken, CallersAreKnown
  <2> QED BY <2>1, <2>2, <2>3
<1>2. ASSUME NEW r \in Callers, UNCHANGED <<users, credentials, loaded>>,
             \/ \E status \in {400, 401, 409, 500} : Refuse(r, status)
             \/ AccountGoto(r, "lost") /\ UNCHANGED accountReply
             \/ /\ accountPc[r] = "getByEmail"
                /\ AccountGoto(r, "save") /\ UNCHANGED accountReply
             \/ /\ accountPc[r] = "validatePassword"
                /\ loaded[r].password = credentials[r].password
                /\ AccountGoto(r, "generateToken") /\ UNCHANGED accountReply,
             accountPc[r] \notin {"idle", "answered"}
      PROVE  AccountsInv' /\ users \subseteq users'
  <2> USE <1>2 DEF Refuse, Reply
  <2>1. AccountsTypeOK' /\ CallersAreKnown' /\ OneAccountPerEmail'
    BY DEF CallersAreKnown, OneAccountPerEmail, Replies
  <2>2. LoadedIsStored'
    BY DEF LoadedIsStored, HasEmail
  <2>3. TokensNameAccounts'
    BY DEF TokensNameAccounts, HasToken, CallersAreKnown
  <2> QED BY <2>1, <2>2, <2>3
<1>3. ASSUME NEW l \in Logins, FindUser(l)
      PROVE  AccountsInv' /\ users \subseteq users'
  <2>1. CASE UNCHANGED loaded /\ \E status \in {401, 500} : Refuse(l, status)
    BY <1>2, <1>3, <2>1 DEF FindUser
  <2>2. CASE \E user \in users : /\ HasEmail(user, l)
                                 /\ loaded' = [loaded EXCEPT ![l] = user]
                                 /\ AccountGoto(l, "validatePassword")
                                 /\ UNCHANGED accountReply
    <3> USE <1>3, <2>2 DEF FindUser
    <3>1. AccountsTypeOK' /\ CallersAreKnown' /\ OneAccountPerEmail'
      BY DEF CallersAreKnown, OneAccountPerEmail
    <3>2. LoadedIsStored' /\ TokensNameAccounts'
      BY DEF LoadedIsStored, HasEmail, TokensNameAccounts, HasToken
    <3> QED BY <3>1, <3>2
  <2> QED BY <1>3, <2>1, <2>2 DEF FindUser
<1>4. ASSUME NEW s \in Signups, SaveUser(s)
      PROVE  AccountsInv' /\ users \subseteq users'
  <2>1. CASE UNCHANGED <<users, loaded>> /\ \E status \in {409, 500} : Refuse(s, status)
    BY <1>2, <1>4, <2>1 DEF SaveUser
  <2>2. CASE /\ ~\E user \in users : HasEmail(user, s)
             /\ users' = users \cup {NewUser(s)}
             /\ \/ Refuse(s, 500) /\ UNCHANGED loaded
                \/ /\ loaded' = [loaded EXCEPT ![s] = NewUser(s)]
                   /\ AccountGoto(s, "generateToken")
                   /\ UNCHANGED accountReply
    <3> USE <1>4, <2>2 DEF SaveUser, Refuse, Reply
    <3>1. /\ NewUser(s) \in Users
          /\ NewUser(s).email = credentials[s].email /\ NewUser(s).password = credentials[s].password
      BY DEF NewUser, CallersAreKnown, Credentials, Users
    <3>2. AccountsTypeOK'
      BY <3>1 DEF Replies
    <3>3. CallersAreKnown'
      BY DEF CallersAreKnown
    <3>4. OneAccountPerEmail'
      BY <3>1 DEF OneAccountPerEmail, HasEmail
    <3>5. LoadedIsStored'
      BY <3>1 DEF LoadedIsStored, HasEmail
    <3>6. TokensNameAccounts'
      BY DEF TokensNameAccounts, HasToken, CallersAreKnown
    <3> QED BY <3>2, <3>3, <3>4, <3>5, <3>6
  <2> QED BY <1>4, <2>1, <2>2 DEF SaveUser
<1>5. ASSUME NEW r \in Callers, GenerateToken(r)
      PROVE  AccountsInv' /\ users \subseteq users'
  <2> USE <1>5 DEF GenerateToken, Reply
  <2>1. /\ loaded[r] \in users /\ loaded[r] \in Users
        /\ loaded[r] = [id |-> loaded[r].id, email |-> credentials[r].email, password |-> credentials[r].password]
    BY DEF LoadedIsStored, HasEmail, Users
  <2>2. AccountsTypeOK' /\ CallersAreKnown' /\ OneAccountPerEmail'
    BY <2>1 DEF CallersAreKnown, OneAccountPerEmail, Replies, Users
  <2>3. LoadedIsStored'
    BY DEF LoadedIsStored, HasEmail
  <2>4. TokensNameAccounts'
    <3> SUFFICES ASSUME NEW q \in Callers, HasToken(q)'
                 PROVE  [id |-> accountReply'[q].userId, email |-> credentials[q].email,
                         password |-> credentials[q].password] \in users
      BY DEF TokensNameAccounts
    <3>1. CASE q = r
      <4>1. accountReply'[r].userId = loaded[r].id
        OBVIOUS
      <4> QED BY <2>1, <3>1, <4>1
    <3>2. CASE q # r
      BY <3>2 DEF TokensNameAccounts, HasToken
    <3> QED BY <3>1, <3>2
  <2> QED BY <2>2, <2>3, <2>4
<1>6. ASSUME NEW s \in Signups, CheckEmail(s)
      PROVE  AccountsInv' /\ users \subseteq users'
  <2>1. \/ \E status \in {400, 409, 500} : Refuse(s, status)
        \/ AccountGoto(s, "save") /\ UNCHANGED accountReply
    BY <1>6 DEF CheckEmail
  <2>2. accountPc[s] = "getByEmail" /\ UNCHANGED <<users, credentials, loaded>>
    BY <1>6 DEF CheckEmail
  <2>3. s \in Callers
    OBVIOUS
  <2>4. CASE \E status \in {400, 409, 500} : Refuse(s, status)
    BY <1>2, <2>2, <2>3, <2>4
  <2>5. CASE AccountGoto(s, "save") /\ UNCHANGED accountReply
    BY <1>2, <2>2, <2>3, <2>5
  <2> QED BY <2>1, <2>4, <2>5
<1>7. ASSUME NEW l \in Logins, ValidatePassword(l)
      PROVE  AccountsInv' /\ users \subseteq users'
  BY <1>2, <1>7 DEF ValidatePassword
<1>8. ASSUME NEW r \in Callers, AccountCrash(r)
      PROVE  AccountsInv' /\ users \subseteq users'
  BY <1>2, <1>8 DEF AccountCrash
<1>9. CASE UNCHANGED accountVars
  BY <1>9 DEF accountVars, CallersAreKnown, LoadedIsStored, HasEmail, OneAccountPerEmail,
              TokensNameAccounts, HasToken
<1> QED BY <1>1, <1>3, <1>4, <1>5, <1>6, <1>7, <1>8, <1>9 DEF AccountsNext

------------------------------------------------------------------------------
(* Devices.                                                                *)

\* A token names an account that is stored.
LEMMA HoldersHaveAccounts ==
    ASSUME AccountsInv, NEW holder \in TokenHolders
    PROVE  \E user \in users : user.id = holder
<1>1. PICK r \in Callers : HasToken(r) /\ accountReply[r].userId = holder
  BY DEF TokenHolders
<1>2. [id |-> holder, email |-> credentials[r].email, password |-> credentials[r].password] \in users
  BY <1>1 DEF AccountsInv, TokensNameAccounts
<1> QED BY <1>2

LEMMA RegistryStepsPreserve ==
    ASSUME RegistryInv, [Next]_vars
    PROVE  RegistryInv'
<1>1. AccountsInv' /\ users \subseteq users'
  BY AccountStepsPreserve DEF Next, vars, RegistryInv
<1>2. CASE UNCHANGED registryVars
  BY <1>1, <1>2 DEF registryVars, RegistryInv, RegistryTypeOK, RegistrationsAreKnown,
                    DevicesHaveAccounts, IsRegistered
<1>3. CASE UNCHANGED accountVars /\ \E r \in Registrations : \E c \in [deviceId : Devices, ownerId : Owners] :
              RegisterWithToken(r, c)
  <2>1. PICK r \in Registrations, c \in [deviceId : Devices, ownerId : Owners] : RegisterWithToken(r, c)
    BY <1>3
  <2>2. \E user \in users : user.id = c.ownerId
    BY <2>1, HoldersHaveAccounts DEF RegisterWithToken, RegistryInv
  <2> USE <1>1, <2>1, <2>2 DEF RegisterWithToken, Register, RegistryGoto, RegistryInv, RegistryTypeOK
  <2>3. RegistryTypeOK' /\ DevicesHaveAccounts'
    BY DEF DevicesHaveAccounts, IsRegistered
  <2>4. RegistrationsAreKnown'
    BY DEF RegistrationsAreKnown
  <2> QED BY <2>3, <2>4
<1>4. CASE UNCHANGED accountVars /\ \E r \in Registrations : RegistryStep(r)
  <2>1. PICK r \in Registrations : Lookup(r) \/ SaveDevice(r) \/ RegistryCrash(r)
    BY <1>4 DEF RegistryStep
  <2> USE <1>1, <2>1 DEF Lookup, SaveDevice, RegistryCrash, RegistryGoto, RegistryAnswer, RegistryInv,
                         RegistryTypeOK
  <2>2. RegistryTypeOK'
    BY DEF RegistrationsAreKnown
  <2>3. RegistrationsAreKnown'
    BY DEF RegistrationsAreKnown
  <2>4. DevicesHaveAccounts'
    BY DEF DevicesHaveAccounts, RegistrationsAreKnown, IsRegistered
  <2> QED BY <2>2, <2>3, <2>4
<1> QED BY <1>2, <1>3, <1>4 DEF Next, vars

\* RegistryInv is an invariant of the two modules together.
THEOREM RegistryInvariance == Spec => []RegistryInv
<1>1. Init => RegistryInv
  BY DEF Init, AccountsInit, RegistryInit, RegistryInv, AccountsInv, AccountsTypeOK, CallersAreKnown,
         LoadedIsStored, OneAccountPerEmail, TokensNameAccounts, HasToken, RegistryTypeOK,
         RegistrationsAreKnown, DevicesHaveAccounts, IsRegistered, Callers
<1>2. RegistryInv /\ [Next]_vars => RegistryInv'
  BY RegistryStepsPreserve
<1> QED BY <1>1, <1>2, PTL DEF Spec, vars

\* Every variable of both modules keeps its type.
THEOREM RegistryTypesCorrect == Spec => [](AccountsTypeOK /\ RegistryTypeOK)
<1>1. RegistryInv => AccountsTypeOK /\ RegistryTypeOK
  BY DEF RegistryInv, AccountsInv
<1> QED BY <1>1, RegistryInvariance, PTL

\* However registrations race, no e-mail address has two accounts.
THEOREM EmailsAreUnique == Spec => []OneAccountPerEmail
<1>1. RegistryInv => OneAccountPerEmail
  BY DEF RegistryInv, AccountsInv
<1> QED BY <1>1, RegistryInvariance, PTL

\* A token goes only to one who knows the password of the account it names.
THEOREM TokensAreHonest == Spec => []TokensNameAccounts
<1>1. RegistryInv => TokensNameAccounts
  BY DEF RegistryInv, AccountsInv
<1> QED BY <1>1, RegistryInvariance, PTL

\* No device belongs to a user without an account, in spite of two databases.
THEOREM OwnersExist == Spec => []DevicesHaveAccounts
<1>1. RegistryInv => DevicesHaveAccounts
  BY DEF RegistryInv
<1> QED BY <1>1, RegistryInvariance, PTL

\* Registration r cannot be answered 201 any more.
Hopeless(r) ==
    /\ registryReply[r] # 201
    /\ \/ registryPc[r] = "getById" /\ IsRegistered(registration[r].deviceId)
       \/ registryPc[r] \in {"answered", "lost"}

\* Whatever others do, a registration that finds its device registered fails.
THEOREM LateComersFail == Spec => LateComersAreRefused
<1> SUFFICES ASSUME NEW r \in Registrations
    PROVE  Spec => [](registryPc[r] = "getById" /\ IsRegistered(registration[r].deviceId)
                        => [](registryReply[r] # 201))
  BY DEF LateComersAreRefused
<1>1. RegistryInv /\ registryPc[r] = "getById" /\ IsRegistered(registration[r].deviceId) => Hopeless(r)
  BY StatusAssumption DEF RegistryInv, RegistrationsAreKnown, Hopeless
<1>2. RegistryInv /\ Hopeless(r) /\ [Next]_vars => Hopeless(r)'
  <2> SUFFICES ASSUME RegistryInv, Hopeless(r), [Next]_vars PROVE Hopeless(r)'
    OBVIOUS
  <2>1. CASE UNCHANGED registryVars
    BY <2>1 DEF registryVars, Hopeless, IsRegistered
  <2>2. CASE \E q \in Registrations : \E c \in [deviceId : Devices, ownerId : Owners] : RegisterWithToken(q, c)
    BY <2>2 DEF RegisterWithToken, Register, RegistryGoto, Hopeless, IsRegistered, RegistryInv, RegistryTypeOK
  <2>3. CASE \E q \in Registrations : RegistryStep(q)
    <3>1. PICK q \in Registrations : Lookup(q) \/ SaveDevice(q) \/ RegistryCrash(q)
      BY <2>3 DEF RegistryStep
    <3>2. ASSUME NEW d \in Devices, IsRegistered(d)
          PROVE  IsRegistered(d)'
      BY <3>1, <3>2, UnregisteredAssumption
         DEF Lookup, SaveDevice, RegistryCrash, IsRegistered, RegistryInv, RegistryTypeOK, RegistrationsAreKnown
    <3>3. registryPc[r] = "getById" => registration[r].deviceId \in Devices
      BY DEF RegistryInv, RegistrationsAreKnown
    <3>4. CASE q = r
      BY <3>1, <3>2, <3>3, <3>4 DEF Lookup, SaveDevice, RegistryCrash, RegistryGoto, RegistryAnswer,
         Hopeless, RegistryInv, RegistryTypeOK
    <3>5. CASE q # r
      <4>1. registryPc'[r] = registryPc[r] /\ registryReply'[r] = registryReply[r] /\ registration' = registration
        BY <3>1, <3>5 DEF Lookup, SaveDevice, RegistryCrash, RegistryGoto, RegistryAnswer,
           RegistryInv, RegistryTypeOK
      <4>2. registryPc[r] = "getById" /\ IsRegistered(registration[r].deviceId) => IsRegistered(registration[r].deviceId)'
        BY <3>2, <3>3, <4>1 DEF IsRegistered
      <4> QED BY <4>1, <4>2 DEF Hopeless
    <3> QED BY <3>4, <3>5
  <2> QED BY <2>1, <2>2, <2>3 DEF Next, vars
<1>3. Hopeless(r) => registryReply[r] # 201
  BY DEF Hopeless
<1> QED BY <1>1, <1>2, <1>3, RegistryInvariance, PTL DEF Spec, vars

\* Login l carries the credentials of account holder s and was not refused.
Welcome(s, l) ==
    /\ HasToken(s)
    /\ credentials[l] = credentials[s]
    /\ accountPc[l] # "idle"
    /\ accountReply[l] # NoAccount => accountReply[l].status # 401

\* Nothing that others do to the users table locks an account holder out.
THEOREM HoldersCanLogIn == Spec => RegisteredCanLogIn
<1> SUFFICES ASSUME NEW s \in Signups, NEW l \in Logins
    PROVE  Spec => [](/\ HasToken(s)
                      /\ accountPc[l] = "getByEmail"
                      /\ credentials[l] = credentials[s]
                      => [](accountReply[l] # NoAccount => accountReply[l].status # 401))
  BY DEF RegisteredCanLogIn
<1>1. RegistryInv /\ HasToken(s) /\ accountPc[l] = "getByEmail" /\ credentials[l] = credentials[s]
        => Welcome(s, l)
  BY DEF RegistryInv, AccountsInv, CallersAreKnown, Callers, Welcome
<1>2. RegistryInv /\ Welcome(s, l) /\ [Next]_vars => Welcome(s, l)'
  <2> SUFFICES ASSUME RegistryInv, Welcome(s, l), [Next]_vars PROVE Welcome(s, l)'
    OBVIOUS
  <2> USE CallersAssumption, NoAccountAssumption DEF Callers
  <2>1. CASE UNCHANGED accountVars
    BY <2>1 DEF accountVars, Welcome, HasToken
  <2>2. CASE AccountsNext
    <3>1. /\ s \in Callers /\ l \in Callers /\ s # l
          /\ accountPc[s] = "answered" /\ accountPc[l] # "idle"
      BY DEF RegistryInv, AccountsInv, CallersAreKnown, Welcome, HasToken
    <3>2. PICK holder \in users : /\ holder.email = credentials[l].email
                                  /\ holder.password = credentials[l].password
      <4>1. [id |-> accountReply[s].userId, email |-> credentials[s].email,
             password |-> credentials[s].password] \in users
        BY DEF RegistryInv, AccountsInv, TokensNameAccounts, Welcome
      <4> QED BY <4>1 DEF Welcome
    <3>3. \A user \in users : HasEmail(user, l) => user = holder
      BY <3>2 DEF RegistryInv, AccountsInv, OneAccountPerEmail, HasEmail
    <3>4. PICK r \in Callers :
             \/ GenerateToken(r) \/ AccountCrash(r) \/ \E c \in Credentials : Ask(r, c)
             \/ r \in Signups /\ (CheckEmail(r) \/ SaveUser(r))
             \/ r \in Logins /\ (FindUser(r) \/ ValidatePassword(r))
      BY <2>2 DEF AccountsNext
    <3>5. /\ r # s
          /\ \A q \in Callers : q # r => accountPc'[q] = accountPc[q] /\ accountReply'[q] = accountReply[q]
                                         /\ credentials'[q] = credentials[q]
      BY <3>1, <3>4 DEF GenerateToken, AccountCrash, Ask, CheckEmail, SaveUser, FindUser, ValidatePassword,
         Refuse, Reply, AccountGoto, AccountSteps, RegistryInv, AccountsInv, AccountsTypeOK
    <3>6. CASE r # l
      BY <3>1, <3>5, <3>6 DEF Welcome, HasToken
    <3>7. CASE r = l
      <4>1. GenerateToken(l) \/ AccountCrash(l) \/ FindUser(l) \/ ValidatePassword(l)
        BY <3>1, <3>4, <3>7 DEF Ask
      <4>2. UNCHANGED credentials /\ accountPc'[l] # "idle"
        BY <4>1 DEF GenerateToken, AccountCrash, FindUser, ValidatePassword, Refuse, Reply, AccountGoto,
           RegistryInv, AccountsInv, AccountsTypeOK
      <4>3. ~Refuse(l, 401)
        <5>1. FindUser(l) => ~Refuse(l, 401)
          BY <3>2 DEF FindUser, HasEmail, Refuse, Reply, AccountGoto, RegistryInv, AccountsInv, AccountsTypeOK
        <5>2. ValidatePassword(l) => ~Refuse(l, 401)
          BY <3>2, <3>3 DEF ValidatePassword, Refuse, Reply, AccountGoto, RegistryInv, AccountsInv,
             AccountsTypeOK, LoadedIsStored
        <5>3. GenerateToken(l) => ~Refuse(l, 401)
          BY DEF GenerateToken, Refuse, Reply, RegistryInv, AccountsInv, AccountsTypeOK
        <5>4. AccountCrash(l) => ~Refuse(l, 401)
          BY DEF AccountCrash, Refuse, Reply, AccountGoto, RegistryInv, AccountsInv, AccountsTypeOK
        <5> QED BY <4>1, <5>1, <5>2, <5>3, <5>4
      <4>4. accountReply'[l] # NoAccount => accountReply'[l].status # 401
        <5>1. \/ accountReply' = accountReply
              \/ Refuse(l, 500)
              \/ \E id : Reply(l, 200, id)
          BY <4>1, <4>3, <3>1 DEF GenerateToken, AccountCrash, FindUser, ValidatePassword
        <5> QED BY <5>1 DEF Welcome, Refuse, Reply, RegistryInv, AccountsInv, AccountsTypeOK
      <4>5. HasToken(s)'
        BY <3>1, <3>5 DEF Welcome, HasToken
      <4> QED BY <4>2, <4>4, <4>5 DEF Welcome
    <3> QED BY <3>6, <3>7
  <2> QED BY <2>1, <2>2 DEF Next, vars
<1>3. Welcome(s, l) => (accountReply[l] # NoAccount => accountReply[l].status # 401)
  BY DEF Welcome
<1> QED BY <1>1, <1>2, <1>3, RegistryInvariance, PTL DEF Spec, vars
==============================================================================
