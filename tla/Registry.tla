------------------------------ MODULE Registry ------------------------------
(***************************************************************************)
(* Accounts and devices together: the owner of a device is the user whose  *)
(* token came with the registration.  The two tables are in two databases  *)
(* and no foreign key relates them.                                        *)
(***************************************************************************)
EXTENDS Accounts, DeviceRegistry

\* The users whose token somebody holds.
TokenHolders == {accountReply[r].userId : r \in {s \in Callers : HasToken(s)}}

Init == AccountsInit /\ RegistryInit

\* A request for a device gets past the guard with a token.
RegisterWithToken(r, c) == c.ownerId \in TokenHolders /\ Register(r, c)

Next ==
    \/ AccountsNext /\ UNCHANGED registryVars
    \/ /\ \E r \in Registrations :
             RegistryStep(r) \/ \E c \in [deviceId : Devices, ownerId : Owners] : RegisterWithToken(r, c)
       /\ UNCHANGED accountVars

Spec == Init /\ [][Next]_<<accountVars, registryVars>>

\* Every device belongs to a stored account, although nothing but the order of
\* the calls of two modules sees to it.
DevicesHaveAccounts == \A d \in Devices : IsRegistered(d) => \E user \in users : user.id = ownerId[d]
==============================================================================
