-------------------------------- MODULE Lobby -------------------------------
(***************************************************************************)
(* The lobby server's view of the accounts, as the client code relies on   *)
(* it (the server itself is not part of the repository):                   *)
(*   - REGISTER creates an account that has yet to confirm the agreement;  *)
(*   - LOGIN into an account that already has a session is denied with     *)
(*     "Already logged in.";                                               *)
(*   - the server ends a session some time after its connection closed.    *)
(***************************************************************************)
EXTENDS Integers

CONSTANT Conns   \* cfg.Conns: connections the scenario drives

ASSUME ConnsAssumption == Conns \in Nat

\* accountName is injective, so an account is named by its connection's id.
Ids == 0 .. Conns - 1

VARIABLES
  account,   \* id -> what the server's database holds for the account
  online     \* id -> whose session the server has logged in to the account

lobby == <<account, online>>

AccountStates == {"absent", "unconfirmed", "confirmed"}
\* "prior" is a session another, earlier uberstress process left behind.
Owners == {"none", "prior", "seed", "load"}

LobbyTypeOK ==
  /\ account \in [Ids -> AccountStates]
  /\ online \in [Ids -> Owners]

\* Runs are repeated against one server: accounts of an earlier run may exist,
\* confirmed or not, and its last sessions may not be gone yet.
LobbyInit ==
  /\ account \in [Ids -> AccountStates]
  /\ online \in [Ids -> {"none", "prior"}]
  /\ \A i \in Ids : online[i] = "prior" => account[i] = "confirmed"

\* The replies the server may give to LOGIN. DENIED (another password, a ban)
\* is always possible and, like every denial, leaves the session alone.
LoginVerdicts(i) ==
  IF online[i] # "none" THEN {"ALREADY", "DENIED"}
  ELSE CASE account[i] = "absent"      -> {"DENIED"}
         [] account[i] = "unconfirmed" -> {"AGREEMENTEND", "DENIED"}
         [] account[i] = "confirmed"   -> {"ACCEPTED", "DENIED"}

\* The server answers LOGIN of account i on a connection of owner.
ServerLogin(i, owner, verdict) ==
  /\ verdict \in LoginVerdicts(i)
  /\ online' = IF verdict = "ACCEPTED" THEN [online EXCEPT ![i] = owner]
               ELSE online
  /\ UNCHANGED account

\* The server ends the session of account i.
ServerLogout(i) ==
  /\ online[i] # "none"
  /\ online' = [online EXCEPT ![i] = "none"]
  /\ UNCHANGED account
=============================================================================
