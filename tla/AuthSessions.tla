---------------------------- MODULE AuthSessions ----------------------------
(***************************************************************************)
(* AuthService: refresh sessions in the database, issued by login, rotated *)
(* by refresh and revoked by logout.  A request is cut at its awaits; the  *)
(* token it carries is the session it names.  A rotation's transaction is  *)
(* one step.  Verifying a password or a token's hash is what the request   *)
(* brought: a login is let in or not, and nobody holds a token that was    *)
(* never issued.                                                           *)
(***************************************************************************)
EXTENDS Integers, FiniteSets

CONSTANTS Requests,      \* request slots of the server
          MaxSessions    \* sessions ever issued (a bound of the model: a row
                         \* beyond it is refused, as by a database that is down)

ASSUME SessionsAssumption == MaxSessions \in Nat

VARIABLES
    sessions,  \* each session: "none", "live", "expired" or "revoked"
    redeemed,  \* auxiliary: how often each session was rotated
    req        \* each request: its step, token and the session it issued

authVars == <<sessions, redeemed, req>>

Ids == 1..MaxSessions
Quiet == [pc |-> "idle", token |-> 0, issued |-> 0]
Issued == {i \in Ids : sessions[i] # "none"}
Fresh == CHOOSE i \in Ids : sessions[i] = "none"

AuthInit ==
    /\ sessions = [i \in Ids |-> "none"]
    /\ redeemed = [i \in Ids |-> 0]
    /\ req = [r \in Requests |-> Quiet]

Begin(r, p, i) ==
    /\ req[r].pc = "idle"
    /\ req' = [req EXCEPT ![r] = [pc |-> p, token |-> i, issued |-> 0]]

Done(r, i) == req' = [req EXCEPT ![r] = [pc |-> "done", token |-> 0, issued |-> i]]

(* login: refused, or a new session. *)
Login(r) ==
    /\ req[r].pc = "login"
    /\ \/ Done(r, 0) /\ UNCHANGED sessions
       \/ /\ Issued # Ids
          /\ sessions' = [sessions EXCEPT ![Fresh] = "live"]
          /\ Done(r, Fresh)
    /\ UNCHANGED redeemed

(* refresh: the session is read and must be live; its user may have been    *)
(* deactivated.                                                             *)
RefreshRead(r) ==
    /\ req[r].pc = "read"
    /\ \/ Done(r, 0)
       \/ /\ req[r].token \in Ids /\ sessions[req[r].token] = "live"
          /\ req' = [req EXCEPT ![r].pc = "claim"]
    /\ UNCHANGED <<sessions, redeemed>>

(* Not revoked meanwhile; expiry is compared with the time of the read.     *)
Claimable(i) == sessions[i] # "revoked"

(* Wrong: the old session stays. *)
RotatedBeside(i) == [sessions EXCEPT ![Fresh] = "live"]

Rotated(i) == [sessions EXCEPT ![i] = "revoked", ![Fresh] = "live"]

(* The transaction: the old session is revoked and the next one inserted,   *)
(* or neither.                                                              *)
RefreshClaim(r) ==
    LET i == req[r].token IN
    /\ req[r].pc = "claim"
    /\ \/ /\ Claimable(i) /\ Issued # Ids
          /\ sessions' = Rotated(i)
          /\ redeemed' = [redeemed EXCEPT ![i] = @ + 1]
          /\ Done(r, Fresh)
       \/ Done(r, 0) /\ UNCHANGED <<sessions, redeemed>>

(* logout: a token that still verifies is revoked; a failure to do so is    *)
(* swallowed and the cookies are cleared all the same.                      *)
Logout(r) ==
    /\ req[r].pc = "revoke"
    /\ \/ UNCHANGED sessions
       \/ /\ req[r].token \in Ids /\ sessions[req[r].token] = "live"
          /\ sessions' = [sessions EXCEPT ![req[r].token] = "revoked"]
    /\ Done(r, 0)
    /\ UNCHANGED redeemed

(* The answer is on its way, or lost: the slot is free again. *)
Release(r) == req[r].pc = "done" /\ req' = [req EXCEPT ![r] = Quiet]

Expire(i) ==
    /\ sessions[i] = "live"
    /\ sessions' = [sessions EXCEPT ![i] = "expired"]
    /\ UNCHANGED <<redeemed, req>>

Serves(r) == Login(r) \/ RefreshRead(r) \/ RefreshClaim(r) \/ Logout(r)

AuthNext ==
    \/ \E r \in Requests :
          \/ Begin(r, "login", 0) /\ UNCHANGED <<sessions, redeemed>>
          \/ \E i \in Issued, p \in {"read", "revoke"} :
                Begin(r, p, i) /\ UNCHANGED <<sessions, redeemed>>
          \/ Serves(r)
          \/ Release(r) /\ UNCHANGED <<sessions, redeemed>>
    \/ \E i \in Ids : Expire(i)

AuthSpec == AuthInit /\ [][AuthNext]_authVars

-----------------------------------------------------------------------------
AuthTypeOK ==
    /\ sessions \in [Ids -> {"none", "live", "expired", "revoked"}]
    /\ redeemed \in [Ids -> Nat]
    /\ req \in [Requests -> [pc : {"idle", "login", "read", "claim", "revoke", "done"},
                            token : Ids \cup {0}, issued : Ids \cup {0}]]

(* However many tabs present one refresh token at once, it is exchanged for *)
(* a new session once at most, never after a logout has revoked it, and no  *)
(* session is issued twice.                                                 *)
RotatedOnce ==
    /\ \A i \in Ids : redeemed[i] <= 1
    /\ \A i \in Ids : redeemed[i] = 1 => sessions[i] = "revoked"
    /\ \A r, s \in Requests : req[r].issued = req[s].issued /\ req[r].issued # 0 => r = s

(* A revoked session is never valid again, and no more sessions are valid   *)
(* after a rotation than before.                                            *)
RevocationFinal ==
    [][\A i \in Ids :
         /\ sessions[i] = "revoked" => sessions'[i] = "revoked" /\ redeemed'[i] = redeemed[i]
         /\ sessions[i] = "none" /\ sessions'[i] # "none" =>
               (\E j \in Ids : redeemed'[j] # redeemed[j] /\ sessions'[j] = "revoked")
               \/ \E r \in Requests : req[r].pc = "login" /\ req'[r].issued = i]_authVars

-----------------------------------------------------------------------------
(* Why: the inductive invariant.  A request in hand works on a session that *)
(* exists, and what it has issued exists.                                   *)
InHand ==
    \A r \in Requests :
        /\ req[r].pc \in {"claim", "revoke"} => req[r].token \in Issued
        /\ req[r].issued # 0 => req[r].pc = "done" /\ req[r].issued \in Issued

AuthInv == AuthTypeOK /\ InHand /\ RotatedOnce
=============================================================================
