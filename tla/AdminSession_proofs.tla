------------------------- MODULE AdminSession_proofs -------------------------
(***************************************************************************)
(* The administrator's session: the refresh sessions of the server, for    *)
(* any number of requests at once, and the browser tab, for any number of  *)
(* calls, cookie operations and logouts.                                   *)
(***************************************************************************)
EXTENDS AdminSession, FiniteSetTheorems, TLAPS

-----------------------------------------------------------------------------
(* The server: one refresh token buys one session.                          *)

(* When not every session is issued, Fresh names one that is not.           *)
LEMMA FreshIsNew ==
    ASSUME Issued # Ids
    PROVE  Fresh \in Ids /\ sessions[Fresh] = "none"
<1>1. \E i \in Ids : sessions[i] = "none"
  BY DEF Issued
<1> QED
  BY <1>1 DEF Fresh

(* A request that finishes with nothing new, while sessions at most lose    *)
(* their validity, preserves the invariant.                                 *)
LEMMA Finishing ==
    ASSUME AuthInv, NEW r \in Requests, Done(r, 0), redeemed' = redeemed,
           sessions' \in [Ids -> {"none", "live", "expired", "revoked"}],
           \A i \in Ids : /\ sessions[i] = "none" <=> sessions'[i] = "none"
                          /\ sessions[i] = "revoked" => sessions'[i] = "revoked"
    PROVE  AuthInv'
<1>1. AuthTypeOK'
  BY DEF AuthInv, AuthTypeOK, Done
<1>2. Issued' = Issued
  BY DEF Issued
<1>3. \A q \in Requests : q # r => req'[q] = req[q]
  BY DEF AuthInv, AuthTypeOK, Done
<1>4. req'[r].pc = "done" /\ req'[r].issued = 0
  BY DEF AuthInv, AuthTypeOK, Done
<1>5. InHand'
  BY <1>2, <1>3, <1>4 DEF AuthInv, InHand
<1>6. RotatedOnce'
  BY <1>3, <1>4 DEF AuthInv, AuthTypeOK, RotatedOnce
<1> QED
  BY <1>1, <1>5, <1>6 DEF AuthInv

(* A step that only moves one request, without handing it a session.        *)
LEMMA Moving ==
    ASSUME AuthInv, NEW r \in Requests, UNCHANGED <<sessions, redeemed>>,
           req' \in [Requests -> [pc : {"idle", "login", "read", "claim", "revoke", "done"},
                                  token : Ids \cup {0}, issued : Ids \cup {0}]],
           \A q \in Requests : q # r => req'[q] = req[q],
           req'[r].issued = 0,
           req'[r].pc \in {"claim", "revoke"} => req'[r].token \in Issued
    PROVE  AuthInv'
<1>1. AuthTypeOK'
  BY DEF AuthInv, AuthTypeOK
<1>2. Issued' = Issued
  BY DEF Issued
<1>3. InHand'
  BY <1>2 DEF AuthInv, InHand
<1>4. RotatedOnce'
  BY DEF AuthInv, RotatedOnce
<1> QED
  BY <1>1, <1>3, <1>4 DEF AuthInv

LEMMA InitHolds == AuthInit => AuthInv
<1> SUFFICES ASSUME AuthInit PROVE AuthInv
  OBVIOUS
<1>1. AuthTypeOK
  BY DEF AuthInit, AuthTypeOK, Quiet
<1>2. InHand
  BY DEF AuthInit, InHand, Quiet
<1>3. RotatedOnce
  BY DEF AuthInit, RotatedOnce, Quiet
<1> QED
  BY <1>1, <1>2, <1>3 DEF AuthInv

(* Handing request r a session that did not exist before, while at most one *)
(* other session goes from not revoked to revoked and is counted.           *)
LEMMA Issuing ==
    ASSUME AuthInv, NEW r \in Requests, NEW n \in Ids, sessions[n] = "none", Done(r, n),
           req[r].pc \in {"login", "claim"},
           AuthTypeOK', sessions'[n] = "live", redeemed'[n] = redeemed[n],
           \A i \in Ids : i # n =>
               \/ sessions'[i] = sessions[i] /\ redeemed'[i] = redeemed[i]
               \/ /\ sessions[i] \notin {"none", "revoked"} /\ sessions'[i] = "revoked"
                  /\ redeemed'[i] = redeemed[i] + 1
    PROVE  AuthInv'
<1>1. \A q \in Requests : q # r => req'[q] = req[q]
  BY DEF AuthInv, AuthTypeOK, Done
<1>2. req'[r].pc = "done" /\ req'[r].issued = n
  BY DEF AuthInv, AuthTypeOK, Done
<1>3. \A i \in Ids : sessions[i] # "none" => sessions'[i] # "none"
  BY DEF AuthInv, AuthTypeOK
<1>4. Issued \subseteq Issued' /\ n \in Issued' /\ n \notin Issued
  BY <1>3 DEF Issued
<1>5. InHand'
  BY <1>1, <1>2, <1>4 DEF AuthInv, InHand
<1>6. \A i \in Ids : redeemed'[i] <= 1 /\ (redeemed'[i] = 1 => sessions'[i] = "revoked")
  BY DEF AuthInv, AuthTypeOK, RotatedOnce
<1>7. \A q \in Requests : req[q].issued # n
  <2>1. n # 0
    BY DEF Ids
  <2> QED
    BY <1>4, <2>1 DEF AuthInv, InHand
<1>8. \A q, s \in Requests : req'[q].issued = req'[s].issued /\ req'[q].issued # 0 => q = s
  BY <1>1, <1>2, <1>7 DEF AuthInv, RotatedOnce
<1>9. RotatedOnce'
  BY <1>6, <1>8 DEF RotatedOnce
<1> QED
  BY <1>5, <1>9 DEF AuthInv

LEMMA LoginHolds ==
    ASSUME AuthInv, NEW r \in Requests, Login(r)
    PROVE  AuthInv'
<1>1. CASE Done(r, 0) /\ UNCHANGED sessions
  BY <1>1, Finishing DEF Login, AuthInv, AuthTypeOK
<1>2. CASE Issued # Ids /\ sessions' = [sessions EXCEPT ![Fresh] = "live"] /\ Done(r, Fresh)
  <2>1. Fresh \in Ids /\ sessions[Fresh] = "none"
    BY <1>2, FreshIsNew
  <2> DEFINE n == Fresh
  <2>2. sessions' = [sessions EXCEPT ![n] = "live"] /\ redeemed' = redeemed
    BY <1>2 DEF Login
  <2> HIDE DEF n
  <2>3. AuthTypeOK'
    BY <1>2, <2>1, <2>2 DEF AuthInv, AuthTypeOK, Done, n
  <2> QED
    BY <1>2, <2>1, <2>2, <2>3, Issuing DEF Login, AuthInv, AuthTypeOK, n
<1> QED
  BY <1>1, <1>2 DEF Login

LEMMA RefreshReadHolds ==
    ASSUME AuthInv, NEW r \in Requests, RefreshRead(r)
    PROVE  AuthInv'
<1>1. CASE Done(r, 0)
  BY <1>1, Finishing DEF RefreshRead, AuthInv, AuthTypeOK
<1>2. CASE /\ req[r].token \in Ids /\ sessions[req[r].token] = "live"
           /\ req' = [req EXCEPT ![r].pc = "claim"]
  <2>1. req[r].issued = 0
    BY DEF RefreshRead, AuthInv, InHand
  <2> QED
    BY <1>2, <2>1, Moving DEF RefreshRead, AuthInv, AuthTypeOK, Issued
<1> QED
  BY <1>1, <1>2 DEF RefreshRead

LEMMA RefreshClaimHolds ==
    ASSUME AuthInv, NEW r \in Requests, RefreshClaim(r)
    PROVE  AuthInv'
<1>1. CASE Done(r, 0) /\ UNCHANGED <<sessions, redeemed>>
  BY <1>1, Finishing DEF AuthInv, AuthTypeOK
<1>2. CASE /\ Claimable(req[r].token) /\ Issued # Ids /\ Done(r, Fresh)
           /\ sessions' = [sessions EXCEPT ![req[r].token] = "revoked", ![Fresh] = "live"]
           /\ redeemed' = [redeemed EXCEPT ![req[r].token] = @ + 1]
  <2>1. Fresh \in Ids /\ sessions[Fresh] = "none"
    BY <1>2, FreshIsNew
  <2> DEFINE n == Fresh
             i == req[r].token
  <2>2. i \in Ids /\ sessions[i] # "none"
    BY DEF RefreshClaim, AuthInv, InHand, Issued
  <2>3. i # n
    BY <2>1, <2>2
  <2> HIDE DEF n, i
  <2>4. AuthTypeOK'
    <3>1. sessions' \in [Ids -> {"none", "live", "expired", "revoked"}]
      BY <1>2 DEF AuthInv, AuthTypeOK
    <3>2. redeemed' \in [Ids -> Nat]
      BY <1>2, <2>2 DEF AuthInv, AuthTypeOK, i
    <3>3. Fresh \in Ids
      BY <2>1 DEF n
    <3>4. req' \in [Requests -> [pc : {"idle", "login", "read", "claim", "revoke", "done"},
                            token : Ids \cup {0}, issued : Ids \cup {0}]]
      BY <1>2, <3>3 DEF AuthInv, AuthTypeOK, Done
    <3> QED
      BY <3>1, <3>2, <3>4 DEF AuthTypeOK
  <2>5. /\ sessions'[n] = "live" /\ redeemed'[n] = redeemed[n]
        /\ sessions'[i] = "revoked" /\ redeemed'[i] = redeemed[i] + 1
        /\ \A j \in Ids : j # n /\ j # i => sessions'[j] = sessions[j] /\ redeemed'[j] = redeemed[j]
    BY <1>2, <2>1, <2>2, <2>3 DEF AuthInv, AuthTypeOK, n, i
  <2>6. sessions[i] # "revoked"
    BY <1>2 DEF Claimable, i
  <2>7. req[r].pc = "claim" /\ Done(r, n) /\ n \in Ids /\ sessions[n] = "none"
    BY <1>2, <2>1 DEF RefreshClaim, Rotated, n
  <2>8. \A j \in Ids : j # n =>
           \/ sessions'[j] = sessions[j] /\ redeemed'[j] = redeemed[j]
           \/ /\ sessions[j] \notin {"none", "revoked"} /\ sessions'[j] = "revoked"
              /\ redeemed'[j] = redeemed[j] + 1
    BY <2>2, <2>5, <2>6
  <2> QED
    BY <2>4, <2>5, <2>7, <2>8, Issuing
<1> QED
  BY <1>1, <1>2 DEF RefreshClaim, Rotated

LEMMA LogoutHolds ==
    ASSUME AuthInv, NEW r \in Requests, Logout(r)
    PROVE  AuthInv'
<1>1. /\ Done(r, 0) /\ redeemed' = redeemed
      /\ sessions' \in [Ids -> {"none", "live", "expired", "revoked"}]
      /\ \A i \in Ids : /\ sessions[i] = "none" <=> sessions'[i] = "none"
                        /\ sessions[i] = "revoked" => sessions'[i] = "revoked"
  BY DEF Logout, AuthInv, AuthTypeOK
<1> QED
  BY <1>1, Finishing

LEMMA ExpireHolds ==
    ASSUME AuthInv, NEW i \in Ids, Expire(i)
    PROVE  AuthInv'
<1>1. AuthTypeOK'
  BY DEF Expire, AuthInv, AuthTypeOK
<1>2. Issued' = Issued
  BY DEF Expire, AuthInv, AuthTypeOK, Issued
<1>3. InHand'
  BY <1>2 DEF Expire, AuthInv, InHand
<1>4. RotatedOnce'
  BY DEF Expire, AuthInv, AuthTypeOK, RotatedOnce
<1> QED
  BY <1>1, <1>3, <1>4 DEF AuthInv

LEMMA BeginHolds ==
    ASSUME AuthInv, NEW r \in Requests, NEW p \in {"login", "read", "revoke"},
           NEW i \in Ids \cup {0}, Begin(r, p, i), UNCHANGED <<sessions, redeemed>>,
           p # "login" => i \in Issued
    PROVE  AuthInv'
  BY Moving DEF Begin, AuthInv, AuthTypeOK

LEMMA ReleaseHolds ==
    ASSUME AuthInv, NEW r \in Requests, Release(r), UNCHANGED <<sessions, redeemed>>
    PROVE  AuthInv'
  BY Moving DEF Release, Quiet, AuthInv, AuthTypeOK

LEMMA NextHolds == AuthInv /\ [AuthNext]_authVars => AuthInv'
<1> SUFFICES ASSUME AuthInv, [AuthNext]_authVars PROVE AuthInv'
  OBVIOUS
<1>1. ASSUME NEW r \in Requests, Begin(r, "login", 0), UNCHANGED <<sessions, redeemed>>
      PROVE  AuthInv'
  BY <1>1, BeginHolds
<1>2. ASSUME NEW r \in Requests, NEW i \in Issued, NEW p \in {"read", "revoke"},
             Begin(r, p, i), UNCHANGED <<sessions, redeemed>>
      PROVE  AuthInv'
  BY <1>2, BeginHolds DEF Issued
<1>3. ASSUME NEW r \in Requests, Serves(r) PROVE AuthInv'
  BY <1>3, LoginHolds, RefreshReadHolds, RefreshClaimHolds, LogoutHolds DEF Serves
<1>4. ASSUME NEW r \in Requests, Release(r), UNCHANGED <<sessions, redeemed>> PROVE AuthInv'
  BY <1>4, ReleaseHolds
<1>5. ASSUME NEW i \in Ids, Expire(i) PROVE AuthInv'
  BY <1>5, ExpireHolds
<1>6. CASE UNCHANGED authVars
  BY <1>6 DEF authVars, AuthInv, AuthTypeOK, InHand, RotatedOnce, Issued
<1> QED
  BY <1>1, <1>2, <1>3, <1>4, <1>5, <1>6 DEF AuthNext

(* The inductive invariant of the refresh sessions: what a request in hand  *)
(* names exists, and no session was rotated twice or issued twice.          *)
THEOREM SessionsInvariant == AuthSpec => []AuthInv
  BY InitHolds, NextHolds, PTL DEF AuthSpec

(* However many requests present one refresh token, the claim inside the    *)
(* transaction lets one of them through at most.                            *)
THEOREM OneRotation == AuthSpec => []RotatedOnce
<1>1. AuthInv => RotatedOnce
  BY DEF AuthInv
<1> QED
  BY <1>1, SessionsInvariant, PTL

(* A revoked session stays revoked and is not rotated again, and a session  *)
(* comes to life only by a login or in exchange for one that is revoked in  *)
(* the same transaction.                                                    *)
THEOREM RevokedForGood == AuthSpec => RevocationFinal
<1> DEFINE Step == \A i \in Ids :
         /\ sessions[i] = "revoked" => sessions'[i] = "revoked" /\ redeemed'[i] = redeemed[i]
         /\ sessions[i] = "none" /\ sessions'[i] # "none" =>
               (\E j \in Ids : redeemed'[j] # redeemed[j] /\ sessions'[j] = "revoked")
               \/ \E r \in Requests : req[r].pc = "login" /\ req'[r].issued = i
<1>1. ASSUME AuthInv, [AuthNext]_authVars PROVE Step
  <2>1. CASE UNCHANGED <<sessions, redeemed>>
    BY <2>1
  <2>2. ASSUME NEW r \in Requests, Login(r) PROVE Step
    <3>1. CASE UNCHANGED <<sessions, redeemed>>
      BY <3>1
    <3>2. CASE Issued # Ids /\ sessions' = [sessions EXCEPT ![Fresh] = "live"] /\ Done(r, Fresh)
      <4>1. Fresh \in Ids /\ sessions[Fresh] = "none"
        BY <3>2, FreshIsNew
      <4>2. req[r].pc = "login" /\ redeemed' = redeemed
        BY <2>2 DEF Login
      <4>4. req'[r].issued = Fresh
        BY <1>1, <3>2, <4>1 DEF Done, AuthInv, AuthTypeOK
      <4>3. \A i \in Ids : i # Fresh => sessions'[i] = sessions[i]
        BY <1>1, <3>2, <4>1 DEF AuthInv, AuthTypeOK
      <4> QED
        BY <4>1, <4>2, <4>3, <4>4
    <3> QED
      BY <2>2, <3>1, <3>2 DEF Login
  <2>3. ASSUME NEW r \in Requests, RefreshClaim(r) PROVE Step
    <3>1. CASE UNCHANGED <<sessions, redeemed>>
      BY <3>1
    <3>2. CASE /\ Claimable(req[r].token) /\ Issued # Ids
               /\ sessions' = [sessions EXCEPT ![req[r].token] = "revoked", ![Fresh] = "live"]
               /\ redeemed' = [redeemed EXCEPT ![req[r].token] = @ + 1]
      <4>1. Fresh \in Ids /\ sessions[Fresh] = "none"
        BY <3>2, FreshIsNew
      <4> DEFINE t == req[r].token
      <4>2. t \in Ids /\ sessions[t] # "none" /\ sessions[t] # "revoked"
        BY <1>1, <2>3, <3>2 DEF RefreshClaim, Claimable, AuthInv, InHand, Issued
      <4> HIDE DEF t
      <4>3. redeemed'[t] = redeemed[t] + 1 /\ redeemed[t] \in Nat /\ sessions'[t] = "revoked"
        BY <1>1, <3>2, <4>1, <4>2 DEF AuthInv, AuthTypeOK, t
      <4>4. \A i \in Ids : i # Fresh /\ i # t =>
                sessions'[i] = sessions[i] /\ redeemed'[i] = redeemed[i]
        BY <1>1, <3>2, <4>1, <4>2 DEF AuthInv, AuthTypeOK, t
      <4>5. redeemed'[t] # redeemed[t]
        BY <4>3
      <4> QED
        BY <4>1, <4>2, <4>3, <4>4, <4>5
    <3> QED
      BY <2>3, <3>1, <3>2 DEF RefreshClaim, Rotated
  <2>4. ASSUME NEW r \in Requests, Logout(r) PROVE Step
    <3>1. /\ redeemed' = redeemed
          /\ \A i \in Ids : /\ sessions[i] = "revoked" => sessions'[i] = "revoked"
                            /\ sessions[i] = "none" => sessions'[i] = "none"
      BY <1>1, <2>4 DEF Logout, AuthInv, AuthTypeOK
    <3> QED
      BY <3>1
  <2>5. ASSUME NEW i \in Ids, Expire(i) PROVE Step
    BY <1>1, <2>5 DEF Expire, AuthInv, AuthTypeOK
  <2>6. ASSUME NEW r \in Requests, RefreshRead(r) PROVE UNCHANGED <<sessions, redeemed>>
    BY <2>6 DEF RefreshRead
  <2>7. CASE UNCHANGED authVars
    BY <2>1, <2>7 DEF authVars
  <2>8. ASSUME NEW r \in Requests, Serves(r) PROVE Step
    BY <2>1, <2>2, <2>3, <2>4, <2>6, <2>8 DEF Serves
  <2>9. CASE AuthNext
    <3>1. \/ UNCHANGED <<sessions, redeemed>>
          \/ \E r \in Requests : Serves(r)
          \/ \E i \in Ids : Expire(i)
      BY <2>9 DEF AuthNext
    <3> HIDE DEF Step
    <3> QED
      BY <3>1, <2>1, <2>5, <2>8
  <2> QED
    BY <1>1, <2>7, <2>9
<1> QED
  BY <1>1, SessionsInvariant, PTL DEF AuthSpec, RevocationFinal

-----------------------------------------------------------------------------
(* The tab.                                                                 *)

(* Whoever is in flight belongs to the generation of the tab, or, while a   *)
(* logout waits for it, to the one before.                                  *)
Flights ==
    /\ \A o \in Operations : cookieOp[o] # NoOp =>
        /\ cookieOp[o].kind \in {"login", "refresh"}
        /\ cookieOp[o].epoch = IF tab.loggingOut THEN tab.gen - 1 ELSE tab.gen
        /\ tab.loggingOut => o \in logout.pending
    /\ \A o \in logout.pending : cookieOp[o] # NoOp

(* There is one refresh, and whoever waits, waits for it.                   *)
OneFlight ==
    /\ \A o, p \in Operations :
          cookieOp[o].kind = "refresh" /\ cookieOp[p].kind = "refresh" => o = p
    /\ \A c \in Calls : call[c].pc = "waiting" =>
          \E o \in Operations : cookieOp[o].kind = "refresh" /\ cookieOp[o].epoch = call[c].epoch
    /\ \A c \in Calls : call[c].pc = "config" => call[c].kind = "me"

(* A logout goes through its steps with nobody left to wait for, and leaves *)
(* a clean browser that starts no refresh.                                  *)
LoggingOut ==
    /\ tab.loggingOut <=> logout # NoLogout
    /\ logout.pc # "drain" => logout.pending = {}
    /\ logout.pc # "sent" => logout.slot = {}
    /\ tab.loggedOut /\ tab.loggingOut => logout.pc = "leaving"
    /\ tab.loggedOut => \A o \in Operations : cookieOp[o].kind # "refresh"
    /\ logout.pc = "leaving" => tab.loggedOut /\ ~tab.user /\ jar = [access |-> FALSE, refresh |-> 0]

(* Each operation listens to a request of its own, and the logout to one    *)
(* that issues nothing.                                                     *)
Slots ==
    /\ \A o, p \in Operations : \A r \in Requests :
          r \in cookieOp[o].slot /\ r \in cookieOp[p].slot => o = p
    /\ \A o \in Operations : \A r \in cookieOp[o].slot : req[r].pc # "idle" /\ r \notin logout.slot
    /\ \A r \in logout.slot : req[r].pc \in {"revoke", "done"} /\ req[r].issued = 0

(* The cookie names an issued session, and whatever is valid is in the      *)
(* cookie, in an answer on its way, or lost.                                *)
Held ==
    /\ {jar.refresh} \ {0} \subseteq Issued /\ orphans \subseteq Issued
    /\ \A i \in Ids : sessions[i] = "live" =>
          i \in orphans \/ i = jar.refresh \/ \E r \in Requests : req[r].issued = i

TabInv == TypeOK /\ Flights /\ OneFlight /\ LoggingOut /\ Slots /\ Held

SessionInv == AuthInv /\ TabInv

USE LogoutsAssumption

Tabs == [gen : 0..MaxLogouts, loggingOut : BOOLEAN, loggedOut : BOOLEAN, user : BOOLEAN]
CallRecords == [kind : {"none", "api", "me"}, access : BOOLEAN, again : BOOLEAN,
                pc : {"idle", "sent", "waiting", "config"}, epoch : 0..MaxLogouts]
OpRecords == [kind : {"none", "login", "refresh"}, epoch : 0..MaxLogouts,
              pc : {"idle", "config", "sent"}, slot : SUBSET Requests]
Logouts == [pc : {"idle", "drain", "sent", "leaving"}, pending : SUBSET Operations,
            slot : SUBSET Requests]

TabTypes ==
    /\ tab \in Tabs /\ jar \in [access : BOOLEAN, refresh : Ids \cup {0}]
    /\ call \in [Calls -> CallRecords] /\ cookieOp \in [Operations -> OpRecords]
    /\ logout \in Logouts /\ orphans \subseteq Ids

LEMMA TypeParts == TypeOK <=> AuthTypeOK /\ TabTypes
  BY DEF TypeOK, TabTypes, Tabs, CallRecords, OpRecords, Logouts

LEMMA TypePartsNext == TypeOK' <=> AuthTypeOK' /\ TabTypes'
  BY DEF TypeOK, TabTypes, Tabs, CallRecords, OpRecords, Logouts

LEMMA Resting ==
    /\ NoOp \in OpRecords /\ NoOp.kind = "none" /\ NoOp.slot = {} /\ NoOp.pc = "idle"
    /\ NoCall \in CallRecords /\ NoCall.pc = "idle" /\ NoCall.kind = "none"
    /\ NoLogout \in Logouts /\ NoLogout.pc = "idle" /\ NoLogout.pending = {} /\ NoLogout.slot = {}
  BY DEF NoOp, NoCall, NoLogout, OpRecords, CallRecords, Logouts

(* A logout at rest is no logout. *)
LEMMA AtRest ==
    ASSUME TabInv PROVE logout.pc = "idle" <=> logout = NoLogout
<1>1. logout \in Logouts
  BY TypeParts DEF TabInv, TabTypes
<1>2. logout.pc = "idle" => logout.pending = {} /\ logout.slot = {}
  BY DEF TabInv, LoggingOut
<1> QED
  BY <1>1, <1>2 DEF Logouts, NoLogout

(* While a logout waits for nobody, nobody is in flight. *)
LEMMA NobodyFlies ==
    ASSUME TabInv, tab.loggingOut, logout.pending = {}
    PROVE  \A o \in Operations : cookieOp[o] = NoOp
  BY DEF TabInv, Flights

(* Steps of calls and cookie operations, in a browser that keeps its        *)
(* cookies, while the server does nothing.                                  *)
LEMMA TabSteps ==
    ASSUME SessionInv, UNCHANGED authVars, UNCHANGED <<jar, logout, orphans>>,
           tab' \in Tabs, tab'.gen = tab.gen, tab'.loggingOut = tab.loggingOut,
           tab'.loggedOut = tab.loggedOut, tab.loggedOut => ~tab'.user \/ tab'.user = tab.user,
           call' \in [Calls -> CallRecords], cookieOp' \in [Operations -> OpRecords],
           \A o \in Operations : cookieOp'[o].slot \subseteq cookieOp[o].slot,
           tab.loggedOut => \A o \in Operations : cookieOp'[o].kind # "refresh",
           Flights', OneFlight'
    PROVE  TabInv'
<1>1. UNCHANGED <<sessions, redeemed, req>>
  BY DEF authVars
<1>2. TypeOK'
  BY <1>1, TypeParts, TypePartsNext DEF SessionInv, TabInv, TabTypes, AuthTypeOK
<1>3. LoggingOut'
  BY DEF SessionInv, TabInv, LoggingOut
<1>4. Slots'
  BY <1>1 DEF SessionInv, TabInv, Slots
<1>5. Held'
  BY <1>1 DEF SessionInv, TabInv, Held, Issued
<1> QED
  BY <1>2, <1>3, <1>4, <1>5 DEF TabInv

(* ... in particular those of one call that ends, or goes on without        *)
(* waiting for a refresh.                                                   *)
LEMMA CallSteps ==
    ASSUME SessionInv, NEW c \in Calls, NEW n \in CallRecords,
           call' = [call EXCEPT ![c] = n], n.pc # "waiting", n.pc = "config" => n.kind = "me",
           UNCHANGED authVars, UNCHANGED <<jar, cookieOp, logout, orphans>>,
           tab' \in Tabs, tab'.gen = tab.gen, tab'.loggingOut = tab.loggingOut,
           tab'.loggedOut = tab.loggedOut, tab.loggedOut => ~tab'.user \/ tab'.user = tab.user
    PROVE  TabInv'
<1>1. call \in [Calls -> CallRecords] /\ cookieOp \in [Operations -> OpRecords]
  BY TypeParts DEF SessionInv, TabInv, TabTypes
<1>2. /\ call' \in [Calls -> CallRecords] /\ call'[c] = n
      /\ \A d \in Calls \ {c} : call'[d] = call[d]
  BY <1>1
<1>3. Flights'
  BY DEF SessionInv, TabInv, Flights
<1>4. OneFlight'
  BY <1>2 DEF SessionInv, TabInv, OneFlight
<1>5. tab.loggedOut => \A o \in Operations : cookieOp'[o].kind # "refresh"
  BY DEF SessionInv, TabInv, LoggingOut
<1> QED
  BY <1>1, <1>2, <1>3, <1>4, <1>5, TabSteps

(* What every step may rely on.                                             *)
LEMMA Facts ==
    ASSUME SessionInv
    PROVE  /\ tab \in Tabs /\ jar \in [access : BOOLEAN, refresh : Ids \cup {0}]
           /\ call \in [Calls -> CallRecords] /\ cookieOp \in [Operations -> OpRecords]
           /\ logout \in Logouts /\ orphans \subseteq Ids /\ AuthTypeOK
           /\ Flights /\ OneFlight /\ LoggingOut /\ Slots /\ Held
  BY TypeParts DEF SessionInv, TabInv, TabTypes

LEMMA SendHolds ==
    ASSUME SessionInv, NEW c \in Calls, NEW kind \in {"api", "me"}, Send(c, kind), UNCHANGED authVars
    PROVE  TabInv'
<1> DEFINE n == [kind |-> kind, pc |-> "sent", epoch |-> tab.gen, again |-> FALSE, access |-> jar.access]
<1>1. call' = [call EXCEPT ![c] = n] /\ UNCHANGED <<tab, jar, cookieOp, logout, orphans>>
  BY DEF Send
<1>2. n \in CallRecords /\ n.pc = "sent"
  BY Facts DEF CallRecords, Tabs
<1> HIDE DEF n
<1> QED
  BY <1>1, <1>2, Facts, CallSteps

LEMMA OkHolds ==
    ASSUME SessionInv, NEW c \in Calls, Ok(c), UNCHANGED authVars
    PROVE  TabInv'
<1> DEFINE n == IF call[c].kind = "me" /\ CanRetry(call[c].epoch)
                THEN [call[c] EXCEPT !.pc = "config"] ELSE NoCall
<1>1. call' = [call EXCEPT ![c] = n] /\ UNCHANGED <<tab, jar, cookieOp, logout, orphans>>
  BY Facts DEF Ok
<1>2. n \in CallRecords /\ n.pc # "waiting" /\ (n.pc = "config" => n.kind = "me")
  <2>1. call[c] \in CallRecords
    BY Facts
  <2> QED
    BY <2>1, Resting DEF CallRecords
<1> HIDE DEF n
<1> QED
  BY <1>1, <1>2, Facts, CallSteps

LEMMA ConfirmedHolds ==
    ASSUME SessionInv, NEW c \in Calls, Confirmed(c), UNCHANGED authVars
    PROVE  TabInv'
<1>1. PICK loaded \in BOOLEAN :
         tab' = IF CanRetry(call[c].epoch) THEN [tab EXCEPT !.user = loaded] ELSE tab
  BY DEF Confirmed
<1>2. /\ tab' \in Tabs /\ tab'.gen = tab.gen /\ tab'.loggingOut = tab.loggingOut
      /\ tab'.loggedOut = tab.loggedOut /\ (tab.loggedOut => tab'.user = tab.user)
  BY <1>1, Facts DEF Tabs, CanRetry
<1>3. call' = [call EXCEPT ![c] = NoCall] /\ UNCHANGED <<jar, cookieOp, logout, orphans>>
  BY DEF Confirmed
<1> QED
  BY <1>2, <1>3, Resting, CallSteps

LEMMA BrokenHolds ==
    ASSUME SessionInv, NEW c \in Calls, Broken(c), UNCHANGED authVars
    PROVE  TabInv'
<1>1. /\ call' = [call EXCEPT ![c] = NoCall] /\ UNCHANGED <<jar, cookieOp, logout, orphans>>
      /\ tab' = IF call[c].kind = "me" /\ CanRetry(call[c].epoch) THEN [tab EXCEPT !.user = FALSE] ELSE tab
  BY DEF Broken
<1>2. /\ tab' \in Tabs /\ tab'.gen = tab.gen /\ tab'.loggingOut = tab.loggingOut
      /\ tab'.loggedOut = tab.loggedOut /\ (tab.loggedOut => tab'.user = tab.user)
  BY <1>1, Facts DEF Tabs, CanRetry
<1> QED
  BY <1>1, <1>2, Resting, CallSteps

(* A new operation of the present generation, where there was none. *)
LEMMA OperationStarts ==
    ASSUME SessionInv, NEW o \in Operations, NEW n \in OpRecords, cookieOp[o] = NoOp,
           cookieOp' = [cookieOp EXCEPT ![o] = n],
           n.slot = {}, n.epoch = tab.gen, ~tab.loggingOut, n.kind \in {"login", "refresh"},
           n.kind = "refresh" => ~tab.loggedOut /\ \A p \in Operations : cookieOp[p].kind # "refresh",
           UNCHANGED tab
    PROVE  /\ cookieOp' \in [Operations -> OpRecords]
           /\ \A p \in Operations : cookieOp'[p].slot \subseteq cookieOp[p].slot
           /\ tab.loggedOut => \A p \in Operations : cookieOp'[p].kind # "refresh"
           /\ \A p, q \in Operations : cookieOp'[p].kind = "refresh" /\ cookieOp'[q].kind = "refresh" => p = q
           /\ \A p \in Operations : cookieOp[p].kind = "refresh" => cookieOp'[p] = cookieOp[p]
           /\ cookieOp'[o] = n
           /\ UNCHANGED logout => Flights'
<1>1. /\ cookieOp' \in [Operations -> OpRecords] /\ cookieOp'[o] = n
      /\ \A p \in Operations \ {o} : cookieOp'[p] = cookieOp[p]
  BY Facts
<1>2. cookieOp[o].kind = "none" /\ cookieOp[o].slot = {}
  BY Resting
<1>3. UNCHANGED logout => Flights'
  BY <1>1, Facts DEF Flights
<1>4. tab.loggedOut => \A p \in Operations : cookieOp'[p].kind # "refresh"
  BY <1>1, Facts DEF LoggingOut
<1>5. \A p, q \in Operations : cookieOp'[p].kind = "refresh" /\ cookieOp'[q].kind = "refresh" => p = q
  BY <1>1, Facts DEF OneFlight
<1> QED
  BY <1>1, <1>2, <1>3, <1>4, <1>5

LEMMA StartLoginHolds ==
    ASSUME SessionInv, NEW o \in Operations, StartLogin(o), UNCHANGED authVars
    PROVE  TabInv'
<1> DEFINE n == [kind |-> "login", pc |-> "config", epoch |-> tab.gen, slot |-> {}]
<1>1. /\ ~tab.loggingOut /\ cookieOp[o] = NoOp /\ cookieOp' = [cookieOp EXCEPT ![o] = n]
      /\ UNCHANGED <<tab, jar, call, logout, orphans>>
  BY DEF StartLogin
<1>2. n \in OpRecords /\ n.slot = {} /\ n.epoch = tab.gen /\ n.kind = "login"
  BY Facts DEF OpRecords, Tabs
<1> HIDE DEF n
<1>3. /\ cookieOp' \in [Operations -> OpRecords]
      /\ \A p \in Operations : cookieOp'[p].slot \subseteq cookieOp[p].slot
      /\ tab.loggedOut => \A p \in Operations : cookieOp'[p].kind # "refresh"
      /\ \A p, q \in Operations : cookieOp'[p].kind = "refresh" /\ cookieOp'[q].kind = "refresh" => p = q
      /\ \A p \in Operations : cookieOp[p].kind = "refresh" => cookieOp'[p] = cookieOp[p]
      /\ Flights'
  BY <1>1, <1>2, OperationStarts
<1>4. OneFlight'
  BY <1>1, <1>3, Facts DEF OneFlight
<1> QED
  BY <1>1, <1>3, <1>4, Facts, TabSteps

LEMMA UnauthorizedHolds ==
    ASSUME SessionInv, NEW c \in Calls, Unauthorized(c), UNCHANGED authVars
    PROVE  TabInv'
<1>1. UNCHANGED <<jar, logout, orphans>> /\ call[c].pc = "sent" /\ call[c] \in CallRecords
  BY Facts DEF Unauthorized
<1>2. CASE CanRetry(call[c].epoch) /\ JoinRefresh /\ call' = [call EXCEPT ![c].pc = "waiting"] /\ UNCHANGED tab
  <2>1. ~tab.loggingOut /\ ~tab.loggedOut /\ call[c].epoch = tab.gen
    BY <1>2 DEF CanRetry
  <2>2. /\ call' \in [Calls -> CallRecords] /\ call'[c].pc = "waiting" /\ call'[c].epoch = tab.gen
        /\ \A d \in Calls \ {c} : call'[d] = call[d]
    <3>1. [call[c] EXCEPT !.pc = "waiting"] \in CallRecords
      BY <1>1 DEF CallRecords
    <3>2. call' = [call EXCEPT ![c] = [call[c] EXCEPT !.pc = "waiting"]]
      BY <1>2, Facts
    <3> QED
      BY <1>1, <2>1, <3>1, <3>2, Facts DEF CallRecords
  <2>3. CASE \E o \in InFlight("refresh") : cookieOp[o].epoch = tab.gen
    <3>1. UNCHANGED cookieOp
      BY <1>2, <2>3 DEF JoinRefresh
    <3>2. Flights'
      BY <1>1, <1>2, <3>1, Facts DEF Flights
    <3>3. OneFlight'
      BY <2>2, <2>3, <3>1, Facts DEF OneFlight, InFlight
    <3> QED
      BY <1>1, <1>2, <2>1, <2>2, <3>1, <3>2, <3>3, Facts, TabSteps
  <2>4. CASE ~\E o \in InFlight("refresh") : cookieOp[o].epoch = tab.gen
    <3> DEFINE n == [kind |-> "refresh", pc |-> "config", epoch |-> tab.gen, slot |-> {}]
    <3>1. PICK o \in Operations : cookieOp[o] = NoOp /\ cookieOp' = [cookieOp EXCEPT ![o] = n]
      BY <1>2, <2>4 DEF JoinRefresh
    <3>2. n \in OpRecords /\ n.slot = {} /\ n.epoch = tab.gen /\ n.kind = "refresh"
      BY Facts DEF OpRecords, Tabs
    <3> HIDE DEF n
    <3>3. \A p \in Operations : cookieOp[p].kind # "refresh"
      BY <2>1, <2>4, Facts, Resting DEF Flights, InFlight
    <3>4. /\ cookieOp' \in [Operations -> OpRecords]
          /\ \A p \in Operations : cookieOp'[p].slot \subseteq cookieOp[p].slot
          /\ \A p, q \in Operations : cookieOp'[p].kind = "refresh" /\ cookieOp'[q].kind = "refresh" => p = q
          /\ cookieOp'[o] = n /\ Flights'
      BY <1>1, <1>2, <2>1, <3>1, <3>2, <3>3, OperationStarts
    <3>5. OneFlight'
      BY <2>2, <3>2, <3>3, <3>4, Facts DEF OneFlight
    <3> QED
      BY <1>1, <1>2, <2>1, <2>2, <3>4, <3>5, Facts, TabSteps
  <2> QED
    BY <2>3, <2>4
<1>3. CASE tab' = [tab EXCEPT !.user = FALSE] /\ call' = [call EXCEPT ![c] = NoCall] /\ UNCHANGED cookieOp
  <2>1. /\ tab' \in Tabs /\ tab'.gen = tab.gen /\ tab'.loggingOut = tab.loggingOut
        /\ tab'.loggedOut = tab.loggedOut /\ ~tab'.user
    BY <1>3, Facts DEF Tabs
  <2> QED
    BY <1>1, <1>3, <2>1, Resting, CallSteps
<1>4. CASE call' = [call EXCEPT ![c] = NoCall] /\ UNCHANGED <<tab, cookieOp>>
  BY <1>1, <1>4, Facts, Resting, CallSteps
<1> QED
  BY <1>2, <1>3, <1>4 DEF Unauthorized

-----------------------------------------------------------------------------
(* Logout begins, ends; cookies expire.                                     *)
LEMMA StartLogoutHolds ==
    ASSUME SessionInv, StartLogout, UNCHANGED authVars
    PROVE  TabInv'
<1>1. /\ logout = NoLogout /\ ~tab.loggedOut /\ ~tab.loggingOut
      /\ UNCHANGED <<jar, call, cookieOp, orphans>> /\ UNCHANGED <<sessions, redeemed, req>>
  BY Facts DEF StartLogout, LoggingOut, authVars
<1>2. /\ tab' \in Tabs /\ tab'.gen = tab.gen + 1 /\ tab'.loggingOut
      /\ tab'.loggedOut = tab.loggedOut /\ tab'.user = tab.user
  <2>1. tab \in Tabs /\ tab.gen < MaxLogouts /\ tab' = [tab EXCEPT !.loggingOut = TRUE, !.gen = @ + 1]
    BY Facts DEF StartLogout
  <2>2. tab.gen + 1 \in 0..MaxLogouts
    BY <2>1 DEF Tabs
  <2> QED
    BY <2>1, <2>2 DEF Tabs
<1>3. /\ logout' \in Logouts /\ logout'.pc = "drain" /\ logout'.slot = {}
      /\ logout'.pending = {o \in Operations : cookieOp[o] # NoOp}
  BY DEF StartLogout, Logouts
<1>4. logout' # NoLogout /\ logout.slot = {}
  BY <1>1, <1>3, Resting
<1>5. TypeOK'
  BY <1>1, <1>2, <1>3, Facts, TypePartsNext DEF TabTypes, AuthTypeOK
<1>6. Flights'
  BY <1>1, <1>2, <1>3, Facts DEF Flights, Tabs
<1>7. OneFlight' /\ Held'
  BY <1>1, Facts DEF OneFlight, Held, Issued
<1>8. LoggingOut'
  BY <1>1, <1>2, <1>3, <1>4, Facts DEF LoggingOut
<1>9. Slots'
  BY <1>1, <1>3, <1>4, Facts DEF Slots
<1> QED
  BY <1>5, <1>6, <1>7, <1>8, <1>9 DEF TabInv

LEMMA EndLogoutHolds ==
    ASSUME SessionInv, EndLogout, UNCHANGED authVars
    PROVE  TabInv'
<1>1. /\ logout' = NoLogout /\ UNCHANGED <<jar, call, cookieOp, orphans>>
      /\ UNCHANGED <<sessions, redeemed, req>>
  BY DEF EndLogout, authVars
<1>2. tab.loggingOut /\ \A o \in Operations : cookieOp[o] = NoOp
  BY Facts, AtRest, NobodyFlies DEF EndLogout, SessionInv, LoggingOut
<1>3. tab' \in Tabs /\ ~tab'.loggingOut /\ tab'.loggedOut = tab.loggedOut /\ tab'.user = tab.user
  BY Facts DEF EndLogout, Tabs
<1>4. TypeOK'
  BY <1>1, <1>3, Resting, Facts, TypePartsNext DEF TabTypes, AuthTypeOK
<1>5. Flights'
  BY <1>1, <1>2, Resting DEF Flights
<1>6. OneFlight' /\ Held'
  BY <1>1, Facts DEF OneFlight, Held, Issued
<1>7. LoggingOut'
  BY <1>1, <1>3, Resting, Facts DEF LoggingOut
<1>8. Slots'
  BY <1>1, Resting, Facts DEF Slots
<1> QED
  BY <1>4, <1>5, <1>6, <1>7, <1>8 DEF TabInv

LEMMA CookiesExpireHolds ==
    ASSUME SessionInv, CookiesExpire, UNCHANGED authVars
    PROVE  TabInv'
<1>1. UNCHANGED <<tab, call, cookieOp, logout, orphans>> /\ UNCHANGED <<sessions, redeemed, req>>
  BY DEF CookiesExpire, authVars
<1>2. /\ jar' \in [access : BOOLEAN, refresh : Ids \cup {0}]
      /\ jar.access => jar'.refresh = jar.refresh
      /\ jar'.refresh # jar.refresh => jar'.refresh = 0 /\ sessions[jar.refresh] = "expired"
  BY Facts DEF CookiesExpire
<1>3. ~(jar.access = FALSE /\ jar.refresh = 0)
  BY DEF CookiesExpire
<1>4. logout.pc # "leaving"
  BY <1>3, Facts DEF LoggingOut
<1>5. TypeOK'
  BY <1>1, <1>2, Facts, TypePartsNext DEF TabTypes, AuthTypeOK
<1>6. Flights' /\ OneFlight' /\ Slots'
  BY <1>1, Facts DEF Flights, OneFlight, Slots
<1>7. LoggingOut'
  BY <1>1, <1>4, Facts DEF LoggingOut
<1>8. Held'
  BY <1>1, <1>2, Facts DEF Held, Issued
<1> QED
  BY <1>5, <1>6, <1>7, <1>8 DEF TabInv

-----------------------------------------------------------------------------
(* Requests that leave, and what their ends do to the tab.                  *)

(* A request that had no slot begins for whoever takes it.                  *)
LEMMA Beginning ==
    ASSUME SessionInv, NEW r \in Requests, NEW p \in {"login", "read", "revoke"},
           NEW i \in Ids \cup {0}, Begin(r, p, i), UNCHANGED <<sessions, redeemed>>
    PROVE  /\ AuthTypeOK' /\ req[r].issued = 0 /\ r \notin logout.slot
           /\ \A o \in Operations : r \notin cookieOp[o].slot
           /\ req'[r] = [pc |-> p, token |-> i, issued |-> 0]
           /\ \A q \in Requests : q # r => req'[q] = req[q]
           /\ UNCHANGED <<jar, orphans>> => Held'
<1>1. /\ req[r].pc = "idle" /\ req'[r] = [pc |-> p, token |-> i, issued |-> 0] /\ AuthTypeOK'
      /\ \A q \in Requests : q # r => req'[q] = req[q]
  BY Facts DEF Begin, AuthTypeOK
<1>2. req[r].issued = 0
  BY <1>1 DEF SessionInv, AuthInv, InHand
<1>3. r \notin logout.slot /\ \A o \in Operations : r \notin cookieOp[o].slot
  BY <1>1, Facts DEF Slots
<1>4. \A j \in Ids : j # 0
  BY DEF Ids
<1>5. UNCHANGED <<jar, orphans>> => Held'
  BY <1>1, <1>2, <1>4, Facts DEF Held, Issued
<1> QED
  BY <1>1, <1>2, <1>3, <1>5

LEMMA PostHolds ==
    ASSUME SessionInv, NEW o \in Operations, NEW r \in Requests, Post(o, r),
           UNCHANGED <<sessions, redeemed>>
    PROVE  TabInv'
<1> DEFINE n == [cookieOp[o] EXCEPT !.pc = "sent", !.slot = {r}]
           p == IF cookieOp[o].kind = "login" THEN "login" ELSE "read"
           i == IF cookieOp[o].kind = "login" THEN 0 ELSE jar.refresh
<1>1. /\ cookieOp[o].pc = "config" /\ Begin(r, p, i)
      /\ UNCHANGED <<tab, jar, call, logout, orphans>>
  BY DEF Post
<1>2. cookieOp' = [cookieOp EXCEPT ![o] = n]
  BY Facts DEF Post
<1>3. /\ cookieOp[o] \in OpRecords /\ n \in OpRecords /\ n.kind = cookieOp[o].kind
      /\ n.epoch = cookieOp[o].epoch /\ n.slot = {r} /\ cookieOp[o] # NoOp
  BY <1>1, Facts, Resting DEF OpRecords
<1>4. p \in {"login", "read", "revoke"} /\ i \in Ids \cup {0}
  BY Facts
<1> HIDE DEF n, p, i
<1>5. /\ AuthTypeOK' /\ Held' /\ r \notin logout.slot
      /\ \A q \in Operations : r \notin cookieOp[q].slot
      /\ req'[r] = [pc |-> p, token |-> i, issued |-> 0]
      /\ \A q \in Requests : q # r => req'[q] = req[q]
  BY <1>1, <1>4, Beginning
<1>6. /\ cookieOp' \in [Operations -> OpRecords] /\ cookieOp'[o] = n
      /\ \A q \in Operations \ {o} : cookieOp'[q] = cookieOp[q]
  BY <1>2, <1>3, Facts
<1>7. TypeOK'
  BY <1>1, <1>5, <1>6, Facts, TypePartsNext DEF TabTypes
<1>8. Flights'
  <2>1. \A q \in Operations : cookieOp[q] # NoOp <=> cookieOp'[q] # NoOp
    BY <1>3, <1>6, Resting
  <2>2. logout.pending \subseteq Operations
    BY Facts DEF Logouts
  <2> QED
    BY <1>1, <1>3, <1>6, <2>1, <2>2, Facts DEF Flights
<1>9. OneFlight' /\ LoggingOut'
  <2>1. \A q \in Operations : cookieOp'[q].kind = cookieOp[q].kind /\ cookieOp'[q].epoch = cookieOp[q].epoch
    BY <1>3, <1>6
  <2>2. OneFlight'
    BY <1>1, <2>1, Facts DEF OneFlight
  <2>3. LoggingOut'
    BY <1>1, <2>1, Facts DEF LoggingOut
  <2> QED
    BY <2>2, <2>3
<1>10. Slots'
  <2>1. \A q \in Operations \ {o} : \A s \in cookieOp[q].slot : s # r
    BY <1>5
  <2>2. req'[r].pc # "idle"
    BY <1>4, <1>5
  <2>3. \A q \in Operations : cookieOp[q].slot \subseteq Requests
    BY Facts DEF OpRecords
  <2>4. logout.slot \subseteq Requests
    BY Facts DEF Logouts
  <2> QED
    BY <1>1, <1>3, <1>5, <1>6, <2>1, <2>2, <2>3, <2>4, Facts DEF Slots
<1> QED
  BY <1>5, <1>7, <1>8, <1>9, <1>10 DEF TabInv

(* The end of an operation frees its place, lets go of everybody who waited *)
(* for it, and changes nothing of a logout but whom it still waits for.     *)
LEMMA Settling ==
    ASSUME SessionInv, NEW o \in Operations, NEW ok \in BOOLEAN, cookieOp[o] # NoOp,
           Settle(o, ok), jar' \in [access : BOOLEAN, refresh : Ids \cup {0}]
    PROVE  /\ tab' \in Tabs /\ call' \in [Calls -> CallRecords] /\ logout' \in Logouts
           /\ cookieOp' \in [Operations -> OpRecords]
           /\ cookieOp'[o] = NoOp /\ \A p \in Operations \ {o} : cookieOp'[p] = cookieOp[p]
           /\ logout'.slot = logout.slot
           /\ Flights' /\ OneFlight' /\ LoggingOut'
<1>1. /\ tab' = After(o, ok) /\ call' = Resume(o, ok)
      /\ cookieOp' = [cookieOp EXCEPT ![o] = NoOp]
      /\ logout' = [logout EXCEPT !.pending = @ \ {o}]
  BY DEF Settle
<1>2. /\ cookieOp' \in [Operations -> OpRecords] /\ cookieOp'[o] = NoOp
      /\ \A p \in Operations \ {o} : cookieOp'[p] = cookieOp[p]
  BY <1>1, Facts, Resting
<1>3. /\ logout' \in Logouts /\ logout'.pc = logout.pc /\ logout'.slot = logout.slot
      /\ logout'.pending = logout.pending \ {o}
  BY <1>1, Facts DEF Logouts
<1>4. /\ tab' \in Tabs /\ tab'.gen = tab.gen /\ tab'.loggingOut = tab.loggingOut
      /\ tab'.loggedOut => tab.loggedOut
  BY <1>1, Facts DEF After, Tabs
<1>5. call' \in [Calls -> CallRecords]
  <2>1. \A c \in Calls : [call[c] EXCEPT !.pc = "sent", !.again = TRUE, !.access = jar'.access] \in CallRecords
    <3>1. jar'.access \in BOOLEAN
      OBVIOUS
    <3> QED
      BY <3>1, Facts DEF CallRecords
  <2> QED
    BY <1>1, <2>1, Facts, Resting DEF Resume
<1>6. \A c \in Calls :
         /\ call'[c].pc = "waiting" => cookieOp[o].kind # "refresh" /\ call'[c] = call[c]
         /\ call'[c].pc = "config" => call'[c] = call[c]
  <2> SUFFICES ASSUME NEW c \in Calls
               PROVE  /\ call'[c].pc = "waiting" => cookieOp[o].kind # "refresh" /\ call'[c] = call[c]
                      /\ call'[c].pc = "config" => call'[c] = call[c]
    OBVIOUS
  <2>1. call[c] \in CallRecords
    BY Facts
  <2>2. CASE cookieOp[o].kind = "refresh" /\ call[c].pc = "waiting"
    <3>1. \/ call'[c] = [call[c] EXCEPT !.pc = "sent", !.again = TRUE, !.access = jar'.access]
          \/ call'[c] = NoCall
      BY <1>1, <2>2 DEF Resume
    <3>2. call'[c].pc \in {"sent", "idle"}
      BY <2>1, <3>1, Resting DEF CallRecords
    <3> QED
      BY <3>2
  <2>3. CASE ~(cookieOp[o].kind = "refresh" /\ call[c].pc = "waiting")
    <3>1. call'[c] = call[c]
      BY <1>1, <2>3 DEF Resume
    <3> QED
      BY <2>3, <3>1
  <2> QED
    BY <2>2, <2>3
<1>7. logout.pc # "leaving"
  <2>1. CASE logout.pc = "leaving"
    <3>1. logout # NoLogout /\ logout.pending = {}
      BY <2>1, Facts, Resting DEF LoggingOut
    <3>2. tab.loggingOut
      BY <3>1, Facts DEF LoggingOut
    <3> QED
      BY <3>1, <3>2, NobodyFlies DEF SessionInv
  <2> QED
    BY <2>1
<1>8. Flights'
  <2>1. logout.pending \subseteq Operations
    BY Facts DEF Logouts
  <2> QED
    BY <1>2, <1>3, <1>4, <2>1, Facts DEF Flights
<1>9. OneFlight'
  <2>1. \A p \in Operations : cookieOp'[p].kind = "refresh" => p # o /\ cookieOp[p].kind = "refresh"
    BY <1>2, Resting
  <2>2. \A p, q \in Operations : cookieOp'[p].kind = "refresh" /\ cookieOp'[q].kind = "refresh" => p = q
    BY <2>1, Facts DEF OneFlight
  <2>3. \A c \in Calls : call'[c].pc = "waiting" =>
           \E p \in Operations : cookieOp'[p].kind = "refresh" /\ cookieOp'[p].epoch = call'[c].epoch
    BY <1>2, <1>6, Facts DEF OneFlight
  <2> QED
    BY <1>6, <2>2, <2>3, Facts DEF OneFlight
<1>10. logout' # NoLogout <=> logout # NoLogout
  <2>1. logout = NoLogout => logout' = NoLogout
    BY <1>1, Resting DEF NoLogout
  <2>2. logout' = NoLogout => logout.pc = "idle"
    BY <1>3, Resting
  <2> QED
    BY <2>1, <2>2, AtRest DEF SessionInv
<1>11. LoggingOut'
  <2>1. \A p \in Operations : tab'.loggedOut => cookieOp'[p].kind # "refresh"
    BY <1>2, <1>4, Resting, Facts DEF LoggingOut
  <2>2. /\ tab'.loggingOut <=> logout' # NoLogout
        /\ tab'.loggedOut /\ tab'.loggingOut => logout'.pc = "leaving"
    BY <1>3, <1>4, <1>10, Facts DEF LoggingOut
  <2>3. /\ logout'.pc # "drain" => logout'.pending = {}
        /\ logout'.pc # "sent" => logout'.slot = {}
        /\ logout'.pc # "leaving"
    BY <1>3, <1>7, Facts DEF LoggingOut
  <2> QED
    BY <2>1, <2>2, <2>3 DEF LoggingOut
<1> QED
  BY <1>2, <1>3, <1>4, <1>5, <1>8, <1>9, <1>11

(* An answer taken out of its slot. *)
LEMMA Releasing ==
    ASSUME SessionInv, NEW r \in Requests, Release(r), UNCHANGED <<sessions, redeemed>>
    PROVE  /\ AuthTypeOK' /\ req[r].pc = "done" /\ req'[r].issued = 0 /\ Issued' = Issued
           /\ req[r].issued # 0 => req[r].issued \in Issued
           /\ \A q \in Requests : q # r => req'[q] = req[q]
  BY Facts DEF Release, Quiet, SessionInv, AuthInv, AuthTypeOK, InHand, Issued

LEMMA DeliverHolds ==
    ASSUME SessionInv, NEW o \in Operations, Deliver(o), UNCHANGED <<sessions, redeemed>>
    PROVE  TabInv'
<1>1. PICK r \in cookieOp[o].slot, whole \in BOOLEAN :
         /\ jar' = IF req[r].issued # 0 THEN [access |-> TRUE, refresh |-> req[r].issued] ELSE jar
         /\ orphans' = IF req[r].issued # 0 THEN orphans \cup ({jar.refresh} \ {0}) ELSE orphans
         /\ Settle(o, whole /\ req[r].issued # 0)
         /\ Release(r)
  BY DEF Deliver
<1>2. r \in Requests /\ cookieOp[o] # NoOp
  BY Facts, Resting DEF OpRecords
<1>3. /\ AuthTypeOK' /\ req'[r].issued = 0 /\ Issued' = Issued
      /\ req[r].issued # 0 => req[r].issued \in Issued
      /\ \A q \in Requests : q # r => req'[q] = req[q]
  BY <1>1, <1>2, Releasing
<1>4. jar' \in [access : BOOLEAN, refresh : Ids \cup {0}] /\ orphans' \subseteq Ids
  BY <1>1, <1>3, Facts DEF Issued
<1>5. (whole /\ req[r].issued # 0) \in BOOLEAN
  OBVIOUS
<1>6. /\ tab' \in Tabs /\ call' \in [Calls -> CallRecords] /\ logout' \in Logouts
      /\ cookieOp' \in [Operations -> OpRecords]
      /\ cookieOp'[o] = NoOp /\ \A p \in Operations \ {o} : cookieOp'[p] = cookieOp[p]
      /\ logout'.slot = logout.slot
      /\ Flights' /\ OneFlight' /\ LoggingOut'
  BY <1>1, <1>2, <1>4, <1>5, Settling
<1>7. TypeOK'
  BY <1>3, <1>4, <1>6, TypePartsNext DEF TabTypes
<1>8. Slots'
  <2>1. \A p \in Operations \ {o} : r \notin cookieOp[p].slot
    BY <1>1, <1>2, Facts DEF Slots
  <2>2. r \notin logout.slot
    BY <1>1, Facts DEF Slots
  <2>3. \A p \in Operations : cookieOp'[p].slot \subseteq Requests
    BY <1>6 DEF OpRecords
  <2>4. logout.slot \subseteq Requests
    BY Facts DEF Logouts
  <2> QED
    BY <1>3, <1>6, <2>1, <2>2, <2>3, <2>4, Resting, Facts DEF Slots
<1>9. Held'
  <2>1. {jar'.refresh} \ {0} \subseteq Issued'
    BY <1>1, <1>3, Facts DEF Held
  <2>2. orphans' \subseteq Issued'
    BY <1>1, <1>3, Facts DEF Held
  <2>3. ASSUME NEW i \in Ids, sessions'[i] = "live"
        PROVE  i \in orphans' \/ i = jar'.refresh \/ \E q \in Requests : req'[q].issued = i
    <3>0. i # 0
      BY DEF Ids
    <3>1. i \in orphans \/ i = jar.refresh \/ \E q \in Requests : req[q].issued = i
      BY <2>3, Facts DEF Held
    <3>2. CASE i \in orphans
      BY <1>1, <3>2
    <3>3. CASE i = jar.refresh
      BY <1>1, <3>0, <3>3
    <3>4. ASSUME NEW q \in Requests, req[q].issued = i
          PROVE  i = jar'.refresh \/ req'[q].issued = i
      BY <1>1, <1>3, <3>0, <3>4
    <3> QED
      BY <3>1, <3>2, <3>3, <3>4
  <2> QED
    BY <2>1, <2>2, <2>3 DEF Held
<1> QED
  BY <1>6, <1>7, <1>8, <1>9 DEF TabInv

LEMMA DropHolds ==
    ASSUME SessionInv, NEW o \in Operations, Drop(o), UNCHANGED authVars
    PROVE  TabInv'
<1>1. UNCHANGED <<jar, orphans>> /\ Settle(o, FALSE) /\ UNCHANGED <<sessions, redeemed, req>>
  BY DEF Drop, authVars
<1>2. cookieOp[o] # NoOp
  BY Resting DEF Drop
<1>3. /\ tab' \in Tabs /\ call' \in [Calls -> CallRecords] /\ logout' \in Logouts
      /\ cookieOp' \in [Operations -> OpRecords]
      /\ cookieOp'[o] = NoOp /\ \A p \in Operations \ {o} : cookieOp'[p] = cookieOp[p]
      /\ logout'.slot = logout.slot
      /\ Flights' /\ OneFlight' /\ LoggingOut'
  BY <1>1, <1>2, Facts, Settling
<1>4. TypeOK'
  BY <1>1, <1>3, Facts, TypePartsNext DEF TabTypes, AuthTypeOK
<1>5. Slots'
  BY <1>1, <1>3, Resting, Facts DEF Slots
<1>6. Held'
  BY <1>1, Facts DEF Held, Issued
<1> QED
  BY <1>3, <1>4, <1>5, <1>6 DEF TabInv

LEMMA PostLogoutHolds ==
    ASSUME SessionInv, NEW r \in Requests, PostLogout(r), UNCHANGED <<sessions, redeemed>>
    PROVE  TabInv'
<1>1. /\ logout.pc = "drain" /\ logout.pending = {} /\ Begin(r, "revoke", jar.refresh)
      /\ UNCHANGED <<tab, jar, call, cookieOp, orphans>>
  BY DEF PostLogout
<1>2. /\ logout' \in Logouts /\ logout'.pc = "sent" /\ logout'.slot = {r}
      /\ logout'.pending = {}
  BY Facts DEF PostLogout, Logouts
<1>3. logout # NoLogout /\ logout' # NoLogout
  BY <1>1, <1>2, Resting
<1>4. /\ AuthTypeOK' /\ Held' /\ req'[r] = [pc |-> "revoke", token |-> jar.refresh, issued |-> 0]
      /\ \A o \in Operations : r \notin cookieOp[o].slot
      /\ \A q \in Requests : q # r => req'[q] = req[q]
  BY <1>1, Facts, Beginning
<1>5. TypeOK'
  BY <1>1, <1>2, <1>4, Facts, TypePartsNext DEF TabTypes
<1>6. tab.loggingOut
  BY <1>3, Facts DEF LoggingOut
<1>7. \A o \in Operations : cookieOp[o] = NoOp
  BY <1>1, <1>6, NobodyFlies DEF SessionInv
<1>8. Flights' /\ OneFlight'
  <2>1. Flights'
    BY <1>1, <1>2, <1>7 DEF Flights
  <2>2. OneFlight'
    BY <1>1, Facts DEF OneFlight
  <2> QED
    BY <2>1, <2>2
<1>9. LoggingOut'
  BY <1>1, <1>2, <1>3, <1>6, Facts DEF LoggingOut
<1>10. Slots'
  BY <1>1, <1>2, <1>4, <1>7, Resting DEF Slots
<1> QED
  BY <1>4, <1>5, <1>8, <1>9, <1>10 DEF TabInv

LEMMA LoggedOutHolds ==
    ASSUME SessionInv, LoggedOut, UNCHANGED <<sessions, redeemed>>
    PROVE  TabInv'
<1>1. PICK r \in logout.slot, whole \in BOOLEAN :
         /\ jar' = [access |-> FALSE, refresh |-> 0]
         /\ orphans' = orphans \cup ({jar.refresh} \ {0})
         /\ logout' = IF whole THEN [NoLogout EXCEPT !.pc = "leaving"] ELSE NoLogout
         /\ tab' = IF whole THEN [tab EXCEPT !.loggedOut = TRUE, !.user = FALSE]
                   ELSE [tab EXCEPT !.loggingOut = FALSE]
         /\ UNCHANGED <<call, cookieOp>>
         /\ Release(r)
  BY DEF LoggedOut
<1>2. r \in Requests /\ logout.pending = {} /\ logout # NoLogout /\ logout.pc = "sent"
  BY Facts, Resting DEF Logouts, LoggingOut
<1>3. tab.loggingOut
  BY <1>2, Facts DEF LoggingOut
<1>4. \A o \in Operations : cookieOp[o] = NoOp
  BY <1>2, <1>3, NobodyFlies DEF SessionInv
<1>5. /\ AuthTypeOK' /\ Issued' = Issued
      /\ \A q \in Requests : q # r => req'[q] = req[q]
  BY <1>1, <1>2, Releasing
<1>6. ~tab.loggedOut
  BY <1>2, <1>3, Facts DEF LoggingOut
<1>7. /\ logout' \in Logouts /\ logout'.pending = {} /\ logout'.slot = {}
      /\ whole => logout'.pc = "leaving" /\ logout' # NoLogout
      /\ ~whole => logout'.pc = "idle" /\ logout' = NoLogout
  BY <1>1 DEF Logouts, NoLogout
<1>8. /\ tab' \in Tabs
      /\ whole => tab'.loggedOut /\ ~tab'.user /\ tab'.loggingOut
      /\ ~whole => tab'.loggedOut = FALSE /\ ~tab'.loggingOut
  BY <1>1, <1>3, <1>6, Facts DEF Tabs
<1>9. TypeOK'
  <2>1. jar' \in [access : BOOLEAN, refresh : Ids \cup {0}] /\ orphans' \subseteq Ids
    BY <1>1, Facts
  <2> QED
    BY <1>1, <1>5, <1>7, <1>8, <2>1, Facts, TypePartsNext DEF TabTypes
<1>10. Flights' /\ OneFlight'
  <2>1. Flights'
    BY <1>1, <1>4, <1>7 DEF Flights
  <2>2. OneFlight'
    BY <1>1, Facts DEF OneFlight
  <2> QED
    BY <2>1, <2>2
<1>11. LoggingOut'
  BY <1>1, <1>4, <1>7, <1>8, Resting DEF LoggingOut
<1>12. Slots'
  BY <1>1, <1>4, <1>7, Resting DEF Slots
<1>13. Held'
  <2>1. req[r].issued = 0
    BY Facts DEF Slots
  <2>2. ASSUME NEW i \in Ids, sessions'[i] = "live"
        PROVE  i \in orphans' \/ \E q \in Requests : req'[q].issued = i
    <3>1. i # 0 /\ (i \in orphans \/ i = jar.refresh \/ \E q \in Requests : req[q].issued = i)
      BY <2>2, Facts DEF Held, Ids
    <3> QED
      BY <1>1, <1>5, <2>1, <3>1
  <2> QED
    BY <1>1, <1>5, <2>2, Facts DEF Held
<1> QED
  BY <1>9, <1>10, <1>11, <1>12, <1>13 DEF TabInv

LEMMA VanishHolds ==
    ASSUME SessionInv, NEW r \in Requests, Vanish(r), UNCHANGED <<sessions, redeemed>>
    PROVE  TabInv'
<1>1. /\ Release(r) /\ orphans' = orphans \cup ({req[r].issued} \ {0})
      /\ r \notin logout.slot /\ \A o \in Operations : r \notin cookieOp[o].slot
      /\ UNCHANGED <<tab, jar, call, cookieOp, logout>>
  BY DEF Vanish, Abandoned
<1>2. /\ AuthTypeOK' /\ Issued' = Issued /\ req'[r].issued = 0
      /\ req[r].issued # 0 => req[r].issued \in Issued
      /\ \A q \in Requests : q # r => req'[q] = req[q]
  BY <1>1, Releasing
<1>3. TypeOK'
  <2>1. orphans' \subseteq Ids
    BY <1>1, <1>2, Facts DEF Issued
  <2> QED
    BY <1>1, <1>2, <2>1, Facts, TypePartsNext DEF TabTypes
<1>4. Flights' /\ OneFlight' /\ LoggingOut'
  BY <1>1, Facts DEF Flights, OneFlight, LoggingOut
<1>5. Slots'
  <2>1. logout.slot \subseteq Requests /\ \A o \in Operations : cookieOp[o].slot \subseteq Requests
    BY Facts DEF Logouts, OpRecords
  <2> QED
    BY <1>1, <1>2, <2>1, Facts DEF Slots
<1>6. Held'
  <2>1. ASSUME NEW i \in Ids, sessions'[i] = "live"
        PROVE  i \in orphans' \/ i = jar'.refresh \/ \E q \in Requests : req'[q].issued = i
    <3>1. i # 0 /\ (i \in orphans \/ i = jar.refresh \/ \E q \in Requests : req[q].issued = i)
      BY <2>1, Facts DEF Held, Ids
    <3> QED
      BY <1>1, <1>2, <3>1
  <2> QED
    BY <1>1, <1>2, <2>1, Facts DEF Held
<1> QED
  BY <1>3, <1>4, <1>5, <1>6 DEF TabInv

-----------------------------------------------------------------------------
(* The server moves while the browser does not.                             *)
LEMMA ServerSteps ==
    ASSUME SessionInv, NEW r \in Requests, UNCHANGED clientVars, AuthTypeOK',
           req[r].pc \notin {"idle", "done"}, req'[r].pc # "idle",
           req[r].pc = "revoke" => req'[r].pc = "done" /\ req'[r].issued = 0,
           \A q \in Requests : q # r => req'[q] = req[q],
           \A i \in Ids : /\ sessions[i] # "none" => sessions'[i] # "none"
                          /\ sessions'[i] = "live" => sessions[i] = "live" \/ req'[r].issued = i
    PROVE  TabInv'
<1>1. UNCHANGED <<tab, jar, call, cookieOp, logout, orphans>>
  BY DEF clientVars
<1>2. TypeOK'
  BY <1>1, Facts, TypePartsNext DEF TabTypes
<1>3. Flights' /\ OneFlight' /\ LoggingOut'
  BY <1>1, Facts DEF Flights, OneFlight, LoggingOut
<1>4. Slots'
  <2>1. logout.slot \subseteq Requests /\ \A o \in Operations : cookieOp[o].slot \subseteq Requests
    BY Facts DEF Logouts, OpRecords
  <2> QED
    BY <1>1, <2>1, Facts DEF Slots
<1>5. Held'
  <2>1. Issued \subseteq Issued'
    BY DEF Issued
  <2>2. req[r].issued = 0
    BY DEF SessionInv, AuthInv, InHand
  <2>3. ASSUME NEW i \in Ids, sessions'[i] = "live"
        PROVE  i \in orphans' \/ i = jar'.refresh \/ \E q \in Requests : req'[q].issued = i
    <3>1. i # 0
      BY DEF Ids
    <3>2. CASE req'[r].issued = i
      BY <3>2
    <3>3. CASE sessions[i] = "live"
      <4>1. i \in orphans \/ i = jar.refresh \/ \E q \in Requests : req[q].issued = i
        BY <3>3, Facts DEF Held
      <4> QED
        BY <1>1, <2>2, <3>1, <4>1
    <3> QED
      BY <2>3, <3>2, <3>3
  <2> QED
    BY <1>1, <2>1, <2>3, Facts DEF Held
<1> QED
  BY <1>2, <1>3, <1>4, <1>5 DEF TabInv

LEMMA ServesHolds ==
    ASSUME SessionInv, NEW r \in Requests, Serves(r), UNCHANGED clientVars, AuthInv'
    PROVE  TabInv'
<1>1. AuthTypeOK' /\ AuthTypeOK /\ InHand
  BY DEF SessionInv, AuthInv
<1>2. CASE Login(r)
  <2>1. CASE Done(r, 0) /\ UNCHANGED sessions
    BY <1>1, <1>2, <2>1, ServerSteps DEF Login, Done, AuthTypeOK
  <2>2. CASE Issued # Ids /\ sessions' = [sessions EXCEPT ![Fresh] = "live"] /\ Done(r, Fresh)
    <3>1. Fresh \in Ids /\ sessions[Fresh] = "none"
      BY <2>2, FreshIsNew
    <3>2. /\ req[r].pc = "login" /\ req'[r].pc = "done" /\ req'[r].issued = Fresh
          /\ \A q \in Requests : q # r => req'[q] = req[q]
      BY <1>1, <1>2, <2>2 DEF Login, Done, AuthTypeOK
    <3>3. \A i \in Ids : sessions'[i] = IF i = Fresh THEN "live" ELSE sessions[i]
      BY <1>1, <2>2, <3>1 DEF AuthTypeOK
    <3> QED
      BY <1>1, <3>2, <3>3, ServerSteps
  <2> QED
    BY <1>2, <2>1, <2>2 DEF Login
<1>3. CASE RefreshRead(r)
  <2>1. /\ req[r].pc = "read" /\ req'[r].pc # "idle" /\ UNCHANGED sessions
        /\ \A q \in Requests : q # r => req'[q] = req[q]
    BY <1>1, <1>3 DEF RefreshRead, Done, AuthTypeOK
  <2> QED
    BY <1>1, <2>1, ServerSteps
<1>4. CASE RefreshClaim(r)
  <2>1. CASE Done(r, 0) /\ UNCHANGED sessions
    BY <1>1, <1>4, <2>1, ServerSteps DEF RefreshClaim, Done, AuthTypeOK
  <2>2. CASE /\ Issued # Ids /\ Done(r, Fresh)
             /\ sessions' = [sessions EXCEPT ![req[r].token] = "revoked", ![Fresh] = "live"]
    <3>1. Fresh \in Ids /\ sessions[Fresh] = "none"
      BY <2>2, FreshIsNew
    <3>2. /\ req[r].pc = "claim" /\ req'[r].pc = "done" /\ req'[r].issued = Fresh
          /\ \A q \in Requests : q # r => req'[q] = req[q]
      BY <1>1, <1>4, <2>2 DEF RefreshClaim, Done, AuthTypeOK
    <3>3. \A i \in Ids : sessions'[i] = IF i = Fresh THEN "live"
                                        ELSE IF i = req[r].token THEN "revoked" ELSE sessions[i]
      BY <1>1, <2>2, <3>1 DEF AuthTypeOK
    <3> QED
      BY <1>1, <3>2, <3>3, ServerSteps
  <2> QED
    BY <1>4, <2>1, <2>2 DEF RefreshClaim, Rotated
<1>5. CASE Logout(r)
  <2>1. /\ req[r].pc = "revoke" /\ req'[r].pc = "done" /\ req'[r].issued = 0
        /\ \A q \in Requests : q # r => req'[q] = req[q]
    BY <1>1, <1>5 DEF Logout, Done, AuthTypeOK
  <2>2. \A i \in Ids : sessions'[i] = sessions[i] \/ (sessions[i] = "live" /\ sessions'[i] = "revoked")
    BY <1>1, <1>5 DEF Logout, AuthTypeOK
  <2> QED
    BY <1>1, <2>1, <2>2, ServerSteps
<1> QED
  BY <1>2, <1>3, <1>4, <1>5 DEF Serves

LEMMA TabExpireHolds ==
    ASSUME SessionInv, NEW i \in Ids, Expire(i), UNCHANGED clientVars, AuthInv'
    PROVE  TabInv'
<1>1. UNCHANGED <<tab, jar, call, cookieOp, logout, orphans, req>> /\ AuthTypeOK'
  BY DEF clientVars, Expire, AuthInv
<1>2. Issued' = Issued /\ \A j \in Ids : sessions'[j] = "live" => sessions[j] = "live"
  BY Facts DEF Expire, AuthTypeOK, Issued
<1>3. TypeOK'
  BY <1>1, Facts, TypePartsNext DEF TabTypes
<1>4. Flights' /\ OneFlight' /\ LoggingOut' /\ Slots'
  BY <1>1, Facts DEF Flights, OneFlight, LoggingOut, Slots
<1>5. Held'
  BY <1>1, <1>2, Facts DEF Held
<1> QED
  BY <1>3, <1>4, <1>5 DEF TabInv

LEMMA TabStutters ==
    ASSUME SessionInv, UNCHANGED vars
    PROVE  TabInv'
<1>1. /\ UNCHANGED <<sessions, redeemed, req>>
      /\ UNCHANGED <<tab, jar, call, cookieOp, logout, orphans>>
  BY DEF vars
<1>2. TypeOK'
  BY <1>1, Facts, TypePartsNext DEF TabTypes, AuthTypeOK
<1>3. Flights' /\ OneFlight' /\ LoggingOut' /\ Slots' /\ Held'
  BY <1>1, Facts DEF Flights, OneFlight, LoggingOut, Slots, Held, Issued
<1> QED
  BY <1>2, <1>3 DEF TabInv

LEMMA TabInit == Init => SessionInv
<1> SUFFICES ASSUME Init PROVE SessionInv
  OBVIOUS
<1>1. AuthInv
  BY InitHolds DEF Init
<1>2. /\ tab = [gen |-> 0, loggingOut |-> FALSE, loggedOut |-> FALSE, user |-> FALSE]
      /\ jar = [access |-> FALSE, refresh |-> 0] /\ logout = NoLogout /\ orphans = {}
      /\ call = [c \in Calls |-> NoCall] /\ cookieOp = [o \in Operations |-> NoOp]
      /\ sessions = [i \in Ids |-> "none"]
  BY DEF Init, AuthInit
<1>3. TypeOK
  <2>1. call \in [Calls -> CallRecords] /\ cookieOp \in [Operations -> OpRecords] /\ logout \in Logouts
    BY <1>2, Resting
  <2>2. tab \in Tabs
    BY <1>2 DEF Tabs
  <2> QED
    BY <1>1, <1>2, <2>1, <2>2, TypeParts DEF TabTypes, AuthInv
<1>4. Flights /\ OneFlight /\ LoggingOut /\ Slots /\ Held
  BY <1>2, Resting DEF Flights, OneFlight, LoggingOut, Slots, Held
<1> QED
  BY <1>1, <1>3, <1>4 DEF SessionInv, TabInv

-----------------------------------------------------------------------------
(* What the tab asks of the server is what the server's specification lets  *)
(* anybody ask: a token sent is one that was issued.                        *)
LEMMA AuthSteps == SessionInv /\ [Next]_vars => [AuthNext]_authVars
<1> SUFFICES ASSUME SessionInv, [Next]_vars PROVE [AuthNext]_authVars
  OBVIOUS
<1>1. ASSUME NEW o \in Operations, NEW r \in Requests, Post(o, r), UNCHANGED <<sessions, redeemed>>
      PROVE  AuthNext
  <2>1. CASE cookieOp[o].kind = "login"
    BY <1>1, <2>1 DEF Post, AuthNext
  <2>2. CASE cookieOp[o].kind # "login"
    <3>1. cookieOp[o].kind = "refresh"
      <4>1. cookieOp[o] # NoOp
        BY <1>1, Resting DEF Post
      <4> QED
        BY <2>2, <4>1, Facts DEF Flights
    <3>2. jar.refresh \in Issued
      BY <1>1, <3>1, Facts DEF Post, Admitted, Held
    <3> QED
      BY <1>1, <2>2, <3>2 DEF Post, AuthNext
  <2> QED
    BY <2>1, <2>2
<1>2. ASSUME NEW r \in Requests, PostLogout(r), UNCHANGED <<sessions, redeemed>>
      PROVE  AuthNext
  <2>1. jar.refresh \in Issued /\ Begin(r, "revoke", jar.refresh)
    BY <1>2, Facts DEF PostLogout, Held
  <2> QED
    BY <1>2, <2>1 DEF AuthNext
<1>3. ASSUME NEW r \in Requests, Release(r), UNCHANGED <<sessions, redeemed>>
      PROVE  AuthNext
  BY <1>3 DEF AuthNext
<1>4. ASSUME NEW o \in Operations, Ending(o), UNCHANGED <<sessions, redeemed>>
      PROVE  AuthNext \/ UNCHANGED authVars
  <2>1. CASE Deliver(o)
    <3>1. PICK r \in cookieOp[o].slot : Release(r)
      BY <2>1 DEF Deliver
    <3>2. r \in Requests
      BY Facts DEF OpRecords
    <3> QED
      BY <1>3, <1>4, <3>1, <3>2
  <2>2. CASE UNCHANGED req
    BY <1>4, <2>2 DEF authVars
  <2> QED
    BY <1>4, <2>1, <2>2 DEF Ending
<1>5. CASE LoggedOut /\ UNCHANGED <<sessions, redeemed>>
  <2>1. PICK r \in logout.slot : Release(r)
    BY <1>5 DEF LoggedOut
  <2>2. r \in Requests
    BY Facts DEF Logouts
  <2> QED
    BY <1>3, <1>5, <2>1, <2>2
<1>6. ASSUME NEW r \in Requests, Vanish(r), UNCHANGED <<sessions, redeemed>>
      PROVE  AuthNext
  BY <1>3, <1>6 DEF Vanish
<1>7. CASE UNCHANGED vars
  BY <1>7 DEF vars, authVars
<1> QED
  BY <1>1, <1>2, <1>4, <1>5, <1>6, <1>7 DEF Next, AuthNext

LEMMA SessionHolds == SessionInv /\ [Next]_vars => SessionInv'
<1> SUFFICES ASSUME SessionInv, [Next]_vars PROVE SessionInv'
  OBVIOUS
<1>1. AuthInv'
  BY AuthSteps, NextHolds DEF SessionInv
<1>2. ASSUME UNCHANGED authVars, NEW c \in Calls, Calling(c) PROVE TabInv'
  BY <1>2, OkHolds, ConfirmedHolds, UnauthorizedHolds, BrokenHolds DEF Calling
<1>3. ASSUME UNCHANGED authVars, NEW c \in Calls, Send(c, "api") \/ Send(c, "me") PROVE TabInv'
  BY <1>3, SendHolds
<1>4. ASSUME UNCHANGED authVars, NEW o \in Operations, StartLogin(o) PROVE TabInv'
  BY <1>4, StartLoginHolds
<1>5. ASSUME UNCHANGED authVars, StartLogout \/ EndLogout \/ CookiesExpire PROVE TabInv'
  BY <1>5, StartLogoutHolds, EndLogoutHolds, CookiesExpireHolds
<1>6. ASSUME UNCHANGED <<sessions, redeemed>>, NEW o \in Operations, Ending(o) PROVE TabInv'
  BY <1>6, DeliverHolds, DropHolds DEF Ending, authVars
<1>7. ASSUME UNCHANGED <<sessions, redeemed>>, NEW o \in Operations, NEW r \in Requests, Post(o, r)
      PROVE  TabInv'
  BY <1>7, PostHolds
<1>8. ASSUME UNCHANGED <<sessions, redeemed>>, LoggedOut PROVE TabInv'
  BY <1>8, LoggedOutHolds
<1>9. ASSUME UNCHANGED <<sessions, redeemed>>, NEW r \in Requests, PostLogout(r) \/ Vanish(r)
      PROVE  TabInv'
  BY <1>9, PostLogoutHolds, VanishHolds
<1>10. ASSUME UNCHANGED clientVars, NEW r \in Requests, Serves(r) PROVE TabInv'
  BY <1>1, <1>10, ServesHolds
<1>11. ASSUME UNCHANGED clientVars, NEW i \in Ids, Expire(i) PROVE TabInv'
  BY <1>1, <1>11, TabExpireHolds
<1>12. ASSUME UNCHANGED vars PROVE TabInv'
  BY <1>12, TabStutters
<1>13. ASSUME Next PROVE TabInv'
  BY <1>2, <1>3, <1>4, <1>5, <1>6, <1>7, <1>8, <1>9, <1>10, <1>11, <1>13 DEF Next
<1> QED
  BY <1>1, <1>12, <1>13 DEF SessionInv

(* The inductive invariant of tab and server together.                      *)
THEOREM TabInvariant == Spec => []SessionInv
  BY TabInit, SessionHolds, PTL DEF Spec

(* The browser's behaviours are behaviours of the service it talks to, so   *)
(* whatever holds of the refresh sessions under any clients holds here.     *)
THEOREM TabUsesService == Spec => AuthSpec
<1>1. Init => AuthInit
  BY DEF Init
<1> QED
  BY <1>1, AuthSteps, TabInvariant, PTL DEF Spec, AuthSpec

(* A confirmed logout leaves no user, no cookie and no session that is      *)
(* valid and unaccounted for; no two refreshes run at once, and who waits   *)
(* for a refresh waits for one that is in flight.                           *)
THEOREM LogoutAndRefreshHold == Spec => []SessionsHeld
<1>1. SessionInv => LogoutClean
  <2> SUFFICES ASSUME SessionInv, logout.pc = "leaving"
               PROVE  /\ ~tab.user /\ jar = [access |-> FALSE, refresh |-> 0]
                      /\ \A i \in Ids : sessions[i] = "live" =>
                            i \in orphans \/ \E r \in Requests : req[r].issued = i /\ Abandoned(r)
    BY DEF LogoutClean
  <2>1. ~tab.user /\ jar = [access |-> FALSE, refresh |-> 0] /\ logout.pending = {} /\ logout.slot = {}
    BY Facts DEF LoggingOut
  <2>2. tab.loggingOut
    BY Facts, Resting DEF LoggingOut
  <2>3. \A r \in Requests : Abandoned(r)
    BY <2>1, <2>2, NobodyFlies, Resting DEF Abandoned, SessionInv
  <2>4. \A i \in Ids : i # jar.refresh
    BY <2>1 DEF Ids
  <2> QED
    BY <2>1, <2>3, <2>4, Facts DEF Held
<1>2. SessionInv => OneRefresh
  <2> SUFFICES ASSUME SessionInv PROVE OneRefresh
    OBVIOUS
  <2>1. Cardinality(InFlight("refresh")) <= 1
    <3>1. CASE InFlight("refresh") = {}
      BY <3>1, FS_EmptySet
    <3>2. ASSUME NEW o \in InFlight("refresh") PROVE Cardinality(InFlight("refresh")) <= 1
      <4>1. InFlight("refresh") = {o}
        BY <3>2, Facts DEF InFlight, OneFlight
      <4>2. Cardinality({o}) = 1
        BY FS_Singleton
      <4> QED
        BY <4>1, <4>2
    <3> QED
      BY <3>1, <3>2
  <2>2. \A c \in Calls : call[c].pc = "waiting" =>
           \E o \in InFlight("refresh") : cookieOp[o].epoch = call[c].epoch
    BY Facts DEF OneFlight, InFlight
  <2> QED
    BY <2>1, <2>2 DEF OneRefresh
<1>3. SessionInv => SessionsHeld
  BY <1>1, <1>2 DEF SessionsHeld
<1> QED
  BY <1>3, TabInvariant, PTL

(* What every part of the tab believes of the others, as one invariant.     *)
THEOREM PartsAgree == Spec => []Coherent
<1>1. SessionInv => Coherent
  <2> SUFFICES ASSUME SessionInv PROVE Coherent
    OBVIOUS
  <2>1. TypeOK /\ {jar.refresh} \ {0} \subseteq Issued /\ orphans \subseteq Issued
    BY DEF SessionInv, TabInv, Held
  <2>2. \A o, p \in Operations : cookieOp[o].slot \cap cookieOp[p].slot # {} => o = p
    <3>1. \A o \in Operations : cookieOp[o].slot \subseteq Requests
      BY Facts DEF OpRecords
    <3> QED
      BY <3>1, Facts DEF Slots
  <2>3. \A o \in Operations : \A r \in cookieOp[o].slot : req[r].pc # "idle" /\ r \notin logout.slot
    BY Facts DEF Slots
  <2>4. \A o \in logout.pending : cookieOp[o] # NoOp /\ cookieOp[o].epoch < tab.gen
    <3>1. logout.pending \subseteq Operations /\ tab.gen \in Nat
      BY Facts DEF Logouts, Tabs
    <3>2. logout.pending # {} => tab.loggingOut
      BY Facts, Resting DEF LoggingOut
    <3> QED
      BY <3>1, <3>2, Facts DEF Flights
  <2>5. /\ tab.loggingOut <=> logout # NoLogout
        /\ tab.loggingOut => \A o \in Operations : cookieOp[o] # NoOp => o \in logout.pending
    BY Facts DEF LoggingOut, Flights
  <2> QED
    BY <2>1, <2>2, <2>3, <2>4, <2>5 DEF Coherent
<1> QED
  BY <1>1, TabInvariant, PTL

-----------------------------------------------------------------------------
(* The user shown.                                                          *)

(* The end of an operation shows the user only if the operation belongs to  *)
(* the present generation, and after a logout only if it is a login.        *)
LEMMA EndShowsUser ==
    ASSUME SessionInv, NEW o \in Operations, NEW ok \in BOOLEAN, cookieOp[o] # NoOp, Settle(o, ok)
    PROVE  /\ cookieOp'[o] = NoOp
           /\ ~tab.user /\ tab'.user => /\ ~tab.loggingOut
                                        /\ EndsNow("login") \/ EndsNow("refresh")
           /\ tab.loggedOut => EndsNow("login")
<1>1. cookieOp'[o] = NoOp
  BY Facts DEF Settle
<1>2. cookieOp[o].kind \in {"login", "refresh"}
  BY Facts DEF Flights
<1>3. ~tab.user /\ tab'.user => ~tab.loggingOut /\ cookieOp[o].epoch = tab.gen
  BY <1>2, Facts DEF Settle, After, CanRetry, Tabs
<1>4. tab.loggedOut => cookieOp[o].kind = "login" /\ cookieOp[o].epoch = tab.gen
  <2>1. tab.loggedOut /\ tab.loggingOut => logout.pending = {}
    BY Facts DEF LoggingOut
  <2>2. tab.loggedOut => ~tab.loggingOut
    BY <2>1, NobodyFlies DEF SessionInv
  <2> QED
    BY <1>2, <2>2, Facts DEF Flights, LoggingOut
<1> QED
  BY <1>1, <1>2, <1>3, <1>4 DEF EndsNow, InFlight

(* The tab shows a user only by a login, a refresh or a guard's question of *)
(* the present generation; after a confirmed logout only a later login      *)
(* brings back a user or a cookie.                                          *)
THEOREM LateWorkIgnored == Spec => StaleWorkIgnored
<1> DEFINE Signed == ~tab.user /\ tab'.user =>
                /\ ~tab.loggingOut
                /\ \/ EndsNow("login") \/ EndsNow("refresh")
                   \/ \E c \in Calls : /\ call[c].kind = "me" /\ call[c].epoch = tab.gen
                                        /\ call'[c] = NoCall
           Returned == tab.loggedOut /\ (tab'.user \/ jar'.refresh # 0) /\ ~tab.user /\ jar.refresh = 0 =>
                EndsNow("login")
<1>1. ASSUME SessionInv, [Next]_vars PROVE Signed /\ Returned
  <2>1. ASSUME tab'.user => tab.user, jar'.refresh \in {0, jar.refresh} PROVE Signed /\ Returned
    BY <2>1
  <2>2. ASSUME NEW c \in Calls, Confirmed(c) PROVE Signed /\ Returned
    <3>1. call[c].pc = "config" /\ call'[c] = NoCall /\ jar' = jar
      BY <1>1, <2>2, Facts DEF Confirmed
    <3>2. call[c].kind = "me"
      BY <1>1, <3>1, Facts DEF OneFlight
    <3>3. ~tab.user /\ tab'.user => CanRetry(call[c].epoch)
      BY <2>2 DEF Confirmed
    <3> QED
      BY <3>1, <3>2, <3>3 DEF CanRetry
  <2>3. ASSUME NEW c \in Calls, Ok(c) \/ Unauthorized(c) \/ Broken(c) \/ Send(c, "api") \/ Send(c, "me")
        PROVE  Signed /\ Returned
    <3>1. jar' = jar /\ (tab'.user => tab.user)
      BY <1>1, <2>3, Facts DEF Ok, Unauthorized, Broken, Send, Tabs
    <3> QED
      BY <2>1, <3>1
  <2>4. ASSUME NEW o \in Operations, NEW ok \in BOOLEAN, cookieOp[o] # NoOp, Settle(o, ok)
        PROVE  Signed /\ Returned
    BY <1>1, <2>4, EndShowsUser
  <2>5. ASSUME NEW o \in Operations, Ending(o) PROVE Signed /\ Returned
    <3>1. CASE Deliver(o)
      <4>1. PICK r \in cookieOp[o].slot, whole \in BOOLEAN : Settle(o, whole /\ req[r].issued # 0)
        BY <3>1 DEF Deliver
      <4>2. cookieOp[o] # NoOp
        BY <4>1, Resting
      <4> QED
        BY <2>4, <4>1, <4>2
    <3>2. CASE Drop(o)
      <4>1. Settle(o, FALSE) /\ cookieOp[o] # NoOp
        BY <3>2, Resting DEF Drop
      <4> QED
        BY <2>4, <4>1
    <3> QED
      BY <2>5, <3>1, <3>2 DEF Ending
  <2>6. CASE LoggedOut
    <3>1. (tab'.user => tab.user) /\ jar'.refresh = 0
      BY <1>1, <2>6, Facts DEF LoggedOut, Tabs
    <3> QED
      BY <2>1, <3>1
  <2>7. CASE StartLogout \/ EndLogout \/ CookiesExpire
    <3>1. tab'.user = tab.user /\ jar'.refresh \in {0, jar.refresh}
      BY <1>1, <2>7, Facts DEF StartLogout, EndLogout, CookiesExpire, Tabs
    <3> QED
      BY <2>1, <3>1
  <2>8. CASE UNCHANGED <<tab, jar>>
    BY <2>1, <2>8
  <2>9. CASE UNCHANGED vars \/ UNCHANGED clientVars
    BY <2>8, <2>9 DEF vars, clientVars
  <2>10. ASSUME NEW o \in Operations, NEW r \in Requests, Post(o, r) PROVE Signed /\ Returned
    <3>1. UNCHANGED <<tab, jar>>
      BY <2>10 DEF Post
    <3> QED
      BY <2>8, <3>1
  <2>11. ASSUME NEW r \in Requests, PostLogout(r) \/ Vanish(r) PROVE Signed /\ Returned
    <3>1. UNCHANGED <<tab, jar>>
      BY <2>11 DEF PostLogout, Vanish
    <3> QED
      BY <2>8, <3>1
  <2>12. ASSUME NEW o \in Operations, StartLogin(o) PROVE Signed /\ Returned
    <3>1. UNCHANGED <<tab, jar>>
      BY <2>12 DEF StartLogin
    <3> QED
      BY <2>8, <3>1
  <2> HIDE DEF Signed, Returned
  <2>13. CASE Next
    BY <2>2, <2>3, <2>5, <2>6, <2>7, <2>9, <2>10, <2>11, <2>12, <2>13 DEF Next, Calling
  <2> QED
    BY <1>1, <2>9, <2>13
<1> QED
  BY <1>1, TabInvariant, PTL DEF Spec, StaleWorkIgnored

(* Through the browser, too, a refresh token is redeemed once at most.      *)
THEOREM OneRotationInTabs == Spec => []RotatedOnce
  BY TabUsesService, OneRotation, PTL
=============================================================================
