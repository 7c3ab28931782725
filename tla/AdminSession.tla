---------------------------- MODULE AdminSession ----------------------------
(***************************************************************************)
(* AdminSessionService and the admin interceptor of one browser tab, with  *)
(* the cookie jar and the AuthService it talks to.  JavaScript runs to the *)
(* next await in one step; requests are answered in any order, fail, or    *)
(* are answered by a server the browser no longer listens to.              *)
(***************************************************************************)
EXTENDS AuthSessions

CONSTANTS Calls,        \* admin requests of the pages, and the guard's "me"
          Operations,   \* slots for login and refresh, the cookie operations
          MaxLogouts    \* bound of the model: presses of the logout button

ASSUME LogoutsAssumption == MaxLogouts \in Nat

VARIABLES
    tab,      \* sessionEpoch, loggingOut, loggedOut and whether user is set
    jar,      \* the browser's cookies: access token, and the refresh session
    call,     \* requests that pass the interceptor
    cookieOp, \* cookieOperations in flight
    logout,   \* logoutRequest: its step and what it waits for
    orphans   \* auxiliary: sessions no cookie names though nobody revoked them

clientVars == <<tab, jar, call, cookieOp, logout, orphans>>
vars == <<sessions, redeemed, req, tab, jar, call, cookieOp, logout, orphans>>

NoCall == [kind |-> "none", pc |-> "idle", epoch |-> 0, again |-> FALSE, access |-> FALSE]
NoOp == [kind |-> "none", pc |-> "idle", epoch |-> 0, slot |-> {}]
NoLogout == [pc |-> "idle", pending |-> {}, slot |-> {}]

Init ==
    /\ AuthInit
    /\ tab = [gen |-> 0, loggingOut |-> FALSE, loggedOut |-> FALSE, user |-> FALSE]
    /\ jar = [access |-> FALSE, refresh |-> 0]
    /\ call = [c \in Calls |-> NoCall]
    /\ cookieOp = [o \in Operations |-> NoOp]
    /\ logout = NoLogout
    /\ orphans = {}

CanRetry(e) == e = tab.gen /\ ~tab.loggingOut /\ ~tab.loggedOut
InFlight(kind) == {o \in Operations : cookieOp[o].kind = kind}

-----------------------------------------------------------------------------
(* Calls.  Only the guard's "me" is single-flight; it may outlive a logout. *)
Send(c, kind) ==
    /\ call[c] = NoCall
    /\ kind = "me" =>
         /\ CanRetry(tab.gen) /\ ~tab.user
         /\ \A d \in Calls : ~(call[d].kind = "me" /\ call[d].epoch = tab.gen)
    /\ call' = [call EXCEPT ![c] = [kind |-> kind, pc |-> "sent", epoch |-> tab.gen,
                                    again |-> FALSE, access |-> jar.access]]
    /\ UNCHANGED <<tab, jar, cookieOp, logout, orphans>>

(* Success.  The guard goes on to the configuration unless a logout began.  *)
Ok(c) ==
    /\ call[c].pc = "sent" /\ call[c].access
    /\ call' = [call EXCEPT ![c] = IF @.kind = "me" /\ CanRetry(@.epoch)
                                   THEN [@ EXCEPT !.pc = "config"] ELSE NoCall]
    /\ UNCHANGED <<tab, jar, cookieOp, logout, orphans>>

(* Wrong: the guard does not look again after the configuration. *)
ConfirmedLate(c) ==
    /\ call[c].pc = "config"
    /\ \E loaded \in BOOLEAN : tab' = [tab EXCEPT !.user = loaded]
    /\ call' = [call EXCEPT ![c] = NoCall]
    /\ UNCHANGED <<jar, cookieOp, logout, orphans>>

Confirmed(c) ==
    /\ call[c].pc = "config"
    /\ \E loaded \in BOOLEAN :
          tab' = IF CanRetry(call[c].epoch) THEN [tab EXCEPT !.user = loaded] ELSE tab
    /\ call' = [call EXCEPT ![c] = NoCall]
    /\ UNCHANGED <<jar, cookieOp, logout, orphans>>

(* refreshRequest: the refresh of this generation, started if there is none. *)
JoinRefresh ==
    IF \E o \in InFlight("refresh") : cookieOp[o].epoch = tab.gen
    THEN UNCHANGED cookieOp
    ELSE \E o \in Operations :
            /\ cookieOp[o] = NoOp
            /\ cookieOp' = [cookieOp EXCEPT ![o] = [kind |-> "refresh", pc |-> "config",
                                                    epoch |-> tab.gen, slot |-> {}]]

(* A 401: the token was missing or expired on the way.  It is waited for    *)
(* once; a second one expires the session.                                  *)
Unauthorized(c) ==
    /\ call[c].pc = "sent"
    /\ \/ /\ CanRetry(call[c].epoch) /\ ~call[c].again
          /\ JoinRefresh
          /\ call' = [call EXCEPT ![c].pc = "waiting"]
          /\ UNCHANGED tab
       \/ /\ CanRetry(call[c].epoch) /\ call[c].again
          /\ tab' = [tab EXCEPT !.user = FALSE]
          /\ call' = [call EXCEPT ![c] = NoCall]
          /\ UNCHANGED cookieOp
       \/ /\ ~CanRetry(call[c].epoch)
          /\ call' = [call EXCEPT ![c] = NoCall]
          /\ UNCHANGED <<tab, cookieOp>>
    /\ UNCHANGED <<jar, logout, orphans>>

(* Any other failure. *)
Broken(c) ==
    /\ call[c].pc = "sent"
    /\ tab' = IF call[c].kind = "me" /\ CanRetry(call[c].epoch)
              THEN [tab EXCEPT !.user = FALSE] ELSE tab
    /\ call' = [call EXCEPT ![c] = NoCall]
    /\ UNCHANGED <<jar, cookieOp, logout, orphans>>

-----------------------------------------------------------------------------
(* Login and refresh.  Bound of the model: one login at a time, as the      *)
(* page's busy flag has it.                                                 *)
StartLogin(o) ==
    /\ ~tab.loggingOut /\ InFlight("login") = {} /\ cookieOp[o] = NoOp
    /\ cookieOp' = [cookieOp EXCEPT ![o] = [kind |-> "login", pc |-> "config",
                                            epoch |-> tab.gen, slot |-> {}]]
    /\ UNCHANGED <<tab, jar, call, logout, orphans>>

(* Wrong: the refresh endpoint has no CSRF guard. *)
AdmittedAlways(o) == TRUE

(* CsrfGuard: the CSRF cookie lives and dies with the refresh cookie. *)
Admitted(o) == cookieOp[o].kind = "refresh" => jar.refresh # 0

(* configureCsrf answered: the request leaves with the cookies of now. *)
Post(o, r) ==
    /\ cookieOp[o].pc = "config" /\ Admitted(o)
    /\ Begin(r, IF cookieOp[o].kind = "login" THEN "login" ELSE "read",
                IF cookieOp[o].kind = "login" THEN 0 ELSE jar.refresh)
    /\ cookieOp' = [cookieOp EXCEPT ![o].pc = "sent", ![o].slot = {r}]
    /\ UNCHANGED <<tab, jar, call, logout, orphans>>

(* The tab after operation o ended, and the calls that waited for a refresh: *)
(* sent again, or given up.                                                 *)
After(o, ok) ==
    IF cookieOp[o].kind = "login"
    THEN IF ok /\ cookieOp[o].epoch = tab.gen /\ ~tab.loggingOut
         THEN [tab EXCEPT !.loggedOut = FALSE, !.user = TRUE] ELSE tab
    ELSE IF CanRetry(cookieOp[o].epoch) THEN [tab EXCEPT !.user = ok] ELSE tab

Resume(o, ok) ==
    [c \in Calls |->
        IF cookieOp[o].kind = "refresh" /\ call[c].pc = "waiting"
        THEN IF ok /\ CanRetry(call[c].epoch)
             THEN [call[c] EXCEPT !.pc = "sent", !.again = TRUE, !.access = jar'.access]
             ELSE NoCall
        ELSE call[c]]

(* Wrong: an operation that fails is still waited for by the logout. *)
SettleForgets(o, ok) ==
    /\ tab' = After(o, ok)
    /\ call' = Resume(o, ok)
    /\ cookieOp' = [cookieOp EXCEPT ![o] = NoOp]
    /\ logout' = IF ok THEN [logout EXCEPT !.pending = @ \ {o}] ELSE logout

(* The callbacks of operation o, ending well or not. *)
Settle(o, ok) ==
    /\ tab' = After(o, ok)
    /\ call' = Resume(o, ok)
    /\ cookieOp' = [cookieOp EXCEPT ![o] = NoOp]
    /\ logout' = [logout EXCEPT !.pending = @ \ {o}]

(* The answer arrives: its cookies are stored, whatever becomes of its body. *)
Deliver(o) ==
    \E r \in cookieOp[o].slot, whole \in BOOLEAN :
       LET new == req[r].issued IN
       /\ req[r].pc = "done"
       /\ jar' = IF new # 0 THEN [access |-> TRUE, refresh |-> new] ELSE jar
       /\ orphans' = IF new # 0 THEN orphans \cup ({jar.refresh} \ {0}) ELSE orphans
       /\ Settle(o, whole /\ new # 0)
       /\ Release(r)

(* The configuration or the request fails, is refused at the door, or its   *)
(* answer is lost; the server may still be at work.                         *)
Drop(o) ==
    /\ cookieOp[o].pc \in {"config", "sent"}
    /\ UNCHANGED <<jar, orphans>>
    /\ Settle(o, FALSE)

-----------------------------------------------------------------------------
(* Logout. *)
(* Wrong: the logout does not wait for the cookie operations. *)
StartLogoutAtOnce ==
    /\ logout = NoLogout /\ ~tab.loggedOut /\ tab.gen < MaxLogouts
    /\ tab' = [tab EXCEPT !.loggingOut = TRUE, !.gen = @ + 1]
    /\ logout' = [pc |-> "drain", pending |-> {}, slot |-> {}]
    /\ UNCHANGED <<jar, call, cookieOp, orphans>>

StartLogout ==
    /\ logout = NoLogout /\ ~tab.loggedOut /\ tab.gen < MaxLogouts
    /\ tab' = [tab EXCEPT !.loggingOut = TRUE, !.gen = @ + 1]
    /\ logout' = [pc |-> "drain", slot |-> {},
                  pending |-> {o \in Operations : cookieOp[o] # NoOp}]
    /\ UNCHANGED <<jar, call, cookieOp, orphans>>

PostLogout(r) ==
    /\ logout.pc = "drain" /\ logout.pending = {} /\ jar.refresh # 0
    /\ Begin(r, "revoke", jar.refresh)
    /\ logout' = [logout EXCEPT !.pc = "sent", !.slot = {r}]
    /\ UNCHANGED <<tab, jar, call, cookieOp, orphans>>

(* 204 clears the cookies.  A session whose revocation failed stays valid.  *)
LoggedOut ==
    \E r \in logout.slot, whole \in BOOLEAN :
       /\ req[r].pc = "done"
       /\ jar' = [access |-> FALSE, refresh |-> 0]
       /\ orphans' = orphans \cup ({jar.refresh} \ {0})
       /\ logout' = IF whole THEN [NoLogout EXCEPT !.pc = "leaving"] ELSE NoLogout
       /\ tab' = IF whole THEN [tab EXCEPT !.loggedOut = TRUE, !.user = FALSE]
                 ELSE [tab EXCEPT !.loggingOut = FALSE]
       /\ UNCHANGED <<call, cookieOp>>
       /\ Release(r)

(* The configuration, the request or its answer fails, or 403 for want of a *)
(* cookie; or, after a 204, the login page is there.                        *)
EndLogout ==
    /\ logout.pc # "idle" /\ logout.pending = {}
    /\ logout' = NoLogout
    /\ tab' = [tab EXCEPT !.loggingOut = FALSE]
    /\ UNCHANGED <<jar, call, cookieOp, orphans>>

-----------------------------------------------------------------------------
(* The server, time, and answers nobody waits for. *)
Abandoned(r) == r \notin logout.slot /\ \A o \in Operations : r \notin cookieOp[o].slot

Vanish(r) ==
    /\ Abandoned(r) /\ Release(r)
    /\ orphans' = orphans \cup ({req[r].issued} \ {0})
    /\ UNCHANGED <<tab, jar, call, cookieOp, logout>>

CookiesExpire ==
    /\ \/ jar.access /\ jar' = [jar EXCEPT !.access = FALSE]
       \/ /\ ~jar.access /\ jar.refresh # 0 /\ sessions[jar.refresh] = "expired"
          /\ jar' = [jar EXCEPT !.refresh = 0]
    /\ UNCHANGED <<tab, call, cookieOp, logout, orphans>>

Calling(c) == Ok(c) \/ Confirmed(c) \/ Unauthorized(c) \/ Broken(c)
Ending(o) == Deliver(o) \/ (Drop(o) /\ UNCHANGED req)

Next ==
    \/ /\ UNCHANGED authVars
       /\ \/ \E c \in Calls : Calling(c) \/ Send(c, "api") \/ Send(c, "me")
          \/ \E o \in Operations : StartLogin(o)
          \/ StartLogout \/ EndLogout \/ CookiesExpire
    \/ /\ UNCHANGED <<sessions, redeemed>>
       /\ \/ \E o \in Operations : Ending(o) \/ \E r \in Requests : Post(o, r)
          \/ LoggedOut
          \/ \E r \in Requests : PostLogout(r) \/ Vanish(r)
    \/ /\ UNCHANGED clientVars
       /\ \/ \E r \in Requests : Serves(r)
          \/ \E i \in Ids : Expire(i)

Spec == Init /\ [][Next]_vars

(* The browser ends every request it has sent: with an answer or an error.  *)
FairSpec ==
    /\ Spec
    /\ \A c \in Calls : WF_vars(Calling(c) /\ UNCHANGED authVars)
    /\ \A o \in Operations : WF_vars(Ending(o) /\ UNCHANGED <<sessions, redeemed>>)
    /\ WF_vars(EndLogout /\ UNCHANGED authVars)

-----------------------------------------------------------------------------
TypeOK ==
    /\ AuthTypeOK
    /\ tab \in [gen : 0..MaxLogouts, loggingOut : BOOLEAN, loggedOut : BOOLEAN, user : BOOLEAN]
    /\ jar \in [access : BOOLEAN, refresh : Ids \cup {0}]
    /\ call \in [Calls -> [kind : {"none", "api", "me"}, access : BOOLEAN, again : BOOLEAN,
                           pc : {"idle", "sent", "waiting", "config"}, epoch : 0..MaxLogouts]]
    /\ cookieOp \in [Operations -> [kind : {"none", "login", "refresh"}, epoch : 0..MaxLogouts,
                                    pc : {"idle", "config", "sent"}, slot : SUBSET Requests]]
    /\ logout \in [pc : {"idle", "drain", "sent", "leaving"}, pending : SUBSET Operations,
                   slot : SUBSET Requests]
    /\ orphans \subseteq Ids

(* What the parts believe of each other: cookies name issued sessions, each *)
(* operation listens to a request of its own, and a logout waits only for   *)
(* operations of the former generation that are still in flight.            *)
Coherent ==
    /\ TypeOK
    /\ {jar.refresh} \ {0} \subseteq Issued /\ orphans \subseteq Issued
    /\ \A o, p \in Operations : cookieOp[o].slot \cap cookieOp[p].slot # {} => o = p
    /\ \A o \in Operations : \A r \in cookieOp[o].slot : req[r].pc # "idle" /\ r \notin logout.slot
    /\ \A o \in logout.pending : cookieOp[o] # NoOp /\ cookieOp[o].epoch < tab.gen
    /\ tab.loggingOut <=> logout # NoLogout
    /\ tab.loggingOut => \A o \in Operations : cookieOp[o] # NoOp => o \in logout.pending

(* When a logout is confirmed the browser holds no cookie and shows no      *)
(* user, whatever was in flight when the button was pressed; and every      *)
(* session still valid on the server is one the browser had already lost,   *)
(* or whose revocation failed.                                              *)
LogoutClean ==
    logout.pc = "leaving" =>
       /\ ~tab.user /\ jar = [access |-> FALSE, refresh |-> 0]
       /\ \A i \in Ids : sessions[i] = "live" =>
             i \in orphans \/ \E r \in Requests : req[r].issued = i /\ Abandoned(r)

(* A refresh token is redeemed once: two refreshes at a time would have the *)
(* second refused and the user thrown out.  Whoever waits, waits for it.    *)
OneRefresh ==
    /\ Cardinality(InFlight("refresh")) <= 1
    /\ \A c \in Calls : call[c].pc = "waiting" =>
          \E o \in InFlight("refresh") : cookieOp[o].epoch = call[c].epoch

(* Both: no logout and no refresh leaves a session that nobody holds.       *)
SessionsHeld == LogoutClean /\ OneRefresh

(* Work started before a logout never shows its user: the tab signs in only *)
(* by an operation or call of the present generation.  Out of a confirmed   *)
(* logout neither the user nor a cookie comes back but by a later login.    *)
EndsNow(kind) ==
    \E o \in InFlight(kind) : cookieOp[o].epoch = tab.gen /\ cookieOp'[o] = NoOp

StaleWorkIgnored ==
    [][/\ ~tab.user /\ tab'.user =>
             /\ ~tab.loggingOut
             /\ \/ EndsNow("login") \/ EndsNow("refresh")
                \/ \E c \in Calls : /\ call[c].kind = "me" /\ call[c].epoch = tab.gen
                                     /\ call'[c] = NoCall
       /\ tab.loggedOut /\ (tab'.user \/ jar'.refresh # 0) /\ ~tab.user /\ jar.refresh = 0 =>
             EndsNow("login")]_vars

(* No call waits for ever and a logout always ends, though the logout waits *)
(* for the refresh that calls of the former generation wait for.            *)
Settles ==
    /\ \A c \in Calls : call[c].pc = "waiting" ~> call[c] = NoCall
    /\ tab.loggingOut ~> ~tab.loggingOut
=============================================================================
