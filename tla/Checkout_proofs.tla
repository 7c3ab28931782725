---------------------------- MODULE Checkout_proofs ----------------------------
(***************************************************************************)
(* The two forms of the storefront.  The tabs that pay by card: one        *)
(* undecided attempt of a request and one settlement of a payment, for any *)
(* number of tabs, products, prices, languages and payments, with a storage*)
(* that may refuse whatever it is asked.  The form for orders on delivery, for any  *)
(* goods and buyers and any number of keys and submissions: a submission   *)
(* is repeated under its key exactly as long as nothing is known of it,    *)
(* and what the customer is told was accepted is what the form shows.      *)
(***************************************************************************)
EXTENDS CheckoutTabs, DeliveryForm, TLAPS

Calls == [kind : {"none", "create", "check", "cancel", "verify"}, key : Sessions,
          reply : Replies \cup {"none"}]
Payments == [status : Final \cup {"none", "requested", "pending"}, of : Fingerprints]

USE CheckoutAssumption

(* What a line is changed to, and one more or fewer of them, is a basket.   *)
LEMMA BasketTypes ==
    /\ Empty \in Baskets
    /\ \A x, y \in Baskets : Subtract(x, y) \in Baskets
    /\ \A x \in Baskets : Shopped(x) \subseteq Baskets /\ Revised(x) \subseteq Baskets
<1> DEFINE Amounts == [Products -> 0..MaxQuantity]
<1>1. Empty \in Baskets
  BY DEF Empty, Baskets
<1>2. ASSUME NEW x \in Baskets, NEW q \in Amounts
      PROVE  With(x, q) \in Baskets
  <2>1. [p \in Products |-> IF q[p] = 0 THEN NoPrice ELSE x.price[p]] \in [Products -> Prices \cup {NoPrice}]
    BY DEF Baskets
  <2>2. {e \in x.before : q[e[1]] # 0 /\ q[e[2]] # 0} \in SUBSET (Products \X Products)
    BY DEF Baskets
  <2> QED
    BY <2>1, <2>2 DEF With, Baskets
<1>3. ASSUME NEW x \in Baskets, NEW p \in Products, NEW n \in 0..MaxQuantity
      PROVE  [x.quantity EXCEPT ![p] = n] \in Amounts
  BY DEF Baskets
<1>4. \A x \in Baskets, p \in Products : x.quantity[p] \in 0..MaxQuantity
  BY DEF Baskets
<1>5. ASSUME NEW x \in Baskets, NEW y \in Baskets
      PROVE  Subtract(x, y) \in Baskets
  <2>1. [p \in Products |-> IF y.quantity[p] <= x.quantity[p] THEN x.quantity[p] - y.quantity[p] ELSE 0] \in Amounts
    BY <1>4
  <2> QED
    BY <1>2, <2>1 DEF Subtract
<1>6. ASSUME NEW x \in Baskets, NEW p \in Products, x.quantity[p] < MaxQuantity, NEW c \in Prices
      PROVE  Added(x, p, c) \in Baskets
  <2> DEFINE more == [x.quantity EXCEPT ![p] = @ + 1]
  <2>1. more \in Amounts
    BY <1>3, <1>4, <1>6
  <2>2. [x.price EXCEPT ![p] = c] \in [Products -> Prices \cup {NoPrice}]
    BY DEF Baskets
  <2>3. x.before \cup (Inside(x) \X {p}) \in SUBSET (Products \X Products)
    BY DEF Baskets, Inside
  <2>4. Added(x, p, c) = IF p \in Inside(x) THEN With(x, more)
                         ELSE [quantity |-> more, price |-> [x.price EXCEPT ![p] = c],
                               before |-> x.before \cup (Inside(x) \X {p})]
    BY DEF Added
  <2> HIDE DEF more
  <2> QED
    BY <1>2, <2>1, <2>2, <2>3, <2>4 DEF Baskets
<1>7. ASSUME NEW x \in Baskets
      PROVE  Shopped(x) \subseteq Baskets
  <2>1. \A p \in Inside(x) : With(x, [x.quantity EXCEPT ![p] = @ - 1]) \in Baskets
    BY <1>2, <1>3, <1>4 DEF Inside
  <2>2. \A items \in Shopped(x) :
           \/ \E p \in Products, c \in Prices : x.quantity[p] < MaxQuantity /\ items = Added(x, p, c)
           \/ \E p \in Inside(x) : items = With(x, [x.quantity EXCEPT ![p] = @ - 1])
    BY DEF Shopped
  <2> QED
    BY <1>6, <2>1, <2>2
<1>8. ASSUME NEW x \in Baskets
      PROVE  Revised(x) \subseteq Baskets
  <2>1. \A p \in Inside(x), n \in 0..MaxQuantity : With(x, [x.quantity EXCEPT ![p] = n]) \in Baskets
    BY <1>2, <1>3 DEF Inside
  <2>2. \A items \in Revised(x) :
           items = Empty \/ \E p \in Inside(x), n \in 0..MaxQuantity : items = With(x, [x.quantity EXCEPT ![p] = n])
    BY DEF Revised
  <2> QED
    BY <1>1, <2>1, <2>2
<1> QED
  BY <1>1, <1>5, <1>7, <1>8

LEMMA PageTypes ==
    /\ \A s \in Sessions, at \in {"shop", "checkout", "receipt", "bank"}, l \in Locales :
          Fresh(at, s, l) \in Pages
    /\ Unasked \in Fingerprints
    /\ Known \subseteq Sessions /\ NoKey \in Sessions /\ Keys \subseteq Sessions
    /\ Idle \in Calls
    /\ \A k \in Sessions, kind \in {"create", "check", "cancel", "verify"} : Asks(kind, k) \in Calls
BY BasketTypes DEF Fresh, Pages, Known, Sessions, Idle, Calls, Asks, Unasked, Fingerprints

LEMMA FingerprintTypes == ASSUME TypeOK, NEW t \in Tabs PROVE Fingerprint(t) \in Fingerprints
BY DEF TypeOK, Stored, Pages, Fingerprint, Fingerprints

-----------------------------------------------------------------------------
(* What BasketService writes, and what it makes of its memory.              *)
LEMMA WritesTypes ==
    ASSUME TypeOK, NEW t \in Tabs
    PROVE  /\ \A items \in Baskets : SetItems(t, items) => store' \in Stored /\ memory' \in [Tabs -> Stored]
           /\ \A k \in Keys : Settled(t, k) => store' \in Stored /\ memory' \in [Tabs -> Stored]
<1>1. store \in Stored /\ memory \in [Tabs -> Stored] /\ memory[t] \in Stored
  BY DEF TypeOK
<1>2. \A x \in Stored : x.items \in Baskets /\ x.settled \in SUBSET Keys
  BY DEF Stored
<1>3. \A b \in Baskets, z \in SUBSET Keys : [items |-> b, settled |-> z] \in Stored
  BY DEF Stored
<1>4. ASSUME NEW items \in Baskets, SetItems(t, items)
      PROVE  store' \in Stored /\ memory' \in [Tabs -> Stored]
  <2> DEFINE new == [items |-> items, settled |-> memory[t].settled \cup store.settled]
  <2>1. new \in Stored
    BY <1>1, <1>2, <1>3
  <2>2. [memory[t] EXCEPT !.items = items] \in Stored
    BY <1>1 DEF Stored
  <2>3. CASE store' = new /\ memory' = [memory EXCEPT ![t] = new]
    BY <1>1, <2>1, <2>3
  <2>4. CASE UNCHANGED store /\ memory' = [memory EXCEPT ![t].items = items]
    BY <1>1, <2>2, <2>4
  <2> QED
    BY <1>4, <2>3, <2>4 DEF SetItems
<1>5. ASSUME NEW k \in Keys, Settled(t, k)
      PROVE  store' \in Stored /\ memory' \in [Tabs -> Stored]
  <2>1. payment[k].of.items \in Baskets
    BY DEF TypeOK, Fingerprints
  <2>2. Subtract(store.items, payment[k].of.items) \in Baskets
    BY <1>1, <1>2, <2>1, BasketTypes
  <2>3. store' \in Stored /\ memory' = [memory EXCEPT ![t] = store']
    BY <1>1, <1>2, <1>3, <1>5, <2>2 DEF Settled
  <2> QED
    BY <1>1, <2>3
<1> QED
  BY <1>4, <1>5

LEMMA StoreTypes ==
    ASSUME TypeOK, CallsBacked, [Next]_vars
    PROVE  store' \in Stored /\ memory' \in [Tabs -> Stored]
<1>1. ASSUME NEW t \in Tabs, Load(t)
      PROVE  store' \in Stored /\ memory' \in [Tabs -> Stored]
  BY <1>1, BasketTypes DEF TypeOK, Load, Stored
<1>2. ASSUME NEW t \in Tabs, Edit(t)
      PROVE  store' \in Stored /\ memory' \in [Tabs -> Stored]
  <2>1. memory[t].items \in Baskets
    BY DEF TypeOK, Stored
  <2> QED
    BY <1>2, <2>1, BasketTypes, WritesTypes DEF Edit
<1>3. ASSUME NEW t \in Tabs, Verified(t)
      PROVE  store' \in Stored /\ memory' \in [Tabs -> Stored]
  <2>1. call[t].key \in Keys
    BY <1>3 DEF CallsBacked, Verified, Hears
  <2>2. store \in Stored /\ memory \in [Tabs -> Stored]
    BY DEF TypeOK
  <2> QED
    BY <1>3, <2>1, <2>2, WritesTypes DEF Verified
<1>4. UNCHANGED <<store, memory>> => store' \in Stored /\ memory' \in [Tabs -> Stored]
  BY DEF TypeOK
<1> QED
  BY <1>1, <1>2, <1>3, <1>4
     DEF Next, vars, Visit, Turn, Configure, Recheck, Verify, Submit, Reply, Submitted, NotSubmitted,
         Checked, NotVerified, Arrive, Decide

(* The payments and what was sent.                                          *)
LEMMA PaymentTypes ==
    ASSUME TypeOK, CallsBacked, [Next]_vars
    PROVE  payment' \in [Keys -> Payments] /\ last' \in [Tabs -> Sessions]
<1>1. payment \in [Keys -> Payments] /\ last \in [Tabs -> Sessions]
  BY DEF TypeOK, Payments
<1>2. UNCHANGED <<payment, last>> => payment' \in [Keys -> Payments] /\ last' \in [Tabs -> Sessions]
  BY <1>1
<1>3. ASSUME NEW t \in Tabs, NEW k \in Keys, Sends(t, k)
      PROVE  payment' \in [Keys -> Payments] /\ last' \in [Tabs -> Sessions]
  <2>1. [status |-> "requested", of |-> Fingerprint(t)] \in Payments
    BY FingerprintTypes DEF Payments
  <2> QED
    BY <1>1, <1>3, <2>1, PageTypes DEF Sends
<1>4. ASSUME NEW k \in Keys, NEW s \in Final \cup {"pending"},
             payment' = [payment EXCEPT ![k].status = s], last' = last
      PROVE  payment' \in [Keys -> Payments] /\ last' \in [Tabs -> Sessions]
  <2>1. [payment[k] EXCEPT !.status = s] \in Payments
    BY <1>1 DEF Payments
  <2> QED
    BY <1>1, <1>4, <2>1
<1>5. ASSUME NEW t \in Tabs, Submit(t)
      PROVE  payment' \in [Keys -> Payments] /\ last' \in [Tabs -> Sessions]
  <2>1. Retained(t) \subseteq Keys
    BY DEF TypeOK, Retained, Requests
  <2> QED
    BY <1>2, <1>3, <1>5, <2>1 DEF Submit
<1>6. ASSUME NEW k \in Keys, Arrive(k) \/ Decide(k)
      PROVE  payment' \in [Keys -> Payments] /\ last' \in [Tabs -> Sessions]
  BY <1>4, <1>6 DEF Arrive, Decide
<1> QED
  BY <1>2, <1>5, <1>6
     DEF Next, vars, Load, Visit, Turn, Edit, Configure, Recheck, Verify, Reply, Submitted, NotSubmitted,
         Checked, Verified, NotVerified

(* A page after one of its flags, or several, have changed.                 *)
LEMMA FlagTypes ==
    ASSUME NEW g \in Pages
    PROVE  /\ \A s \in Sessions, l \in Locales : [g EXCEPT !.session = s, !.locale = l] \in Pages
           /\ \A b \in BOOLEAN : /\ [g EXCEPT !.complete = b] \in Pages
                                 /\ [g EXCEPT !.blocked = b] \in Pages
                                 /\ [g EXCEPT !.pending = b] \in Pages
           /\ \A c \in Sessions : /\ [g EXCEPT !.cancellable = c] \in Pages
                                  /\ [g EXCEPT !.ready = TRUE, !.cancellable = c] \in Pages
                                  /\ [g EXCEPT !.pending = TRUE, !.complete = FALSE, !.cancellable = c] \in Pages
           /\ [g EXCEPT !.blocked = FALSE, !.pending = FALSE, !.complete = FALSE] \in Pages
           /\ \A b \in BOOLEAN : [g EXCEPT !.pending = FALSE, !.complete = FALSE, !.blocked = b] \in Pages
BY DEF Pages

(* What the customer sees.                                                  *)
LEMMA ShownTypes ==
    ASSUME TypeOK, CallsBacked, [Next]_vars
    PROVE  page' \in [Tabs -> Pages] /\ call' \in [Tabs -> Calls]
<1> DEFINE Good == page' \in [Tabs -> Pages] /\ call' \in [Tabs -> Calls]
<1>1. page \in [Tabs -> Pages] /\ call \in [Tabs -> Calls]
  BY DEF TypeOK, Calls
<1>2. \A t \in Tabs : page[t] \in Pages
  BY <1>1
<1>3. UNCHANGED <<page, call>> => Good
  BY <1>1
<1>4. ASSUME NEW t \in Tabs, NEW g \in Pages, Show(t, g) \/ Ends(t, g)
      PROVE  Good
  BY <1>1, <1>4, PageTypes DEF Show, Ends
<1>5. ASSUME NEW t \in Tabs, NEW g \in Pages, page' = [page EXCEPT ![t] = g], UNCHANGED call
      PROVE  Good
  BY <1>1, <1>5
<1>6. ASSUME NEW t \in Tabs, NEW kind \in {"create", "check", "cancel", "verify"}, NEW k \in Sessions,
             call' = [call EXCEPT ![t] = Asks(kind, k)], page' \in [Tabs -> Pages]
      PROVE  Good
  BY <1>1, <1>6, PageTypes
<1>7. ASSUME NEW t \in Tabs, Load(t) \/ Visit(t)
      PROVE  Good
  <2>1. CASE Load(t)
    <3>1. PICK s \in Known, l \in Locales : Show(t, Fresh("checkout", s, l)) \/ Show(t, Fresh("receipt", s, l))
      BY <2>1 DEF Load
    <3> QED
      BY <1>4, <3>1, PageTypes
  <2>2. CASE Visit(t)
    <3>1. PICK l \in Locales : Show(t, Fresh("checkout", NoKey, l)) \/ Show(t, Fresh("shop", NoKey, l))
      BY <2>2 DEF Visit
    <3> QED
      BY <1>4, <3>1, PageTypes
  <2> QED
    BY <1>7, <2>1, <2>2
<1>8. ASSUME NEW t \in Tabs, Turn(t) \/ Edit(t)
      PROVE  Good
  <2>1. CASE Turn(t)
    <3>1. PICK s \in Sessions, l \in Locales : page' = [page EXCEPT ![t].session = s, ![t].locale = l]
      BY <2>1, PageTypes DEF Turn
    <3>2. [page[t] EXCEPT !.session = s, !.locale = l] \in Pages
      BY <1>2, FlagTypes
    <3>3. page' = [page EXCEPT ![t] = [page[t] EXCEPT !.session = s, !.locale = l]]
      BY <1>1, <3>1
    <3> QED
      BY <1>5, <2>1, <3>2, <3>3 DEF Turn
  <2>2. CASE Edit(t)
    <3>1. page' = [page EXCEPT ![t].complete = FALSE]
      BY <2>2 DEF Edit
    <3>2. [page[t] EXCEPT !.complete = FALSE] \in Pages
      BY <1>2, FlagTypes
    <3> QED
      BY <1>5, <2>2, <3>1, <3>2 DEF Edit
  <2> QED
    BY <1>8, <2>1, <2>2
<1>9. ASSUME NEW t \in Tabs, Configure(t) \/ Recheck(t) \/ Verify(t)
      PROVE  Good
  <2>1. page[t].session \in Sessions
    BY <1>2 DEF Pages
  <2>2. CASE Configure(t)
    <3>1. [page[t] EXCEPT !.ready = TRUE, !.cancellable = NoKey] \in Pages
      BY <1>2, FlagTypes, PageTypes
    <3>2. page' = [page EXCEPT ![t] = [page[t] EXCEPT !.ready = TRUE, !.cancellable = NoKey]]
      BY <1>1, <2>2 DEF Configure
    <3>3. page' \in [Tabs -> Pages]
      BY <1>1, <3>1, <3>2
    <3>4. UNCHANGED call \/ call' = [call EXCEPT ![t] = Asks("check", page[t].session)]
      BY <2>2 DEF Configure, Asking
    <3> QED
      BY <1>1, <1>6, <2>1, <3>3, <3>4
  <2>3. CASE Recheck(t)
    <3>1. [page[t] EXCEPT !.cancellable = NoKey] \in Pages
      BY <1>2, FlagTypes, PageTypes
    <3>2. page' \in [Tabs -> Pages]
      BY <1>1, <2>3, <3>1 DEF Recheck
    <3>3. PICK kind \in {"check", "cancel"} : call' = [call EXCEPT ![t] = Asks(kind, page[t].session)]
      BY <2>3 DEF Recheck, Asking
    <3> QED
      BY <1>6, <2>1, <3>2, <3>3
  <2>4. CASE Verify(t)
    BY <1>1, <1>6, <2>1, <2>4 DEF Verify, Asking
  <2> QED
    BY <1>9, <2>2, <2>3, <2>4
<1>10. ASSUME NEW t \in Tabs, Submit(t)
       PROVE  Good
  <2>1. Retained(t) \subseteq Keys
    BY DEF TypeOK, Retained, Requests
  <2>2. [page[t] EXCEPT !.blocked = TRUE] \in Pages
    BY <1>2, FlagTypes
  <2>3. CASE UNCHANGED call /\ page' = [page EXCEPT ![t].blocked = TRUE]
    BY <1>5, <2>2, <2>3
  <2>4. CASE UNCHANGED page /\ \E k \in Keys : Sends(t, k)
    BY <1>1, <1>6, <2>4, PageTypes DEF Sends
  <2> QED
    BY <1>10, <2>1, <2>3, <2>4 DEF Submit
<1>11. ASSUME NEW t \in Tabs, Reply(t)
       PROVE  Good
  <2>1. PICK s \in Replies : call' = [call EXCEPT ![t].reply = s]
    BY <1>11 DEF Reply, Replies
  <2>2. [call[t] EXCEPT !.reply = s] \in Calls
    BY <1>1 DEF Calls
  <2> QED
    BY <1>1, <1>11, <2>1, <2>2 DEF Reply
<1>12. ASSUME NEW t \in Tabs, Submitted(t)
       PROVE  Good
  <2> DEFINE k == call[t].key
  <2> DEFINE l == page[t].locale
  <2>1. k \in Sessions /\ l \in Locales
    BY <1>1, <1>2 DEF Calls, Pages
  <2>2. /\ [page[t] EXCEPT !.blocked = TRUE] \in Pages
        /\ [page[t] EXCEPT !.blocked = FALSE, !.pending = FALSE, !.complete = FALSE] \in Pages
        /\ Fresh("bank", k, l) \in Pages /\ Fresh("receipt", k, l) \in Pages
    BY <1>2, <2>1, FlagTypes, PageTypes
  <2>3. \/ Show(t, Fresh("bank", k, l)) \/ Show(t, Fresh("receipt", k, l)) \/ Ends(t, page[t])
        \/ Ends(t, [page[t] EXCEPT !.blocked = TRUE])
        \/ Ends(t, [page[t] EXCEPT !.blocked = FALSE, !.pending = FALSE, !.complete = FALSE])
    BY <1>12 DEF Submitted, OpenReceipt
  <2> QED
    BY <1>2, <1>4, <2>2, <2>3
<1>13. ASSUME NEW t \in Tabs, Checked(t)
       PROVE  Good
  <2> DEFINE k == call[t].key
  <2>1. k \in Sessions /\ page[t].locale \in Locales
    BY <1>1, <1>2 DEF Calls, Pages
  <2>2. CASE Ends(t, page[t])
    BY <1>2, <1>4, <2>2
  <2>3. CASE Ends(t, [page[t] EXCEPT !.pending = TRUE])
    BY <1>2, <1>4, <2>3, FlagTypes
  <2>4. CASE OpenReceipt(t)
    BY <1>4, <2>1, <2>4, PageTypes DEF OpenReceipt
  <2>5. CASE \E c \in {NoKey, k} :
                Ends(t, [page[t] EXCEPT !.pending = TRUE, !.complete = FALSE, !.cancellable = c])
    BY <1>2, <1>4, <2>1, <2>5, FlagTypes, PageTypes
  <2>6. CASE \E refused \in BOOLEAN :
                Ends(t, [page[t] EXCEPT !.pending = FALSE, !.complete = FALSE, !.blocked = refused])
    BY <1>2, <1>4, <2>6, FlagTypes
  <2> QED
    BY <1>13, <2>2, <2>3, <2>4, <2>5, <2>6 DEF Checked
<1>14. ASSUME NEW t \in Tabs, Verified(t) \/ NotVerified(t) \/ NotSubmitted(t)
       PROVE  Good
  <2>1. Ends(t, page[t]) \/ \E b \in BOOLEAN : Ends(t, [page[t] EXCEPT !.complete = b])
    BY <1>14 DEF Verified, NotVerified, NotSubmitted, Retired
  <2> QED
    BY <1>2, <1>4, <2>1, FlagTypes
<1> QED
  BY <1>3, <1>7, <1>8, <1>9, <1>10, <1>11, <1>12, <1>13, <1>14 DEF Next, vars, Arrive, Decide

-----------------------------------------------------------------------------
(* What happens to a tab's stored request: nothing, the reference is added, *)
(* it is removed by its own payment or with it, or another takes its place. *)
Replaced(t, k) ==
    /\ payment[k].status = "none" /\ Retained(t) = {} /\ Sends(t, k)
    /\ request' = [request EXCEPT ![t] = {[key |-> k, of |-> Fingerprint(t), bound |-> FALSE]}]

AnsweredFinal(t) == call[t].key \in Keys /\ payment[call[t].key].status \in Final

Dropped(t) == call[t].kind = "create" /\ AnsweredFinal(t) /\ request' = [request EXCEPT ![t] = {}]

LEMMA RequestChanges ==
    ASSUME TypeOK, CallsBacked, [Next]_vars
    PROVE  \/ UNCHANGED <<request, last>>
           \/ \E t \in Tabs :
                 \/ Bind(t, call[t].key) /\ UNCHANGED last
                 \/ Retire(t, call[t].key) /\ AnsweredFinal(t) /\ UNCHANGED last
                 \/ Dropped(t) /\ UNCHANGED last
                 \/ \E k \in Keys : Replaced(t, k)
                 \/ \E k \in Retained(t) : Sends(t, k) /\ UNCHANGED request
<1>1. Unsuccessful \subseteq Final /\ "succeeded" \in Final
  BY DEF Unsuccessful, Final
<1>2. ASSUME NEW t \in Tabs, call[t].kind # "none", call[t].reply \in Final
      PROVE  AnsweredFinal(t)
  BY <1>2 DEF CallsBacked, AnsweredFinal
<1>3. ASSUME NEW t \in Tabs, Submitted(t)
      PROVE  \/ UNCHANGED <<request, last>>
             \/ Bind(t, call[t].key) /\ UNCHANGED last
             \/ Dropped(t) /\ UNCHANGED last
  <2>1. call[t].kind = "create"
    BY <1>3 DEF Submitted, Hears
  <2> QED
    BY <1>1, <1>2, <1>3, <2>1 DEF Submitted, Dropped
<1>4. ASSUME NEW t \in Tabs, Checked(t)
      PROVE  UNCHANGED <<request, last>> \/ (Retire(t, call[t].key) /\ AnsweredFinal(t) /\ UNCHANGED last)
  <2>1. call[t].kind # "none"
    BY <1>4 DEF Checked, Hears
  <2> QED
    BY <1>1, <1>2, <1>4, <2>1 DEF Checked
<1>5. ASSUME NEW t \in Tabs, Verified(t)
      PROVE  UNCHANGED <<request, last>> \/ (Retire(t, call[t].key) /\ AnsweredFinal(t) /\ UNCHANGED last)
  <2>1. call[t].kind # "none" /\ call[t].reply = "succeeded"
    BY <1>5 DEF Verified, Hears
  <2> QED
    BY <1>1, <1>2, <1>5, <2>1 DEF Verified
<1>6. ASSUME NEW t \in Tabs, Submit(t)
      PROVE  \/ UNCHANGED <<request, last>>
             \/ \E k \in Keys : Replaced(t, k)
             \/ \E k \in Retained(t) : Sends(t, k) /\ UNCHANGED request
  BY <1>6 DEF Submit, Replaced
<1> QED
  BY <1>3, <1>4, <1>5, <1>6
     DEF Next, vars, Load, Visit, Turn, Edit, Configure, Recheck, Verify, Reply, NotSubmitted,
         NotVerified, Arrive, Decide

LEMMA RequestTypes ==
    ASSUME TypeOK, CallsBacked, [Next]_vars
    PROVE  request' \in [Tabs -> SUBSET Requests] /\ \A t \in Tabs : \A r, q \in request'[t] : r = q
<1> DEFINE Single(z) == \A r, q \in z : r = q
<1>1. request \in [Tabs -> SUBSET Requests] /\ \A t \in Tabs : Single(request[t])
  BY DEF TypeOK
<1>2. ASSUME NEW t \in Tabs, NEW z \in SUBSET Requests, Single(z), request' = [request EXCEPT ![t] = z]
      PROVE  request' \in [Tabs -> SUBSET Requests] /\ \A u \in Tabs : Single(request'[u])
  BY <1>1, <1>2
<1>3. ASSUME NEW t \in Tabs, Bind(t, call[t].key)
      PROVE  request' \in [Tabs -> SUBSET Requests] /\ \A u \in Tabs : Single(request'[u])
  <2> DEFINE z == {[r EXCEPT !.bound = TRUE] : r \in request[t]}
  <2>0. \A r \in Requests : [r EXCEPT !.bound = TRUE] \in Requests
    BY DEF Requests
  <2>1. z \in SUBSET Requests
    BY <1>1, <2>0
  <2>2. Single(z)
    BY <1>1
  <2>3. request' = [request EXCEPT ![t] = z]
    BY <1>3 DEF Bind
  <2> HIDE DEF z
  <2> QED
    BY <1>2, <2>1, <2>2, <2>3
<1>4. ASSUME NEW t \in Tabs, Retire(t, call[t].key)
      PROVE  request' \in [Tabs -> SUBSET Requests] /\ \A u \in Tabs : Single(request'[u])
  <2> DEFINE z == {r \in request[t] : ~Mine(r, call[t].key)}
  <2>1. z \in SUBSET Requests /\ Single(z)
    BY <1>1
  <2>2. request' = [request EXCEPT ![t] = z]
    BY <1>4 DEF Retire
  <2> HIDE DEF z
  <2> QED
    BY <1>2, <2>1, <2>2
<1>5. ASSUME NEW t \in Tabs, Dropped(t) \/ \E k \in Keys : Replaced(t, k)
      PROVE  request' \in [Tabs -> SUBSET Requests] /\ \A u \in Tabs : Single(request'[u])
  <2>1. \A k \in Keys : {[key |-> k, of |-> Fingerprint(t), bound |-> FALSE]} \in SUBSET Requests
    BY FingerprintTypes DEF Requests
  <2>2. CASE Dropped(t)
    BY <1>2, <2>2 DEF Dropped
  <2>3. ASSUME NEW k \in Keys, Replaced(t, k)
        PROVE  request' \in [Tabs -> SUBSET Requests] /\ \A u \in Tabs : Single(request'[u])
    <3> DEFINE z == {[key |-> k, of |-> Fingerprint(t), bound |-> FALSE]}
    <3>1. z \in SUBSET Requests /\ Single(z) /\ request' = [request EXCEPT ![t] = z]
      BY <2>1, <2>3 DEF Replaced
    <3> HIDE DEF z
    <3> QED
      BY <1>2, <3>1
  <2> QED
    BY <1>5, <2>2, <2>3
<1> QED
  BY <1>1, <1>3, <1>4, <1>5, RequestChanges

LEMMA TypesHold == ASSUME TypeOK, CallsBacked, [Next]_vars PROVE TypeOK'
BY StoreTypes, PaymentTypes, ShownTypes, RequestTypes DEF TypeOK, Calls, Payments

-----------------------------------------------------------------------------
(* A payment keeps what it was asked for, and its verdict.                  *)
LEMMA PaymentsKept ==
    ASSUME TypeOK, CallsBacked, KeyKept, [Next]_vars, NEW k \in Keys, payment[k].status # "none"
    PROVE  /\ payment'[k].of = payment[k].of /\ payment'[k].status # "none"
           /\ payment[k].status \in Final => payment'[k] = payment[k]
<1>1. payment \in [Keys -> Payments]
  BY DEF TypeOK, Payments
<1>2. ASSUME NEW t \in Tabs, Submit(t)
      PROVE  payment'[k] = payment[k]
  BY <1>1, <1>2 DEF Submit, Sends
<1>3. ASSUME NEW j \in Keys, Arrive(j) \/ Decide(j)
      PROVE  /\ payment'[k].of = payment[k].of /\ payment'[k].status # "none"
             /\ payment[k].status \in Final => payment'[k] = payment[k]
  <2>1. payment[j].status \notin Final
    BY <1>3 DEF Arrive, Decide, Final, Unsuccessful
  <2>2. PICK s \in Final \cup {"pending"} : payment' = [payment EXCEPT ![j].status = s]
    BY <1>3 DEF Arrive, Decide
  <2>3. s # "none"
    BY DEF Final, Unsuccessful
  <2>4. payment'[k] = IF k = j THEN [payment[j] EXCEPT !.status = s] ELSE payment[k]
    BY <1>1, <2>2
  <2>5. payment[j] \in Payments
    BY <1>1
  <2> QED
    BY <2>1, <2>3, <2>4, <2>5 DEF Payments
<1> QED
  BY <1>2, <1>3
     DEF Next, vars, Load, Visit, Turn, Edit, Configure, Recheck, Verify, Reply, Submitted, NotSubmitted,
         Checked, Verified, NotVerified

LEMMA KeysHold == ASSUME TypeOK, CallsBacked, KeyKept, [Next]_vars PROVE KeyKept'
<1> SUFFICES ASSUME NEW t \in Tabs
             PROVE  /\ \A r \in request'[t] : payment'[r.key].status # "none" /\ payment'[r.key].of = r.of
                    /\ Undecided(t)' => \E r \in request'[t] : r.key = last'[t]
  BY DEF KeyKept
<1>1. /\ request \in [Tabs -> SUBSET Requests] /\ last \in [Tabs -> Sessions]
      /\ payment \in [Keys -> Payments]
  BY DEF TypeOK, Payments
<1>2. \A r \in request[t] : /\ r.key \in Keys
                            /\ payment'[r.key].status # "none" /\ payment'[r.key].of = r.of
  BY <1>1, PaymentsKept DEF KeyKept, Requests
<1>3. last'[t] = last[t] /\ Undecided(t)' => Undecided(t)
  <2>1. ASSUME last[t] \in Keys, payment[last[t]].status \in Final
        PROVE  payment'[last[t]].status \in Final
    <3>1. payment[last[t]].status # "none"
      BY <2>1 DEF Final, Unsuccessful
    <3> QED
      BY <2>1, <3>1, PaymentsKept
  <2> QED
    BY <1>1, <2>1 DEF Undecided, Sessions
<1>4. Undecided(t) => \E r \in request[t] : r.key = last[t]
  BY DEF KeyKept
<1>5. CASE UNCHANGED <<request, last>>
  BY <1>2, <1>3, <1>4, <1>5
<1>6. ASSUME NEW u \in Tabs, Bind(u, call[u].key), UNCHANGED last
      PROVE  /\ \A r \in request'[t] : payment'[r.key].status # "none" /\ payment'[r.key].of = r.of
             /\ Undecided(t)' => \E r \in request'[t] : r.key = last'[t]
  <2>1. request'[t] = IF t = u THEN {[r EXCEPT !.bound = TRUE] : r \in request[t]} ELSE request[t]
    BY <1>1, <1>6 DEF Bind
  <2>2. \A r \in request[t] : [r EXCEPT !.bound = TRUE].key = r.key /\ [r EXCEPT !.bound = TRUE].of = r.of
    BY <1>1 DEF Requests
  <2>3. \A q \in request'[t] : \E r \in request[t] : q.key = r.key /\ q.of = r.of
    <3>1. CASE t = u
      <4> SUFFICES ASSUME NEW q \in request'[t]
                   PROVE  \E r \in request[t] : q.key = r.key /\ q.of = r.of
        OBVIOUS
      <4>1. PICK r \in request[t] : q = [r EXCEPT !.bound = TRUE]
        BY <2>1, <3>1
      <4> QED
        BY <2>2, <4>1
    <3>2. CASE t # u
      BY <2>1, <3>2
    <3> QED
      BY <3>1, <3>2
  <2>4. \A r \in request[t] : \E q \in request'[t] : q.key = r.key
    BY <2>1, <2>2
  <2>5. \A q \in request'[t] : payment'[q.key].status # "none" /\ payment'[q.key].of = q.of
    BY <1>2, <2>3
  <2>6. Undecided(t)' => \E q \in request'[t] : q.key = last'[t]
    BY <1>3, <1>4, <1>6, <2>4
  <2> QED
    BY <2>5, <2>6
<1>7. ASSUME NEW u \in Tabs, Retire(u, call[u].key), AnsweredFinal(u), UNCHANGED last
      PROVE  /\ \A r \in request'[t] : payment'[r.key].status # "none" /\ payment'[r.key].of = r.of
             /\ Undecided(t)' => \E r \in request'[t] : r.key = last'[t]
  <2>1. request'[t] = IF t = u THEN {r \in request[t] : ~Mine(r, call[u].key)} ELSE request[t]
    BY <1>1, <1>7 DEF Retire
  <2>2. Undecided(t) => last[t] # call[u].key
    BY <1>7 DEF Undecided, AnsweredFinal
  <2> QED
    BY <1>2, <1>3, <1>4, <1>7, <2>1, <2>2 DEF Mine
<1>8. ASSUME NEW u \in Tabs, Dropped(u), UNCHANGED last
      PROVE  /\ \A r \in request'[t] : payment'[r.key].status # "none" /\ payment'[r.key].of = r.of
             /\ Undecided(t)' => \E r \in request'[t] : r.key = last'[t]
  <2>1. request'[t] = IF t = u THEN {} ELSE request[t]
    BY <1>1, <1>8 DEF Dropped
  <2>2. ~Undecided(u)
    BY <1>8 DEF Undecided, Dropped, AnsweredFinal, CallsBacked
  <2> QED
    BY <1>2, <1>3, <1>4, <1>8, <2>1, <2>2
<1>9. ASSUME NEW u \in Tabs, NEW k \in Keys, Replaced(u, k)
      PROVE  /\ \A r \in request'[t] : payment'[r.key].status # "none" /\ payment'[r.key].of = r.of
             /\ Undecided(t)' => \E r \in request'[t] : r.key = last'[t]
  <2>1. request'[t] = IF t = u THEN {[key |-> k, of |-> Fingerprint(u), bound |-> FALSE]} ELSE request[t]
    BY <1>1, <1>9 DEF Replaced
  <2>2. last'[t] = IF t = u THEN k ELSE last[t]
    BY <1>1, <1>9 DEF Replaced, Sends
  <2>3. payment'[k] = [status |-> "requested", of |-> Fingerprint(u)]
    BY <1>1, <1>9 DEF Replaced, Sends
  <2>4. CASE t = u
    BY <2>1, <2>2, <2>3, <2>4
  <2>5. CASE t # u
    BY <1>2, <1>3, <1>4, <2>1, <2>2, <2>5
  <2> QED
    BY <2>4, <2>5
<1>10. ASSUME NEW u \in Tabs, NEW k \in Retained(u), Sends(u, k), UNCHANGED request
       PROVE  /\ \A r \in request'[t] : payment'[r.key].status # "none" /\ payment'[r.key].of = r.of
              /\ Undecided(t)' => \E r \in request'[t] : r.key = last'[t]
  <2>1. last'[t] = IF t = u THEN k ELSE last[t]
    BY <1>1, <1>10 DEF Sends
  <2>2. \E r \in request[u] : r.key = k
    BY <1>10 DEF Retained
  <2> QED
    BY <1>2, <1>3, <1>4, <1>10, <2>1, <2>2
<1> QED
  BY <1>5, <1>6, <1>7, <1>8, <1>9, <1>10, RequestChanges

-----------------------------------------------------------------------------
(* A call that waits for a reply, or is gone, says no more than it did.     *)
LEMMA CallsHold == ASSUME TypeOK, CallsBacked, KeyKept, [Next]_vars PROVE CallsBacked'
<1> SUFFICES ASSUME NEW t \in Tabs
             PROVE  /\ call'[t].kind # "none" => call'[t].key \in Keys
                    /\ call'[t].kind = "create" => call'[t].key = last'[t]
                    /\ call'[t].reply \in Final => /\ call'[t].kind # "none"
                                                   /\ payment'[call'[t].key].status = call'[t].reply
  BY DEF CallsBacked
<1> DEFINE Backed(c, l) == /\ c.kind # "none" => c.key \in Keys
                           /\ c.kind = "create" => c.key = l
                           /\ c.reply \in Final => c.kind # "none" /\ payment'[c.key].status = c.reply
<1>1. call \in [Tabs -> Calls] /\ last \in [Tabs -> Sessions]
  BY DEF TypeOK, Calls
<1>2. Backed(call[t], last[t])
  <2>1. ASSUME call[t].reply \in Final
        PROVE  payment'[call[t].key].status = call[t].reply
    <3>1. call[t].key \in Keys /\ payment[call[t].key].status = call[t].reply
      BY <2>1 DEF CallsBacked
    <3>2. payment[call[t].key].status # "none"
      BY <2>1, <3>1 DEF Final, Unsuccessful
    <3> QED
      BY <2>1, <3>1, <3>2, PaymentsKept
  <2> QED
    BY <2>1 DEF CallsBacked
<1>3. \A l : Backed(Idle, l)
  BY DEF Idle, Final, Unsuccessful
<1>4. \A k \in Keys, kind \in {"check", "cancel", "verify"} : \A l : Backed(Asks(kind, k), l)
  BY DEF Asks, Final, Unsuccessful
<1>5. ASSUME UNCHANGED last, call'[t] = call[t] \/ call'[t] = Idle
      PROVE  Backed(call'[t], last'[t])
  BY <1>2, <1>3, <1>5
<1>6. ASSUME NEW u \in Tabs, UNCHANGED last, NEW g, Show(u, g) \/ Ends(u, g)
      PROVE  Backed(call'[t], last'[t])
  BY <1>1, <1>5, <1>6 DEF Show, Ends
<1>7. ASSUME NEW u \in Tabs, UNCHANGED last, NEW k \in Keys, NEW kind \in {"check", "cancel", "verify"},
             Asking(u, kind, k)
      PROVE  Backed(call'[t], last'[t])
  <2>1. call'[t] = IF t = u THEN Asks(kind, k) ELSE call[t]
    BY <1>1, <1>7 DEF Asking
  <2>2. CASE t = u
    <3>1. Backed(Asks(kind, k), last'[t])
      BY <1>4, <1>7
    <3> QED
      BY <2>1, <2>2, <3>1
  <2>3. CASE t # u
    BY <1>5, <1>7, <2>1, <2>3
  <2> QED
    BY <2>2, <2>3
<1>8. ASSUME NEW u \in Tabs, NEW k \in Keys, Sends(u, k)
      PROVE  Backed(call'[t], last'[t])
  <2>1. call'[t] = IF t = u THEN Asks("create", k) ELSE call[t]
    BY <1>1, <1>8 DEF Sends
  <2>2. last'[t] = IF t = u THEN k ELSE last[t]
    BY <1>1, <1>8 DEF Sends
  <2>3. CASE t = u
    BY <2>1, <2>2, <2>3 DEF Asks, Final, Unsuccessful
  <2>4. CASE t # u
    BY <1>2, <2>1, <2>2, <2>4
  <2> QED
    BY <2>3, <2>4
<1>9. \A u \in Tabs : page[u].session \in Sessions
  BY DEF TypeOK, Pages
<1>10. ASSUME NEW u \in Tabs, Load(u) \/ Visit(u)
       PROVE  Backed(call'[t], last'[t])
  BY <1>6, <1>10 DEF Load, Visit
<1>11. ASSUME NEW u \in Tabs, Turn(u) \/ Edit(u)
       PROVE  Backed(call'[t], last'[t])
  BY <1>5, <1>11 DEF Turn, Edit
<1>12. ASSUME NEW u \in Tabs, Configure(u) \/ Recheck(u)
       PROVE  Backed(call'[t], last'[t])
  BY <1>5, <1>7, <1>9, <1>12 DEF Configure, Recheck, Sessions
<1>13. ASSUME NEW u \in Tabs, Verify(u)
       PROVE  Backed(call'[t], last'[t])
  BY <1>5, <1>7, <1>9, <1>13 DEF Verify, Sessions
<1>14. ASSUME NEW u \in Tabs, Submit(u)
       PROVE  Backed(call'[t], last'[t])
  <2>1. Retained(u) \subseteq Keys
    BY DEF TypeOK, Retained, Requests
  <2> QED
    BY <1>5, <1>8, <1>14, <2>1 DEF Submit
<1>15. ASSUME NEW u \in Tabs, Reply(u)
       PROVE  Backed(call'[t], last'[t])
  <2>1. PICK s \in {"error", payment[call[u].key].status} \cap Replies : call' = [call EXCEPT ![u].reply = s]
    BY <1>15 DEF Reply
  <2>2. call'[t] = IF t = u THEN [call[u] EXCEPT !.reply = s] ELSE call[t]
    BY <1>1, <2>1
  <2>3. payment' = payment /\ last' = last
    BY <1>15 DEF Reply
  <2>4. CASE t # u
    BY <1>5, <2>2, <2>3, <2>4
  <2>5. ASSUME t = u, s \in Final
        PROVE  call[u].kind # "none" /\ payment[call[u].key].status = s
    <3>1. call[u].kind # "none" /\ call[u].reply = "none"
      BY <1>15 DEF Reply
    <3>2. s # "error"
      BY <2>5 DEF Final, Unsuccessful
    <3> QED
      BY <1>1, <2>1, <3>1, <3>2
  <2>6. CASE t = u
    BY <1>1, <1>2, <2>2, <2>3, <2>5, <2>6 DEF Calls
  <2> QED
    BY <2>4, <2>6
<1>16. ASSUME NEW u \in Tabs, Submitted(u)
       PROVE  Backed(call'[t], last'[t])
  BY <1>6, <1>16 DEF Submitted, OpenReceipt
<1>17. ASSUME NEW u \in Tabs, Checked(u)
       PROVE  Backed(call'[t], last'[t])
  BY <1>6, <1>17 DEF Checked, OpenReceipt
<1>18. ASSUME NEW u \in Tabs, NotSubmitted(u) \/ Verified(u) \/ NotVerified(u)
       PROVE  Backed(call'[t], last'[t])
  BY <1>6, <1>18 DEF NotSubmitted, Verified, NotVerified
<1>19. ASSUME UNCHANGED <<call, last>>
       PROVE  Backed(call'[t], last'[t])
  BY <1>5, <1>19
<1>20. Backed(call'[t], last'[t])
  BY <1>10, <1>11, <1>12, <1>13, <1>14, <1>15, <1>16, <1>17, <1>18, <1>19 DEF Next, vars, Arrive, Decide
<1> QED
  BY <1>20

(* No tab knows of a settlement that the store does not.                    *)
LEMMA SettlementsHold == ASSUME TypeOK, SettlementsKnown, [Next]_vars PROVE SettlementsKnown'
<1>1. memory \in [Tabs -> Stored]
  BY DEF TypeOK
<1>2. ASSUME NEW t \in Tabs, NEW items, SetItems(t, items)
      PROVE  SettlementsKnown'
  <2> DEFINE new == [items |-> items, settled |-> memory[t].settled \cup store.settled]
  <2>1. CASE store' = new /\ memory' = [memory EXCEPT ![t] = new]
    BY <1>1, <2>1 DEF SettlementsKnown
  <2>2. CASE UNCHANGED store /\ memory' = [memory EXCEPT ![t].items = items]
    <3>1. \A u \in Tabs : memory'[u].settled = memory[u].settled
      BY <1>1, <2>2 DEF Stored
    <3> QED
      BY <2>2, <3>1 DEF SettlementsKnown
  <2> QED
    BY <1>2, <2>1, <2>2 DEF SetItems
<1>3. ASSUME NEW t \in Tabs, NEW k, Settled(t, k)
      PROVE  SettlementsKnown'
  <2>1. memory' = [memory EXCEPT ![t] = store'] /\ store.settled \subseteq store'.settled
    BY <1>3 DEF Settled
  <2> QED
    BY <1>1, <2>1 DEF SettlementsKnown
<1>4. ASSUME NEW t \in Tabs, Load(t)
      PROVE  SettlementsKnown'
  BY <1>1, <1>4 DEF Load, SettlementsKnown
<1>5. UNCHANGED <<store, memory>> => SettlementsKnown'
  BY DEF SettlementsKnown
<1> QED
  BY <1>2, <1>3, <1>4, <1>5
     DEF Next, vars, Visit, Turn, Edit, Configure, Recheck, Verify, Submit, Reply, Submitted, NotSubmitted,
         Checked, Verified, NotVerified, Arrive, Decide

-----------------------------------------------------------------------------
(* The invariant, for every interleaving of tabs, API and customer.         *)
THEOREM TabsInvariant == Spec => []TabsInv
<1>1. Init => TabsInv
  <2> SUFFICES ASSUME Init PROVE TabsInv
    OBVIOUS
  <2>1. TypeOK
    BY BasketTypes, PageTypes DEF Init, TypeOK, Stored, Calls
  <2> QED
    BY <2>1 DEF Init, TabsInv, KeyKept, CallsBacked, SettlementsKnown, Undecided, Idle, Final, Unsuccessful
<1>2. TabsInv /\ [Next]_vars => TabsInv'
  BY TypesHold, KeysHold, CallsHold, SettlementsHold DEF TabsInv
<1> QED
  BY <1>1, <1>2, PTL DEF Spec

(* The same request is not paid for twice: while the last payment a tab     *)
(* asked for is undecided, its request is the one that is stored, and the   *)
(* same items, prices, order and language find its key.                     *)
THEOREM UnchangedPaidOnce == Spec => OneAttempt
<1>1. ASSUME TabsInv, [Next]_vars, NEW t \in Tabs, last'[t] # last[t], last[t] # NoKey,
             payment[last[t]].status \notin Final
      PROVE  payment'[last'[t]].of # payment[last[t]].of
  <2>1. /\ TypeOK /\ CallsBacked /\ KeyKept
        /\ last \in [Tabs -> Sessions] /\ payment \in [Keys -> Payments]
    BY <1>1 DEF TabsInv, TypeOK, Payments
  <2>2. PICK r \in request[t] : r.key = last[t]
    BY <1>1, <2>1 DEF KeyKept, Undecided
  <2>3. r.of = payment[last[t]].of
    BY <2>1, <2>2 DEF KeyKept
  <2>4. PICK u \in Tabs, k \in Keys : Replaced(u, k) \/ (k \in Retained(u) /\ Sends(u, k))
    <3>1. Retained(t) \subseteq Keys /\ \A u \in Tabs : Retained(u) \subseteq Keys
      BY <2>1 DEF TypeOK, Retained, Requests
    <3> QED
      BY <1>1, <2>1, <3>1, RequestChanges
  <2>5. u = t /\ last'[t] = k
    BY <1>1, <2>1, <2>4 DEF Replaced, Sends
  <2>6. CASE k \in Retained(t)
    <3>1. PICK q \in request[t] : q.key = k
      BY <2>6 DEF Retained
    <3>2. q = r
      BY <2>1, <3>1 DEF TypeOK
    <3> QED
      BY <1>1, <2>2, <2>5, <3>1, <3>2
  <2>7. CASE Replaced(t, k)
    <3>1. r.of # Fingerprint(t)
      BY <2>7 DEF Replaced, Retained
    <3>2. payment'[k].of = Fingerprint(t)
      BY <2>1, <2>7 DEF Replaced, Sends
    <3> QED
      BY <2>3, <2>5, <3>1, <3>2
  <2> QED
    BY <2>4, <2>5, <2>6, <2>7
<1>2. TabsInv /\ [Next]_vars
      => [\A t \in Tabs : last'[t] # last[t] /\ last[t] # NoKey
            => \/ payment'[last'[t]].of # payment[last[t]].of
               \/ payment[last[t]].status \in Final]_vars
  BY <1>1
<1> QED
  BY <1>2, TabsInvariant, PTL DEF Spec, OneAttempt

(* A paid basket leaves the stored one once, and only what was paid.        *)
THEOREM PaidLeavesOnce == Spec => SettledOnce
<1> DEFINE Settles ==
       /\ store.settled \subseteq store'.settled
       /\ \A k \in store'.settled \ store.settled :
             /\ payment[k].status = "succeeded"
             /\ \A p \in Products : store'.items.quantity[p] =
                IF payment[k].of.items.quantity[p] < store.items.quantity[p]
                THEN store.items.quantity[p] - payment[k].of.items.quantity[p] ELSE 0
       /\ store'.settled = store.settled /\ store' # store => \E t \in Tabs : Edit(t)
<1>1. ASSUME TabsInv, [Next]_vars
      PROVE  Settles
  <2>1. /\ TypeOK /\ CallsBacked /\ SettlementsKnown /\ store \in Stored
        /\ payment \in [Keys -> Payments]
    BY <1>1 DEF TabsInv, TypeOK, Payments
  <2>2. CASE UNCHANGED store
    BY <2>2
  <2>3. ASSUME NEW t \in Tabs, Edit(t)
        PROVE  Settles
    <3>1. store'.settled = store.settled
      <4>1. PICK items : SetItems(t, items)
        BY <2>3 DEF Edit
      <4>2. memory[t].settled \cup store.settled = store.settled
        BY <2>1 DEF SettlementsKnown
      <4>3. store' = [items |-> items, settled |-> store.settled] \/ store' = store
        BY <4>1, <4>2 DEF SetItems
      <4> QED
        BY <4>3
    <3> QED
      BY <2>3, <3>1
  <2>4. ASSUME NEW t \in Tabs, Verified(t)
        PROVE  Settles
    <3> DEFINE k == call[t].key
    <3>1. k \in Keys /\ payment[k].status = "succeeded"
      BY <2>1, <2>4 DEF CallsBacked, Verified, Hears, Final
    <3>2. CASE k \in store.settled \/ UNCHANGED store
      BY <2>4, <3>2 DEF Verified, Settled
    <3>3. CASE k \notin store.settled /\ Settled(t, k)
      <4>1. /\ store'.settled = store.settled \cup {k}
            /\ store'.items = Subtract(store.items, payment[k].of.items)
        BY <3>3 DEF Settled
      <4>2. \A p \in Products : store.items.quantity[p] \in Nat /\ payment[k].of.items.quantity[p] \in Nat
        BY <2>1, <3>1 DEF Stored, Payments, Fingerprints, Baskets
      <4>3. store'.items.quantity =
               [p \in Products |-> IF payment[k].of.items.quantity[p] <= store.items.quantity[p]
                                   THEN store.items.quantity[p] - payment[k].of.items.quantity[p] ELSE 0]
        <5>1. \A b, q : With(b, q).quantity = q
          BY DEF With
        <5> QED
          BY <4>1, <5>1 DEF Subtract
      <4>4. \A p \in Products : store'.items.quantity[p] =
               IF payment[k].of.items.quantity[p] < store.items.quantity[p]
               THEN store.items.quantity[p] - payment[k].of.items.quantity[p] ELSE 0
        BY <4>2, <4>3
      <4> QED
        BY <3>1, <3>3, <4>1, <4>4
    <3> QED
      BY <2>4, <3>2, <3>3 DEF Verified
  <2> QED
    BY <1>1, <2>2, <2>3, <2>4
       DEF Next, vars, Load, Visit, Turn, Configure, Recheck, Verify, Submit, Reply, Submitted,
           NotSubmitted, Checked, NotVerified, Arrive, Decide
<1>2. TabsInv /\ [Next]_vars => [Settles]_vars
  BY <1>1
<1> QED
  BY <1>2, TabsInvariant, PTL DEF Spec, SettledOnce

HIDE CheckoutAssumption

-----------------------------------------------------------------------------
(* The form for orders on delivery.                                         *)
AnyKey == OrderKeys \cup {NoOrderKey}
AnyBuyer == Buyers \cup {NoBuyer}
Outcomes == {"none", "unknown", "edited", "accepted", "conflict", "forgotten"}
FormReplies == {"none", "accepted", "conflict", "error"}

DeliveryTypeOK ==
    /\ goods \subseteq Goods /\ tongue \in Tongues /\ storing \in BOOLEAN
    /\ form \in [open : BOOLEAN, key : AnyKey, buyer : AnyBuyer, busy : BOOLEAN, reply : FormReplies]
    /\ kept \in [key : AnyKey, buyer : AnyBuyer]
    /\ posted \subseteq [key : OrderKeys, contents : Contents, live : BOOLEAN]
    /\ placed \in [DOMAIN placed -> Contents] /\ DOMAIN placed \subseteq OrderKeys
    /\ attempt \in [key : AnyKey, outcome : Outcomes]

(* A key is kept for the last submission while nothing is known of it, and  *)
(* else there is none; a browser that stores nothing has it on the page.    *)
KeyOfAttempt ==
    /\ attempt.outcome = "unknown" =>
          /\ attempt.key \in OrderKeys
          /\ form.open => form.key = attempt.key
          /\ storing => kept.key = attempt.key
          /\ form.open \/ storing
    /\ attempt.outcome # "unknown" => form.key = NoOrderKey /\ kept.key = NoOrderKey
    /\ ~storing => kept.key = NoOrderKey

(* The page waits for one submission, of what it shows, and shows it until  *)
(* it has heard.                                                            *)
WaitsForOne ==
    /\ form.busy => form.open /\ attempt.outcome = "unknown"
    /\ \A m \in posted : m.live =>
          /\ form.busy /\ form.reply = "none"
          /\ m.key = attempt.key /\ m.contents.goods = goods /\ m.contents.buyer = form.buyer
    /\ \A m, n \in posted : m.live /\ n.live => m = n

AcceptedIsPlaced ==
    form.busy /\ form.reply = "accepted" =>
       /\ attempt.key \in DOMAIN placed
       /\ placed[attempt.key].goods = goods /\ placed[attempt.key].buyer = form.buyer

DeliveryInv == DeliveryTypeOK /\ KeyOfAttempt /\ WaitsForOne /\ AcceptedIsPlaced

USE DeliveryAssumption

LEMMA DeliveryStart == DeliveryInit => DeliveryInv
<1> SUFFICES ASSUME DeliveryInit PROVE DeliveryInv
  OBVIOUS
<1>1. /\ form = [open |-> FALSE, key |-> NoOrderKey, buyer |-> NoBuyer, busy |-> FALSE, reply |-> "none"]
      /\ kept = [key |-> NoOrderKey, buyer |-> NoBuyer] /\ posted = {}
      /\ attempt = [key |-> NoOrderKey, outcome |-> "none"]
      /\ goods \subseteq Goods /\ tongue \in Tongues /\ storing \in BOOLEAN
  BY DEF DeliveryInit, Nowhere, NothingKept, NoAttempt
<1>2. placed = <<>>
  BY DEF DeliveryInit
<1>3. DOMAIN placed = {} /\ placed \in [DOMAIN placed -> Contents]
  BY <1>2
<1>4. DeliveryTypeOK
  BY <1>1, <1>3 DEF DeliveryTypeOK, AnyKey, AnyBuyer, Outcomes, FormReplies
<1> QED
  BY <1>1, <1>4 DEF DeliveryInv, KeyOfAttempt, WaitsForOne, AcceptedIsPlaced

(* What OneKeyPerOrder and OrderedAsShown say of one step.                  *)
KeyStep ==
    ~form.busy /\ form'.busy =>
       IF attempt.outcome = "unknown" THEN attempt'.key = attempt.key ELSE attempt'.key # attempt.key

ShownStep ==
    form.busy /\ form.reply = "accepted" /\ form'.open /\ ~form'.busy =>
       placed[attempt.key].goods = goods /\ placed[attempt.key].buyer = form.buyer

LEMMA ShownWhenAccepted == DeliveryInv => ShownStep
  BY DEF DeliveryInv, AcceptedIsPlaced, ShownStep

LEMMA KeepsType ==
    ASSUME DeliveryInv, NEW k \in AnyKey, NEW b \in AnyBuyer, Keeps(k, b)
    PROVE  /\ kept' \in [key : AnyKey, buyer : AnyBuyer]
           /\ storing => kept'.key = k
           /\ ~storing => kept'.key = NoOrderKey
  BY DEF Keeps, DeliveryInv, DeliveryTypeOK, KeyOfAttempt

(* Submissions whose page no longer waits are what they were.               *)
LEMMA NobodyListens ==
    ASSUME NEW P \in SUBSET [key : OrderKeys, contents : Contents, live : BOOLEAN]
    PROVE  \A m \in {[n EXCEPT !.live = FALSE] : n \in P} :
              m \in [key : OrderKeys, contents : Contents, live : BOOLEAN] /\ ~m.live
<1> SUFFICES ASSUME NEW n \in P
             PROVE  LET m == [n EXCEPT !.live = FALSE] IN
                    m \in [key : OrderKeys, contents : Contents, live : BOOLEAN] /\ ~m.live
  OBVIOUS
<1> QED
  OBVIOUS

(* No step but a submission makes the page wait.                            *)
LEMMA Cleared ==
    ASSUME DeliveryInv, MayEdit, NEW b \in AnyBuyer, ClearKey(b), Edited,
           goods' \subseteq goods, UNCHANGED <<tongue, storing, posted, placed>>
    PROVE  DeliveryInv' /\ KeyStep
<1>t. DeliveryTypeOK /\ KeyOfAttempt /\ WaitsForOne
  BY DEF DeliveryInv
<1>1. /\ form' = [form EXCEPT !.key = NoOrderKey, !.buyer = b] /\ form.open /\ ~form.busy
      /\ Keeps(NoOrderKey, b) /\ attempt' = [attempt EXCEPT !.outcome = "edited"]
  BY DEF ClearKey, MayEdit, Edited
<1>2. /\ kept' \in [key : AnyKey, buyer : AnyBuyer] /\ kept'.key = NoOrderKey
  BY <1>1, KeepsType DEF AnyKey
<1>3. /\ form'.open /\ ~form'.busy /\ form'.key = NoOrderKey
      /\ attempt'.outcome = "edited"
  BY <1>t, <1>1 DEF DeliveryTypeOK
<1>4. DeliveryTypeOK'
  BY <1>t, <1>1, <1>2 DEF DeliveryTypeOK, AnyKey, AnyBuyer, Outcomes
<1>5. KeyOfAttempt' /\ AcceptedIsPlaced' /\ KeyStep
  BY <1>t, <1>2, <1>3 DEF KeyOfAttempt, AcceptedIsPlaced, KeyStep
<1>6. \A m \in posted' : ~m.live
  BY <1>t, <1>1 DEF WaitsForOne
<1>7. WaitsForOne'
  BY <1>3, <1>6 DEF WaitsForOne
<1> QED
  BY <1>4, <1>5, <1>7 DEF DeliveryInv

(* An answer takes the submission away; the page hears it if it waits.      *)
LEMMA AnswerHeard ==
    ASSUME DeliveryInv, NEW m \in posted, NEW reply \in FormReplies \ {"none"}, Answered(m, reply),
           placed' \in [DOMAIN placed' -> Contents], DOMAIN placed' \subseteq OrderKeys,
           \A k \in DOMAIN placed : k \in DOMAIN placed' /\ placed'[k] = placed[k],
           reply = "accepted" => m.key \in DOMAIN placed' /\ placed'[m.key] = m.contents
    PROVE  DeliveryInv' /\ KeyStep
<1>t. DeliveryTypeOK /\ KeyOfAttempt /\ WaitsForOne /\ AcceptedIsPlaced
  BY DEF DeliveryInv
<1>1. /\ posted' = posted \ {m} /\ UNCHANGED <<goods, tongue, kept, storing, attempt>>
      /\ form' = IF m.live THEN [form EXCEPT !.reply = reply] ELSE form
  BY DEF Answered
<1>2. /\ form'.open = form.open /\ form'.busy = form.busy /\ form'.key = form.key /\ form'.buyer = form.buyer
      /\ form'.reply = IF m.live THEN reply ELSE form.reply
  BY <1>t, <1>1 DEF DeliveryTypeOK
<1>3. DeliveryTypeOK'
  BY <1>t, <1>1 DEF DeliveryTypeOK
<1>4. KeyOfAttempt' /\ WaitsForOne' /\ KeyStep
  BY <1>t, <1>1, <1>2 DEF KeyOfAttempt, WaitsForOne, KeyStep
<1>5. AcceptedIsPlaced'
  BY <1>t, <1>1, <1>2 DEF WaitsForOne, AcceptedIsPlaced
<1> QED
  BY <1>3, <1>4, <1>5 DEF DeliveryInv

LEMMA DeliveryStep == ASSUME DeliveryInv, DeliveryNext PROVE DeliveryInv' /\ KeyStep
<1>t. DeliveryTypeOK /\ KeyOfAttempt /\ WaitsForOne /\ AcceptedIsPlaced
  BY DEF DeliveryInv
<1> USE DEF DeliveryInv
<1>1. CASE OpenForm
  <2>1. /\ form' = [open |-> TRUE, key |-> kept.key, buyer |-> kept.buyer, busy |-> FALSE, reply |-> "none"]
        /\ ~form.open /\ UNCHANGED <<goods, tongue, kept, storing, posted, placed, attempt>>
    BY <1>1 DEF OpenForm, Nowhere
  <2>2. DeliveryTypeOK'
    BY <1>t, <2>1 DEF DeliveryTypeOK, FormReplies
  <2> QED
    BY <1>t, <2>1, <2>2 DEF KeyOfAttempt, WaitsForOne, AcceptedIsPlaced, KeyStep
<1>2. CASE LeaveForm
  <2>1. /\ form' = [open |-> FALSE, key |-> NoOrderKey, buyer |-> NoBuyer, busy |-> FALSE, reply |-> "none"]
        /\ posted' = {[m EXCEPT !.live = FALSE] : m \in posted}
        /\ attempt' = IF storing THEN attempt ELSE [attempt EXCEPT !.outcome = "forgotten"]
        /\ goods' \subseteq goods /\ UNCHANGED <<tongue, kept, storing, placed>>
    BY <1>2 DEF LeaveForm, Nowhere
  <2>2. posted' \subseteq [key : OrderKeys, contents : Contents, live : BOOLEAN] /\ \A m \in posted' : ~m.live
    BY <1>t, <2>1, NobodyListens DEF DeliveryTypeOK
  <2>3. DeliveryTypeOK'
    BY <1>t, <2>1, <2>2 DEF DeliveryTypeOK, AnyKey, AnyBuyer, FormReplies, Outcomes
  <2>4. attempt'.outcome = "unknown" => storing /\ attempt' = attempt
    BY <1>t, <2>1 DEF DeliveryTypeOK
  <2>5. KeyOfAttempt'
    BY <1>t, <2>1, <2>4 DEF KeyOfAttempt
  <2> QED
    BY <2>1, <2>2, <2>3, <2>5 DEF WaitsForOne, AcceptedIsPlaced, KeyStep
<1>3. CASE AddFromShop
  <2>1. /\ ~form.open /\ goods' \subseteq Goods
        /\ UNCHANGED <<tongue, form, kept, storing, posted, placed, attempt>>
    BY <1>3, <1>t DEF AddFromShop, DeliveryTypeOK
  <2> QED
    BY <1>t, <2>1 DEF DeliveryTypeOK, KeyOfAttempt, WaitsForOne, AcceptedIsPlaced, KeyStep
<1>4. CASE SwitchLanguage
  <2>1. tongue' \in Tongues /\ UNCHANGED <<goods, form, kept, storing, posted, placed, attempt>>
    BY <1>4 DEF SwitchLanguage
  <2> QED
    BY <1>t, <2>1 DEF DeliveryTypeOK, KeyOfAttempt, WaitsForOne, AcceptedIsPlaced, KeyStep
<1>5. CASE EditGoods
  BY <1>5, <1>t, Cleared DEF EditGoods, DeliveryTypeOK
<1>6. CASE EditBuyer
  BY <1>6, <1>t, Cleared DEF EditBuyer, DeliveryTypeOK, AnyBuyer
<1>7. CASE SubmitOrder
  <2> DEFINE contents == [goods |-> goods, buyer |-> form.buyer, tongue |-> tongue]
  <2>1. PICK k \in KeysToUse :
          /\ form' = [form EXCEPT !.key = k, !.busy = TRUE, !.reply = "none"]
          /\ IF form.key = NoOrderKey THEN Keeps(k, kept.buyer) ELSE UNCHANGED kept
          /\ attempt' = [key |-> k, outcome |-> "unknown"]
          /\ posted' = posted \cup {[key |-> k, contents |-> contents, live |-> TRUE]}
    BY <1>7 DEF SubmitOrder
  <2>2. /\ form.open /\ ~form.busy /\ form.buyer # NoBuyer /\ UNCHANGED <<goods, tongue, storing, placed>>
    BY <1>7 DEF SubmitOrder
  <2>3. k \in OrderKeys /\ (form.key = NoOrderKey => k # attempt.key) /\ (form.key # NoOrderKey => k = form.key)
    BY <1>t DEF KeysToUse, NewKeys, Drawn, DeliveryTypeOK, AnyKey
  <2>4. /\ kept' \in [key : AnyKey, buyer : AnyBuyer] /\ (storing => kept'.key = k)
        /\ (~storing => kept'.key = NoOrderKey)
    <3>1. CASE form.key = NoOrderKey
      BY <1>t, <2>1, <2>3, <3>1, KeepsType DEF AnyKey, DeliveryTypeOK
    <3>2. CASE form.key # NoOrderKey
      BY <1>t, <2>1, <2>2, <2>3, <3>2 DEF KeyOfAttempt, DeliveryTypeOK
    <3> QED
      BY <3>1, <3>2
  <2>5. contents \in Contents
    BY <1>t, <2>2 DEF Contents, DeliveryTypeOK, AnyBuyer
  <2> HIDE DEF contents
  <2>6. /\ form'.open /\ form'.busy /\ form'.key = k /\ form'.buyer = form.buyer /\ form'.reply = "none"
    BY <1>t, <2>1, <2>2 DEF DeliveryTypeOK
  <2>7. DeliveryTypeOK'
    <3>1. [key |-> k, contents |-> contents, live |-> TRUE] \in [key : OrderKeys, contents : Contents, live : BOOLEAN]
      BY <2>3, <2>5
    <3>2. form' \in [open : BOOLEAN, key : AnyKey, buyer : AnyBuyer, busy : BOOLEAN, reply : FormReplies]
      BY <1>t, <2>1, <2>3 DEF DeliveryTypeOK, AnyKey, FormReplies
    <3> QED
      BY <1>t, <2>1, <2>2, <2>3, <2>4, <3>1, <3>2 DEF DeliveryTypeOK, AnyKey, Outcomes
  <2>8. KeyOfAttempt'
    BY <2>1, <2>2, <2>3, <2>4, <2>6 DEF KeyOfAttempt
  <2>9. WaitsForOne' /\ AcceptedIsPlaced'
    <3>1. contents.goods = goods /\ contents.buyer = form.buyer
      BY DEF contents
    <3>2. \A m \in posted : ~m.live
      BY <1>t, <2>2 DEF WaitsForOne
    <3>3. ASSUME NEW m \in posted', m.live PROVE m = [key |-> k, contents |-> contents, live |-> TRUE]
      BY <2>1, <3>2, <3>3
    <3>4. attempt'.key = k /\ attempt'.outcome = "unknown" /\ goods' = goods
      BY <2>1, <2>2
    <3>5. ASSUME NEW m \in posted', m.live
          PROVE  /\ form'.busy /\ form'.reply = "none" /\ m.key = attempt'.key
                 /\ m.contents.goods = goods' /\ m.contents.buyer = form'.buyer
      BY <2>6, <3>1, <3>3, <3>4, <3>5
    <3> QED
      BY <2>6, <3>3, <3>4, <3>5 DEF WaitsForOne, AcceptedIsPlaced
  <2>10. KeyStep
    BY <1>t, <2>1, <2>2, <2>3 DEF KeyStep, KeyOfAttempt
  <2> QED
    BY <2>7, <2>8, <2>9, <2>10
<1>8. CASE LoseAnswer
  <2>1. /\ form.busy /\ form' = [form EXCEPT !.reply = "error"]
        /\ posted' = {[m EXCEPT !.live = FALSE] : m \in posted}
        /\ UNCHANGED <<goods, tongue, kept, storing, placed, attempt>>
    BY <1>8 DEF LoseAnswer
  <2>2. posted' \subseteq [key : OrderKeys, contents : Contents, live : BOOLEAN] /\ \A m \in posted' : ~m.live
    BY <1>t, <2>1, NobodyListens DEF DeliveryTypeOK
  <2>3. /\ form'.open = form.open /\ form'.busy = form.busy /\ form'.key = form.key /\ form'.reply = "error"
    BY <1>t, <2>1 DEF DeliveryTypeOK
  <2>4. DeliveryTypeOK'
    BY <1>t, <2>1, <2>2 DEF DeliveryTypeOK, FormReplies
  <2> QED
    BY <1>t, <2>1, <2>2, <2>3, <2>4 DEF KeyOfAttempt, WaitsForOne, AcceptedIsPlaced, KeyStep
<1>9. CASE HearAccepted
  <2>1. /\ form' = [open |-> TRUE, key |-> NoOrderKey, buyer |-> NoBuyer, busy |-> FALSE, reply |-> "none"]
        /\ form.busy /\ form.reply = "accepted" /\ goods' = {} /\ Keeps(NoOrderKey, NoBuyer)
        /\ attempt' = [attempt EXCEPT !.outcome = "accepted"] /\ UNCHANGED <<tongue, storing, posted, placed>>
    BY <1>9 DEF HearAccepted, Ready, Nowhere
  <2>2. kept' \in [key : AnyKey, buyer : AnyBuyer] /\ kept'.key = NoOrderKey /\ attempt'.outcome = "accepted"
    BY <1>t, <2>1, KeepsType DEF AnyKey, AnyBuyer, DeliveryTypeOK
  <2>3. DeliveryTypeOK'
    BY <1>t, <2>1, <2>2 DEF DeliveryTypeOK, AnyKey, AnyBuyer, FormReplies, Outcomes
  <2> QED
    BY <1>t, <2>1, <2>2, <2>3 DEF KeyOfAttempt, WaitsForOne, AcceptedIsPlaced, KeyStep
<1>10. CASE HearConflict
  <2>1. /\ form' = [form EXCEPT !.key = NoOrderKey, !.busy = FALSE] /\ Keeps(NoOrderKey, kept.buyer)
        /\ form.busy /\ form.reply = "conflict"
        /\ attempt' = [attempt EXCEPT !.outcome = "conflict"] /\ UNCHANGED <<goods, tongue, storing, posted, placed>>
    BY <1>10 DEF HearConflict, Ready
  <2>2. kept' \in [key : AnyKey, buyer : AnyBuyer] /\ kept'.key = NoOrderKey /\ attempt'.outcome = "conflict"
    BY <1>t, <2>1, KeepsType DEF AnyKey, DeliveryTypeOK
  <2>3. ~form'.busy /\ form'.key = NoOrderKey
    BY <1>t, <2>1 DEF DeliveryTypeOK
  <2>4. DeliveryTypeOK'
    BY <1>t, <2>1, <2>2 DEF DeliveryTypeOK, AnyKey, Outcomes
  <2> QED
    BY <1>t, <2>1, <2>2, <2>3, <2>4 DEF KeyOfAttempt, WaitsForOne, AcceptedIsPlaced, KeyStep
<1>11. CASE HearError
  <2>1. /\ form' = [form EXCEPT !.busy = FALSE] /\ form.busy /\ form.reply = "error"
        /\ UNCHANGED <<kept, goods, tongue, storing, posted, placed, attempt>>
    BY <1>11 DEF HearError, Ready, AfterError
  <2>2. /\ ~form'.busy /\ form'.key = form.key /\ form'.open = form.open
    BY <1>t, <2>1 DEF DeliveryTypeOK
  <2>3. DeliveryTypeOK'
    BY <1>t, <2>1 DEF DeliveryTypeOK
  <2> QED
    BY <1>t, <2>1, <2>2, <2>3 DEF KeyOfAttempt, WaitsForOne, AcceptedIsPlaced, KeyStep
<1>12. ASSUME NEW m \in posted, Recognize(m) PROVE DeliveryInv' /\ KeyStep
  <2>1. UNCHANGED placed /\ m.key \in DOMAIN placed
    BY <1>12 DEF Recognize
  <2>2. PICK reply \in {"accepted", "error", "conflict"} :
          Answered(m, reply) /\ (reply = "accepted" => placed[m.key] = m.contents)
    BY <1>12 DEF Recognize
  <2> QED
    BY <1>t, <2>1, <2>2, AnswerHeard DEF DeliveryTypeOK, FormReplies
<1>13. ASSUME NEW m \in posted, Place(m) PROVE DeliveryInv' /\ KeyStep
  <2>1. CASE /\ placed' = [k \in DOMAIN placed \cup {m.key} |-> IF k = m.key THEN m.contents ELSE placed[k]]
             /\ \E reply \in {"accepted", "error"} : Answered(m, reply)
    <3>1. m.key \notin DOMAIN placed /\ m.key \in OrderKeys /\ m.contents \in Contents
      BY <1>13, <1>t DEF Place, DeliveryTypeOK
    <3>2. DOMAIN placed' = DOMAIN placed \cup {m.key} /\ placed' \in [DOMAIN placed' -> Contents]
      BY <1>t, <2>1, <3>1 DEF DeliveryTypeOK
    <3>3. /\ \A k \in DOMAIN placed : k \in DOMAIN placed' /\ placed'[k] = placed[k]
          /\ m.key \in DOMAIN placed' /\ placed'[m.key] = m.contents /\ DOMAIN placed' \subseteq OrderKeys
      BY <1>t, <2>1, <3>1, <3>2 DEF DeliveryTypeOK
    <3> QED
      BY <2>1, <3>2, <3>3, AnswerHeard DEF FormReplies
  <2>2. CASE UNCHANGED placed /\ \E reply \in {"conflict", "error"} : Answered(m, reply)
    BY <1>t, <2>2, AnswerHeard DEF DeliveryTypeOK, FormReplies
  <2> QED
    BY <1>13, <2>1, <2>2 DEF Place
<1> QED
  BY <1>1, <1>2, <1>3, <1>4, <1>5, <1>6, <1>7, <1>8, <1>9, <1>10, <1>11, <1>12, <1>13 DEF DeliveryNext

LEMMA DeliveryStutters == ASSUME DeliveryInv, UNCHANGED deliveryVars PROVE DeliveryInv'
  BY DEF deliveryVars, DeliveryInv, DeliveryTypeOK, KeyOfAttempt, WaitsForOne, AcceptedIsPlaced

(* The inductive invariant of the form for orders on delivery.              *)
THEOREM DeliveryInvariant == DeliverySpec => []DeliveryInv
<1>1. DeliveryInv /\ [DeliveryNext]_deliveryVars => DeliveryInv'
  BY DeliveryStep, DeliveryStutters
<1> QED
  BY <1>1, DeliveryStart, PTL DEF DeliverySpec

(* A submission repeats the last one's key if and only if nothing is known  *)
(* of that one and the form was not edited (submitOrder, clearIdempotencyKey). *)
THEOREM KeyRepeated == DeliverySpec => OneKeyPerOrder
<1>1. DeliveryInv /\ [DeliveryNext]_deliveryVars => [KeyStep]_deliveryVars
  BY DeliveryStep
<1> QED
  BY <1>1, DeliveryInvariant, PTL DEF DeliverySpec, OneKeyPerOrder, KeyStep

(* What the customer is told was accepted is the order under the form's key, *)
(* with the goods and the buyer on display (submitOrder, OrdersService.submit). *)
THEOREM AcceptedAsShown == DeliverySpec => OrderedAsShown
<1>1. DeliveryInv /\ [DeliveryNext]_deliveryVars => [ShownStep]_deliveryVars
  BY ShownWhenAccepted
<1> QED
  BY <1>1, DeliveryInvariant, PTL DEF DeliverySpec, OrderedAsShown, ShownStep
=============================================================================
