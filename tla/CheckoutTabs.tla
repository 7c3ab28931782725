----------------------------- MODULE CheckoutTabs -----------------------------
(***************************************************************************)
(* The sandbox checkout in a customer's browser: tabs that share one stored*)
(* basket (BasketService, localStorage), each with its own copy in memory, *)
(* its own payment request (sessionStorage) and one page: the shop, the    *)
(* checkout (BasketPage), the receipt (PaymentSuccessPage) or the bank's.  *)
(* A tab's storage calls in one event are one step.  A basket is what the  *)
(* request's fingerprint tells apart: how many of each product, at which   *)
(* price, and in which order they were put in.  Each request key has one   *)
(* payment (SandboxAllocation), whose reference is named by the key; what  *)
(* the payment goes through is SandboxPayment's.                           *)
(***************************************************************************)
EXTENDS Naturals

CONSTANTS Tabs, Products, Keys, Locales, Prices,
          NoKey,          \* no request, no session
          NoPrice,        \* of a product that is not in the basket
          MaxQuantity,    \* of a product in the basket (a bound)
          Refuses         \* whether the browser may refuse to read or write

ASSUME CheckoutAssumption ==
    /\ NoKey \notin Keys /\ MaxQuantity \in Nat \ {0} /\ Refuses \in BOOLEAN
    /\ Locales # {}

VARIABLES
    store,      \* the stored basket, with the payments settled against it
    memory,     \* each tab's copy
    request,    \* each tab's stored payment request, at most one
    page,       \* what each tab shows
    call,       \* the call each tab's page waits for, with its reply
    payment,    \* the payments, by key
    last        \* auxiliary: the key each tab sent last

vars == <<store, memory, request, page, call, payment, last>>

Sessions == Keys \cup {NoKey}
Baskets == [quantity : [Products -> 0..MaxQuantity], price : [Products -> Prices \cup {NoPrice}],
            before : SUBSET (Products \X Products)]
Empty == [quantity |-> [p \in Products |-> 0], price |-> [p \in Products |-> NoPrice], before |-> {}]
Stored == [items : Baskets, settled : SUBSET Keys]
Fingerprints == [locale : Locales, items : Baskets]
Requests == [key : Keys, of : Fingerprints, bound : BOOLEAN]
Unsuccessful == {"failed", "cancelled", "expired"}
Final == Unsuccessful \cup {"succeeded"}
Replies == Final \cup {"pending", "error"}
Pages == [at : {"shop", "checkout", "receipt", "bank"}, session : Sessions, locale : Locales,
          ready : BOOLEAN, blocked : BOOLEAN, complete : BOOLEAN, pending : BOOLEAN,
          cancellable : Sessions]

Fresh(at, session, locale) ==
    [at |-> at, session |-> session, locale |-> locale, ready |-> FALSE, blocked |-> FALSE,
     complete |-> FALSE, pending |-> FALSE, cancellable |-> NoKey]
Idle == [kind |-> "none", key |-> NoKey, reply |-> "none"]
Asks(kind, key) == [kind |-> kind, key |-> key, reply |-> "none"]
Unasked == [locale |-> CHOOSE l \in Locales : TRUE, items |-> Empty]

Init ==
    /\ store = [items |-> Empty, settled |-> {}]
    /\ memory = [t \in Tabs |-> store]
    /\ request = [t \in Tabs |-> {}]
    /\ page \in [Tabs -> {Fresh("shop", NoKey, l) : l \in Locales}]
    /\ call = [t \in Tabs |-> Idle]
    /\ payment = [k \in Keys |-> [status |-> "none", of |-> Unasked]]
    /\ last = [t \in Tabs |-> NoKey]

-----------------------------------------------------------------------------
(* BasketService.                                                           *)
Inside(basket) == {p \in Products : basket.quantity[p] # 0}

(* Lines keep their price and their place; a line of none goes.             *)
With(basket, quantity) ==
    [quantity |-> quantity,
     price |-> [p \in Products |-> IF quantity[p] = 0 THEN NoPrice ELSE basket.price[p]],
     before |-> {e \in basket.before : quantity[e[1]] # 0 /\ quantity[e[2]] # 0}]

(* One more of a product that is there, or a new line at the end.           *)
Added(basket, p, price) ==
    LET more == [basket.quantity EXCEPT ![p] = @ + 1]
    IN  IF p \in Inside(basket) THEN With(basket, more)
        ELSE [quantity |-> more, price |-> [basket.price EXCEPT ![p] = price],
              before |-> basket.before \cup (Inside(basket) \X {p})]

Subtract(basket, bought) ==
    With(basket, [p \in Products |-> IF bought.quantity[p] <= basket.quantity[p]
                                     THEN basket.quantity[p] - bought.quantity[p] ELSE 0])

(* Wrong: the tab writes back the settlements it knows of. *)
SetItemsForgetful(t, items) ==
    LET new == [items |-> items, settled |-> memory[t].settled]
    IN  store' = new /\ memory' = [memory EXCEPT ![t] = new]

SetItems(t, items) ==
    LET new == [items |-> items, settled |-> memory[t].settled \cup store.settled]
    IN  \/ store' = new /\ memory' = [memory EXCEPT ![t] = new]
        \/ Refuses /\ UNCHANGED store /\ memory' = [memory EXCEPT ![t].items = items]

Settled(t, k) ==
    LET new == IF k \in store.settled THEN store
               ELSE [items |-> Subtract(store.items, payment[k].of.items),
                     settled |-> store.settled \cup {k}]
    IN  store' = new /\ memory' = [memory EXCEPT ![t] = new]

(* sandbox-payment-request: a record is removed only by its own payment.    *)
(* Wrong: one without a reference is anybody's. *)
MineLoosely(r, k) == r.key = k \/ ~r.bound

Mine(r, k) == r.bound /\ r.key = k

Retire(t, k) == request' = [request EXCEPT ![t] = {r \in @ : ~Mine(r, k)}]

Retired(t, k) == \A r \in request[t] : r.bound

Bindable(t, k) == \E r \in request[t] : r.key = k

Bind(t, k) == request' = [request EXCEPT ![t] = {[r EXCEPT !.bound = TRUE] : r \in @}]

-----------------------------------------------------------------------------
(* Pages come and go.  A page that is left no longer waits.                 *)
Show(t, new) == page' = [page EXCEPT ![t] = new] /\ call' = [call EXCEPT ![t] = Idle]

Known == {k \in Keys : payment[k].status # "none"} \cup {NoKey}

(* A page loaded anew, by its address or on the way back from the bank.     *)
Load(t) ==
    /\ \E s \in Known, l \in Locales :
          \/ Show(t, Fresh("checkout", s, l))
          \/ s # NoKey /\ Show(t, Fresh("receipt", s, l))
    /\ \/ memory' = [memory EXCEPT ![t] = store]
       \/ Refuses /\ memory' = [memory EXCEPT ![t] = [items |-> Empty, settled |-> {}]]
    /\ UNCHANGED <<store, request, payment, last>>

(* Links between pages of the shop, and its languages, keep the memory. *)
Visit(t) ==
    /\ page[t].at # "bank"
    /\ \E l \in Locales : Show(t, Fresh(IF page[t].at = "shop" THEN "checkout" ELSE "shop", NoKey, l))
    /\ UNCHANGED <<store, memory, request, payment, last>>

(* Back or forward to another session, or the same in another language,     *)
(* keeps the page, and what it waits for.                                   *)
Turn(t) ==
    /\ page[t].at = "checkout"
    /\ \E s \in Known, l \in Locales : page' = [page EXCEPT ![t].session = s, ![t].locale = l]
    /\ UNCHANGED <<store, memory, request, call, payment, last>>

(* The shop's buttons, with the price its page shows; and the checkout's,   *)
(* but while it submits.                                                    *)
Shopped(items) ==
    {Added(items, p, c) : p \in {q \in Products : items.quantity[q] < MaxQuantity}, c \in Prices}
    \cup {With(items, [items.quantity EXCEPT ![p] = @ - 1]) : p \in Inside(items)}

Revised(items) ==
    {Empty} \cup {With(items, [items.quantity EXCEPT ![p] = q]) : p \in Inside(items), q \in 0..MaxQuantity}

Edit(t) ==
    /\ \/ page[t].at = "shop" /\ \E items \in Shopped(memory[t].items) : SetItems(t, items)
       \/ /\ page[t].at = "checkout" /\ call[t].kind # "create"
          /\ \E items \in Revised(memory[t].items) : SetItems(t, items)
    /\ page' = [page EXCEPT ![t].complete = FALSE]
    /\ UNCHANGED <<request, call, payment, last>>

Asking(t, kind, k) == call[t] = Idle /\ call' = [call EXCEPT ![t] = Asks(kind, k)]

(* applyTestConfig, and the check it starts on a return from the bank.      *)
Configure(t) ==
    /\ page[t].at = "checkout" /\ ~page[t].ready
    /\ page' = [page EXCEPT ![t].ready = TRUE, ![t].cancellable = NoKey]
    /\ IF page[t].session = NoKey THEN UNCHANGED call ELSE Asking(t, "check", page[t].session)
    /\ UNCHANGED <<store, memory, request, payment, last>>

(* recheckSandbox, cancelSandbox. *)
Recheck(t) ==
    /\ page[t].at = "checkout" /\ page[t].ready /\ page[t].session # NoKey
    /\ \/ page[t].pending /\ Asking(t, "check", page[t].session)
       \/ page[t].cancellable = page[t].session /\ Asking(t, "cancel", page[t].session)
    /\ page' = [page EXCEPT ![t].cancellable = NoKey]
    /\ UNCHANGED <<store, memory, request, payment, last>>

(* The receipt asks when it opens, and when the customer asks it to.        *)
Verify(t) ==
    /\ page[t].at = "receipt" /\ page[t].session # NoKey /\ ~page[t].complete
    /\ Asking(t, "verify", page[t].session)
    /\ UNCHANGED <<store, memory, request, page, payment, last>>

(* retainSandboxRequestKey: the stored key of the same request, in the same *)
(* language and with the same items, prices and order; or another key.      *)
Fingerprint(t) == [locale |-> page[t].locale, items |-> memory[t].items]

Retained(t) == {r.key : r \in {q \in request[t] : q.of = Fingerprint(t)}}

Sends(t, k) ==
    /\ call' = [call EXCEPT ![t] = Asks("create", k)]
    /\ last' = [last EXCEPT ![t] = k]
    /\ payment' = [payment EXCEPT ![k] = IF @.status = "none"
                                         THEN [status |-> "requested", of |-> Fingerprint(t)] ELSE @]

Submit(t) ==
    /\ page[t].at = "checkout" /\ page[t].ready /\ call[t] = Idle
    /\ ~page[t].blocked /\ ~page[t].complete /\ ~page[t].pending
    /\ memory[t].items # Empty
    /\ \/ \E k \in Retained(t) : Sends(t, k) /\ UNCHANGED <<request, page>>
       \/ /\ Retained(t) = {}
          /\ \E k \in Keys :
                /\ payment[k].status = "none"
                /\ request' = [request EXCEPT ![t] = {[key |-> k, of |-> Fingerprint(t), bound |-> FALSE]}]
                /\ Sends(t, k)
          /\ UNCHANGED page
       \/ /\ Refuses
          /\ page' = [page EXCEPT ![t].blocked = TRUE]
          /\ UNCHANGED <<request, call, payment, last>>
    /\ UNCHANGED <<store, memory>>

-----------------------------------------------------------------------------
(* The API: a creation may arrive after the page has gone; the customer pays*)
(* or does not; a reply is of the moment it was made.                       *)
Arrive(k) ==
    /\ payment[k].status = "requested"
    /\ payment' = [payment EXCEPT ![k].status = "pending"]
    /\ UNCHANGED <<store, memory, request, page, call, last>>

Decide(k) ==
    /\ payment[k].status = "pending"
    /\ \E s \in Final : payment' = [payment EXCEPT ![k].status = s]
    /\ UNCHANGED <<store, memory, request, page, call, last>>

Reply(t) ==
    /\ call[t].kind # "none" /\ call[t].reply = "none"
    /\ \E s \in {"error", payment[call[t].key].status} \cap Replies :
          call' = [call EXCEPT ![t].reply = s]
    /\ UNCHANGED <<store, memory, request, page, payment, last>>

-----------------------------------------------------------------------------
(* What the pages make of the replies. *)
Hears(t, kinds, replies) == call[t].kind \in kinds /\ call[t].reply \in replies

Ends(t, new) == page' = [page EXCEPT ![t] = new] /\ call' = [call EXCEPT ![t] = Idle]

(* openVerifiedSuccess *)
OpenReceipt(t) == Show(t, Fresh("receipt", call[t].key, page[t].locale))

Submitted(t) ==
    /\ Hears(t, {"create"}, Final \cup {"pending"})
    /\ LET k == call[t].key
           blocked == [page[t] EXCEPT !.blocked = TRUE]
       IN  \/ /\ Bindable(t, k) /\ call[t].reply = "pending" /\ Bind(t, k)
              /\ \/ page[t].locale = payment[k].of.locale /\ Show(t, Fresh("bank", k, page[t].locale))
                 \/ Ends(t, page[t])
           \/ Bindable(t, k) /\ call[t].reply = "succeeded" /\ Bind(t, k) /\ OpenReceipt(t)
           \/ /\ Bindable(t, k) /\ call[t].reply \in Unsuccessful
              /\ request' = [request EXCEPT ![t] = {}]
              /\ Ends(t, [page[t] EXCEPT !.blocked = FALSE, !.pending = FALSE, !.complete = FALSE])
           \/ /\ Refuses \/ ~Bindable(t, k)
              /\ UNCHANGED request
              /\ IF call[t].reply = "succeeded" THEN OpenReceipt(t) ELSE Ends(t, blocked)
           \/ /\ Refuses /\ Bindable(t, k) /\ call[t].reply \in Unsuccessful
              /\ Bind(t, k) /\ Ends(t, blocked)
    /\ UNCHANGED <<store, memory, payment, last>>

NotSubmitted(t) ==
    /\ Hears(t, {"create"}, {"error"})
    /\ Ends(t, page[t])
    /\ UNCHANGED <<store, memory, request, payment, last>>

(* checkCardPaymentTestReturn, for the session still on display.            *)
Checked(t) ==
    /\ Hears(t, {"check", "cancel"}, Replies)
    /\ LET k == call[t].key
           s == call[t].reply
           confused == s = "error" \/ (call[t].kind = "cancel" /\ s \notin {"cancelled", "pending"})
       IN  IF page[t].session # k THEN Ends(t, page[t]) /\ UNCHANGED request
           ELSE \/ /\ confused \/ (call[t].kind = "cancel" /\ s = "pending")
                   /\ Ends(t, [page[t] EXCEPT !.pending = TRUE])
                   /\ UNCHANGED request
                \/ ~confused /\ s = "succeeded" /\ OpenReceipt(t) /\ UNCHANGED request
                \/ /\ ~confused /\ s = "pending"
                   /\ \E c \in {NoKey, k} :
                         /\ call[t].kind = "cancel" => c = NoKey
                         /\ Ends(t, [page[t] EXCEPT !.pending = TRUE, !.complete = FALSE, !.cancellable = c])
                   /\ UNCHANGED request
                \/ /\ ~confused /\ s \in Unsuccessful
                   /\ \E refused \in {FALSE, Refuses} :
                         /\ IF refused THEN UNCHANGED request ELSE Retire(t, k)
                         /\ Ends(t, [page[t] EXCEPT !.pending = FALSE, !.complete = FALSE, !.blocked = refused])
    /\ UNCHANGED <<store, memory, payment, last>>

(* The receipt settles the basket and retires the request; what fails can   *)
(* be asked for again, and so can a request that was never bound.           *)
Verified(t) ==
    /\ Hears(t, {"verify"}, {"succeeded"})
    /\ LET k == call[t].key
       IN  \/ /\ Settled(t, k)
              /\ \/ Retire(t, k) /\ Ends(t, [page[t] EXCEPT !.complete = Retired(t, k)])
                 \/ Refuses /\ UNCHANGED request /\ Ends(t, page[t])
           \/ Refuses /\ UNCHANGED <<store, memory, request>> /\ Ends(t, page[t])
    /\ UNCHANGED <<payment, last>>

NotVerified(t) ==
    /\ Hears(t, {"verify"}, Replies \ {"succeeded"})
    /\ Ends(t, page[t])
    /\ UNCHANGED <<store, memory, request, payment, last>>

Next ==
    \/ \E t \in Tabs :
          \/ Load(t) \/ Visit(t) \/ Turn(t) \/ Edit(t)
          \/ Configure(t) \/ Recheck(t) \/ Verify(t) \/ Submit(t) \/ Reply(t)
          \/ Submitted(t) \/ NotSubmitted(t) \/ Checked(t) \/ Verified(t) \/ NotVerified(t)
    \/ \E k \in Keys : Arrive(k) \/ Decide(k)

Spec == Init /\ [][Next]_vars

-----------------------------------------------------------------------------
TypeOK ==
    /\ store \in Stored
    /\ memory \in [Tabs -> Stored]
    /\ request \in [Tabs -> SUBSET Requests] /\ \A t \in Tabs : \A r, q \in request[t] : r = q
    /\ page \in [Tabs -> Pages]
    /\ call \in [Tabs -> [kind : {"none", "create", "check", "cancel", "verify"}, key : Sessions,
                          reply : Replies \cup {"none"}]]
    /\ payment \in [Keys -> [status : Final \cup {"none", "requested", "pending"}, of : Fingerprints]]
    /\ last \in [Tabs -> Sessions]

(* The invariant behind the two properties below. *)
Undecided(t) == last[t] # NoKey /\ payment[last[t]].status \notin Final

KeyKept ==
    \A t \in Tabs :
       /\ \A r \in request[t] : payment[r.key].status # "none" /\ payment[r.key].of = r.of
       /\ Undecided(t) => \E r \in request[t] : r.key = last[t]

CallsBacked ==
    \A t \in Tabs :
       /\ call[t].kind # "none" => call[t].key \in Keys
       /\ call[t].kind = "create" => call[t].key = last[t]
       /\ call[t].reply \in Final => call[t].kind # "none" /\ payment[call[t].key].status = call[t].reply

SettlementsKnown == \A t \in Tabs : memory[t].settled \subseteq store.settled

TabsInv == TypeOK /\ KeyKept /\ CallsBacked /\ SettlementsKnown

(* The same request is not paid for twice: a tab asks for another payment   *)
(* of what it asked for last, in the same language and with the same items, *)
(* prices and order, only when that one is decided, whatever answers are    *)
(* lost, pages left, reloaded and turned back to, or storage refused in     *)
(* between (BasketPage, retainSandboxRequestKey, retireSandboxRequest).     *)
OneAttempt ==
    [][\A t \in Tabs :
         last'[t] # last[t] /\ last[t] # NoKey
            => \/ payment'[last'[t]].of # payment[last[t]].of
               \/ payment[last[t]].status \in Final]_vars

(* As the checkout's test has it: a new request only after the basket has   *)
(* changed (basket-page-sandbox.spec.ts:483).                               *)
NewOnlyIfChanged ==
    [][\A t \in Tabs :
         last'[t] # last[t] /\ last[t] # NoKey
            => \/ payment'[last'[t]].of.items # payment[last[t]].of.items
               \/ payment[last[t]].status \in Final]_vars

(* A paid basket leaves the stored one once: by what was paid, of what is   *)
(* stored at that moment, however many receipts are open, reloaded or       *)
(* verified again, and whatever an older tab writes afterwards; besides,    *)
(* only the customer's editing changes what is stored.                      *)
SettledOnce ==
    [][/\ store.settled \subseteq store'.settled
       /\ \A k \in store'.settled \ store.settled :
             /\ payment[k].status = "succeeded"
             /\ \A p \in Products : store'.items.quantity[p] =
                IF payment[k].of.items.quantity[p] < store.items.quantity[p]
                THEN store.items.quantity[p] - payment[k].of.items.quantity[p] ELSE 0
       /\ store'.settled = store.settled /\ store' # store => \E t \in Tabs : Edit(t)]_vars
=============================================================================
