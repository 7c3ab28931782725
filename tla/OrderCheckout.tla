---------------------------- MODULE OrderCheckout ----------------------------
(***************************************************************************)
(* OrdersService.submit with OrderPersistenceService and OrderEmailService:*)
(* one order per idempotency key, cash-on-delivery notifications that a    *)
(* repeat of the request retries, and the hosted checkout of a card order. *)
(*                                                                         *)
(* A request is cut at every await.  An order stands for its one product:  *)
(* its fingerprint is the payment method and the price the customer saw,   *)
(* "ask" when the shop lists none.  A notification row keeps whether it    *)
(* was ever attempted (attemptCount > 0); sentAt and lastErrorCode follow  *)
(* its status.  Fail: the process dies, or an await outside a try throws.  *)
(* CardEnabled is paymentInitializer.isEnabled: FALSE in this release, TRUE*)
(* for the initializer the code is written for.  Malformed keys change     *)
(* nothing and are left out.                                               *)
(***************************************************************************)
EXTENDS Integers, FiniteSets

CONSTANTS Requests,      \* request slots
          Keys,          \* idempotency keys
          Prices,        \* listed prices
          CardEnabled

ASSUME CheckoutAssumption ==
    CardEnabled \in BOOLEAN /\ {"ask", "gone"} \cap Prices = {} /\ "none" \notin Keys

VARIABLES
    catalogue, \* the product's price, "ask", or "gone": not to be ordered
    orders,    \* the committed order of each key, or NoOrder
    notes,     \* its notification rows, per recipient
    mails,     \* messages the email provider accepted, per notification
    inits,     \* auxiliary: hosted payments asked of the bank, per key
    op,        \* each request: its step, key, fingerprint and notifications to send
    answer     \* auxiliary: the last accepted answer

vars == <<catalogue, orders, notes, mails, inits, op, answer>>
store == <<orders, notes, mails, inits>>

Recipients == {"MERCHANT", "CUSTOMER"}
Methods == {"CASH_ON_DELIVERY", "CARD"}
Listed == Prices \cup {"ask"}
Fingerprints == [method : Methods, price : Listed]
Nothing == [method |-> "none", price |-> "none"]
NoOrder == [print |-> Nothing, price |-> "none", status |-> "none", url |-> FALSE]
NoNote == [status |-> "none", tried |-> FALSE]
Idle == [pc |-> "idle", key |-> "none", print |-> Nothing, price |-> "none", left |-> {}, to |-> "none"]
Steps == {"idle", "find", "products", "create", "dispatch", "send", "sent", "failed",
          "reload", "initialize", "record", "undo"}

Exists(k) == orders[k].status # "none"

Init ==
    /\ catalogue \in Listed
    /\ orders = [k \in Keys |-> NoOrder]
    /\ notes = [k \in Keys |-> [r \in Recipients |-> NoNote]]
    /\ mails = [k \in Keys |-> [r \in Recipients |-> {}]]
    /\ inits = [k \in Keys |-> 0]
    /\ op = [h \in Requests |-> Idle]
    /\ answer = [key |-> "none", print |-> Nothing]

Goto(h, p) == op' = [op EXCEPT ![h].pc = p] /\ UNCHANGED answer
Throw(h) == op' = [op EXCEPT ![h] = Idle] /\ UNCHANGED answer
Accept(h) ==
    /\ op' = [op EXCEPT ![h] = Idle]
    /\ answer' = [key |-> op[h].key, print |-> op[h].print]

(* Wrong: what is already being sent is not sent again. *)
UnsentNew(k) == {r \in Recipients : notes[k][r].status = "PENDING" /\ ~notes[k][r].tried}

(* The notifications a loaded order still has to send: all but the SENT.    *)
Unsent(k) == {r \in Recipients : notes[k][r].status # "SENT"}

Dispatch(h) ==
    /\ op' = [op EXCEPT ![h].pc = "dispatch", ![h].left = Unsent(op[h].key)]
    /\ UNCHANGED answer

(* recoverCardCheckout: the page of a pending attempt, or an error.         *)
Recover(h) ==
    IF /\ CardEnabled
       /\ orders[op[h].key].status = "PAYMENT_PENDING"
       /\ orders[op[h].key].url
    THEN Accept(h) ELSE Throw(h)

(* Wrong: only the key is compared. *)
SameRequestByKey(h) == TRUE

SameRequest(h) == orders[op[h].key].print = op[h].print

-----------------------------------------------------------------------------
Submit(h, k, f) ==
    /\ op[h].pc = "idle"
    /\ op' = [op EXCEPT ![h] = [Idle EXCEPT !.pc = "find", !.key = k, !.print = f]]
    /\ UNCHANGED <<store, catalogue, answer>>

(* The first lookup: a repeated request resumes the stored order.           *)
Find(h) ==
    /\ op[h].pc = "find"
    /\ \/ /\ Exists(op[h].key) /\ SameRequest(h)
          /\ IF op[h].print.method = "CARD" THEN Recover(h) ELSE Dispatch(h)
       \/ Exists(op[h].key) /\ ~SameRequest(h) /\ Throw(h)
       \/ /\ ~Exists(op[h].key)
          /\ IF op[h].print.method = "CARD" /\ ~CardEnabled THEN Throw(h)
             ELSE Goto(h, "products")
    /\ UNCHANGED <<store, catalogue>>

(* The catalogue is read and must show what the customer saw.               *)
CheckProducts(h) ==
    /\ op[h].pc = "products"
    /\ IF catalogue = op[h].print.price /\ ~(op[h].print.method = "CARD" /\ catalogue = "ask")
       THEN op' = [op EXCEPT ![h].pc = "create", ![h].price = catalogue] /\ UNCHANGED answer
       ELSE Throw(h)
    /\ UNCHANGED <<store, catalogue>>

Resume(h) ==
    IF op[h].print.method = "CARD" THEN Goto(h, "reload") ELSE Dispatch(h)

NewOrder(h) ==
    [print |-> op[h].print, price |-> op[h].price, url |-> FALSE,
     status |-> IF op[h].print.method = "CARD" THEN "PAYMENT_PENDING" ELSE "PENDING"]

(* Wrong: an upsert. *)
CreateUpserts(h) ==
    /\ op[h].pc = "create"
    /\ orders' = [orders EXCEPT ![op[h].key] = NewOrder(h)]
    /\ IF op[h].print.method = "CARD"
       THEN Goto(h, "initialize") /\ UNCHANGED notes
       ELSE /\ notes' = [notes EXCEPT ![op[h].key] =
                          [r \in Recipients |-> [status |-> "PENDING", tried |-> FALSE]]]
            /\ op' = [op EXCEPT ![h].pc = "dispatch", ![h].left = Recipients]
            /\ UNCHANGED answer
    /\ UNCHANGED <<mails, inits, catalogue>>

(* createPendingOrder, at its COMMIT: the order with its attempt or its two *)
(* notifications, unless the key exists, seen in the transaction or by the  *)
(* unique index (P2002) and loaded after it.                                *)
CreatePendingOrder(h) ==
    LET k == op[h].key IN
    /\ op[h].pc = "create"
    /\ \/ /\ ~Exists(k)
          /\ orders' = [orders EXCEPT ![k] = NewOrder(h)]
          /\ IF op[h].print.method = "CARD"
             THEN Goto(h, "initialize") /\ UNCHANGED notes
             ELSE /\ notes' = [notes EXCEPT ![k] =
                                [r \in Recipients |-> [status |-> "PENDING", tried |-> FALSE]]]
                  /\ op' = [op EXCEPT ![h].pc = "dispatch", ![h].left = Recipients]
                  /\ UNCHANGED answer
       \/ Exists(k) /\ SameRequest(h) /\ Resume(h) /\ UNCHANGED <<orders, notes>>
       \/ Exists(k) /\ ~SameRequest(h) /\ Throw(h) /\ UNCHANGED <<orders, notes>>
    /\ UNCHANGED <<mails, inits, catalogue>>

-----------------------------------------------------------------------------
(* dispatchOrderNotifications, over the rows as they were loaded.           *)

Status(k, r, s) == notes' = [notes EXCEPT ![k][r].status = s]

(* recordNotificationAttempt *)
Attempt(h, r) ==
    /\ op[h].pc = "dispatch" /\ r \in op[h].left
    /\ notes' = [notes EXCEPT ![op[h].key][r] = [status |-> "PENDING", tried |-> TRUE]]
    /\ op' = [op EXCEPT ![h].pc = "send", ![h].to = r]
    /\ UNCHANGED <<orders, mails, inits, catalogue, answer>>

(* orderEmailMessage, of the stored order. *)
Message(h) == orders[op[h].key].price

(* The provider takes the email, under the notification's own id, and its   *)
(* answer arrives or not; or it refuses.                                    *)
Send(h) ==
    /\ op[h].pc = "send"
    /\ \/ /\ mails' = [mails EXCEPT ![op[h].key][op[h].to] = @ \cup {Message(h)}]
          /\ Goto(h, "sent") \/ Goto(h, "failed")
       \/ Goto(h, "failed") /\ UNCHANGED mails
    /\ UNCHANGED <<orders, notes, inits, catalogue>>

(* markNotificationSent; should it throw, the catch block follows.          *)
MarkSent(h) ==
    /\ op[h].pc = "sent"
    /\ \/ /\ Status(op[h].key, op[h].to, "SENT")
          /\ \/ /\ op' = [op EXCEPT ![h].pc = "dispatch", ![h].left = @ \ {op[h].to}]
                /\ UNCHANGED answer
             \/ Goto(h, "failed")
       \/ Goto(h, "failed") /\ UNCHANGED notes
    /\ UNCHANGED <<orders, mails, inits, catalogue>>

(* markNotificationFailed and 503. *)
MarkFailed(h) ==
    /\ op[h].pc = "failed"
    /\ Status(op[h].key, op[h].to, "FAILED")
    /\ Throw(h)
    /\ UNCHANGED <<orders, mails, inits, catalogue>>

(* Every notification is sent: COD_ACCEPTED. *)
Accepted(h) ==
    /\ op[h].pc = "dispatch" /\ op[h].left = {}
    /\ Accept(h)
    /\ UNCHANGED <<store, catalogue>>

-----------------------------------------------------------------------------
(* Card orders. *)

(* Wrong: the loser of the race initializes its order too. *)
ReloadInitializes(h) ==
    /\ op[h].pc = "reload"
    /\ Goto(h, "initialize")
    /\ UNCHANGED <<store, catalogue>>

(* Another request created the order: its page, once it has one.            *)
Reload(h) ==
    /\ op[h].pc = "reload"
    /\ Recover(h)
    /\ UNCHANGED <<store, catalogue>>

Initialize(h) ==
    /\ op[h].pc = "initialize"
    /\ inits' = [inits EXCEPT ![op[h].key] = @ + 1]
    /\ Goto(h, "record") \/ Goto(h, "undo")
    /\ UNCHANGED <<orders, notes, mails, catalogue>>

(* recordProviderPaymentId; should it throw, the catch block follows.       *)
RecordProviderPaymentId(h) ==
    /\ op[h].pc = "record"
    /\ \/ /\ orders' = [orders EXCEPT ![op[h].key].url = TRUE]
          /\ Accept(h) \/ Goto(h, "undo")
       \/ Goto(h, "undo") /\ UNCHANGED orders
    /\ UNCHANGED <<notes, mails, inits, catalogue>>

(* markInitializationFailed: order and attempt, in one transaction. *)
MarkInitializationFailed(h) ==
    /\ op[h].pc = "undo"
    /\ orders' = [orders EXCEPT ![op[h].key].status = "PAYMENT_FAILED"]
    /\ Throw(h)
    /\ UNCHANGED <<notes, mails, inits, catalogue>>

-----------------------------------------------------------------------------
Fail(h) ==
    /\ op[h].pc # "idle"
    /\ Throw(h)
    /\ UNCHANGED <<store, catalogue>>

(* An administrator changes the product's price or takes it off the shop.   *)
Edit ==
    /\ catalogue' \in (Listed \cup {"gone"}) \ {catalogue}
    /\ UNCHANGED <<store, op, answer>>

Works(h) ==
    \/ Find(h) \/ CheckProducts(h) \/ CreatePendingOrder(h)
    \/ (\E r \in Recipients : Attempt(h, r)) \/ Send(h) \/ MarkSent(h) \/ MarkFailed(h)
    \/ Accepted(h) \/ Reload(h) \/ Initialize(h) \/ RecordProviderPaymentId(h)
    \/ MarkInitializationFailed(h)

Next ==
    \/ \E h \in Requests :
          \/ \E k \in Keys, f \in Fingerprints : Submit(h, k, f)
          \/ Works(h)
          \/ Fail(h)
    \/ Edit

Spec == Init /\ [][Next]_vars

-----------------------------------------------------------------------------
Order == [print : Fingerprints \cup {Nothing}, price : Listed \cup {"none"}, url : BOOLEAN,
          status : {"none", "PENDING", "PAYMENT_PENDING", "PAYMENT_FAILED"}]
Note == [status : {"none", "PENDING", "SENT", "FAILED"}, tried : BOOLEAN]
Op == [pc : Steps, key : Keys \cup {"none"}, print : Fingerprints \cup {Nothing},
       price : Listed \cup {"none"}, left : SUBSET Recipients, to : Recipients \cup {"none"}]

TypeOK ==
    /\ catalogue \in Listed \cup {"gone"}
    /\ orders \in [Keys -> Order]
    /\ notes \in [Keys -> [Recipients -> Note]]
    /\ mails \in [Keys -> [Recipients -> SUBSET Listed]]
    /\ inits \in [Keys -> Nat]
    /\ op \in [Requests -> Op]
    /\ answer \in [key : Keys \cup {"none"}, print : Fingerprints \cup {Nothing}]

(* A customer is told that the order is registered only when it is stored   *)
(* as asked and the provider has taken both emails, even by a request that  *)
(* found the other one's SENT rows; a payment page is one the bank made.    *)
AcceptanceBacked ==
    answer.key # "none" =>
        /\ orders[answer.key].print = answer.print
        /\ answer.print.method = "CASH_ON_DELIVERY" =>
              \A r \in Recipients : mails[answer.key][r] # {}
        /\ answer.print.method = "CARD" => CardEnabled /\ orders[answer.key].url

(* A SENT row is an email the provider has, and no email goes out before    *)
(* its attempt is counted.                                                  *)
SentBacked ==
    \A k \in Keys, r \in Recipients :
        /\ notes[k][r].status = "SENT" => mails[k][r] # {}
        /\ mails[k][r] # {} => notes[k][r].tried

(* Whoever sends it and however often, and whatever the shop charges by     *)
(* then, an email of an order shows the price its customer agreed to, so    *)
(* that the provider sees one message under one id.                         *)
MailAgrees ==
    \A k \in Keys : \A r \in Recipients : mails[k][r] \subseteq {orders[k].print.price}

(* Both: what the customer and the shop are told is the order as stored.    *)
TruthTold == AcceptanceBacked /\ MailAgrees

(* The bank is asked for at most one hosted payment per key, only for a     *)
(* stored card order with a price; a page is stored only then.              *)
OneInitialization ==
    \A k \in Keys :
        /\ inits[k] <= 1
        /\ inits[k] = 1 => orders[k].print.method = "CARD" /\ orders[k].price \in Prices
        /\ orders[k].url => inits[k] = 1

(* An order is what it was created as; a failed payment stays failed, and a *)
(* page, an attempt and an accepted email are never taken back.             *)
OrderFinal ==
    [][\A k \in Keys : Exists(k) =>
         /\ orders'[k].print = orders[k].print /\ orders'[k].price = orders[k].price
         /\ orders[k].status = "PAYMENT_FAILED" => orders'[k].status = "PAYMENT_FAILED"
         /\ orders[k].url => orders'[k].url
         /\ \A r \in Recipients : /\ notes[k][r].tried => notes'[k][r].tried
                                  /\ notes[k][r].status # "none" => notes'[k][r].status # "none"
                                  /\ mails[k][r] \subseteq mails'[k][r]]_vars

(* README: "Failed notifications remain retryable on a repeat of the same   *)
(* order request".  Whatever failed before and whatever other requests do   *)
(* to the rows, once the provider, the database and the process work again  *)
(* and the customer repeats the request until it is accepted, both emails   *)
(* go out.                                                                  *)
Repeat(k) ==
    /\ Exists(k) /\ answer.key # k
    /\ \E h \in Requests : Submit(h, k, orders[k].print)

FairSpec ==
    /\ Spec
    /\ \A h \in Requests : WF_vars(Works(h))
    /\ \A k \in Keys : SF_vars(Repeat(k))

Fault == \E h \in Requests :
    \/ Fail(h)
    \/ op[h].pc \in {"send", "sent"} /\ op'[h].pc = "failed"

Notified ==
    <>[][~Fault]_vars =>
        \A k \in Keys :
            orders[k].status = "PENDING" ~> \A r \in Recipients : mails[k][r] # {}

-----------------------------------------------------------------------------
(* Why: the inductive invariant. *)

Dispatching == {"dispatch", "send", "sent", "failed"}
Paying == {"initialize", "record", "undo"}

(* What a request works on: its key and fingerprint, then a stored order    *)
(* that matches them, then a price the customer saw.                        *)
Placed ==
    \A h \in Requests :
        /\ op[h].pc # "idle" => op[h].key \in Keys /\ op[h].print \in Fingerprints
        /\ op[h].pc \in Dispatching \cup Paying \cup {"reload"} =>
              Exists(op[h].key) /\ SameRequest(h)
        /\ op[h].pc \in Dispatching => op[h].print.method = "CASH_ON_DELIVERY"
        /\ op[h].pc \in Paying \cup {"reload"} => op[h].print.method = "CARD"
        /\ op[h].pc \in {"products", "create"} /\ op[h].print.method = "CARD" => CardEnabled
        /\ op[h].pc = "create" =>
              /\ op[h].price = op[h].print.price
              /\ op[h].print.method = "CARD" => op[h].price \in Prices

(* Stored orders are what their customers agreed to. *)
Agreed ==
    \A k \in Keys : Exists(k) =>
        /\ orders[k].print \in Fingerprints
        /\ orders[k].price = orders[k].print.price
        /\ orders[k].print.method = "CARD" => CardEnabled /\ orders[k].price \in Prices

(* A recipient a request no longer has to write to has been written to.     *)
Progress ==
    \A h \in Requests : op[h].pc \in Dispatching =>
        /\ \A r \in Recipients \ op[h].left : mails[op[h].key][r] # {}
        /\ op[h].pc # "dispatch" => op[h].to \in Recipients /\ notes[op[h].key][op[h].to].tried
        /\ op[h].pc = "sent" => mails[op[h].key][op[h].to] # {}

(* Only the request that stored a card order asks the bank, once.           *)
OnePays ==
    /\ \A g, h \in Requests :
          op[g].pc \in Paying /\ op[h].pc \in Paying /\ op[g].key = op[h].key => g = h
    /\ \A h \in Requests : /\ op[h].pc = "initialize" => inits[op[h].key] = 0
                           /\ op[h].pc = "record" => inits[op[h].key] = 1

(* Nothing has happened for a key without an order. *)
Absent ==
    \A k \in Keys : ~Exists(k) =>
        /\ orders[k] = NoOrder /\ inits[k] = 0
        /\ \A r \in Recipients : notes[k][r] = NoNote /\ mails[k][r] = {}

(* Who was told so was told of a stored order. *)
Told == answer.key # "none" => answer.key \in Keys /\ Exists(answer.key)

IInv ==
    /\ TypeOK /\ Placed /\ Agreed /\ Progress /\ OnePays /\ Absent /\ Told
    /\ AcceptanceBacked /\ SentBacked /\ MailAgrees /\ OneInitialization
=============================================================================
