---------------------------- MODULE DeliveryForm ----------------------------
(***************************************************************************)
(* The storefront's own checkout form (BasketPage without the payment-test *)
(* mode): an order paid on delivery, submitted under a key that the page   *)
(* keeps in memory and in sessionStorage, so that a submission without an  *)
(* answer can be repeated.  The API keeps one order per key (OrderCheckout *)
(* has it in detail; here a submission is one step of it).  One tab is     *)
(* followed.  A basket is a set of goods; card payment is switched off.    *)
(***************************************************************************)
EXTENDS Naturals, FiniteSets

CONSTANTS Goods, Buyers, Tongues, OrderKeys,
          NoBuyer,     \* the form is blank
          NoOrderKey,  \* no key is kept
          MaxPosted    \* submissions under way at once (a bound)

ASSUME DeliveryAssumption == NoBuyer \notin Buyers /\ OrderKeys \subseteq Nat /\ NoOrderKey \in Nat \ OrderKeys

VARIABLES
    goods,      \* the basket
    tongue,     \* the language of the site
    form,       \* the page: whether it is open, its key and buyer, and what it waits for
    kept,       \* sessionStorage: the key and the draft
    storing,    \* whether this browser lets the site store anything
    posted,     \* submissions on their way to the API
    placed,     \* the orders, by key
    attempt     \* auxiliary: the key submitted last, and what came of it

deliveryVars == <<goods, tongue, form, kept, storing, posted, placed, attempt>>

Contents == [goods : SUBSET Goods, buyer : Buyers, tongue : Tongues]
Nowhere == [open |-> FALSE, key |-> NoOrderKey, buyer |-> NoBuyer, busy |-> FALSE, reply |-> "none"]
NothingKept == [key |-> NoOrderKey, buyer |-> NoBuyer]
NoAttempt == [key |-> NoOrderKey, outcome |-> "none"]

DeliveryInit ==
    /\ goods \in SUBSET Goods /\ tongue \in Tongues
    /\ form = Nowhere /\ kept = NothingKept
    /\ storing \in BOOLEAN
    /\ posted = {} /\ placed = <<>> /\ attempt = NoAttempt

Keeps(key, buyer) == kept' = IF storing THEN [key |-> key, buyer |-> buyer] ELSE kept

-----------------------------------------------------------------------------
(* The page starts from what is kept, also when it is loaded anew.          *)
OpenForm ==
    /\ ~form.open
    /\ form' = [Nowhere EXCEPT !.open = TRUE, !.key = kept.key, !.buyer = kept.buyer]
    /\ UNCHANGED <<goods, tongue, kept, storing, posted, placed, attempt>>

(* A page that is left hears nothing any more.  What only it knew is gone.  *)
LeaveForm ==
    /\ form.open /\ form' = Nowhere
    /\ posted' = {[m EXCEPT !.live = FALSE] : m \in posted}
    /\ attempt' = IF storing THEN attempt ELSE [attempt EXCEPT !.outcome = "forgotten"]
    /\ goods' \in IF storing THEN {goods} ELSE {goods, {}}
    /\ UNCHANGED <<tongue, kept, storing, placed>>

(* The shop and the language switch do not know of the key.                 *)
AddFromShop ==
    /\ ~form.open
    /\ \E g \in Goods \ goods : goods' = goods \cup {g}
    /\ UNCHANGED <<tongue, form, kept, storing, posted, placed, attempt>>

SwitchLanguage ==
    /\ \E t \in Tongues \ {tongue} : tongue' = t
    /\ UNCHANGED <<goods, form, kept, storing, posted, placed, attempt>>

(* Wrong: the key is dropped in memory only.                                *)
ClearKeyHere(buyer) ==
    /\ form' = [form EXCEPT !.key = NoOrderKey, !.buyer = buyer]
    /\ Keeps(kept.key, buyer)

(* clearIdempotencyKey.                                                     *)
ClearKey(buyer) ==
    /\ form' = [form EXCEPT !.key = NoOrderKey, !.buyer = buyer]
    /\ Keeps(NoOrderKey, buyer)

Edited == attempt' = [attempt EXCEPT !.outcome = "edited"]

(* Wrong: the form can be edited while a submission is under way.           *)
MayEditAnytime == form.open
MayEdit == form.open /\ ~form.busy

(* update, remove, clear: also a quantity, or nothing at all, can change.   *)
EditGoods ==
    /\ MayEdit
    /\ goods' \in {goods, {}} \cup {goods \ {g} : g \in goods}
    /\ ClearKey(form.buyer) /\ Edited
    /\ UNCHANGED <<tongue, storing, posted, placed>>

(* updateCustomerField, with its draft; the fields are disabled meanwhile.  *)
EditBuyer ==
    /\ MayEdit
    /\ \E b \in (Buyers \cup {NoBuyer}) \ {form.buyer} : ClearKey(b)
    /\ Edited
    /\ UNCHANGED <<goods, tongue, storing, posted, placed>>

-----------------------------------------------------------------------------
Drawn == {m.key : m \in posted} \cup DOMAIN placed \cup {form.key, kept.key, attempt.key}

(* A random key; which of those that are left makes no difference.          *)
NewKeys == {k \in OrderKeys \ Drawn : \A j \in OrderKeys \ Drawn : k <= j}

(* A key that is kept is used again.                                        *)
KeysToUse == IF form.key = NoOrderKey THEN NewKeys ELSE {form.key}

(* submitOrder. *)
SubmitOrder ==
    LET contents == [goods |-> goods, buyer |-> form.buyer, tongue |-> tongue] IN
    /\ form.open /\ ~form.busy /\ form.buyer # NoBuyer /\ goods # {}
    /\ Cardinality(posted) < MaxPosted
    /\ \E k \in KeysToUse :
          /\ form' = [form EXCEPT !.key = k, !.busy = TRUE, !.reply = "none"]
          /\ IF form.key = NoOrderKey THEN Keeps(k, kept.buyer) ELSE UNCHANGED kept
          /\ attempt' = [key |-> k, outcome |-> "unknown"]
          /\ posted' = posted \cup {[key |-> k, contents |-> contents, live |-> TRUE]}
    /\ UNCHANGED <<goods, tongue, storing, placed>>

(* OrdersService.submit.                                                    *)
Answered(m, reply) ==
    /\ posted' = posted \ {m}
    /\ form' = IF m.live THEN [form EXCEPT !.reply = reply] ELSE form
    /\ UNCHANGED <<goods, tongue, kept, storing, attempt>>

(* An order of this key is there: of the same contents, or of others.  The  *)
(* notifications of the same one are sent again, which may fail.            *)
Recognize(m) ==
    /\ m \in posted /\ m.key \in DOMAIN placed /\ UNCHANGED placed
    /\ IF placed[m.key] = m.contents
       THEN \E reply \in {"accepted", "error"} : Answered(m, reply)
       ELSE Answered(m, "conflict")

(* There is none: it is placed, and its notifications may fail; or the      *)
(* products or their prices are not what the customer saw, or it fails.     *)
Place(m) ==
    /\ m \in posted /\ m.key \notin DOMAIN placed
    /\ \/ /\ placed' = [k \in DOMAIN placed \cup {m.key} |-> IF k = m.key THEN m.contents ELSE placed[k]]
          /\ \E reply \in {"accepted", "error"} : Answered(m, reply)
       \/ UNCHANGED placed /\ \E reply \in {"conflict", "error"} : Answered(m, reply)

(* The page hears an error instead; the API may have, or get, the request.  *)
LoseAnswer ==
    /\ form.busy /\ form' = [form EXCEPT !.reply = "error"]
    /\ posted' = {[m EXCEPT !.live = FALSE] : m \in posted}
    /\ UNCHANGED <<goods, tongue, kept, storing, placed, attempt>>

-----------------------------------------------------------------------------
Ready(reply) == form.busy /\ form.reply = reply

HearAccepted ==
    /\ Ready("accepted")
    /\ goods' = {} /\ form' = [Nowhere EXCEPT !.open = TRUE] /\ Keeps(NoOrderKey, NoBuyer)
    /\ attempt' = [attempt EXCEPT !.outcome = "accepted"]
    /\ UNCHANGED <<tongue, storing, posted, placed>>

HearConflict ==
    /\ Ready("conflict")
    /\ form' = [form EXCEPT !.key = NoOrderKey, !.busy = FALSE] /\ Keeps(NoOrderKey, kept.buyer)
    /\ attempt' = [attempt EXCEPT !.outcome = "conflict"]
    /\ UNCHANGED <<goods, tongue, storing, posted, placed>>

AfterError == form' = [form EXCEPT !.busy = FALSE] /\ UNCHANGED kept

HearError ==
    /\ Ready("error") /\ AfterError
    /\ UNCHANGED <<goods, tongue, storing, posted, placed, attempt>>

DeliveryNext ==
    \/ OpenForm \/ LeaveForm \/ AddFromShop \/ SwitchLanguage
    \/ EditGoods \/ EditBuyer \/ SubmitOrder \/ LoseAnswer
    \/ HearAccepted \/ HearConflict \/ HearError
    \/ \E m \in posted : Recognize(m) \/ Place(m)

DeliverySpec == DeliveryInit /\ [][DeliveryNext]_deliveryVars

-----------------------------------------------------------------------------
(* A submission repeats the last one's key if and only if the customer has  *)
(* neither heard what became of that one, nor edited the form since: so an  *)
(* order without an answer is not placed twice, and an edited one is not    *)
(* taken for it.  Leaving the page, a reload, another language or more      *)
(* goods from the shop make no difference, where the browser lets the page  *)
(* keep its key (BasketPage.submitOrder, clearIdempotencyKey and            *)
(* loadIdempotencyKey, OrdersService.submit).                               *)
OneKeyPerOrder ==
    [][~form.busy /\ form'.busy =>
          IF attempt.outcome = "unknown" THEN attempt'.key = attempt.key
          ELSE attempt'.key # attempt.key]_deliveryVars

(* What the customer is told was accepted is what the form showed: the      *)
(* order under its key has just these goods, for this buyer, and only they  *)
(* leave the basket (BasketPage.submitOrder, whose answer is awaited while  *)
(* the form cannot be edited, and which a page that was left ignores).      *)
OrderedAsShown ==
    [][form.busy /\ form.reply = "accepted" /\ form'.open /\ ~form'.busy =>
          placed[attempt.key].goods = goods /\ placed[attempt.key].buyer = form.buyer]_deliveryVars
=============================================================================
