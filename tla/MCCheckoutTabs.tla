----------------------------- MODULE MCCheckoutTabs -----------------------------
(* Scenes: two tabs that pay by card once between them; one tab that pays   *)
(* again and again; one that changes its language; one that fills its       *)
(* basket anew, with other products or at other prices; and the form that   *)
(* orders on delivery.  Storage may refuse, but the basket's does not in    *)
(* the third and fourth.  Keys are named in the order in which they are     *)
(* drawn.  The form shares nothing with the tabs.                           *)
EXTENDS CheckoutTabs, DeliveryForm, TLC

CONSTANTS p1, c1, k1, k2, k3

VARIABLE scene

First == CHOOSE l \in Locales : TRUE

Untouched(t) == page[t] = Fresh("shop", NoKey, First) /\ last[t] = NoKey /\ memory[t] = [items |-> Empty, settled |-> {}]
OneTab == \E t \in Tabs : \A o \in Tabs \ {t} : Untouched(o)
Asked == {k \in Keys : payment[k].status # "none"}
Payments(n) == Cardinality(Asked) <= n
InTurn == Asked \in {{}, {k1}, {k1, k2}, {k1, k2, k3}}
OneLanguage == \A t \in Tabs : page[t].locale = First
OneProduct == \A t \in Tabs : \A p \in Inside(memory[t].items) : p = p1 /\ memory[t].items.price[p] = c1
OnePriceForTwo == \A t \in Tabs : \A p \in Inside(memory[t].items) :
                     memory[t].items.price[p] = c1 \/ Inside(memory[t].items) = {p1}
BasketStored == \E t \in Tabs : memory[t] = store
NoReturn == \A t \in Tabs : page[t].session = NoKey

MCInit == /\ scene \in {"two tabs", "one tab", "languages", "baskets", "delivery"} /\ Init /\ OneLanguage /\ DeliveryInit
          /\ (scene # "delivery" => goods = {} /\ storing /\ tongue = CHOOSE t \in Tongues : TRUE)

Scene ==
    \/ scene = "two tabs" /\ OneLanguage /\ OneProduct /\ Payments(1)
    \/ scene = "one tab" /\ OneTab /\ OneLanguage /\ OneProduct
    \/ scene = "languages" /\ OneTab /\ OneProduct /\ Payments(2) /\ BasketStored
    \/ scene = "baskets" /\ OneTab /\ OneLanguage /\ Payments(2) /\ OnePriceForTwo /\ BasketStored /\ NoReturn

MCNext ==
    /\ UNCHANGED scene
    /\ \/ Next /\ Scene' /\ InTurn' /\ UNCHANGED deliveryVars
       \/ scene = "delivery" /\ DeliveryNext /\ UNCHANGED vars

MCSpec == MCInit /\ [][MCNext]_<<scene, vars, deliveryVars>>

Symmetric == Permutations(Tabs)
=============================================================================
