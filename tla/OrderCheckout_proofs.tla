------------------------- MODULE OrderCheckout_proofs -------------------------
(***************************************************************************)
(* Order submission, for any number of requests, keys and prices, with and *)
(* without card payment: what the customer and the shop are told is stored *)
(* and sent, a key has at most one hosted payment, and nothing that was    *)
(* done for an order is taken back.                                        *)
(***************************************************************************)
EXTENDS OrderCheckout, TLAPS

USE CheckoutAssumption

(* What OrderFinal says of one step. *)
FinalStep ==
    \A k \in Keys : Exists(k) =>
         /\ orders'[k].print = orders[k].print /\ orders'[k].price = orders[k].price
         /\ orders[k].status = "PAYMENT_FAILED" => orders'[k].status = "PAYMENT_FAILED"
         /\ orders[k].url => orders'[k].url
         /\ \A r \in Recipients : /\ notes[k][r].tried => notes'[k][r].tried
                                  /\ notes[k][r].status # "none" => notes'[k][r].status # "none"
                                  /\ mails[k][r] \subseteq mails'[k][r]

Grows == FinalStep /\ \A k \in Keys : Exists(k) => orders'[k].status # "none"

(* What Placed, Progress and OnePays say of one request. *)
Holds(h) ==
    /\ op[h].pc # "idle" => op[h].key \in Keys /\ op[h].print \in Fingerprints
    /\ op[h].pc \in Dispatching \cup Paying \cup {"reload"} =>
          Exists(op[h].key) /\ orders[op[h].key].print = op[h].print
    /\ op[h].pc \in Dispatching => op[h].print.method = "CASH_ON_DELIVERY"
    /\ op[h].pc \in Paying \cup {"reload"} => op[h].print.method = "CARD"
    /\ op[h].pc \in {"products", "create"} /\ op[h].print.method = "CARD" => CardEnabled
    /\ op[h].pc = "create" =>
          /\ op[h].price = op[h].print.price
          /\ op[h].print.method = "CARD" => op[h].price \in Prices
    /\ op[h].pc \in Dispatching =>
          /\ \A r \in Recipients \ op[h].left : mails[op[h].key][r] # {}
          /\ op[h].pc # "dispatch" => op[h].to \in Recipients /\ notes[op[h].key][op[h].to].tried
          /\ op[h].pc = "sent" => mails[op[h].key][op[h].to] # {}
    /\ op[h].pc = "initialize" => inits[op[h].key] = 0
    /\ op[h].pc = "record" => inits[op[h].key] = 1

LEMMA EachHolds == ASSUME IInv, NEW h \in Requests PROVE Holds(h)
  BY DEF IInv, Placed, Progress, OnePays, Holds, SameRequest

(* The order's own facts. *)
StoreInv == Agreed /\ Absent /\ SentBacked /\ MailAgrees /\ OneInitialization
AnswerInv == Told /\ AcceptanceBacked

LEMMA Parts ==
    IInv <=> TypeOK /\ Placed /\ Progress /\ OnePays /\ StoreInv /\ AnswerInv
  BY DEF IInv, StoreInv, AnswerInv

(* Every other request's facts survive a step of h that lets the store grow.*)
LEMMA OthersKeep ==
    ASSUME IInv, NEW h \in Requests, Grows,
           \A g \in Requests \ {h} : op'[g] = op[g],
           Holds(h)',
           op'[h].pc \in Paying =>
              (op[h].pc \in Paying /\ op'[h].key = op[h].key) \/ ~Exists(op'[h].key),
           \/ inits' = inits
           \/ op[h].pc \in Paying /\ \A k \in Keys \ {op[h].key} : inits'[k] = inits[k]
    PROVE  Placed' /\ Progress' /\ OnePays'
<1>1. ASSUME NEW g \in Requests PROVE Holds(g)'
  <2>1. CASE g = h
    BY <2>1
  <2>2. CASE g # h
    <3>1. Holds(g) /\ op'[g] = op[g]
      BY <2>2, EachHolds
    <3>2. /\ op[g].pc # "idle" => op[g].key \in Keys
          /\ op[g].pc \in Dispatching \cup Paying \cup {"reload"} => Exists(op[g].key)
      BY <3>1 DEF Holds
    <3>3. op[g].pc \in Dispatching \cup Paying \cup {"reload"} =>
             /\ op[g].pc # "idle"
             /\ orders'[op[g].key].status # "none"
             /\ orders'[op[g].key].print = orders[op[g].key].print
             /\ \A r \in Recipients : /\ notes[op[g].key][r].tried => notes'[op[g].key][r].tried
                                      /\ mails[op[g].key][r] \subseteq mails'[op[g].key][r]
      BY <3>2 DEF Grows, FinalStep, Dispatching, Paying
    <3>4. op[g].pc \in Paying => inits'[op[g].key] = inits[op[g].key]
      <4>1. op[g].pc \in Paying /\ op[h].pc \in Paying => op[g].key # op[h].key
        BY <2>2 DEF IInv, OnePays
      <4>2. op[g].pc \in Paying => op[g].key \in Keys
        BY <3>2 DEF Paying
      <4> QED
        BY <4>1, <4>2
    <3>5. /\ op[g].pc = "initialize" => inits'[op[g].key] = 0
          /\ op[g].pc = "record" => inits'[op[g].key] = 1
      BY <3>1, <3>4 DEF Holds, Paying
    <3>6. op[g].pc \in Dispatching =>
            /\ \A r \in Recipients \ op[g].left : mails'[op[g].key][r] # {}
            /\ op[g].pc # "dispatch" => op[g].to \in Recipients /\ notes'[op[g].key][op[g].to].tried
            /\ op[g].pc = "sent" => mails'[op[g].key][op[g].to] # {}
      <4>1. SUFFICES ASSUME op[g].pc \in Dispatching PROVE
            /\ \A r \in Recipients \ op[g].left : mails'[op[g].key][r] # {}
            /\ op[g].pc # "dispatch" => op[g].to \in Recipients /\ notes'[op[g].key][op[g].to].tried
            /\ op[g].pc = "sent" => mails'[op[g].key][op[g].to] # {}
        OBVIOUS
      <4>2. /\ \A r \in Recipients \ op[g].left : mails[op[g].key][r] # {}
            /\ op[g].pc # "dispatch" => op[g].to \in Recipients /\ notes[op[g].key][op[g].to].tried
            /\ op[g].pc = "sent" => mails[op[g].key][op[g].to] # {}
        BY <3>1, <4>1 DEF Holds
      <4>3. \A r \in Recipients : /\ notes[op[g].key][r].tried => notes'[op[g].key][r].tried
                                  /\ mails[op[g].key][r] \subseteq mails'[op[g].key][r]
        BY <3>3, <4>1
      <4>4. op[g].pc = "sent" => op[g].pc # "dispatch"
        OBVIOUS
      <4>5. \A r \in Recipients : mails[op[g].key][r] # {} => mails'[op[g].key][r] # {}
        BY <4>3
      <4> QED
        BY <4>2, <4>3, <4>4, <4>5
    <3> QED
      BY <3>1, <3>3, <3>5, <3>6 DEF Holds, Exists
  <2> QED
    BY <2>1, <2>2
<1>2. Placed' /\ Progress'
  BY <1>1 DEF Holds, Placed, Progress, SameRequest
<1>3. ASSUME NEW g \in Requests \ {h}, op'[g].pc \in Paying, op'[h].pc \in Paying
      PROVE  op'[g].key # op'[h].key
  <2>1. op[g].pc \in Paying /\ op[g].key = op'[g].key /\ Holds(g)
    BY <1>3, EachHolds
  <2>2. Exists(op[g].key)
    BY <2>1 DEF Holds
  <2>3. CASE op[h].pc \in Paying /\ op'[h].key = op[h].key
    BY <2>1, <2>3 DEF IInv, OnePays
  <2>4. CASE ~Exists(op'[h].key)
    BY <2>1, <2>2, <2>4
  <2> QED
    BY <1>3, <2>3, <2>4
<1>4. ASSUME NEW f \in Requests, NEW g \in Requests,
             op'[f].pc \in Paying, op'[g].pc \in Paying, op'[f].key = op'[g].key, f # g
      PROVE  FALSE
  <2>1. CASE f = h \/ g = h
    BY <1>3, <1>4, <2>1
  <2>2. CASE f # h /\ g # h
    BY <1>4, <2>2 DEF IInv, OnePays
  <2> QED
    BY <2>1, <2>2
<1>5. OnePays'
  BY <1>1, <1>4 DEF Holds, OnePays
<1> QED
  BY <1>2, <1>5

(* A step that leaves the store alone. *)
LEMMA StoreKept ==
    ASSUME IInv, UNCHANGED store
    PROVE  StoreInv' /\ Grows /\ (UNCHANGED answer => AnswerInv')
<1>1. UNCHANGED <<orders, notes, mails, inits>>
  BY DEF store
<1>2. StoreInv /\ AnswerInv
  BY Parts
<1>3. StoreInv'
  BY <1>1, <1>2 DEF StoreInv, Agreed, Absent, SentBacked, MailAgrees, OneInitialization, Exists
<1>4. UNCHANGED answer => AnswerInv'
  BY <1>1, <1>2 DEF AnswerInv, Told, AcceptanceBacked, Exists
<1>5. Grows
  BY <1>1 DEF Grows, FinalStep, Exists
<1> QED
  BY <1>3, <1>4, <1>5

LEMMA IdleType == Idle \in Op /\ Idle.pc = "idle"
  BY DEF Idle, Op, Steps, Recipients

(* A request that ends owes nothing any more. *)
LEMMA Ends ==
    ASSUME IInv, NEW h \in Requests, op' = [op EXCEPT ![h] = Idle]
    PROVE  /\ op' \in [Requests -> Op] /\ op'[h] = Idle
           /\ \A g \in Requests \ {h} : op'[g] = op[g]
           /\ Holds(h)' /\ op'[h].pc \notin Paying
<1>1. op \in [Requests -> Op]
  BY DEF IInv, TypeOK
<1>2. /\ op' \in [Requests -> Op] /\ op'[h] = Idle
      /\ \A g \in Requests \ {h} : op'[g] = op[g]
  BY <1>1, IdleType
<1>3. op'[h].pc = "idle"
  BY <1>2, IdleType
<1> QED
  BY <1>2, <1>3 DEF Holds, Paying, Dispatching

(* A request that moves on by its program counter. *)
LEMMA Moves ==
    ASSUME IInv, NEW h \in Requests, NEW p \in Steps, op' = [op EXCEPT ![h].pc = p]
    PROVE  /\ op' \in [Requests -> Op]
           /\ \A g \in Requests \ {h} : op'[g] = op[g]
           /\ op'[h].pc = p /\ op'[h].key = op[h].key /\ op'[h].print = op[h].print
           /\ op'[h].price = op[h].price /\ op'[h].left = op[h].left /\ op'[h].to = op[h].to
<1>1. op \in [Requests -> Op]
  BY DEF IInv, TypeOK
<1> QED
  BY <1>1 DEF Op

(* A request gives up, or dies. *)
LEMMA Throws ==
    ASSUME IInv, NEW h \in Requests, Throw(h), UNCHANGED store, UNCHANGED catalogue
    PROVE  IInv' /\ Grows
<1>1. op' = [op EXCEPT ![h] = Idle] /\ UNCHANGED answer
  BY DEF Throw
<1>2. StoreInv' /\ Grows /\ AnswerInv'
  BY <1>1, StoreKept
<1>3. Placed' /\ Progress' /\ OnePays'
  BY <1>1, <1>2, Ends, OthersKeep DEF store
<1>4. TypeOK'
  BY <1>1, Ends DEF IInv, TypeOK, store
<1> QED
  BY <1>2, <1>3, <1>4 DEF IInv, StoreInv, AnswerInv

(* A request is told that its order, which is there, was accepted. *)
LEMMA Accepts ==
    ASSUME IInv, NEW h \in Requests, Accept(h), UNCHANGED store, UNCHANGED catalogue,
           op[h].key \in Keys, op[h].print \in Fingerprints,
           Exists(op[h].key), orders[op[h].key].print = op[h].print,
           op[h].print.method = "CASH_ON_DELIVERY" => \A r \in Recipients : mails[op[h].key][r] # {},
           op[h].print.method = "CARD" => orders[op[h].key].url
    PROVE  IInv' /\ Grows
<1>1. /\ op' = [op EXCEPT ![h] = Idle]
      /\ answer' = [key |-> op[h].key, print |-> op[h].print]
      /\ UNCHANGED <<orders, notes, mails, inits, catalogue>>
  BY DEF Accept, store
<1>2. StoreInv' /\ Grows
  BY StoreKept
<1>3. Placed' /\ Progress' /\ OnePays'
  BY <1>1, <1>2, Ends, OthersKeep
<1>4. TypeOK'
  BY <1>1, Ends DEF IInv, TypeOK
<1>5. answer'.key = op[h].key /\ answer'.print = op[h].print
  BY <1>1
<1>6. op[h].print.method = "CARD" => CardEnabled
  BY DEF IInv, Agreed
<1>7. AnswerInv'
  BY <1>1, <1>5, <1>6 DEF AnswerInv, Told, AcceptanceBacked, Exists
<1> QED
  BY <1>2, <1>3, <1>4, <1>7 DEF IInv, StoreInv, AnswerInv

(* A request goes on without touching the store. *)
LEMMA GoesOn ==
    ASSUME IInv, NEW h \in Requests, UNCHANGED store, catalogue' \in Listed \cup {"gone"}, UNCHANGED answer,
           op' \in [Requests -> Op], \A g \in Requests \ {h} : op'[g] = op[g], Holds(h)',
           op'[h].pc \in Paying => op[h].pc \in Paying /\ op'[h].key = op[h].key
    PROVE  IInv' /\ Grows
<1>2. StoreInv' /\ Grows /\ AnswerInv'
  BY StoreKept
<1>3. Placed' /\ Progress' /\ OnePays'
  BY <1>2, OthersKeep DEF store
<1>4. TypeOK'
  BY DEF IInv, TypeOK, store
<1> QED
  BY <1>2, <1>3, <1>4 DEF IInv, StoreInv, AnswerInv

(* The notifications that are still to send leave out only what was sent. *)
LEMMA Dispatches ==
    ASSUME IInv, NEW h \in Requests, Dispatch(h), UNCHANGED store, UNCHANGED catalogue,
           op[h].key \in Keys, op[h].print \in Fingerprints,
           Exists(op[h].key), orders[op[h].key].print = op[h].print,
           op[h].print.method = "CASH_ON_DELIVERY"
    PROVE  IInv' /\ Grows
<1>1. /\ op' = [op EXCEPT ![h].pc = "dispatch", ![h].left = Unsent(op[h].key)]
      /\ UNCHANGED <<orders, notes, mails, inits, catalogue, answer>>
  BY DEF Dispatch, store
<1>2. op \in [Requests -> Op] /\ catalogue \in Listed \cup {"gone"}
  BY DEF IInv, TypeOK
<1>3. Unsent(op[h].key) \subseteq Recipients
  BY DEF Unsent
<1>4. /\ op' \in [Requests -> Op] /\ \A g \in Requests \ {h} : op'[g] = op[g]
      /\ op'[h].pc = "dispatch" /\ op'[h].left = Unsent(op[h].key)
      /\ op'[h].key = op[h].key /\ op'[h].print = op[h].print
  BY <1>1, <1>2, <1>3 DEF Op, Steps
<1>5. \A r \in Recipients \ Unsent(op[h].key) : mails[op[h].key][r] # {}
  BY DEF Unsent, IInv, SentBacked
<1>6. Holds(h)'
  BY <1>1, <1>4, <1>5 DEF Holds, Dispatching, Paying, Exists
<1> QED
  BY <1>1, <1>2, <1>4, <1>6, GoesOn DEF Paying

LEMMA Recovers ==
    ASSUME IInv, NEW h \in Requests, Recover(h), UNCHANGED store, UNCHANGED catalogue,
           op[h].key \in Keys, op[h].print \in Fingerprints,
           Exists(op[h].key), orders[op[h].key].print = op[h].print,
           op[h].print.method = "CARD"
    PROVE  IInv' /\ Grows
  BY Throws, Accepts DEF Recover

LEMMA Looks == ASSUME IInv, NEW h \in Requests, Find(h) PROVE IInv' /\ Grows
<1>1. /\ op[h].pc = "find" /\ UNCHANGED store /\ UNCHANGED catalogue /\ Holds(h)
      /\ op[h].key \in Keys /\ op[h].print \in Fingerprints
      /\ op[h].print.method # "CARD" => op[h].print.method = "CASH_ON_DELIVERY"
  BY EachHolds DEF Find, Holds, Fingerprints, Methods
<1>2. CASE Exists(op[h].key) /\ SameRequest(h) /\ IF op[h].print.method = "CARD" THEN Recover(h) ELSE Dispatch(h)
  BY <1>1, <1>2, Recovers, Dispatches DEF SameRequest
<1>3. CASE Throw(h)
  BY <1>1, <1>3, Throws
<1>4. CASE ~(op[h].print.method = "CARD" /\ ~CardEnabled) /\ Goto(h, "products")
  <2>1. op' = [op EXCEPT ![h].pc = "products"] /\ UNCHANGED answer /\ "products" \in Steps
    BY <1>4 DEF Goto, Steps
  <2>2. Holds(h)'
    BY <1>1, <1>4, <2>1, Moves DEF Holds, Dispatching, Paying
  <2> QED
    BY <1>1, <2>1, <2>2, Moves, GoesOn DEF IInv, TypeOK, Paying
<1> QED
  BY <1>2, <1>3, <1>4 DEF Find

LEMMA ComparesPrice == ASSUME IInv, NEW h \in Requests, CheckProducts(h) PROVE IInv' /\ Grows
<1>1. /\ op[h].pc = "products" /\ UNCHANGED store /\ UNCHANGED catalogue /\ Holds(h)
      /\ op[h].key \in Keys /\ op[h].print \in Fingerprints
      /\ op \in [Requests -> Op] /\ catalogue \in Listed \cup {"gone"}
  BY EachHolds DEF CheckProducts, Holds, IInv, TypeOK
<1>2. CASE Throw(h)
  BY <1>1, <1>2, Throws
<1>3. CASE /\ catalogue = op[h].print.price /\ ~(op[h].print.method = "CARD" /\ catalogue = "ask")
           /\ op' = [op EXCEPT ![h].pc = "create", ![h].price = catalogue] /\ UNCHANGED answer
  <2>1. catalogue \in Listed
    BY <1>1, <1>3 DEF Fingerprints
  <2>2. op[h].print.method = "CARD" => catalogue \in Prices
    BY <1>3, <2>1 DEF Listed
  <2>3. /\ op' \in [Requests -> Op] /\ \A g \in Requests \ {h} : op'[g] = op[g]
        /\ op'[h].pc = "create" /\ op'[h].price = catalogue
        /\ op'[h].key = op[h].key /\ op'[h].print = op[h].print
    <3>1. catalogue \in Listed \cup {"none"}
      BY <2>1
    <3>2. op' = [op EXCEPT ![h] = [op[h] EXCEPT !.pc = "create", !.price = catalogue]]
      BY <1>1, <1>3
    <3>3. [op[h] EXCEPT !.pc = "create", !.price = catalogue] \in Op
      BY <1>1, <3>1 DEF Op, Steps
    <3> QED
      BY <1>1, <3>2, <3>3 DEF Op
  <2>4. Holds(h)'
    BY <1>1, <1>3, <2>2, <2>3 DEF Holds, Dispatching, Paying
  <2> QED
    BY <1>1, <1>3, <2>3, <2>4, GoesOn DEF Paying
<1> QED
  BY <1>2, <1>3 DEF CheckProducts

(* The order and what goes with it, the first of its key. *)
LEMMA Creates ==
    ASSUME IInv, NEW h \in Requests, op[h].pc = "create", ~Exists(op[h].key),
           CreatePendingOrder(h)
    PROVE  IInv' /\ Grows
<1> DEFINE k == op[h].key
           o == NewOrder(h)
<1>1. /\ Holds(h) /\ k \in Keys /\ op[h].print \in Fingerprints
      /\ op[h].price = op[h].print.price
      /\ op[h].print.method = "CARD" => CardEnabled /\ op[h].price \in Prices
  BY EachHolds DEF Holds
<1>2. /\ op \in [Requests -> Op] /\ orders \in [Keys -> Order]
      /\ notes \in [Keys -> [Recipients -> Note]]
      /\ mails \in [Keys -> [Recipients -> SUBSET Listed]] /\ inits \in [Keys -> Nat]
  BY DEF IInv, TypeOK
<1>3. /\ orders' = [orders EXCEPT ![k] = o] /\ UNCHANGED <<mails, inits, catalogue>>
      /\ \/ /\ op[h].print.method = "CARD" /\ Goto(h, "initialize") /\ UNCHANGED notes
         \/ /\ op[h].print.method # "CARD"
            /\ notes' = [notes EXCEPT ![k] = [r \in Recipients |-> [status |-> "PENDING", tried |-> FALSE]]]
            /\ op' = [op EXCEPT ![h].pc = "dispatch", ![h].left = Recipients]
            /\ UNCHANGED answer
  BY DEF CreatePendingOrder
<1>4. /\ o.print = op[h].print /\ o.price = op[h].print.price /\ o.url = FALSE
      /\ o.status \in {"PENDING", "PAYMENT_PENDING"} /\ o.price \in Listed
      /\ o \in Order
  BY <1>1 DEF NewOrder, Order, Fingerprints
<1>5. /\ \A j \in Keys \ {k} : orders'[j] = orders[j] /\ notes'[j] = notes[j]
      /\ orders'[k] = o /\ orders' \in [Keys -> Order]
  BY <1>1, <1>2, <1>3, <1>4
<1>6. /\ op' \in [Requests -> Op] /\ \A g \in Requests \ {h} : op'[g] = op[g]
      /\ op'[h].key = k /\ op'[h].print = op[h].print /\ UNCHANGED answer
      /\ \/ op'[h].pc = "initialize" /\ op[h].print.method = "CARD"
         \/ op'[h].pc = "dispatch" /\ op'[h].left = Recipients /\ op[h].print.method # "CARD"
  <2>1. CASE op[h].print.method = "CARD"
    BY <1>3, <2>1, Moves DEF Goto, Steps
  <2>2. CASE op[h].print.method # "CARD"
    <3>0. op' = [op EXCEPT ![h].pc = "dispatch", ![h].left = Recipients] /\ UNCHANGED answer
      BY <1>3, <2>2
    <3>1. op' = [op EXCEPT ![h] = [op[h] EXCEPT !.pc = "dispatch", !.left = Recipients]] /\ UNCHANGED answer
      BY <1>2, <3>0
    <3>2. [op[h] EXCEPT !.pc = "dispatch", !.left = Recipients] \in Op
      <4>1. op[h] \in Op /\ Recipients \in SUBSET Recipients
        BY <1>2
      <4> HIDE DEF k, o
      <4> QED
        BY <4>1 DEF Op, Steps
    <3> QED
      BY <1>2, <2>2, <3>1, <3>2 DEF Op
  <2> QED
    BY <2>1, <2>2
<1>7. notes' \in [Keys -> [Recipients -> Note]]
  <2>1. [r \in Recipients |-> [status |-> "PENDING", tried |-> FALSE]] \in [Recipients -> Note]
    BY DEF Note
  <2> QED
    BY <1>1, <1>2, <1>3, <2>1
<1>8. TypeOK'
  BY <1>2, <1>3, <1>5, <1>6, <1>7 DEF IInv, TypeOK
<1>9. /\ inits[k] = 0 /\ \A r \in Recipients : notes[k][r] = NoNote /\ mails[k][r] = {}
  BY <1>1 DEF IInv, Absent
<1>10. \A r \in Recipients : mails'[k][r] = {} /\ notes'[k][r].status \in {"none", "PENDING"}
  BY <1>1, <1>2, <1>3, <1>9 DEF NoNote
<1>11. Grows
  BY <1>3, <1>5 DEF Grows, FinalStep, Exists
<1>12. Agreed'
  BY <1>1, <1>4, <1>5 DEF IInv, Agreed, Exists
<1>13. Absent'
  BY <1>3, <1>4, <1>5 DEF IInv, Absent, Exists
<1>14. SentBacked' /\ MailAgrees'
  BY <1>3, <1>5, <1>10 DEF IInv, SentBacked, MailAgrees
<1>15. OneInitialization'
  BY <1>3, <1>4, <1>5, <1>9 DEF IInv, OneInitialization
<1>16. AnswerInv'
  <2>1. answer.key # "none" => answer.key \in Keys \ {k}
    BY DEF IInv, Told
  <2> QED
    BY <1>3, <1>5, <1>6, <2>1 DEF IInv, AnswerInv, Told, AcceptanceBacked, Exists
<1>17. Holds(h)'
  <2>1. orders'[k].status # "none" /\ orders'[k].print = op[h].print /\ inits'[k] = 0
    BY <1>3, <1>4, <1>5, <1>9
  <2>2. op[h].print.method # "CARD" => op[h].print.method = "CASH_ON_DELIVERY"
    BY <1>1 DEF Fingerprints, Methods
  <2> QED
    BY <1>1, <1>6, <2>1, <2>2 DEF Holds, Dispatching, Paying, Exists
<1>18. Placed' /\ Progress' /\ OnePays'
  BY <1>3, <1>6, <1>11, <1>17, OthersKeep DEF Exists
<1> QED
  BY <1>8, <1>11, <1>12, <1>13, <1>14, <1>15, <1>16, <1>18 DEF IInv, AnswerInv

LEMMA CreatesOrResumes ==
    ASSUME IInv, NEW h \in Requests, CreatePendingOrder(h) PROVE IInv' /\ Grows
<1>1. /\ op[h].pc = "create" /\ Holds(h) /\ op[h].key \in Keys /\ op[h].print \in Fingerprints
      /\ op[h].print.method # "CARD" => op[h].print.method = "CASH_ON_DELIVERY"
  BY EachHolds DEF CreatePendingOrder, Holds, Fingerprints, Methods
<1>2. CASE ~Exists(op[h].key)
  BY <1>1, <1>2, Creates
<1>3. CASE Exists(op[h].key) /\ ~SameRequest(h)
  BY <1>1, <1>3, Throws DEF CreatePendingOrder, store
<1>4. CASE Exists(op[h].key) /\ SameRequest(h)
  <2>1. UNCHANGED store /\ UNCHANGED catalogue /\ Resume(h) /\ catalogue \in Listed \cup {"gone"}
    BY <1>4 DEF CreatePendingOrder, store, IInv, TypeOK
  <2>2. CASE op[h].print.method = "CARD"
    <3>1. op' = [op EXCEPT ![h].pc = "reload"] /\ UNCHANGED answer /\ "reload" \in Steps
      BY <2>1, <2>2 DEF Resume, Goto, Steps
    <3>2. Holds(h)'
      BY <1>1, <1>4, <2>1, <2>2, <3>1, Moves DEF Holds, SameRequest, Dispatching, Paying, store, Exists
    <3> QED
      BY <2>1, <3>1, <3>2, Moves, GoesOn DEF Paying
  <2>3. CASE op[h].print.method # "CARD"
    BY <1>1, <1>4, <2>1, <2>3, Dispatches DEF Resume, SameRequest
  <2> QED
    BY <2>2, <2>3
<1> QED
  BY <1>2, <1>3, <1>4

-----------------------------------------------------------------------------
(* Notifications. *)

(* A step on the notification rows of an order on delivery. *)
LEMMA Notes ==
    ASSUME IInv, NEW h \in Requests, NEW r \in Recipients, NEW n \in Note,
           Exists(op[h].key), op[h].key \in Keys,
           notes' = [notes EXCEPT ![op[h].key][r] = n],
           n.tried, n.status # "none", n.status = "SENT" => mails[op[h].key][r] # {},
           UNCHANGED <<orders, mails, inits, catalogue, answer>>,
           op' \in [Requests -> Op], \A g \in Requests \ {h} : op'[g] = op[g],
           op'[h].pc \notin Paying,
           Holds(h)'
    PROVE  IInv' /\ Grows
<1> DEFINE k == op[h].key
<1>1. notes \in [Keys -> [Recipients -> Note]]
  BY DEF IInv, TypeOK
<1>2. /\ notes' \in [Keys -> [Recipients -> Note]] /\ notes'[k][r] = n
      /\ \A j \in Keys, q \in Recipients : j # k \/ q # r => notes'[j][q] = notes[j][q]
  BY <1>1
<1>3. TypeOK'
  BY <1>2 DEF IInv, TypeOK
<1>4. Grows
  BY <1>2 DEF Grows, FinalStep, Exists
<1>5. Agreed' /\ MailAgrees' /\ OneInitialization' /\ AnswerInv'
  BY DEF IInv, AnswerInv, Agreed, MailAgrees, OneInitialization, Told, AcceptanceBacked, Exists
<1>6. Absent'
  BY <1>2 DEF IInv, Absent, Exists
<1>7. SentBacked'
  <2> SUFFICES ASSUME NEW j \in Keys, NEW q \in Recipients
               PROVE  /\ notes'[j][q].status = "SENT" => mails[j][q] # {}
                      /\ mails[j][q] # {} => notes'[j][q].tried
    BY DEF SentBacked
  <2>1. CASE j = k /\ q = r
    BY <1>2, <2>1
  <2>2. CASE j # k \/ q # r
    BY <1>2, <2>2 DEF IInv, SentBacked
  <2> QED
    BY <2>1, <2>2
<1>8. Placed' /\ Progress' /\ OnePays'
  BY <1>4, OthersKeep
<1> QED
  BY <1>3, <1>4, <1>5, <1>6, <1>7, <1>8 DEF IInv, AnswerInv

(* What a request that notifies knows. *)
LEMMA Notifying ==
    ASSUME IInv, NEW h \in Requests, op[h].pc \in Dispatching
    PROVE  /\ op \in [Requests -> Op] /\ notes \in [Keys -> [Recipients -> Note]]
           /\ op[h].key \in Keys /\ op[h].print \in Fingerprints /\ op[h].left \subseteq Recipients
           /\ Exists(op[h].key) /\ orders[op[h].key].print = op[h].print
           /\ op[h].print.method = "CASH_ON_DELIVERY"
           /\ \A r \in Recipients \ op[h].left : mails[op[h].key][r] # {}
           /\ op[h].pc # "dispatch" => op[h].to \in Recipients /\ notes[op[h].key][op[h].to].tried
           /\ op[h].pc = "sent" => mails[op[h].key][op[h].to] # {}
  BY EachHolds DEF IInv, TypeOK, Op, Holds, Dispatching

LEMMA Attempts ==
    ASSUME IInv, NEW h \in Requests, NEW r \in Recipients, Attempt(h, r) PROVE IInv' /\ Grows
<1> DEFINE n == [status |-> "PENDING", tried |-> TRUE]
           k == op[h].key
<1>1. /\ op[h].pc = "dispatch" /\ notes' = [notes EXCEPT ![k][r] = n]
      /\ op' = [op EXCEPT ![h].pc = "send", ![h].to = r]
      /\ UNCHANGED <<orders, mails, inits, catalogue, answer>>
  BY DEF Attempt
<1>2. /\ op \in [Requests -> Op] /\ notes \in [Keys -> [Recipients -> Note]]
      /\ k \in Keys /\ op[h].print \in Fingerprints
      /\ Exists(k) /\ orders[k].print = op[h].print
      /\ op[h].print.method = "CASH_ON_DELIVERY"
      /\ \A q \in Recipients \ op[h].left : mails[k][q] # {}
  BY <1>1, Notifying DEF Dispatching
<1>3. /\ op' \in [Requests -> Op] /\ \A g \in Requests \ {h} : op'[g] = op[g]
      /\ op'[h].pc = "send" /\ op'[h].to = r /\ op'[h].key = k
      /\ op'[h].print = op[h].print /\ op'[h].left = op[h].left
  <2>1. op' = [op EXCEPT ![h] = [op[h] EXCEPT !.pc = "send", !.to = r]]
    BY <1>1, <1>2
  <2>2. [op[h] EXCEPT !.pc = "send", !.to = r] \in Op
    BY <1>2 DEF Op, Steps
  <2> QED
    BY <1>2, <2>1, <2>2 DEF Op
<1>4. n \in Note /\ notes'[k][r] = n
  BY <1>1, <1>2 DEF Note
<1>5. Holds(h)'
  BY <1>1, <1>2, <1>3, <1>4 DEF Holds, Dispatching, Paying, Exists
<1>6. op'[h].pc \notin Paying /\ n.tried /\ n.status # "none" /\ n.status # "SENT"
  BY <1>3 DEF Paying
<1> HIDE DEF n
<1> QED
  BY <1>1, <1>2, <1>3, <1>4, <1>5, <1>6, Notes

LEMMA Sends == ASSUME IInv, NEW h \in Requests, Send(h) PROVE IInv' /\ Grows
<1> DEFINE k == op[h].key
           r == op[h].to
<1>1. /\ op[h].pc = "send" /\ UNCHANGED <<orders, notes, inits, catalogue, answer>>
      /\ \/ /\ mails' = [mails EXCEPT ![k][r] = @ \cup {Message(h)}]
            /\ Goto(h, "sent") \/ Goto(h, "failed")
         \/ Goto(h, "failed") /\ UNCHANGED mails
  BY DEF Send, Goto
<1>2. /\ op \in [Requests -> Op] /\ notes \in [Keys -> [Recipients -> Note]]
      /\ k \in Keys /\ op[h].print \in Fingerprints /\ r \in Recipients
      /\ Exists(k) /\ orders[k].print = op[h].print /\ notes[k][r].tried
      /\ op[h].print.method = "CASH_ON_DELIVERY"
      /\ \A q \in Recipients \ op[h].left : mails[k][q] # {}
      /\ mails \in [Keys -> [Recipients -> SUBSET Listed]] /\ orders \in [Keys -> Order]
  BY <1>1, Notifying DEF Dispatching, IInv, TypeOK
<1>3. orders[k].price = orders[k].print.price /\ orders[k].price \in Listed
  BY <1>2 DEF IInv, Agreed, Fingerprints
<1>4. /\ mails' \in [Keys -> [Recipients -> SUBSET Listed]]
      /\ \A j \in Keys, q \in Recipients :
            /\ mails[j][q] \subseteq mails'[j][q]
            /\ j # k \/ q # r => mails'[j][q] = mails[j][q]
      /\ mails'[k][r] \subseteq mails[k][r] \cup {orders[k].print.price}
  <2>1. CASE UNCHANGED mails
    BY <1>2, <2>1
  <2>2. CASE mails' = [mails EXCEPT ![k][r] = @ \cup {Message(h)}]
    BY <1>2, <1>3, <2>2 DEF Message
  <2> QED
    BY <1>1, <2>1, <2>2
<1>5. (op' = [op EXCEPT ![h].pc = "sent"] /\ mails'[k][r] # {}) \/ op' = [op EXCEPT ![h].pc = "failed"]
  <2>1. mails' = [mails EXCEPT ![k][r] = @ \cup {Message(h)}] => mails'[k][r] # {}
    <3>1. mails' = [mails EXCEPT ![k][r] = @ \cup {Message(h)}] => mails'[k][r] = mails[k][r] \cup {Message(h)}
      BY <1>2
    <3> QED
      BY <3>1
  <2> QED
    BY <1>1, <2>1 DEF Goto
<1>6. /\ op' \in [Requests -> Op] /\ \A g \in Requests \ {h} : op'[g] = op[g]
      /\ (op'[h].pc = "sent" /\ mails'[k][r] # {}) \/ op'[h].pc = "failed"
      /\ op'[h].to = r /\ op'[h].key = k /\ op'[h].print = op[h].print /\ op'[h].left = op[h].left
  BY <1>5, Moves DEF Steps
<1>7. TypeOK'
  BY <1>1, <1>4, <1>6 DEF IInv, TypeOK
<1>8. Grows
  BY <1>1, <1>4 DEF Grows, FinalStep, Exists
<1>9. Agreed' /\ OneInitialization'
  BY <1>1 DEF IInv, Agreed, OneInitialization, Exists
<1>10. Absent'
  BY <1>1, <1>2, <1>4 DEF IInv, Absent, Exists
<1>11. MailAgrees'
  <2> SUFFICES ASSUME NEW j \in Keys, NEW q \in Recipients
               PROVE  mails'[j][q] \subseteq {orders[j].print.price}
    BY <1>1 DEF MailAgrees
  <2>1. mails[j][q] \subseteq {orders[j].print.price}
    BY DEF IInv, MailAgrees
  <2> QED
    BY <1>4, <2>1
<1>12. SentBacked'
  <2> SUFFICES ASSUME NEW j \in Keys, NEW q \in Recipients
               PROVE  /\ notes[j][q].status = "SENT" => mails'[j][q] # {}
                      /\ mails'[j][q] # {} => notes[j][q].tried
    BY <1>1 DEF SentBacked
  <2>1. /\ notes[j][q].status = "SENT" => mails[j][q] # {}
        /\ mails[j][q] # {} => notes[j][q].tried
    BY DEF IInv, SentBacked
  <2> QED
    BY <1>2, <1>4, <2>1
<1>13. AnswerInv'
  BY <1>1, <1>4 DEF IInv, AnswerInv, Told, AcceptanceBacked, Exists
<1>14. Holds(h)'
  <2>1. \A q \in Recipients \ op[h].left : mails'[k][q] # {}
    BY <1>2, <1>4
  <2> QED
    BY <1>1, <1>2, <1>6, <2>1 DEF Holds, Dispatching, Paying, Exists
<1>15. Placed' /\ Progress' /\ OnePays'
  BY <1>1, <1>6, <1>8, <1>14, OthersKeep DEF Paying
<1> QED
  BY <1>7, <1>8, <1>9, <1>10, <1>11, <1>12, <1>13, <1>15 DEF IInv, AnswerInv

(* The step that ends a notification writes SENT only after the email went. *)
LEMMA Marks ==
    ASSUME IInv, NEW h \in Requests, op[h].pc \in {"sent", "failed"}, NEW mark \in {"SENT", "FAILED"},
           Status(op[h].key, op[h].to, mark), mark = "SENT" => op[h].pc = "sent",
           UNCHANGED <<orders, mails, inits, catalogue, answer>>,
           op' \in [Requests -> Op], \A g \in Requests \ {h} : op'[g] = op[g],
           op'[h].pc \notin Paying, Holds(h)'
    PROVE  IInv' /\ Grows
<1> DEFINE k == op[h].key
           n == [notes[k][op[h].to] EXCEPT !.status = mark]
<1>1. /\ notes \in [Keys -> [Recipients -> Note]] /\ k \in Keys /\ op[h].to \in Recipients
      /\ Exists(k) /\ notes[k][op[h].to].tried
      /\ op[h].pc = "sent" => mails[k][op[h].to] # {}
  BY Notifying DEF Dispatching
<1>2. notes' = [notes EXCEPT ![k][op[h].to] = n]
  BY <1>1 DEF Status
<1>3. n \in Note /\ n.tried /\ n.status = mark
  <2>1. notes[k][op[h].to] \in Note
    BY <1>1
  <2> QED
    BY <1>1, <2>1 DEF Note
<1> HIDE DEF n
<1>4. n.status # "none" /\ (n.status = "SENT" => mails[k][op[h].to] # {})
  BY <1>1, <1>3
<1> QED
  BY <1>1, <1>2, <1>3, <1>4, Notes

LEMMA MarksSent == ASSUME IInv, NEW h \in Requests, MarkSent(h) PROVE IInv' /\ Grows
<1> DEFINE k == op[h].key
           r == op[h].to
<1>1. /\ op[h].pc = "sent" /\ UNCHANGED <<orders, mails, inits, catalogue, answer>>
      /\ \/ /\ Status(k, r, "SENT")
            /\ \/ op' = [op EXCEPT ![h].pc = "dispatch", ![h].left = @ \ {r}]
               \/ Goto(h, "failed")
         \/ Goto(h, "failed") /\ UNCHANGED notes
  BY DEF MarkSent, Goto
<1>2. /\ op \in [Requests -> Op] /\ k \in Keys /\ op[h].print \in Fingerprints /\ op[h].left \subseteq Recipients
      /\ Exists(k) /\ orders[k].print = op[h].print /\ op[h].print.method = "CASH_ON_DELIVERY"
      /\ \A q \in Recipients \ op[h].left : mails[k][q] # {}
      /\ r \in Recipients /\ notes[k][r].tried /\ mails[k][r] # {}
      /\ notes \in [Keys -> [Recipients -> Note]]
  BY <1>1, Notifying DEF Dispatching
<1>3. ASSUME Goto(h, "failed"), notes'[k][r].tried
      PROVE  /\ op' \in [Requests -> Op] /\ \A g \in Requests \ {h} : op'[g] = op[g]
             /\ op'[h].pc = "failed" /\ Holds(h)'
  <2>1. op' = [op EXCEPT ![h].pc = "failed"] /\ "failed" \in Steps
    BY <1>3 DEF Goto, Steps
  <2>2. /\ op' \in [Requests -> Op] /\ \A g \in Requests \ {h} : op'[g] = op[g]
        /\ op'[h].pc = "failed" /\ op'[h].key = k /\ op'[h].to = r
        /\ op'[h].print = op[h].print /\ op'[h].left = op[h].left
    BY <2>1, Moves
  <2>3. \A q \in Recipients \ op[h].left : mails'[k][q] # {}
    BY <1>1, <1>2
  <2>4. orders'[k].status # "none" /\ orders'[k].print = op[h].print
    BY <1>1, <1>2 DEF Exists
  <2>5. Holds(h)'
    BY <1>2, <1>3, <2>2, <2>3, <2>4 DEF Holds, Dispatching, Paying, Exists
  <2> QED
    BY <2>2, <2>5
<1>4. Status(k, r, "SENT") => notes'[k][r].tried
  BY <1>2 DEF Status, Note
<1>5. CASE Goto(h, "failed") /\ UNCHANGED notes
  BY <1>1, <1>2, <1>3, <1>5, GoesOn DEF store, Paying, IInv, TypeOK
<1>6. CASE Status(k, r, "SENT") /\ Goto(h, "failed")
  BY <1>1, <1>3, <1>4, <1>6, Marks DEF Paying
<1>7. CASE Status(k, r, "SENT") /\ op' = [op EXCEPT ![h].pc = "dispatch", ![h].left = @ \ {r}]
  <2>1. op' = [op EXCEPT ![h] = [op[h] EXCEPT !.pc = "dispatch", !.left = op[h].left \ {r}]]
    BY <1>2, <1>7
  <2>2. [op[h] EXCEPT !.pc = "dispatch", !.left = op[h].left \ {r}] \in Op
    BY <1>2 DEF Op, Steps
  <2>3. /\ op' \in [Requests -> Op] /\ \A g \in Requests \ {h} : op'[g] = op[g]
        /\ op'[h].pc = "dispatch" /\ op'[h].key = k
        /\ op'[h].print = op[h].print /\ op'[h].left = op[h].left \ {r}
    BY <1>2, <2>1, <2>2 DEF Op
  <2>4. \A q \in Recipients \ (op[h].left \ {r}) : mails[k][q] # {}
    BY <1>2
  <2>5. Holds(h)'
    BY <1>1, <1>2, <2>3, <2>4 DEF Holds, Dispatching, Paying, Exists
  <2> QED
    BY <1>1, <1>7, <2>3, <2>5, Marks DEF Paying
<1> QED
  BY <1>1, <1>5, <1>6, <1>7

LEMMA MarksFailed == ASSUME IInv, NEW h \in Requests, MarkFailed(h) PROVE IInv' /\ Grows
<1>1. /\ op[h].pc = "failed" /\ Status(op[h].key, op[h].to, "FAILED")
      /\ op' = [op EXCEPT ![h] = Idle] /\ UNCHANGED <<orders, mails, inits, catalogue, answer>>
  BY DEF MarkFailed, Throw
<1> QED
  BY <1>1, Ends, Marks

LEMMA IsAccepted == ASSUME IInv, NEW h \in Requests, Accepted(h) PROVE IInv' /\ Grows
<1>1. op[h].pc = "dispatch" /\ op[h].left = {} /\ Accept(h) /\ UNCHANGED store /\ UNCHANGED catalogue
  BY DEF Accepted
<1> QED
  BY <1>1, Notifying, Accepts DEF Dispatching

-----------------------------------------------------------------------------
(* Card orders. *)

(* What a request for a card payment knows. *)
LEMMA PayingKnows ==
    ASSUME IInv, NEW h \in Requests, op[h].pc \in Paying \cup {"reload"}
    PROVE  /\ op \in [Requests -> Op] /\ orders \in [Keys -> Order] /\ inits \in [Keys -> Nat]
           /\ op[h].key \in Keys /\ op[h].print \in Fingerprints /\ Exists(op[h].key)
           /\ orders[op[h].key].print = op[h].print /\ op[h].print.method = "CARD"
           /\ op[h].pc = "initialize" => inits[op[h].key] = 0
           /\ op[h].pc = "record" => inits[op[h].key] = 1
           /\ orders[op[h].key].price \in Prices
  BY EachHolds DEF IInv, TypeOK, Holds, Paying, Agreed

LEMMA Reloads == ASSUME IInv, NEW h \in Requests, Reload(h) PROVE IInv' /\ Grows
<1>1. op[h].pc = "reload" /\ Recover(h) /\ UNCHANGED store /\ UNCHANGED catalogue
  BY DEF Reload
<1> QED
  BY <1>1, PayingKnows, Recovers

LEMMA Initializes == ASSUME IInv, NEW h \in Requests, Initialize(h) PROVE IInv' /\ Grows
<1> DEFINE k == op[h].key
<1>1. /\ op[h].pc = "initialize" /\ inits' = [inits EXCEPT ![k] = @ + 1]
      /\ Goto(h, "record") \/ Goto(h, "undo")
      /\ UNCHANGED <<orders, notes, mails, catalogue, answer>>
  BY DEF Initialize, Goto
<1>2. /\ op \in [Requests -> Op] /\ k \in Keys /\ op[h].print \in Fingerprints /\ Exists(k)
      /\ orders[k].print = op[h].print /\ op[h].print.method = "CARD" /\ inits[k] = 0
      /\ inits \in [Keys -> Nat] /\ orders[k].price \in Prices
  BY <1>1, PayingKnows DEF Paying
<1>3. /\ inits' \in [Keys -> Nat] /\ inits'[k] = 1 /\ \A j \in Keys \ {k} : inits'[j] = inits[j]
  BY <1>1, <1>2
<1>4. /\ op' \in [Requests -> Op] /\ \A g \in Requests \ {h} : op'[g] = op[g]
      /\ op'[h].pc \in {"record", "undo"} /\ op'[h].key = k /\ op'[h].print = op[h].print
  BY <1>1, Moves DEF Goto, Steps
<1>5. TypeOK'
  BY <1>1, <1>3, <1>4 DEF IInv, TypeOK
<1>6. Grows
  BY <1>1 DEF Grows, FinalStep, Exists
<1>7. Agreed' /\ SentBacked' /\ MailAgrees' /\ AnswerInv'
  BY <1>1 DEF IInv, AnswerInv, Agreed, SentBacked, MailAgrees, Told, AcceptanceBacked, Exists
<1>8. Absent'
  BY <1>1, <1>2, <1>3 DEF IInv, Absent, Exists
<1>9. OneInitialization'
  BY <1>1, <1>2, <1>3 DEF IInv, OneInitialization
<1>10. Holds(h)'
  BY <1>1, <1>2, <1>3, <1>4 DEF Holds, Dispatching, Paying, Exists
<1>11. Placed' /\ Progress' /\ OnePays'
  BY <1>1, <1>3, <1>4, <1>6, <1>10, OthersKeep DEF Paying
<1> QED
  BY <1>5, <1>6, <1>7, <1>8, <1>9, <1>11 DEF IInv, AnswerInv

(* A step on the stored order of a card payment: its page, or its failure.  *)
LEMMA Writes ==
    ASSUME IInv, NEW h \in Requests, op[h].pc \in {"record", "undo"}, NEW o \in Order,
           orders' = [orders EXCEPT ![op[h].key] = o],
           o.print = orders[op[h].key].print, o.price = orders[op[h].key].price,
           o.status # "none", orders[op[h].key].status = "PAYMENT_FAILED" => o.status = "PAYMENT_FAILED",
           orders[op[h].key].url => o.url, o.url => orders[op[h].key].url \/ op[h].pc = "record",
           UNCHANGED <<notes, mails, inits, catalogue>>
    PROVE  /\ StoreInv' /\ Grows /\ orders' \in [Keys -> Order]
           /\ UNCHANGED answer => AnswerInv'
<1> DEFINE k == op[h].key
<1>1. /\ k \in Keys /\ Exists(k) /\ orders \in [Keys -> Order]
      /\ op[h].pc = "record" => inits[k] = 1
  BY PayingKnows DEF Paying
<1>2. /\ orders' \in [Keys -> Order] /\ orders'[k] = o /\ \A j \in Keys \ {k} : orders'[j] = orders[j]
  BY <1>1
<1>3. Grows
  BY <1>2 DEF Grows, FinalStep, Exists
<1>4. Agreed'
  BY <1>1, <1>2 DEF IInv, Agreed, Exists
<1>5. Absent'
  BY <1>1, <1>2 DEF IInv, Absent, Exists
<1>6. SentBacked'
  BY DEF IInv, SentBacked
<1>7. MailAgrees'
  <2> SUFFICES ASSUME NEW j \in Keys, NEW r \in Recipients PROVE mails[j][r] \subseteq {orders'[j].print.price}
    BY DEF MailAgrees
  <2>1. orders'[j].print = orders[j].print
    BY <1>2
  <2> QED
    BY <2>1 DEF IInv, MailAgrees
<1>8. OneInitialization'
  <2> SUFFICES ASSUME NEW j \in Keys
               PROVE  /\ inits[j] <= 1
                      /\ inits[j] = 1 => orders'[j].print.method = "CARD" /\ orders'[j].price \in Prices
                      /\ orders'[j].url => inits[j] = 1
    BY DEF OneInitialization
  <2>1. /\ orders'[j].print = orders[j].print /\ orders'[j].price = orders[j].price
        /\ orders'[j].url => orders[j].url \/ inits[j] = 1
    BY <1>1, <1>2
  <2> QED
    BY <2>1 DEF IInv, OneInitialization
<1>9. UNCHANGED answer => AnswerInv'
  <2>1. answer.key # "none" => answer.key \in Keys
    BY DEF IInv, Told
  <2>2. \A j \in Keys : /\ orders'[j].print = orders[j].print /\ (orders[j].url => orders'[j].url)
                         /\ orders[j].status # "none" => orders'[j].status # "none"
    BY <1>2
  <2> QED
    BY <2>1, <2>2 DEF IInv, AnswerInv, Told, AcceptanceBacked, Exists
<1> QED
  BY <1>2, <1>3, <1>4, <1>5, <1>6, <1>7, <1>8, <1>9 DEF StoreInv

(* Its request then ends, or goes on to undo it. *)
LEMMA Concludes ==
    ASSUME IInv, NEW h \in Requests, op[h].pc \in {"record", "undo"},
           StoreInv', Grows, orders' \in [Keys -> Order], AnswerInv',
           answer' \in [key : Keys \cup {"none"}, print : Fingerprints \cup {Nothing}],
           UNCHANGED <<notes, mails, inits, catalogue>>,
           op' = [op EXCEPT ![h] = Idle] \/ op' = [op EXCEPT ![h].pc = "undo"]
    PROVE  IInv'
<1>1. /\ op[h].key \in Keys /\ op[h].print \in Fingerprints /\ Exists(op[h].key)
      /\ orders[op[h].key].print = op[h].print /\ op[h].print.method = "CARD"
  BY PayingKnows DEF Paying
<1>2. orders'[op[h].key].status # "none" /\ orders'[op[h].key].print = op[h].print
  BY <1>1 DEF Grows, FinalStep
<1>3. /\ op' \in [Requests -> Op] /\ \A g \in Requests \ {h} : op'[g] = op[g]
      /\ Holds(h)'
      /\ op'[h].pc \in Paying => op'[h].key = op[h].key
  <2>1. CASE op' = [op EXCEPT ![h] = Idle]
    BY <2>1, Ends
  <2>2. CASE op' = [op EXCEPT ![h].pc = "undo"]
    BY <1>1, <1>2, <2>2, Moves DEF Steps, Holds, Dispatching, Paying, Exists
  <2> QED
    BY <2>1, <2>2
<1>4. Placed' /\ Progress' /\ OnePays'
  <2>1. op[h].pc \in Paying /\ inits' = inits
    BY DEF Paying
  <2>2. op'[h].pc \in Paying => (op[h].pc \in Paying /\ op'[h].key = op[h].key) \/ ~Exists(op'[h].key)
    BY <1>3, <2>1
  <2> QED
    BY <1>3, <2>1, <2>2, OthersKeep
<1>5. TypeOK'
  BY <1>3 DEF IInv, TypeOK
<1> QED
  BY <1>4, <1>5 DEF IInv, StoreInv, AnswerInv

LEMMA Records ==
    ASSUME IInv, NEW h \in Requests, RecordProviderPaymentId(h) PROVE IInv' /\ Grows
<1> DEFINE k == op[h].key
           o == [orders[k] EXCEPT !.url = TRUE]
<1>1. /\ op[h].pc = "record" /\ UNCHANGED <<notes, mails, inits, catalogue>>
  BY DEF RecordProviderPaymentId
<1>2. /\ k \in Keys /\ op[h].print \in Fingerprints /\ Exists(k) /\ orders \in [Keys -> Order]
      /\ orders[k].print = op[h].print /\ op[h].print.method = "CARD" /\ op \in [Requests -> Op]
  BY <1>1, PayingKnows DEF Paying
<1>3. answer \in [key : Keys \cup {"none"}, print : Fingerprints \cup {Nothing}] /\ AnswerInv
  BY DEF IInv, TypeOK, AnswerInv
<1>4. CASE Goto(h, "undo") /\ UNCHANGED orders
  <2>1. UNCHANGED store /\ UNCHANGED answer /\ op' = [op EXCEPT ![h].pc = "undo"]
    BY <1>1, <1>4 DEF store, Goto
  <2>2. StoreInv' /\ Grows /\ AnswerInv'
    BY <2>1, StoreKept
  <2> QED
    BY <1>1, <1>2, <1>3, <1>4, <2>1, <2>2, Concludes
<1>5. CASE orders' = [orders EXCEPT ![k].url = TRUE] /\ (Accept(h) \/ Goto(h, "undo"))
  <2>1. orders' = [orders EXCEPT ![k] = o]
    BY <1>2, <1>5
  <2>2. /\ o \in Order /\ o.print = orders[k].print /\ o.price = orders[k].price
        /\ o.status = orders[k].status /\ o.url
    BY <1>2 DEF Order
  <2>3. orders'[k] = o
    BY <1>2, <2>1
  <2> HIDE DEF o
  <2>4. StoreInv' /\ Grows /\ orders' \in [Keys -> Order] /\ (UNCHANGED answer => AnswerInv')
    BY <1>1, <1>2, <2>1, <2>2, Writes DEF Exists
  <2>5. CASE Goto(h, "undo")
    BY <1>1, <1>3, <2>4, <2>5, Concludes DEF Goto
  <2>6. CASE Accept(h)
    <3>1. /\ op' = [op EXCEPT ![h] = Idle] /\ answer' = [key |-> k, print |-> op[h].print]
      BY <2>6 DEF Accept
    <3>2. answer'.key = k /\ answer'.print = op[h].print /\ CardEnabled
      BY <1>2, <3>1 DEF IInv, Agreed
    <3>3. AnswerInv'
      BY <1>2, <2>2, <2>3, <3>2 DEF AnswerInv, Told, AcceptanceBacked, Exists
    <3> QED
      BY <1>1, <1>2, <2>4, <3>1, <3>3, Concludes
  <2> QED
    BY <1>5, <2>5, <2>6
<1> QED
  BY <1>4, <1>5 DEF RecordProviderPaymentId

LEMMA MarksInitializationFailed ==
    ASSUME IInv, NEW h \in Requests, MarkInitializationFailed(h) PROVE IInv' /\ Grows
<1> DEFINE k == op[h].key
           o == [orders[k] EXCEPT !.status = "PAYMENT_FAILED"]
<1>1. /\ op[h].pc = "undo" /\ orders' = [orders EXCEPT ![k].status = "PAYMENT_FAILED"]
      /\ op' = [op EXCEPT ![h] = Idle] /\ UNCHANGED <<notes, mails, inits, catalogue, answer>>
  BY DEF MarkInitializationFailed, Throw
<1>2. k \in Keys /\ orders \in [Keys -> Order]
  BY <1>1, PayingKnows DEF Paying
<1>3. orders' = [orders EXCEPT ![k] = o]
  BY <1>1, <1>2
<1>4. /\ o \in Order /\ o.print = orders[k].print /\ o.price = orders[k].price
      /\ o.status = "PAYMENT_FAILED" /\ o.url = orders[k].url
  BY <1>2 DEF Order
<1> HIDE DEF o
<1>5. StoreInv' /\ Grows /\ orders' \in [Keys -> Order] /\ AnswerInv'
  BY <1>1, <1>3, <1>4, Writes
<1>6. answer' \in [key : Keys \cup {"none"}, print : Fingerprints \cup {Nothing}]
  BY <1>1 DEF IInv, TypeOK
<1> QED
  BY <1>1, <1>5, <1>6, Concludes

-----------------------------------------------------------------------------
LEMMA Submits ==
    ASSUME IInv, NEW h \in Requests, NEW k \in Keys, NEW f \in Fingerprints, Submit(h, k, f)
    PROVE  IInv' /\ Grows
<1> DEFINE o == [Idle EXCEPT !.pc = "find", !.key = k, !.print = f]
<1>1. op' = [op EXCEPT ![h] = o] /\ UNCHANGED store /\ UNCHANGED catalogue /\ UNCHANGED answer
  BY DEF Submit
<1>2. o \in Op /\ o.pc = "find" /\ o.key = k /\ o.print = f
  BY DEF Idle, Op, Steps, Recipients
<1> HIDE DEF o
<1>3. op \in [Requests -> Op] /\ catalogue \in Listed \cup {"gone"}
  BY DEF IInv, TypeOK
<1>4. op' \in [Requests -> Op] /\ op'[h] = o /\ \A g \in Requests \ {h} : op'[g] = op[g]
  BY <1>1, <1>2, <1>3
<1>5. Holds(h)' /\ op'[h].pc \notin Paying
  BY <1>2, <1>4 DEF Holds, Dispatching, Paying
<1> QED
  BY <1>1, <1>3, <1>4, <1>5, GoesOn

LEMMA Edits == ASSUME IInv, Edit PROVE IInv' /\ Grows
<1>1. /\ UNCHANGED store /\ UNCHANGED <<orders, notes, mails, inits>> /\ UNCHANGED op /\ UNCHANGED answer
      /\ catalogue' \in Listed \cup {"gone"}
  BY DEF Edit, store
<1>2. StoreInv' /\ Grows /\ AnswerInv'
  BY <1>1, StoreKept
<1>3. TypeOK'
  BY <1>1 DEF IInv, TypeOK
<1>4. Placed' /\ Progress' /\ OnePays'
  BY <1>1 DEF IInv, Placed, Progress, OnePays, Exists, SameRequest
<1> QED
  BY <1>2, <1>3, <1>4 DEF IInv, StoreInv, AnswerInv

LEMMA EveryStep == ASSUME IInv, Next PROVE IInv' /\ FinalStep
<1>1. CASE Edit
  BY <1>1, Edits DEF Grows
<1>2. ASSUME NEW h \in Requests, NEW k \in Keys, NEW f \in Fingerprints, Submit(h, k, f)
      PROVE  IInv' /\ FinalStep
  BY <1>2, Submits DEF Grows
<1>3. ASSUME NEW h \in Requests, Fail(h) PROVE IInv' /\ FinalStep
  BY <1>3, Throws DEF Grows, Fail
<1>4. ASSUME NEW h \in Requests, Works(h) PROVE IInv' /\ FinalStep
  BY <1>4, Looks, ComparesPrice, CreatesOrResumes, Attempts, Sends, MarksSent, MarksFailed, IsAccepted,
     Reloads, Initializes, Records, MarksInitializationFailed DEF Grows, Works
<1> QED
  BY <1>1, <1>2, <1>3, <1>4 DEF Next

LEMMA Starts == Init => IInv
<1> SUFFICES ASSUME Init PROVE IInv
  OBVIOUS
<1>1. /\ \A k \in Keys : orders[k] = NoOrder /\ inits[k] = 0
      /\ \A k \in Keys, r \in Recipients : notes[k][r] = NoNote /\ mails[k][r] = {}
      /\ \A h \in Requests : op[h] = Idle
      /\ answer.key = "none" /\ NoOrder.status = "none" /\ NoOrder.url = FALSE /\ NoNote.status = "none"
  BY DEF Init, NoOrder, NoNote
<1>2. NoOrder \in Order /\ NoNote \in Note /\ answer \in [key : Keys \cup {"none"}, print : Fingerprints \cup {Nothing}]
  BY DEF Init, NoOrder, NoNote, Order, Note
<1>3. TypeOK
  BY <1>2, IdleType DEF Init, TypeOK
<1>4. Placed /\ Progress /\ OnePays
  BY <1>1, IdleType DEF Placed, Progress, OnePays, Dispatching, Paying
<1>5. Agreed /\ Absent /\ Told /\ AcceptanceBacked
  BY <1>1 DEF Agreed, Absent, Told, AcceptanceBacked, Exists
<1>6. SentBacked /\ MailAgrees /\ OneInitialization
  BY <1>1 DEF SentBacked, MailAgrees, OneInitialization
<1> QED
  BY <1>3, <1>4, <1>5, <1>6 DEF IInv

LEMMA Stutters == ASSUME IInv, UNCHANGED vars PROVE IInv'
<1>1. UNCHANGED <<catalogue, orders, notes, mails, inits, op, answer>>
  BY DEF vars
<1>2. StoreInv' /\ AnswerInv'
  BY <1>1, StoreKept DEF store
<1>3. TypeOK' /\ Placed' /\ Progress' /\ OnePays'
  BY <1>1 DEF IInv, TypeOK, Placed, Progress, OnePays, Exists, SameRequest
<1> QED
  BY <1>2, <1>3 DEF IInv, StoreInv, AnswerInv

(* The inductive invariant of order submission.                             *)
THEOREM OrdersInvariant == Spec => []IInv
<1>1. IInv /\ [Next]_vars => IInv'
  BY EveryStep, Stutters
<1> QED
  BY <1>1, Starts, PTL DEF Spec

(* Accepted is only what is stored as asked and written to both sides, and  *)
(* an email shows the price its customer agreed to (submit and              *)
(* dispatchOrderNotifications).                                             *)
THEOREM ToldTheTruth == Spec => []TruthTold
<1>1. IInv => TruthTold
  BY DEF IInv, TruthTold
<1> QED
  BY <1>1, OrdersInvariant, PTL

(* The bank is asked once for a card order's payment, whoever loses the     *)
(* race for its key (createPendingOrder, recoverCardCheckout).              *)
THEOREM InitializedOnce == Spec => []OneInitialization
<1>1. IInv => OneInitialization
  BY DEF IInv
<1> QED
  BY <1>1, OrdersInvariant, PTL

(* Orders, pages, attempts, accepted emails and failures are final.         *)
THEOREM OrdersFinal == Spec => OrderFinal
<1>1. IInv /\ [Next]_vars => [FinalStep]_vars
  BY EveryStep
<1> QED
  BY <1>1, OrdersInvariant, PTL DEF Spec, OrderFinal, FinalStep
=============================================================================
