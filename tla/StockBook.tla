------------------------------ MODULE StockBook ------------------------------
(***************************************************************************)
(* What the finance records promise about stock.  Purchases and sales are  *)
(* documents with a business date; the moving average cost of a product is *)
(* found by replaying its documents in order, and every sale carries the   *)
(* average it was sold at.  A document is written, changed or withdrawn in *)
(* one step, and only when the replay never runs out of stock.             *)
(***************************************************************************)
EXTENDS Integers, FiniteSetsExt

CONSTANTS Products, Documents,   \* Documents: integers, the order of their ids
          Dates, Creations,      \* business dates, and createdAt within a date
          MaxQuantity, Costs,    \* quantities are 1..MaxQuantity (a bound of the model)
          Grain                  \* a unit of money has this many storable parts

ASSUME StockAssumption ==
    /\ Documents \subseteq Nat /\ Dates \subseteq Nat /\ Creations \subseteq Nat
    /\ MaxQuantity \in Nat /\ Costs \subseteq Nat /\ Grain \in Nat \ {0}

VARIABLE docs   \* each document, with the unit costs stored for a sale's items

NoItems == [p \in Products |-> 0]
NoDoc == [kind |-> "none", date |-> 0, created |-> 0, items |-> NoItems, cost |-> 0]
Blank == [doc |-> NoDoc, snapshot |-> NoItems]

Items == [Products -> 0..MaxQuantity] \ {NoItems}
Purchases == [kind : {"purchase"}, date : Dates, created : Creations, items : Items, cost : Costs]
Sales == [kind : {"sale"}, date : Dates, created : Creations, items : Items, cost : {0}]

-----------------------------------------------------------------------------
(* Exact fractions, as decimals of forty digits are here. *)
Fraction(n, d) ==
    LET g == Max({k \in 1..d : n % k = 0 /\ d % k = 0}) IN <<n \div g, d \div g>>
Plus(a, n) == Fraction(a[1] + n * a[2], a[2])
Minus(a, b, k) == Fraction(a[1] * b[2] - k * b[1] * a[2], a[2] * b[2])
Per(a, k) == Fraction(a[1], a[2] * k)

(* A stored cost has Grain parts to the unit; the database rounds half up.  *)
Stored(a) == (2 * a[1] * Grain + a[2]) \div (2 * a[2])

(* compareLedgerEntries, for documents e and f of the map d. *)
Earlier(d, e, f) ==
    \/ d[e].date < d[f].date
    \/ /\ d[e].date = d[f].date
       /\ \/ d[e].created < d[f].created
          \/ /\ d[e].created = d[f].created
             /\ \/ d[e].kind = "purchase" /\ d[f].kind = "sale"
                \/ d[e].kind = d[f].kind /\ e < f

Start == [quantity |-> 0, value |-> <<0, 1>>, average |-> <<0, 1>>,
          costs |-> [e \in Documents |-> 0], short |-> FALSE]

(* Wrong: a sale is taken off the stock whether there is enough or not. *)
EnterUnchecked(s, q, entry, e) ==
    IF entry.kind = "purchase"
    THEN LET value == Plus(s.value, entry.cost * q) IN
         [s EXCEPT !.quantity = @ + q, !.value = value, !.average = Per(value, s.quantity + q)]
    ELSE [s EXCEPT !.quantity = Max({0, @ - q}), !.costs[e] = Stored(s.average)]

(* One ledger entry: q units of document e. *)
Enter(s, q, entry, e) ==
    IF entry.kind = "purchase"
    THEN LET value == Plus(s.value, entry.cost * q) IN
         [s EXCEPT !.quantity = @ + q, !.value = value, !.average = Per(value, s.quantity + q)]
    ELSE IF q > s.quantity THEN [s EXCEPT !.short = TRUE]
    ELSE LET left == [s EXCEPT !.quantity = @ - q, !.costs[e] = Stored(s.average),
                               !.value = Minus(@, s.average, q)] IN
         IF left.quantity = 0 THEN [left EXCEPT !.average = <<0, 1>>, !.value = <<0, 1>>] ELSE left

Entries(d, p) == {e \in Documents : d[e].items[p] > 0}

(* The entry of a set of documents that the sort puts last. *)
Latest(d, S) == CHOOSE e \in S : \A f \in S \ {e} : Earlier(d, f, e)

(* replayInventoryLedger for product p over the documents d: the last entry  *)
(* is entered upon what the entries before it leave.                        *)
Replay(d, p) ==
    LET after[S \in SUBSET Entries(d, p)] ==
          IF S = {} THEN Start
          ELSE LET e == Latest(d, S)
                   s == after[S \ {e}]
               IN  IF s.short THEN s ELSE Enter(s, d[e].items[p], d[e], e)
    IN  after[Entries(d, p)]

Contents(d) == [e \in Documents |-> d[e].doc]

(* The snapshots after products were replayed over the documents new: of     *)
(* each sale, the items of those products.                                  *)
Costed(old, new, products, costs) ==
    [e \in Documents |->
        [doc |-> new[e],
         snapshot |-> [p \in Products |->
            IF new[e].kind # "sale" \/ new[e].items[p] = 0 THEN 0
            ELSE IF p \in products THEN costs[p][e] ELSE old[e].snapshot[p]]]]

-----------------------------------------------------------------------------
Init == docs = [e \in Documents |-> Blank]

(* A document is created, replaced under its createdAt, or withdrawn. *)
Proposed(e) ==
    IF docs[e].doc = NoDoc THEN Purchases \cup Sales
    ELSE {NoDoc} \cup {x \in IF docs[e].doc.kind = "purchase" THEN Purchases ELSE Sales :
                          x.created = docs[e].doc.created}

Write(e, x) ==
    LET new == [Contents(docs) EXCEPT ![e] = x]
        replays == [p \in Products |-> Replay(new, p)]
    IN  /\ \A p \in Products : ~replays[p].short
        /\ docs' = Costed(docs, new, Products, [p \in Products |-> replays[p].costs])

Next == \E e \in Documents : docs'[e].doc \in Proposed(e) /\ Write(e, docs'[e].doc)

Spec == Init /\ [][Next]_docs

-----------------------------------------------------------------------------
TypeOK == docs \in [Documents -> [doc : Purchases \cup Sales \cup {NoDoc},
                                  snapshot : [Products -> Nat]]]

(* A sale's cost lies between the lowest and the highest price paid before   *)
(* it, whatever was bought, sold out and bought again.                      *)
CostWithinPrices ==
    LET d == Contents(docs) IN
    /\ TypeOK
    /\ \A p \in Products : \A e \in Entries(d, p) :
         d[e].kind = "sale" =>
            \E f, g \in Entries(d, p) :
               /\ d[f].kind = "purchase" /\ Earlier(d, f, e) /\ docs[e].snapshot[p] <= Grain * d[f].cost
               /\ d[g].kind = "purchase" /\ Earlier(d, g, e) /\ docs[e].snapshot[p] >= Grain * d[g].cost

(* On no day was more sold than had been bought, whatever the order in      *)
(* which the documents were entered and changed.                            *)
NeverOversold ==
    LET d == Contents(docs) IN
    \A p \in Products : \A e \in Entries(d, p) :
       LET before == {f \in Entries(d, p) : f = e \/ Earlier(d, f, e)}
           Units(kind) == MapThenSumSet(LAMBDA f : d[f].items[p], {f \in before : d[f].kind = kind})
       IN  Units("sale") <= Units("purchase")

(* What was paid is what was sold at cost plus what is in stock, up to the   *)
(* rounding of the stored unit costs.                                       *)
CostsConserved ==
    LET d == Contents(docs)
        Total(p, kind, Unit(_)) ==
            MapThenSumSet(LAMBDA f : d[f].items[p] * Unit(f), {f \in Entries(d, p) : d[f].kind = kind})
    IN  \A p \in Products :
          LET paid == Grain * Total(p, "purchase", LAMBDA f : d[f].cost)
              sold == Total(p, "sale", LAMBDA f : docs[f].snapshot[p])
              units == Total(p, "sale", LAMBDA f : 1)
              stock == Replay(d, p).value
              gap == 2 * ((paid - sold) * stock[2] - Grain * stock[1])
          IN  -units * stock[2] <= gap /\ gap <= units * stock[2]

(* Every sale carries the cost a replay of the present documents gives it.  *)
SnapshotsCurrent ==
    LET d == Contents(docs) IN
    \A p \in Products : \A e \in Entries(d, p) :
       d[e].kind = "sale" => docs[e].snapshot[p] = Replay(d, p).costs[e]

(* All three: the unit costs are prices that were paid, they add up, and    *)
(* they are those of the present documents.                                 *)
CostsSound == CostWithinPrices /\ CostsConserved /\ SnapshotsCurrent
=============================================================================
