--------------------------- MODULE OpeningImport ---------------------------
(***************************************************************************)
(* importFinanceOpening: an operator enters the approved opening ledger,    *)
(* one purchase and a sale for every product that was sold before, beside   *)
(* whatever the administrators have entered.  The entries are found again   *)
(* by their import keys, so a later import adds what is missing and reports *)
(* what differs.  A dry run, and an import with a SKU that the catalogue    *)
(* misses, write nothing and are left out, and so are prices and texts: a   *)
(* purchase has one unit cost here, and a sale none of its own.             *)
(***************************************************************************)
EXTENDS InventoryLedger, FiniteSets

CONSTANTS Opening,       \* of each product: the units bought and sold
          OpeningCost, OpeningDate,
          Purchase       \* the key of the purchase; a sale's is its product

VARIABLES
    keyed,     \* the document with each import key, 0 when there is none
    imported   \* the last step was an import

openingVars == <<vars, keyed, imported>>

Keys == {Purchase} \cup {p \in Products : Opening[p].sold > 0}

(* createdAt is the opening date, and a second later; now is later still.   *)
OpeningDoc(k) ==
    IF k = Purchase
    THEN [kind |-> "purchase", date |-> OpeningDate, created |-> Min(Creations),
          items |-> [p \in Products |-> Opening[p].bought], cost |-> OpeningCost]
    ELSE [kind |-> "sale", date |-> OpeningDate, created |-> Min(Creations) + 1,
          items |-> [NoItems EXCEPT ![k] = Opening[k].sold], cost |-> 0]

(* The approved ledger is a list of rows that the finance records can hold. *)
ASSUME OpeningAssumption ==
    /\ IsFiniteSet(Keys) /\ 0 \notin Documents
    /\ \A k \in Keys : OpeningDoc(k) \in Purchases \cup Sales

OpeningInit == LedgerInit /\ keyed = [k \in Keys |-> 0] /\ imported = FALSE

(* The administrators, who write documents of now.  An entry that they      *)
(* delete takes its key along.                                              *)
Bookkeeping ==
    /\ LedgerNext
    /\ \A w \in Writers : tx'[w].open /\ docs[tx'[w].id].doc = NoDoc => tx'[w].doc.created = Max(Creations)
    /\ keyed' = [k \in Keys |-> IF keyed[k] # 0 /\ docs'[keyed[k]].doc = NoDoc THEN 0 ELSE keyed[k]]
    /\ imported' = FALSE

(* Wrong: an entry that was changed is not found. *)
MissingUnlessSame == {k \in Keys : keyed[k] = 0 \/ docs[keyed[k]].doc # OpeningDoc(k)}
Missing == {k \in Keys : keyed[k] = 0}

Free == {e \in Documents : docs[e].doc = NoDoc /\ \A w \in Writers : ~(tx[w].open /\ tx[w].id = e)}

(* What summarize() compares for every row, with what is compared of the    *)
(* documents themselves: an import reports no mismatch.                     *)
Agrees ==
    /\ docs[keyed[Purchase]].doc.date = OpeningDate
    /\ \A p \in Products :
          LET bought == docs[keyed[Purchase]].doc IN
          /\ bought.items[p] = Opening[p].bought
          /\ bought.cost * bought.items[p] = OpeningCost * Opening[p].bought
    /\ \A k \in Keys \ {Purchase} :
          LET sale == docs[keyed[k]] IN
          /\ sale.doc.date = OpeningDate
          /\ sale.doc.items = [NoItems EXCEPT ![k] = Opening[k].sold]
          /\ sale.snapshot[k] * Opening[k].sold = Grain * OpeningCost * Opening[k].sold

(* The SERIALIZABLE transaction, with the replays of what it enters; too    *)
(* little stock, or a failure anywhere, leaves everything as it is.         *)
Imports ==
    \E ids \in [Missing -> Free] :
       LET at(e) == {k \in Missing : ids[k] = e}
           new == [e \in Documents |-> IF at(e) = {} THEN docs[e].doc ELSE OpeningDoc(CHOOSE k \in at(e) : TRUE)]
           replayed == UNION {Touched(OpeningDoc(k)) : k \in Missing}
           replays == [p \in replayed |-> Replay(new, p)]
       IN  /\ \A j, k \in Missing : ids[j] = ids[k] => j = k
           /\ \A p \in replayed : ~replays[p].short
           /\ docs' = Costed(docs, new, replayed, [p \in replayed |-> replays[p].costs])
           /\ keyed' = [k \in Keys |-> IF k \in Missing THEN ids[k] ELSE keyed[k]]
           /\ imported' = TRUE
           /\ tx' = [w \in Writers |->
                        [tx[w] EXCEPT !.stale = tx[w].open /\ (@ \/ tx[w].products \cap replayed # {})]]

OpeningNext == Bookkeeping \/ Imports

OpeningSpec == OpeningInit /\ [][OpeningNext]_openingVars

-----------------------------------------------------------------------------
(* An import may be repeated at any time: it changes no document that is     *)
(* there and enters none a second time; after one that found the ledger in  *)
(* agreement the next writes nothing; into an empty ledger it enters the    *)
(* approved figures; and whatever was booked before, later and earlier      *)
(* sales have the right costs again afterwards.                             *)
OpeningAsApproved ==
    [][/\ imported' =>
            /\ \A e \in Documents : docs[e].doc # NoDoc => docs'[e].doc = docs[e].doc
            /\ \A k \in Keys : keyed[k] # 0 => keyed'[k] = keyed[k]
            /\ imported /\ Agrees => docs' = docs
            /\ (\A e \in Documents : docs[e].doc = NoDoc) => Agrees'
       /\ imported => SnapshotsCurrent /\ NeverOversold]_openingVars
=============================================================================
