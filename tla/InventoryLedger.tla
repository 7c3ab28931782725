--------------------------- MODULE InventoryLedger ---------------------------
(***************************************************************************)
(* PurchasesService and SalesService over InventoryLedgerService: a write  *)
(* reads the ledger of the products it touches, replays it with the        *)
(* proposed document, and stores document and unit costs, all in one       *)
(* SERIALIZABLE transaction.  Of two that read the same product and write  *)
(* it, the database lets one commit.                                       *)
(***************************************************************************)
EXTENDS StockBook

CONSTANT Writers

VARIABLE tx   \* the transaction each writer has open

vars == <<docs, tx>>

Closed == [open |-> FALSE, id |-> 0, doc |-> NoDoc, products |-> {}, costs |-> <<>>, stale |-> FALSE]

LedgerInit == Init /\ tx = [w \in Writers |-> Closed]

Touched(x) == {p \in Products : x.items[p] > 0}

(* Wrong: an update replays only the products it now has. *)
AffectedNow(e, x) == IF x = NoDoc THEN Touched(docs[e].doc) ELSE Touched(x)

(* The products of the document as it was and as it will be. *)
Affected(e, x) == Touched(docs[e].doc) \cup Touched(x)

(* The transaction up to its writes.  A document in creation has an id of   *)
(* its own; too little stock refuses the request.                           *)
Prepare(w, e, x) ==
    LET new == [Contents(docs) EXCEPT ![e] = x]
        replays == [p \in Affected(e, x) |-> Replay(new, p)]
    IN  /\ ~tx[w].open
        /\ docs[e].doc = NoDoc => \A v \in Writers : ~(tx[v].open /\ tx[v].id = e)
        /\ \A p \in Affected(e, x) : ~replays[p].short
        /\ tx' = [tx EXCEPT ![w] = [open |-> TRUE, id |-> e, doc |-> x, products |-> Affected(e, x),
                                    costs |-> [p \in Affected(e, x) |-> replays[p].costs], stale |-> FALSE]]
        /\ UNCHANGED docs

(* Wrong: the transaction is not SERIALIZABLE. *)
ConflictsNever(w, v) == FALSE

(* What the commit of w means to v, which has read the same product. *)
Conflicts(w, v) == tx[v].open /\ tx[v].products \cap tx[w].products # {}

(* The document, and the costs of every sale of the replayed products. *)
Written(w) ==
    Costed(docs, [Contents(docs) EXCEPT ![tx[w].id] = tx[w].doc], tx[w].products, tx[w].costs)

Commit(w) ==
    /\ tx[w].open /\ ~tx[w].stale
    /\ docs' = Written(w)
    /\ tx' = [v \in Writers |-> IF v = w THEN Closed
                                ELSE [tx[v] EXCEPT !.stale = @ \/ Conflicts(w, v)]]

(* The other of the two, or any failure: nothing is stored. *)
Abort(w) == tx[w].open /\ tx' = [tx EXCEPT ![w] = Closed] /\ UNCHANGED docs

LedgerNext ==
    \E w \in Writers :
       \/ \E e \in Documents : \E x \in Proposed(e) : Prepare(w, e, x)
       \/ Commit(w)
       \/ Abort(w)

LedgerSpec == LedgerInit /\ [][LedgerNext]_vars
=============================================================================
