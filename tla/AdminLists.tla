----------------------------- MODULE AdminLists -----------------------------
(***************************************************************************)
(* The list and report pages of the administration, one page at a time: a   *)
(* query in the URL, the request that is out for it, the rows on show, and  *)
(* what is done to them meanwhile, here and by others.  The pages are       *)
(* written one by one and differ where PageKinds says; what they share is   *)
(* named after CatalogListState.  A query is a filter and a page of one     *)
(* row; page 0 stands for one that is no page.  Rows have ids that are      *)
(* never given again.  Lists of choices (categories, suppliers) and the     *)
(* filters as typed, which only a search sends, are left out.               *)
(***************************************************************************)
EXTENDS Naturals, FiniteSets

CONSTANTS Items,    \* the rows there may ever be, numbers in the order of the list
          Filters   \* sets of rows that a filter lets through

ASSUME ListsAssumption == Items \subseteq Nat /\ IsFiniteSet(Items) /\ Filters \subseteq SUBSET Items

VARIABLES
    at,         \* each row: not there yet, there, or deleted
    view,       \* the page
    asked,      \* the requests for rows whose answer the page would take
    changing,   \* the deletions and changes of rows that are under way
    told        \* auxiliary: the rows that the page was told are deleted

listVars == <<at, view, asked, changing, told>>

Nothing == {}   \* no rows on show, not even none

(* What the pages differ in.                                                *)
(*   clears     a load takes the rows off the page                          *)
(*   corrects   a page past the last one sends on to the last one           *)
(*   changes    rows are deleted one at a time ("alone"), or as they are    *)
(*              confirmed ("freely"), or changed where they stand           *)
(*   switches   a row is switched on and off, unless one is being changed   *)
(*   exports    the query on show can be exported                           *)
(*   parses     a page that is no page counts as the first                  *)
(*   paged      there is more than one page                                 *)
PageKind(clears, corrects, changes, exports, parses) ==
    [clears |-> clears, corrects |-> corrects, changes |-> changes, switches |-> FALSE,
     exports |-> exports, parses |-> parses, paged |-> TRUE]

CategoriesAndBrands == PageKind(TRUE, TRUE, "alone", FALSE, TRUE)
ProductList         == PageKind(TRUE, TRUE, "alone", FALSE, TRUE)
FinanceProductList  == PageKind(TRUE, TRUE, "never", FALSE, TRUE)
SupplierList        == PageKind(TRUE, FALSE, "alone", FALSE, TRUE)
SaleList            == PageKind(TRUE, FALSE, "freely", FALSE, TRUE)
PurchaseList        == PageKind(TRUE, FALSE, "freely", FALSE, TRUE)
ExpenseList         == PageKind(FALSE, FALSE, "alone", TRUE, TRUE)
RecurringExpenseList == [PageKind(FALSE, FALSE, "freely", FALSE, FALSE) EXCEPT !.switches = TRUE]
ProfitabilityList   == PageKind(FALSE, FALSE, "never", TRUE, FALSE)
MonthlySummary      == [PageKind(FALSE, FALSE, "never", TRUE, TRUE) EXCEPT !.paged = FALSE]
FinanceDashboardPage == [PageKind(FALSE, FALSE, "never", FALSE, TRUE) EXCEPT !.paged = FALSE]
SandboxPaymentsPage == PageKind(TRUE, FALSE, "in place", FALSE, TRUE)

PageKinds == {CategoriesAndBrands, ProductList, FinanceProductList, SupplierList, SaleList, PurchaseList,
              ExpenseList, RecurringExpenseList, ProfitabilityList, MonthlySummary, FinanceDashboardPage,
              SandboxPaymentsPage}

Queries == [filter : Filters, page : 0..Cardinality(Items)]

(* The query that a page makes of its URL. *)
Parsed(kind, q) ==
    [q EXCEPT !.page = IF ~kind.paged \/ (q.page = 0 /\ kind.parses) THEN 1 ELSE @]

Matching(q) == {i \in q.filter : at[i] = "there"}

(* One row per page, in order; a page that is not paged shows them all.     *)
RowsOf(kind, q) ==
    IF ~kind.paged THEN Matching(q)
    ELSE {i \in Matching(q) : Cardinality({j \in Matching(q) : j < i}) = q.page - 1}

(* Wrong: the older request is not unsubscribed. *)
UnsubscribedNever(pending) == pending
Unsubscribed(pending) == {}

Request(q) == [query |-> q, served |-> FALSE, rows |-> {}, pages |-> 0]

(* load(), for the query q.                                                 *)
Loads(q) ==
    /\ view' = [view EXCEPT !.query = q, !.list = IF view.kind.clears THEN Nothing ELSE @,
                            !.loading = TRUE, !.error = "none", !.failed = FALSE]
    /\ asked' = Unsubscribed(asked) \cup {Request(q)}

ListsInit ==
    /\ at \in [Items -> {"not yet", "there"}]
    /\ \E kind \in PageKinds, q \in Queries :
          LET parsed == Parsed(kind, q) IN
          /\ kind = SandboxPaymentsPage => q = [filter |-> Items, page |-> 1]
          /\ view = [kind |-> kind, query |-> parsed, list |-> Nothing, loading |-> TRUE,
                     error |-> "none", failed |-> FALSE, exporting |-> FALSE]
          /\ asked = {Request(parsed)}
    /\ changing = {} /\ told = {}

-----------------------------------------------------------------------------
(* search(), clear(), page(), a link or the history.  The payments' page     *)
(* has its number for itself, and changes it only when it is at rest.       *)
Navigates ==
    /\ view.kind.changes = "in place" => ~view.loading /\ changing = {}
    /\ \E q \in Queries : Loads(Parsed(view.kind, q))
    /\ UNCHANGED <<at, changing, told>>

(* "Retry", beside the message. *)
Retries ==
    /\ view.error # "none"
    /\ view.kind \in {CategoriesAndBrands, ProductList} => view.error = "load"
    /\ view.kind.changes = "in place" => ~view.loading /\ changing = {}
    /\ Loads(view.query)
    /\ UNCHANGED <<at, changing, told>>

Serves(l) ==
    /\ ~l.served /\ l.query.page # 0
    /\ asked' = (asked \ {l}) \cup
          {[l EXCEPT !.served = TRUE, !.rows = RowsOf(view.kind, l.query), !.pages = Cardinality(Matching(l.query))]}
    /\ UNCHANGED <<at, view, changing, told>>

PastEnd(l) == l.rows = {} /\ l.query.page > 1 /\ l.query.page > l.pages

Arrives(l) ==
    /\ l.served
    /\ IF view.kind.corrects /\ PastEnd(l)
       THEN LET last == IF l.pages = 0 THEN 1 ELSE l.pages IN
            /\ view' = [view EXCEPT !.query.page = last, !.list = Nothing, !.loading = TRUE]
            /\ asked' = Unsubscribed(asked \ {l}) \cup {Request([view.query EXCEPT !.page = last])}
       ELSE /\ view' = [view EXCEPT !.list = {[of |-> l.query, rows |-> l.rows]}, !.loading = FALSE]
            /\ asked' = asked \ {l}
    /\ UNCHANGED <<at, changing, told>>

(* No answer, or an error; a page 0 is refused. *)
LoadFails(l) ==
    /\ view' = [view EXCEPT !.loading = FALSE, !.error = "load", !.failed = TRUE]
    /\ asked' = asked \ {l}
    /\ UNCHANGED <<at, changing, told>>

(* confirmDelete(), toggle(), and what is asked of a payment.               *)
Changes(i, drops) ==
    /\ ~view.loading /\ \E shown \in view.list : i \in shown.rows
    /\ \/ drops /\ view.kind.changes = "alone" /\ changing = {}
       \/ drops /\ view.kind.changes = "freely"
       \/ ~drops /\ (view.kind.switches \/ view.kind.changes = "in place") /\ changing = {}
    /\ changing' = changing \cup {[row |-> i, drops |-> drops, done |-> FALSE]}
    /\ view' = IF view.kind \in {CategoriesAndBrands, ProductList, SandboxPaymentsPage}
               THEN [view EXCEPT !.error = "none"] ELSE view
    /\ UNCHANGED <<at, asked, told>>

Executes(c) ==
    /\ c \in changing /\ ~c.done
    /\ changing' = (changing \ {c}) \cup {[c EXCEPT !.done = TRUE]}
    /\ at' = IF c.drops THEN [at EXCEPT ![c.row] = "deleted"] ELSE at
    /\ UNCHANGED <<view, asked, told>>

(* The list is read again, a payment takes its new state where it stands.   *)
Changed(c) ==
    /\ c.done
    /\ IF view.kind.changes = "in place" THEN UNCHANGED <<view, asked>> ELSE Loads(view.query)
    /\ told' = IF c.drops THEN told \cup {c.row} ELSE told
    /\ changing' = changing \ {c}
    /\ UNCHANGED at

(* Refused, or the answer is lost.  After a refund or a cancellation nobody  *)
(* knows what the list should say.                                          *)
ChangeFails(c) ==
    /\ \E wiped \in BOOLEAN :
          /\ wiped => view.kind.changes = "in place"
          /\ view' = [view EXCEPT !.error = "other", !.list = IF wiped THEN Nothing ELSE @]
    /\ changing' = changing \ {c}
    /\ UNCHANGED <<at, asked, told>>

Exports ==
    /\ view.kind.exports /\ ~view.exporting
    /\ view' = [view EXCEPT !.exporting = TRUE, !.error = "none"]
    /\ UNCHANGED <<at, asked, changing, told>>

ExportEnds ==
    /\ view.exporting
    /\ \E error \in {view.error, "other"} : view' = [view EXCEPT !.exporting = FALSE, !.error = error]
    /\ UNCHANGED <<at, asked, changing, told>>

(* Other administrators, and the shop. *)
Elsewhere(i) ==
    /\ \/ at[i] = "not yet" /\ at' = [at EXCEPT ![i] = "there"]
       \/ at[i] = "there" /\ at' = [at EXCEPT ![i] = "deleted"]
    /\ UNCHANGED <<view, asked, changing, told>>

ListsNext ==
    \/ Navigates \/ Retries \/ Exports \/ ExportEnds
    \/ \E l \in asked : Serves(l) \/ Arrives(l) \/ LoadFails(l)
    \/ \E i \in Items : Elsewhere(i) \/ \E drops \in BOOLEAN : Changes(i, drops)
    \/ \E c \in changing : Executes(c) \/ Changed(c) \/ ChangeFails(c)

ListsSpec == ListsInit /\ [][ListsNext]_listVars

-----------------------------------------------------------------------------
ListsTypeOK ==
    /\ at \in [Items -> {"not yet", "there", "deleted"}]
    /\ view.kind \in PageKinds /\ view.query \in Queries
    /\ view.loading \in BOOLEAN /\ view.exporting \in BOOLEAN /\ view.failed \in BOOLEAN
    /\ view.error \in {"none", "load", "other"}
    /\ \A c \in changing : c.row \in Items
    /\ told \subseteq Items

(* However fast the administrator moves from page to page, and whatever is  *)
(* deleted meanwhile: rows that are on show answer the query in the URL,    *)
(* and no row is among them that the page was told is deleted (load(), with *)
(* the request it unsubscribes).  A page that keeps its rows while it loads *)
(* keeps them also when that fails, under the message, or, once the query   *)
(* was exported, without.                                                   *)
ShownAsAsked ==
    ~view.loading => \A shown \in view.list :
       \/ shown.of = view.query /\ shown.rows \cap told = {}
       \/ view.failed /\ ~view.kind.clears
=============================================================================
