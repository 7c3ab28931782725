---------------------------- MODULE AdminEditors ----------------------------
(***************************************************************************)
(* The editors of the administration: one form in one tab, the requests     *)
(* for its record and for what is saved, and the administrator who goes     *)
(* from record to record meanwhile.  The router makes a new editor for      *)
(* every page, but for a step in the history between two records of a kind, *)
(* where the editor stays.  What matters of a form is whose content it      *)
(* holds, and whether it was edited since.  The checks of the fields and    *)
(* the lists of choices, which only postpone a submission, are left out;    *)
(* so is the expense of a template, whose form cannot be edited.  The       *)
(* images on a product's page are ProductImages'.                           *)
(***************************************************************************)
EXTENDS Naturals, FiniteSets

CONSTANTS Records,   \* of whatever kind
          New, Nobody

ASSUME EditorsAssumption == New \notin Records /\ Nobody \notin Records /\ New # Nobody

VARIABLES
    editor,     \* the editor, of Nobody when there is none
    loads,      \* the records whose detail is asked for, and would be shown
    saves,      \* the submissions that are not answered yet
    stored,     \* the records that exist
    astray      \* auxiliary: the editor did what leaves its form with content
                \* of another record, or without its edits

editorVars == <<editor, loads, saves, stored, astray>>

(* fenced    a load or an answer that was asked for before the last step in *)
(*           the history is dropped, nothing is submitted after a failed    *)
(*           load, and only a failed load can be tried again                *)
(* emptied   the form is emptied on such a step                             *)
(* retries   "Retry" is there also for a new record                         *)
(* options   choices come with a request whose failure offers "Retry"       *)
(* adds      a category can be added beside the form                        *)
CatalogEditor(emptied) ==
    [fenced |-> TRUE, emptied |-> emptied, retries |-> FALSE, options |-> FALSE, adds |-> FALSE]
FinanceEditor(retries, options, adds) ==
    [fenced |-> FALSE, emptied |-> FALSE, retries |-> retries, options |-> options, adds |-> adds]

CategoryEditor == CatalogEditor(FALSE)
BrandEditor    == CatalogEditor(FALSE)
ProductEditor  == CatalogEditor(TRUE)
SaleEditor     == FinanceEditor(FALSE, TRUE, FALSE)
PurchaseEditor == FinanceEditor(FALSE, TRUE, FALSE)
SupplierEditor == FinanceEditor(FALSE, FALSE, FALSE)
ExpenseEditor  == FinanceEditor(TRUE, TRUE, TRUE)
RecurringExpenseEditor == FinanceEditor(TRUE, TRUE, TRUE)

EditorKinds == {CategoryEditor, BrandEditor, ProductEditor, SaleEditor, PurchaseEditor, SupplierEditor,
                ExpenseEditor, RecurringExpenseEditor}

Blank(kind, id) ==
    [kind |-> kind, id |-> id, of |-> New, edited |-> FALSE, loading |-> id # New, saving |-> FALSE,
     error |-> "none"]

NoEditor == [Blank(BrandEditor, New) EXCEPT !.id = Nobody]

EditorsInit ==
    /\ editor = NoEditor /\ loads = {} /\ saves = {} /\ astray = FALSE
    /\ stored \in SUBSET Records

(* A new editor, whose requests are its own. *)
Begin(kind, id) ==
    /\ editor' = Blank(kind, id)
    /\ loads' = {id} \ {New}
    /\ saves' = {}
    /\ astray' = FALSE

Form == editor.id # Nobody /\ ~editor.loading /\ ~(editor.kind.fenced /\ editor.error = "load")

-----------------------------------------------------------------------------
OpensEditor(kind, id) ==
    /\ editor.id = Nobody
    /\ id = New \/ id \in stored
    /\ Begin(kind, id)
    /\ UNCHANGED stored

(* To another page; edits are given up only when the administrator says so. *)
Leaves ==
    /\ editor.id # Nobody
    /\ editor' = NoEditor /\ loads' = {} /\ saves' = {} /\ astray' = FALSE
    /\ UNCHANGED stored

(* Wrong: an answer is taken whoever submitted it. *)
MineAlways(s) == TRUE
Mine(s) == editor.kind.fenced => s.mine

(* A step in the history from one record to another.                        *)
Jumps(id) ==
    /\ editor.id \in Records /\ id \in stored \ {editor.id}
    /\ LET kind == editor.kind IN
       /\ editor' = [editor EXCEPT !.id = id, !.loading = TRUE, !.error = "none",
                                   !.of = IF kind.emptied THEN New ELSE @,
                                   !.edited = @ /\ ~kind.fenced, !.saving = @ /\ ~kind.fenced]
       /\ loads' = {id} \cup (IF kind.fenced THEN {} ELSE loads)
       /\ astray' = ~kind.fenced
    /\ saves' = {[s EXCEPT !.mine = FALSE] : s \in saves}
    /\ UNCHANGED stored

Edits ==
    /\ Form /\ ~editor.saving /\ ~editor.edited
    /\ editor' = [editor EXCEPT !.edited = TRUE]
    /\ UNCHANGED <<loads, saves, stored, astray>>

(* addCategory() was answered, and the form refers to the new category.     *)
CategoryAdded ==
    /\ editor.id # Nobody /\ editor.kind.adds
    /\ \/ editor' = [editor EXCEPT !.edited = TRUE]
       \/ editor' = [editor EXCEPT !.error = "other"]
    /\ astray' = (astray \/ editor.loading)
    /\ UNCHANGED <<loads, saves, stored>>

OptionsFail ==
    /\ editor.id # Nobody /\ editor.kind.options
    /\ editor' = [editor EXCEPT !.error = "other"]
    /\ UNCHANGED <<loads, saves, stored, astray>>

(* submit(); an empty form is not valid.                                    *)
Submits ==
    /\ Form /\ ~editor.saving /\ (editor.of = New => editor.edited)
    /\ editor' = [editor EXCEPT !.saving = TRUE, !.error = "none"]
    /\ saves' = saves \cup {[id |-> editor.id, of |-> editor.of, mine |-> TRUE]}
    /\ UNCHANGED <<loads, stored, astray>>

(* After a creation the router opens the editor of the record.              *)
Saved(s) ==
    \/ /\ s.id = New
       /\ \E r \in Records \ stored : Begin(editor.kind, r) /\ stored' = stored \cup {r}
    \/ /\ s.id # New /\ s.id \in stored
       /\ saves' = saves \ {s}
       /\ editor' = IF Mine(s)
                    THEN [editor EXCEPT !.of = s.id, !.edited = FALSE, !.saving = FALSE]
                    ELSE editor
       /\ UNCHANGED <<loads, stored, astray>>

(* It was refused, or the answer is lost; a record may have been created.   *)
SaveFails(s) ==
    /\ saves' = saves \ {s}
    /\ editor' = IF Mine(s) THEN [editor EXCEPT !.saving = FALSE, !.error = "save"] ELSE editor
    /\ \/ UNCHANGED stored
       \/ s.id = New /\ \E r \in Records \ stored : stored' = stored \cup {r}
    /\ UNCHANGED <<loads, astray>>

Loaded(r) ==
    /\ r \in stored
    /\ loads' = loads \ {r}
    /\ editor' = [editor EXCEPT !.of = r, !.edited = FALSE, !.loading = FALSE]
    /\ UNCHANGED <<saves, stored, astray>>

LoadMissed(r) ==
    /\ loads' = loads \ {r}
    /\ editor' = [editor EXCEPT !.loading = FALSE, !.error = "load"]
    /\ astray' = (astray \/ ~editor.kind.fenced)
    /\ UNCHANGED <<saves, stored>>

(* load() again, with whatever is in the form; without a record the form of *)
(* a new one is emptied.                                                    *)
TriesAgain ==
    /\ editor.id # Nobody /\ editor.error # "none"
    /\ \/ editor.kind.fenced /\ editor.error = "load"
       \/ ~editor.kind.fenced /\ editor.id # New
       \/ editor.kind.retries
    /\ loads' = loads \cup ({editor.id} \ {New})
    /\ editor' = [editor EXCEPT !.error = "none", !.loading = @ \/ editor.id # New,
                                !.edited = @ /\ editor.id # New]
    /\ astray' = (astray \/ ~editor.kind.fenced)
    /\ UNCHANGED <<saves, stored>>

Removed(r) ==
    /\ r \in stored
    /\ stored' = stored \ {r}
    /\ UNCHANGED <<editor, loads, saves, astray>>

EditorsNext ==
    \/ Leaves \/ Edits \/ CategoryAdded \/ OptionsFail \/ Submits \/ TriesAgain
    \/ \E kind \in EditorKinds, id \in Records \cup {New} : OpensEditor(kind, id)
    \/ \E r \in Records : Jumps(r) \/ Removed(r)
    \/ \E r \in loads : Loaded(r) \/ LoadMissed(r)
    \/ \E s \in saves : Saved(s) \/ SaveFails(s)

EditorsSpec == EditorsInit /\ [][EditorsNext]_editorVars

-----------------------------------------------------------------------------
EditorsTypeOK ==
    /\ editor.kind \in EditorKinds /\ editor.id \in Records \cup {New, Nobody}
    /\ editor.of \in Records \cup {New} /\ editor.error \in {"none", "load", "save", "other"}
    /\ editor.edited \in BOOLEAN /\ editor.loading \in BOOLEAN /\ editor.saving \in BOOLEAN
    /\ loads \subseteq Records /\ stored \subseteq Records
    /\ saves \subseteq [id : Records \cup {New}, of : Records \cup {New}, mine : BOOLEAN]

SubmitsItsOwn == \A s \in saves' \ saves : s.of = s.id

EditsLost == editor.edited /\ ~editor'.edited

(* However slow the answers are and wherever the administrator goes: what   *)
(* is submitted for a record is an edit of that record's content, and what  *)
(* was typed goes only with the page, or with the answer to its own save    *)
(* (the generation that submit() keeps, the request that load()             *)
(* unsubscribes).  The editors of finance promise it only until the first   *)
(* step in the history, failed load, "Retry", or category that is added     *)
(* while the record is loaded.                                              *)
SavesOwnRecord ==
    [][~astray /\ ~astray' =>
          /\ SubmitsItsOwn
          /\ EditsLost => \/ editor'.id # editor.id
                          \/ \E s \in saves \ saves' : s.mine /\ s.id = editor.id]_editorVars
=============================================================================
