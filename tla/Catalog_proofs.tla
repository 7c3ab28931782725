--------------------------- MODULE Catalog_proofs ---------------------------
(***************************************************************************)
(* The catalog's administration, for any number of records, categories,    *)
(* images, calls and requests.  An editor submits only what was typed for  *)
(* its record, and a list shows only rows that answer the query in the     *)
(* URL; the tree of categories stays a tree, whatever requests meet; and   *)
(* the images of a product fit their files and their page.                 *)
(***************************************************************************)
EXTENDS CatalogTree, ProductImages, AdminEditors, AdminLists, FiniteSetTheorems, TLAPS

-----------------------------------------------------------------------------
(* The editors.  While nothing has led the form astray: it is open only     *)
(* with its own record's content, it waits for that record alone, nothing   *)
(* typed is in it meanwhile, and no save of its own is under way.           *)
Waits == editor.loading \/ (editor.kind.fenced /\ editor.error = "load")

OwnForm ==
    /\ loads \subseteq {editor.id} \ {New}
    /\ loads # {} => editor.loading
    /\ Waits => ~editor.edited /\ \A s \in saves : ~s.mine
    /\ Form => editor.of = editor.id
    /\ editor.error = "load" => editor.kind.fenced /\ editor.id # New

OwnSaves ==
    \A s \in saves : /\ s.of = s.id
                     /\ ~editor.kind.fenced => s.mine
                     /\ s.mine => s.id = editor.id
                     /\ s.id = New => editor.id = New

Fields == editor \in [kind : EditorKinds, id : Records \cup {New, Nobody}, of : Records \cup {New},
                      edited : BOOLEAN, loading : BOOLEAN, saving : BOOLEAN,
                      error : {"none", "load", "save", "other"}]

EditorsInv ==
    /\ EditorsTypeOK /\ Fields /\ astray \in BOOLEAN
    /\ editor.kind.fenced => ~astray
    /\ astray \/ (OwnForm /\ OwnSaves)

USE EditorsAssumption

LEMMA KindFlags ==
    ASSUME NEW kind \in EditorKinds
    PROVE  /\ kind \in [fenced : BOOLEAN, emptied : BOOLEAN, retries : BOOLEAN,
                        options : BOOLEAN, adds : BOOLEAN]
           /\ kind.fenced => ~kind.retries /\ ~kind.options /\ ~kind.adds
<1>1. CASE \E b \in BOOLEAN : kind = CatalogEditor(b)
  BY <1>1 DEF CatalogEditor
<1>2. CASE \E r, o, a \in BOOLEAN : kind = FinanceEditor(r, o, a)
  BY <1>2 DEF FinanceEditor
<1>3. kind \in {CatalogEditor(FALSE), CatalogEditor(TRUE), FinanceEditor(FALSE, TRUE, FALSE),
               FinanceEditor(FALSE, FALSE, FALSE), FinanceEditor(TRUE, TRUE, TRUE)}
  BY Zenon DEF EditorKinds, CategoryEditor, BrandEditor, ProductEditor, SaleEditor, PurchaseEditor,
               SupplierEditor, ExpenseEditor, RecurringExpenseEditor
<1> QED
  BY <1>1, <1>2, <1>3

LEMMA FreshEditor ==
    ASSUME NEW kind \in EditorKinds, NEW id \in Records \cup {New},
           Begin(kind, id), stored' \subseteq Records
    PROVE  EditorsInv' /\ SubmitsItsOwn /\ ~editor'.edited
<1>1. editor' = Blank(kind, id) /\ loads' = {id} \ {New} /\ saves' = {} /\ astray' = FALSE
  BY DEF Begin
<1>2. EditorsTypeOK' /\ Fields'
  BY <1>1 DEF EditorsTypeOK, Fields, Blank
<1>3. OwnForm' /\ OwnSaves' /\ SubmitsItsOwn /\ ~editor'.edited
  BY <1>1, KindFlags DEF OwnForm, OwnSaves, Waits, Form, Blank, SubmitsItsOwn
<1> QED
  BY <1>1, <1>2, <1>3 DEF EditorsInv

LEMMA EditorsStart == EditorsInit => EditorsInv
<1> SUFFICES ASSUME EditorsInit PROVE EditorsInv
  OBVIOUS
<1>1. BrandEditor \in EditorKinds
  BY DEF EditorKinds
<1>2. editor = [kind |-> BrandEditor, id |-> Nobody, of |-> New, edited |-> FALSE, loading |-> FALSE,
                saving |-> FALSE, error |-> "none"]
  BY DEF EditorsInit, NoEditor, Blank
<1>3. loads = {} /\ saves = {} /\ astray = FALSE /\ stored \subseteq Records
  BY DEF EditorsInit
<1>4. EditorsTypeOK /\ Fields
  BY <1>1, <1>2, <1>3 DEF EditorsTypeOK, Fields
<1>5. OwnForm /\ OwnSaves
  BY <1>2, <1>3 DEF OwnForm, OwnSaves, Waits, Form
<1> QED
  BY <1>3, <1>4, <1>5 DEF EditorsInv

(* Both clauses of SavesOwnRecord, of one step. *)
OwnStep ==
    ~astray /\ ~astray' =>
       /\ SubmitsItsOwn
       /\ EditsLost => \/ editor'.id # editor.id
                       \/ \E s \in saves \ saves' : s.mine /\ s.id = editor.id

LEMMA EditorStep == ASSUME EditorsInv, EditorsNext PROVE EditorsInv' /\ OwnStep
<1> USE DEF EditorsInv
<1> DEFINE Kept == UNCHANGED <<loads, saves, stored, astray>>
<1>t. EditorsTypeOK /\ Fields
  OBVIOUS
<1>k. editor.kind \in EditorKinds
  BY <1>t DEF Fields
<1>f. editor.kind.fenced \in BOOLEAN /\ (editor.kind.fenced => ~editor.kind.retries /\ ~editor.kind.options /\ ~editor.kind.adds)
  BY <1>k, KindFlags
<1>1. CASE Leaves
  <2>1. editor' = [kind |-> BrandEditor, id |-> Nobody, of |-> New, edited |-> FALSE, loading |-> FALSE,
                   saving |-> FALSE, error |-> "none"]
    BY <1>1 DEF Leaves, NoEditor, Blank
  <2>2. BrandEditor \in EditorKinds
    BY DEF EditorKinds
  <2>3. EditorsTypeOK' /\ Fields' /\ OwnForm' /\ OwnSaves'
    BY <1>1, <1>t, <2>1, <2>2 DEF Leaves, EditorsTypeOK, Fields, OwnForm, OwnSaves, Waits, Form
  <2>4. astray' = FALSE /\ saves' = {} /\ editor'.id # editor.id
    BY <1>1, <2>1 DEF Leaves
  <2> QED
    BY <2>3, <2>4 DEF OwnStep, SubmitsItsOwn
<1>2. CASE Edits
  <2>1. editor' = [editor EXCEPT !.edited = TRUE] /\ Kept /\ Form /\ ~editor.edited
    BY <1>2 DEF Edits
  <2>2. EditorsTypeOK' /\ Fields'
    BY <1>t, <2>1 DEF EditorsTypeOK, Fields
  <2>3. ~astray => OwnForm' /\ OwnSaves'
    BY <1>t, <2>1 DEF OwnForm, OwnSaves, Waits, Form, Fields
  <2> QED
    BY <1>t, <2>1, <2>2, <2>3 DEF OwnStep, SubmitsItsOwn, EditsLost, Fields
<1>3. CASE CategoryAdded
  <2>1. /\ ~editor.kind.fenced /\ astray' = (astray \/ editor.loading)
        /\ UNCHANGED <<loads, saves, stored>>
        /\ editor' = [editor EXCEPT !.edited = TRUE] \/ editor' = [editor EXCEPT !.error = "other"]
    BY <1>3, <1>f DEF CategoryAdded
  <2>2. EditorsTypeOK' /\ Fields' /\ astray' \in BOOLEAN
    BY <1>t, <2>1 DEF EditorsTypeOK, Fields
  <2>3. ~astray' => OwnForm' /\ OwnSaves'
    BY <1>t, <2>1 DEF OwnForm, OwnSaves, Waits, Form, Fields
  <2>4. OwnStep
    BY <1>t, <2>1 DEF OwnStep, SubmitsItsOwn, EditsLost, Fields
  <2> QED
    BY <1>t, <2>1, <2>2, <2>3, <2>4 DEF Fields
<1>4. CASE OptionsFail
  <2>1. ~editor.kind.fenced /\ editor' = [editor EXCEPT !.error = "other"] /\ Kept
    BY <1>4, <1>f DEF OptionsFail
  <2>2. EditorsTypeOK' /\ Fields'
    BY <1>t, <2>1 DEF EditorsTypeOK, Fields
  <2>3. ~astray => OwnForm' /\ OwnSaves'
    BY <1>t, <2>1 DEF OwnForm, OwnSaves, Waits, Form, Fields
  <2> QED
    BY <1>t, <2>1, <2>2, <2>3 DEF OwnStep, SubmitsItsOwn, EditsLost, Fields
<1>5. CASE Submits
  <2>1. /\ Form
        /\ editor' = [editor EXCEPT !.saving = TRUE, !.error = "none"]
        /\ saves' = saves \cup {[id |-> editor.id, of |-> editor.of, mine |-> TRUE]}
        /\ UNCHANGED <<loads, stored, astray>>
    BY <1>5 DEF Submits
  <2>2. editor.id \in Records \cup {New}
    BY <1>t, <2>1 DEF Form, Fields
  <2>3. EditorsTypeOK' /\ Fields'
    <3>1. [id |-> editor.id, of |-> editor.of, mine |-> TRUE]
             \in [id : Records \cup {New}, of : Records \cup {New}, mine : BOOLEAN]
      BY <1>t, <2>2 DEF Fields
    <3>2. saves' \subseteq [id : Records \cup {New}, of : Records \cup {New}, mine : BOOLEAN]
      BY <1>t, <2>1, <3>1 DEF EditorsTypeOK
    <3>3. Fields'
      BY <1>t, <2>1 DEF Fields
    <3> QED
      BY <1>t, <2>1, <3>2, <3>3 DEF EditorsTypeOK, Fields
  <2>4. ~astray => OwnForm' /\ OwnSaves' /\ SubmitsItsOwn
    BY <1>t, <2>1 DEF OwnForm, OwnSaves, Waits, Form, Fields, SubmitsItsOwn
  <2> QED
    BY <1>t, <2>1, <2>3, <2>4 DEF OwnStep, EditsLost, Fields
<1>6. CASE TriesAgain
  <2>1. /\ loads' = loads \cup ({editor.id} \ {New})
        /\ editor' = [editor EXCEPT !.error = "none", !.loading = @ \/ editor.id # New,
                                    !.edited = @ /\ editor.id # New]
        /\ astray' = (astray \/ ~editor.kind.fenced)
        /\ UNCHANGED <<saves, stored>> /\ editor.id # Nobody
    BY <1>6 DEF TriesAgain
  <2>2. EditorsTypeOK' /\ Fields' /\ astray' \in BOOLEAN
    BY <1>t, <1>f, <2>1 DEF EditorsTypeOK, Fields
  <2>3. editor.kind.fenced => editor.error = "load"
    BY <1>6, <1>f DEF TriesAgain
  <2>4. ~astray' => OwnForm' /\ OwnSaves' /\ ~editor.edited
    BY <1>t, <2>1, <2>3 DEF OwnForm, OwnSaves, Waits, Form, Fields
  <2>5. OwnStep
    BY <1>t, <2>1, <2>4 DEF OwnStep, SubmitsItsOwn, EditsLost, Fields
  <2> QED
    BY <1>t, <2>1, <2>2, <2>4, <2>5 DEF Fields
<1>7. ASSUME NEW kind \in EditorKinds, NEW id \in Records \cup {New}, OpensEditor(kind, id)
      PROVE  EditorsInv' /\ OwnStep
  <2>1. EditorsInv' /\ SubmitsItsOwn /\ editor'.id # editor.id
    BY <1>7, <1>t, FreshEditor DEF OpensEditor, EditorsTypeOK, Begin, Blank
  <2> QED
    BY <2>1 DEF OwnStep
<1>8. ASSUME NEW r \in Records, Jumps(r) PROVE EditorsInv' /\ OwnStep
  <2>1. /\ editor.id \in Records /\ r # editor.id
        /\ editor' = [editor EXCEPT !.id = r, !.loading = TRUE, !.error = "none",
                                    !.of = IF editor.kind.emptied THEN New ELSE @,
                                    !.edited = @ /\ ~editor.kind.fenced, !.saving = @ /\ ~editor.kind.fenced]
        /\ loads' = {r} \cup (IF editor.kind.fenced THEN {} ELSE loads)
        /\ astray' = ~editor.kind.fenced
        /\ saves' = {[s EXCEPT !.mine = FALSE] : s \in saves} /\ UNCHANGED stored
    BY <1>8 DEF Jumps
  <2>2. saves' \subseteq [id : Records \cup {New}, of : Records \cup {New}, mine : BOOLEAN]
    BY <1>t, <2>1 DEF EditorsTypeOK
  <2>3. Fields'
    BY <1>t, <1>f, <2>1 DEF Fields
  <2>4. EditorsTypeOK'
    BY <1>t, <2>1, <2>2, <2>3 DEF EditorsTypeOK, Fields
  <2>5. editor.kind.fenced => OwnForm'
    BY <1>t, <1>f, <2>1 DEF OwnForm, Waits, Form, Fields, EditorsTypeOK
  <2>6. editor.kind.fenced => OwnSaves'
    <3>1. SUFFICES ASSUME editor.kind.fenced, NEW s \in saves' 
                   PROVE  ~s.mine /\ s.id # New /\ s.of = s.id
      BY <1>t, <2>1 DEF OwnSaves, Fields
    <3>2. PICK o \in saves : s = [o EXCEPT !.mine = FALSE]
      BY <2>1
    <3>3. ~astray /\ editor.id # New
      BY <2>1, <3>1
    <3> QED
      BY <1>t, <3>2, <3>3 DEF OwnSaves, EditorsTypeOK
  <2>7. editor'.id # editor.id /\ editor'.kind = editor.kind
    BY <1>t, <2>1 DEF Fields
  <2>8. ~astray' => SubmitsItsOwn
    BY <1>f, <2>1, <2>6 DEF SubmitsItsOwn, OwnSaves
  <2> QED
    BY <1>f, <2>1, <2>3, <2>4, <2>5, <2>6, <2>7, <2>8 DEF OwnStep
<1>9. ASSUME NEW r \in Records, Removed(r) PROVE EditorsInv' /\ OwnStep
  <2>1. UNCHANGED <<editor, loads, saves, astray>> /\ stored' \subseteq Records
    BY <1>9, <1>t DEF Removed, EditorsTypeOK
  <2>2. EditorsTypeOK' /\ Fields' /\ (OwnForm' <=> OwnForm) /\ (OwnSaves' <=> OwnSaves)
    BY <1>t, <2>1 DEF EditorsTypeOK, Fields, OwnForm, OwnSaves, Waits, Form
  <2> QED
    BY <2>1, <2>2 DEF OwnStep, SubmitsItsOwn, EditsLost
<1>10. ASSUME NEW r \in loads, Loaded(r) PROVE EditorsInv' /\ OwnStep
  <2>1. /\ r \in Records /\ loads' = loads \ {r}
        /\ editor' = [editor EXCEPT !.of = r, !.edited = FALSE, !.loading = FALSE]
        /\ UNCHANGED <<saves, stored, astray>>
    BY <1>10, <1>t DEF Loaded, EditorsTypeOK
  <2>2. EditorsTypeOK' /\ Fields'
    BY <1>t, <2>1 DEF EditorsTypeOK, Fields
  <2>3. ~astray => OwnForm' /\ OwnSaves' /\ ~editor.edited
    BY <1>t, <2>1 DEF OwnForm, OwnSaves, Waits, Form, Fields
  <2> QED
    BY <1>t, <2>1, <2>2, <2>3 DEF OwnStep, SubmitsItsOwn, EditsLost, Fields
<1>11. ASSUME NEW r \in loads, LoadMissed(r) PROVE EditorsInv' /\ OwnStep
  <2>1. /\ r \in Records /\ loads' = loads \ {r}
        /\ editor' = [editor EXCEPT !.loading = FALSE, !.error = "load"]
        /\ astray' = (astray \/ ~editor.kind.fenced)
        /\ UNCHANGED <<saves, stored>>
    BY <1>11, <1>t DEF LoadMissed, EditorsTypeOK
  <2>2. EditorsTypeOK' /\ Fields' /\ astray' \in BOOLEAN
    BY <1>t, <1>f, <2>1 DEF EditorsTypeOK, Fields
  <2>3. ~astray' => OwnForm' /\ OwnSaves'
    BY <1>t, <2>1 DEF OwnForm, OwnSaves, Waits, Form, Fields
  <2> QED
    BY <1>t, <2>1, <2>2, <2>3 DEF OwnStep, SubmitsItsOwn, EditsLost, Fields
<1>12. ASSUME NEW s \in saves, Saved(s) PROVE EditorsInv' /\ OwnStep
  <2>1. CASE /\ s.id = New
             /\ \E r \in Records \ stored : Begin(editor.kind, r) /\ stored' = stored \cup {r}
    <3>1. PICK r \in Records \ stored : Begin(editor.kind, r) /\ stored' = stored \cup {r}
      BY <2>1
    <3>2. EditorsInv' /\ SubmitsItsOwn /\ editor'.id = r
      BY <1>t, <1>k, <3>1, FreshEditor DEF EditorsTypeOK, Begin, Blank
    <3>3. ~astray => editor.id = New
      BY <2>1 DEF OwnSaves
    <3> QED
      BY <3>2, <3>3 DEF OwnStep
  <2>2. CASE /\ s.id # New /\ s.id \in stored /\ saves' = saves \ {s}
             /\ editor' = IF Mine(s) THEN [editor EXCEPT !.of = s.id, !.edited = FALSE, !.saving = FALSE]
                          ELSE editor
             /\ UNCHANGED <<loads, stored, astray>>
    <3>1. EditorsTypeOK' /\ Fields'
      BY <1>t, <2>2 DEF EditorsTypeOK, Fields
    <3>2. ~astray => OwnForm' /\ OwnSaves'
      BY <1>t, <2>2 DEF OwnForm, OwnSaves, Waits, Form, Fields, Mine
    <3>3. ~astray /\ editor' # editor => s.mine /\ s.id = editor.id /\ s \in saves \ saves'
      BY <2>2 DEF OwnSaves, Mine
    <3> QED
      BY <1>t, <2>2, <3>1, <3>2, <3>3 DEF OwnStep, SubmitsItsOwn, EditsLost, Fields
  <2> QED
    BY <1>12, <2>1, <2>2 DEF Saved
<1>13. ASSUME NEW s \in saves, SaveFails(s) PROVE EditorsInv' /\ OwnStep
  <2>1. /\ saves' = saves \ {s} /\ stored' \subseteq Records
        /\ editor' = IF Mine(s) THEN [editor EXCEPT !.saving = FALSE, !.error = "save"] ELSE editor
        /\ UNCHANGED <<loads, astray>>
    BY <1>13, <1>t DEF SaveFails, EditorsTypeOK
  <2>2. EditorsTypeOK' /\ Fields'
    BY <1>t, <2>1 DEF EditorsTypeOK, Fields
  <2>3. ~astray => OwnForm' /\ OwnSaves'
    BY <1>t, <2>1 DEF OwnForm, OwnSaves, Waits, Form, Fields, Mine
  <2> QED
    BY <1>t, <2>1, <2>2, <2>3 DEF OwnStep, SubmitsItsOwn, EditsLost, Fields
<1> QED
  BY <1>1, <1>2, <1>3, <1>4, <1>5, <1>6, <1>7, <1>8, <1>9, <1>10, <1>11, <1>12, <1>13, <1>t
  DEF EditorsNext, EditorsTypeOK

LEMMA EditorStutters == ASSUME EditorsInv, UNCHANGED editorVars PROVE EditorsInv'
  BY DEF editorVars, EditorsInv, EditorsTypeOK, Fields, OwnForm, OwnSaves, Waits, Form

(* The inductive invariant of the editors.                                  *)
THEOREM EditorsInvariant == EditorsSpec => []EditorsInv
<1>1. EditorsInv /\ [EditorsNext]_editorVars => EditorsInv'
  BY EditorStep, EditorStutters
<1> QED
  BY <1>1, EditorsStart, PTL DEF EditorsSpec

(* Whatever is submitted for a record is an edit of that record, and what   *)
(* was typed goes only with the page or its own save (submit(), load()).    *)
THEOREM OwnRecordSaved == EditorsSpec => SavesOwnRecord
<1>1. EditorsInv /\ [EditorsNext]_editorVars => [OwnStep]_editorVars
  BY EditorStep
<1> QED
  BY <1>1, EditorsInvariant, PTL DEF EditorsSpec, SavesOwnRecord, OwnStep

-----------------------------------------------------------------------------
(* The lists.  One request is out at most, for the query on show; what was  *)
(* served has no row that the page was told is deleted, for those are gone  *)
(* for good; and a page that takes its rows off has none while it loads.    *)
Wanted == [filter : Filters, page : Nat]

Views == [kind : PageKinds, query : Wanted, list : SUBSET [of : Wanted, rows : SUBSET Items],
          loading : BOOLEAN, error : {"none", "load", "other"}, failed : BOOLEAN, exporting : BOOLEAN]

ListsTypes ==
    /\ at \in [Items -> {"not yet", "there", "deleted"}] /\ told \subseteq Items
    /\ view \in Views
    /\ asked \subseteq [query : Wanted, served : BOOLEAN, rows : SUBSET Items, pages : Nat]
    /\ changing \subseteq [row : Items, drops : BOOLEAN, done : BOOLEAN]

OneAsked ==
    /\ \A l, m \in asked : l = m
    /\ \A l \in asked : l.query = view.query /\ (l.served => l.rows \cap told = {})
    /\ asked # {} => view.loading

GoneForGood ==
    /\ \A i \in told : at[i] = "deleted"
    /\ \A c \in changing : /\ c.done /\ c.drops => at[c.row] = "deleted"
                           /\ c.drops => view.kind.changes # "in place"

ListsInv ==
    /\ ListsTypes /\ OneAsked /\ GoneForGood
    /\ view.kind.clears /\ view.loading => view.list = Nothing
    /\ ShownAsAsked

USE ListsAssumption

LEMMA ParsedType == ASSUME NEW kind, NEW q \in Queries PROVE Parsed(kind, q) \in Wanted
<1>1. Cardinality(Items) \in Nat
  BY FS_CardinalityType
<1> QED
  BY <1>1 DEF Parsed, Queries, Wanted

LEMMA RequestType ==
    ASSUME NEW q \in Wanted
    PROVE  /\ Request(q) \in [query : Wanted, served : BOOLEAN, rows : SUBSET Items, pages : Nat]
           /\ Request(q).query = q /\ ~Request(q).served
  BY DEF Request

LEMMA ListsStart == ListsInit => ListsInv
<1> SUFFICES ASSUME ListsInit PROVE ListsInv
  OBVIOUS
<1>1. PICK kind \in PageKinds, q \in Queries :
        /\ view = [kind |-> kind, query |-> Parsed(kind, q), list |-> Nothing, loading |-> TRUE,
                   error |-> "none", failed |-> FALSE, exporting |-> FALSE]
        /\ asked = {Request(Parsed(kind, q))}
  BY DEF ListsInit
<1>2. changing = {} /\ told = {} /\ at \in [Items -> {"not yet", "there", "deleted"}]
  BY DEF ListsInit
<1>3. view.list = {} /\ view.loading /\ view.query = Parsed(kind, q)
  BY <1>1 DEF Nothing
<1>4. ListsTypes
  BY <1>1, <1>2, ParsedType, RequestType DEF ListsTypes, Nothing, Views
<1>5. OneAsked
  BY <1>1, <1>3, ParsedType, RequestType DEF OneAsked
<1> QED
  BY <1>2, <1>3, <1>4, <1>5 DEF ListsInv, GoneForGood, ShownAsAsked, Nothing

(* load() leaves nothing that could be shown under another query.           *)
LEMMA LoadsAfresh ==
    ASSUME ListsInv, NEW q \in Wanted, Loads(q), UNCHANGED at, changing' \subseteq changing,
           \A i \in told' : i \in Items /\ at[i] = "deleted"
    PROVE  ListsInv'
<1>1. view' = [view EXCEPT !.query = q, !.list = IF view.kind.clears THEN Nothing ELSE @,
                           !.loading = TRUE, !.error = "none", !.failed = FALSE]
  BY DEF Loads
<1>2. asked' = {Request(q)}
  BY DEF Loads, Unsubscribed
<1>3. ListsTypes
  BY DEF ListsInv
<1>4. /\ view'.query = q /\ view'.loading = TRUE /\ view'.kind = view.kind
      /\ view'.list = IF view.kind.clears THEN Nothing ELSE view.list
  BY <1>1, <1>3 DEF ListsTypes, Views
<1>5. ListsTypes'
  BY <1>1, <1>2, <1>3, RequestType DEF ListsTypes, Nothing, Views
<1>6. OneAsked'
  BY <1>2, <1>4, RequestType DEF OneAsked
<1>7. GoneForGood'
  BY <1>4 DEF GoneForGood, ListsInv
<1> QED
  BY <1>4, <1>5, <1>6, <1>7 DEF ListsInv, ShownAsAsked

(* Only the messages change.                                                *)
LEMMA MessagesOnly ==
    ASSUME ListsInv, NEW e \in {"none", "load", "other"}, NEW x \in BOOLEAN,
           view' = [view EXCEPT !.error = e, !.exporting = x],
           UNCHANGED <<at, asked, told>>, changing' = changing
    PROVE  ListsInv'
<1>1. /\ view'.query = view.query /\ view'.loading = view.loading /\ view'.kind = view.kind
      /\ view'.list = view.list /\ view'.failed = view.failed
  BY DEF ListsInv, ListsTypes, Views
<1>2. ListsTypes'
  BY DEF ListsInv, ListsTypes, Views
<1> QED
  BY <1>1, <1>2 DEF ListsInv, OneAsked, GoneForGood, ShownAsAsked

LEMMA ListStep == ASSUME ListsInv, ListsNext PROVE ListsInv'
<1> USE DEF ListsInv
<1>t. ListsTypes /\ OneAsked /\ GoneForGood
  OBVIOUS
<1>g. \A i \in told : i \in Items /\ at[i] = "deleted"
  BY <1>t DEF ListsTypes, GoneForGood, Views
<1>q. view.query \in Wanted
  BY <1>t DEF ListsTypes, Views
<1>1. CASE Navigates
  <2>1. PICK q \in Queries : Loads(Parsed(view.kind, q))
    BY <1>1 DEF Navigates
  <2> QED
    BY <1>1, <1>g, <2>1, LoadsAfresh, ParsedType DEF Navigates
<1>2. CASE Retries
  BY <1>2, <1>g, <1>q, LoadsAfresh DEF Retries
<1>3. CASE Exports
  <2>1. view' = [view EXCEPT !.error = "none", !.exporting = TRUE]
    BY <1>3, <1>t DEF Exports, ListsTypes, Views
  <2> QED
    BY <1>3, <2>1, MessagesOnly DEF Exports
<1>4. CASE ExportEnds
  <2>1. PICK e \in {view.error, "other"} : view' = [view EXCEPT !.exporting = FALSE, !.error = e]
    BY <1>4 DEF ExportEnds
  <2>2. e \in {"none", "load", "other"} /\ view' = [view EXCEPT !.error = e, !.exporting = FALSE]
    BY <1>t, <2>1 DEF ListsTypes, Views
  <2> QED
    BY <1>4, <2>2, MessagesOnly DEF ExportEnds
<1>5. ASSUME NEW l \in asked, Serves(l) PROVE ListsInv'
  <2> DEFINE rows == RowsOf(view.kind, l.query)
             pages == Cardinality(Matching(l.query))
             s == [l EXCEPT !.served = TRUE, !.rows = rows, !.pages = pages]
  <2>1. asked' = {s} /\ UNCHANGED <<at, view, changing, told>>
    BY <1>5, <1>t DEF Serves, OneAsked
  <2>2. /\ l \in [query : Wanted, served : BOOLEAN, rows : SUBSET Items, pages : Nat]
        /\ l.query.filter \subseteq Items /\ l.query = view.query /\ view.loading
    BY <1>t DEF ListsTypes, Wanted, OneAsked, Views
  <2>3. Matching(l.query) \subseteq Items /\ rows \subseteq Matching(l.query)
    BY <2>2 DEF RowsOf, Matching
  <2>4. pages \in Nat
    BY <2>3, FS_Subset, FS_CardinalityType
  <2>5. rows \cap told = {}
    BY <1>g, <2>3 DEF Matching
  <2> HIDE DEF rows, pages
  <2>6. s \in [query : Wanted, served : BOOLEAN, rows : SUBSET Items, pages : Nat]
        /\ s.query = l.query /\ s.rows = rows
    BY <2>2, <2>3, <2>4
  <2>7. ListsTypes' /\ OneAsked'
    BY <1>t, <2>1, <2>2, <2>5, <2>6 DEF ListsTypes, OneAsked, Views
  <2> QED
    BY <1>t, <2>1, <2>7 DEF GoneForGood, ShownAsAsked
<1>6. ASSUME NEW l \in asked, Arrives(l) PROVE ListsInv'
  <2>1. l.served /\ l.query = view.query /\ l.rows \cap told = {} /\ asked \ {l} = {}
    BY <1>6, <1>t DEF Arrives, OneAsked
  <2>2. /\ UNCHANGED <<at, changing, told>>
        /\ l \in [query : Wanted, served : BOOLEAN, rows : SUBSET Items, pages : Nat]
    BY <1>6, <1>t DEF Arrives, ListsTypes, Views
  <2>3. CASE view.kind.corrects /\ PastEnd(l)
    <3> DEFINE last == IF l.pages = 0 THEN 1 ELSE l.pages
    <3>1. /\ view' = [view EXCEPT !.query.page = last, !.list = Nothing, !.loading = TRUE]
          /\ asked' = {Request([view.query EXCEPT !.page = last])}
      BY <1>6, <2>1, <2>3 DEF Arrives, Unsubscribed
    <3>2. last \in Nat /\ [view.query EXCEPT !.page = last] \in Wanted
      BY <1>q, <2>2 DEF Wanted
    <3>3. /\ view'.query = [view.query EXCEPT !.page = last] /\ view'.list = {}
          /\ view'.loading = TRUE /\ view'.kind = view.kind
      BY <1>t, <3>1 DEF ListsTypes, Nothing, Views
    <3>4. view' \in Views
      BY <1>t, <3>1, <3>2 DEF ListsTypes, Views, Nothing
    <3>5. ListsTypes'
      BY <1>t, <2>2, <3>1, <3>2, <3>4, RequestType DEF ListsTypes
    <3>6. OneAsked'
      BY <3>1, <3>2, <3>3, RequestType DEF OneAsked
    <3> QED
      BY <1>t, <2>2, <3>3, <3>5, <3>6 DEF GoneForGood, ShownAsAsked, Nothing
  <2>4. CASE ~(view.kind.corrects /\ PastEnd(l))
    <3>1. /\ view' = [view EXCEPT !.list = {[of |-> l.query, rows |-> l.rows]}, !.loading = FALSE]
          /\ asked' = {}
      BY <1>6, <2>1, <2>4 DEF Arrives
    <3>2. /\ view'.query = view.query /\ view'.list = {[of |-> l.query, rows |-> l.rows]}
          /\ view'.loading = FALSE /\ view'.kind = view.kind
      BY <1>t, <3>1 DEF ListsTypes, Views
    <3>3. [of |-> l.query, rows |-> l.rows] \in [of : Wanted, rows : SUBSET Items]
      BY <2>2
    <3>4. view' \in Views
      BY <1>t, <3>1, <3>3 DEF ListsTypes, Views
    <3>5. ListsTypes'
      BY <1>t, <2>2, <3>1, <3>4 DEF ListsTypes
    <3>6. OneAsked' /\ GoneForGood'
      BY <1>t, <2>2, <3>1, <3>2 DEF OneAsked, GoneForGood
    <3>7. ShownAsAsked'
      BY <2>1, <2>2, <3>2 DEF ShownAsAsked
    <3> QED
      BY <3>2, <3>5, <3>6, <3>7
  <2> QED
    BY <2>3, <2>4
<1>7. ASSUME NEW l \in asked, LoadFails(l) PROVE ListsInv'
  <2>1. /\ view' = [view EXCEPT !.loading = FALSE, !.error = "load", !.failed = TRUE]
        /\ asked' = {} /\ UNCHANGED <<at, changing, told>> /\ view.loading
    BY <1>7, <1>t DEF LoadFails, OneAsked
  <2>2. /\ view'.query = view.query /\ view'.list = view.list /\ view'.failed = TRUE
        /\ view'.loading = FALSE /\ view'.kind = view.kind
    BY <1>t, <2>1 DEF ListsTypes, Views
  <2>3. ListsTypes'
    BY <1>t, <2>1 DEF ListsTypes, Views
  <2> QED
    BY <1>t, <2>1, <2>2, <2>3 DEF OneAsked, GoneForGood, ShownAsAsked, Nothing
<1>8. ASSUME NEW i \in Items, Elsewhere(i) PROVE ListsInv'
  <2>1. /\ UNCHANGED <<view, asked, changing, told>> /\ at[i] # "deleted"
        /\ at' = [at EXCEPT ![i] = "there"] \/ at' = [at EXCEPT ![i] = "deleted"]
    BY <1>8 DEF Elsewhere
  <2>2. /\ at' \in [Items -> {"not yet", "there", "deleted"}]
        /\ \A j \in Items : at[j] = "deleted" => at'[j] = "deleted"
    BY <1>t, <2>1 DEF ListsTypes
  <2>4. ListsTypes'
    BY <1>t, <2>1, <2>2 DEF ListsTypes
  <2>3. GoneForGood'
    BY <1>t, <2>1, <2>2 DEF GoneForGood, ListsTypes, Views
  <2> QED
    BY <1>t, <2>1, <2>3, <2>4 DEF OneAsked, ShownAsAsked
<1>9. ASSUME NEW i \in Items, NEW drops \in BOOLEAN, Changes(i, drops) PROVE ListsInv'
  <2>1. /\ changing' = changing \cup {[row |-> i, drops |-> drops, done |-> FALSE]}
        /\ view' = view \/ view' = [view EXCEPT !.error = "none"]
        /\ drops => view.kind.changes # "in place"
        /\ UNCHANGED <<at, asked, told>>
    BY <1>9 DEF Changes
  <2>2. /\ view'.query = view.query /\ view'.list = view.list /\ view'.failed = view.failed
        /\ view'.loading = view.loading /\ view'.kind = view.kind
    BY <1>t, <2>1 DEF ListsTypes, Views
  <2>3. ListsTypes'
    <3>1. [row |-> i, drops |-> drops, done |-> FALSE] \in [row : Items, drops : BOOLEAN, done : BOOLEAN]
      OBVIOUS
    <3>2. view' \in Views
      BY <1>t, <2>1 DEF ListsTypes, Views
    <3> QED
      BY <1>t, <2>1, <3>1, <3>2 DEF ListsTypes
  <2>4. GoneForGood'
    <3>1. ASSUME NEW d \in changing'
          PROVE  (d.done /\ d.drops => at'[d.row] = "deleted") /\ (d.drops => view'.kind.changes # "in place")
      <4>1. CASE d \in changing
        BY <1>t, <2>1, <2>2, <4>1 DEF GoneForGood
      <4>2. CASE d = [row |-> i, drops |-> drops, done |-> FALSE]
        BY <2>1, <2>2, <4>2
      <4> QED
        BY <2>1, <4>1, <4>2
    <3> QED
      BY <1>t, <2>1, <3>1 DEF GoneForGood
  <2> QED
    BY <1>t, <2>1, <2>2, <2>3, <2>4 DEF OneAsked, ShownAsAsked
<1>10. ASSUME NEW c \in changing, Executes(c) PROVE ListsInv'
  <2>1. /\ changing' = (changing \ {c}) \cup {[c EXCEPT !.done = TRUE]}
        /\ at' = IF c.drops THEN [at EXCEPT ![c.row] = "deleted"] ELSE at
        /\ UNCHANGED <<view, asked, told>>
    BY <1>10 DEF Executes
  <2>2. c \in [row : Items, drops : BOOLEAN, done : BOOLEAN]
    BY <1>t DEF ListsTypes, Views
  <2>3. ListsTypes' /\ \A j \in Items : at[j] = "deleted" => at'[j] = "deleted"
    BY <1>t, <2>1, <2>2 DEF ListsTypes, Views
  <2>4. \A i \in told' : at'[i] = "deleted"
    BY <1>g, <2>1, <2>3
  <2>5. ASSUME NEW d \in changing'
        PROVE  (d.done /\ d.drops => at'[d.row] = "deleted") /\ (d.drops => view'.kind.changes # "in place")
    <3>1. CASE d \in changing
      BY <1>t, <2>1, <2>3, <3>1 DEF GoneForGood, ListsTypes, Views
    <3>2. CASE d = [c EXCEPT !.done = TRUE]
      BY <1>t, <2>1, <2>2, <3>2 DEF GoneForGood, ListsTypes, Views
    <3> QED
      BY <2>1, <3>1, <3>2
  <2>6. GoneForGood'
    BY <2>4, <2>5 DEF GoneForGood
  <2> QED
    BY <1>t, <2>1, <2>3, <2>6 DEF OneAsked, ShownAsAsked
<1>11. ASSUME NEW c \in changing, Changed(c) PROVE ListsInv'
  <2>1. /\ changing' = changing \ {c} /\ UNCHANGED at
        /\ told' = IF c.drops THEN told \cup {c.row} ELSE told
        /\ c.done
    BY <1>11 DEF Changed
  <2>2. \A i \in told' : i \in Items /\ at[i] = "deleted"
    <3>1. c.row \in Items /\ (c.drops => at[c.row] = "deleted")
      BY <1>t, <2>1 DEF GoneForGood, ListsTypes, Views
    <3> QED
      BY <1>g, <2>1, <3>1
  <2>3. CASE view.kind.changes = "in place"
    <3>1. UNCHANGED <<view, asked, told>>
      BY <1>11, <1>t, <2>1, <2>3 DEF Changed, GoneForGood
    <3>2. ListsTypes'
      BY <1>t, <2>1, <3>1 DEF ListsTypes, Views
    <3> QED
      BY <1>t, <2>1, <3>1, <3>2 DEF OneAsked, GoneForGood, ShownAsAsked
  <2>4. CASE view.kind.changes # "in place"
    <3>1. Loads(view.query)
      BY <1>11, <2>4 DEF Changed
    <3> QED
      BY <1>q, <2>1, <2>2, <3>1, LoadsAfresh
  <2> QED
    BY <2>3, <2>4
<1>12. ASSUME NEW c \in changing, ChangeFails(c) PROVE ListsInv'
  <2>1. PICK wiped \in BOOLEAN : view' = [view EXCEPT !.error = "other", !.list = IF wiped THEN Nothing ELSE @]
    BY <1>12 DEF ChangeFails
  <2>2. changing' = changing \ {c} /\ UNCHANGED <<at, asked, told>>
    BY <1>12 DEF ChangeFails
  <2>3. /\ view'.query = view.query /\ view'.failed = view.failed
        /\ view'.list = IF wiped THEN Nothing ELSE view.list
        /\ view'.loading = view.loading /\ view'.kind = view.kind
    BY <1>t, <2>1 DEF ListsTypes, Views
  <2>4. ListsTypes'
    BY <1>t, <2>1, <2>2 DEF ListsTypes, Nothing, Views
  <2> QED
    BY <1>t, <2>2, <2>3, <2>4 DEF OneAsked, GoneForGood, ShownAsAsked, Nothing
<1> QED
  BY <1>1, <1>2, <1>3, <1>4, <1>5, <1>6, <1>7, <1>8, <1>9, <1>10, <1>11, <1>12 DEF ListsNext

LEMMA ListsStutter == ASSUME ListsInv, UNCHANGED listVars PROVE ListsInv'
  BY DEF listVars, ListsInv, ListsTypes, OneAsked, GoneForGood, ShownAsAsked, Views

(* Rows on show answer the query in the URL, without those the page was     *)
(* told are deleted (CatalogListState.load and its like).                   *)
THEOREM RowsAnswerTheUrl == ListsSpec => []ShownAsAsked
<1>1. ListsInv /\ [ListsNext]_listVars => ListsInv'
  BY ListStep, ListsStutter
<1>2. ListsInv => ShownAsAsked
  BY DEF ListsInv
<1> QED
  BY <1>1, <1>2, ListsStart, PTL DEF ListsSpec

-----------------------------------------------------------------------------
(* The tree.  No category is its own ancestor: in every set of categories   *)
(* one has its parent outside.                                              *)
Grounded(p) == \A S \in SUBSET DOMAIN p : S # {} => \E a \in S : p[a] \notin S

Shaped(p) == /\ p = [c \in DOMAIN p |-> p[c]] /\ DOMAIN p \subseteq Categories
             /\ \A c \in DOMAIN p : p[c] \in DOMAIN p \cup {None}

Sound == /\ Shaped(parent) /\ Grounded(parent) /\ Cardinality(Tops(parent)) <= MaxTops
         /\ \A p \in DOMAIN product : product[p].category \in DOMAIN parent

(* What the service and PostgreSQL know of each request.  Able: it may      *)
(* still commit; Live: it may, even should it be behind.                    *)
Begun(r) == tx[r].open /\ ~tx[r].lost
Able(r) == Begun(r) /\ ~(tx[r].behind /\ tx[r].ahead)
Live(r) == Begun(r) /\ ~tx[r].ahead
Moving(r) == req[r].op = "updateCategory"
Risen(r) == TopRows \in tx[r].reads

TxOK(r) ==
    /\ ~tx[r].open => tx[r] = Closed
    /\ req[r].op \in {"createCategory", "updateCategory", "deleteBrand"} => tx[r].open
    /\ tx[r].open => 
          /\ tx[r] \in [open : BOOLEAN, reads : {tx[r].reads}, updates : {tx[r].updates}, writes : {tx[r].writes},
                        lost : BOOLEAN, behind : BOOLEAN, ahead : BOOLEAN]
          /\ req[r].op \in {"createCategory", "updateCategory", "deleteBrand"}
          /\ Risen(r) => TopRows \in tx[r].writes
          /\ tx[r].updates \subseteq tx[r].writes

(* The category r creates is nobody else's.                                 *)
Named(r) == IF req[r].op \in {"createCategory", "updateCategory"} THEN {req[r].of, req[r].to} ELSE {}
Creates(r) ==
    req[r].op = "createCategory" =>
        /\ req[r].of \in Categories \ DOMAIN parent /\ req[r].to # req[r].of
        /\ \A o \in Requests \ {r} : req[r].of \notin Named(o)
        /\ tx[r].open /\ req[r].to = None => Risen(r)

Moves(r) ==
    Moving(r) /\ tx[r].open =>
        /\ Row(req[r].of) \in tx[r].updates /\ Row(req[r].of) \in tx[r].reads
        /\ req[r].of \in Categories /\ req[r].to \in Categories \cup {None}
        /\ ~tx[r].lost =>
              /\ req[r].of \in DOMAIN parent
              /\ req[r].to = None /\ parent[req[r].of] # None => Risen(r)
              /\ (req[r].to = None) # (parent[req[r].of] = None) => TopRows \in tx[r].writes

(* It has seen all the ancestors, unless it is behind.                      *)
Sees(r) ==
    Moving(r) /\ Begun(r) /\ ~tx[r].behind /\ req[r].to # None =>
        \A a \in Ancestors(parent, req[r].to) : a # req[r].of /\ Row(a) \in tx[r].reads

Drops(r) ==
    req[r].op = "deleteBrand" /\ tx[r].open =>
        /\ req[r].of # None /\ ProductsOf(req[r].of) \in tx[r].updates
        /\ ~tx[r].lost => \A p \in DOMAIN product : product[p].brand # req[r].of

Known(r) == TxOK(r) /\ Creates(r) /\ Moves(r) /\ Sees(r) /\ Drops(r)

(* Of those who are to make a category a top one, each writes what the      *)
(* others have read.                                                        *)
RoomKept == \A r \in Requests : Able(r) /\ Risen(r) => RoomAtTop

(* Move t would change an ancestor that move r has not read.  Moves that    *)
(* may still commit are never so in a circle: t began when r was behind.    *)
Movers == {r \in Requests : Moving(r) /\ Live(r) /\ req[r].to # None}
Hidden(t, r) == /\ req[t].of \in Ancestors(parent, req[r].to)
                /\ t = r \/ Row(req[t].of) \notin tx[r].reads
Unentangled == \A O \in SUBSET Movers : O # {} => \E t \in O : \A r \in O : ~Hidden(t, r)

Operations == {"none", "createCategory", "updateCategory", "deleteCategory", "deleteBrand", "updateProduct"}

TreeInv == /\ DOMAIN tx = Requests /\ tx = [r \in Requests |-> tx[r]]
           /\ req \in [Requests -> [op : Operations, of : {None} \cup Categories \cup Brands \cup Products,
                                    to : {None} \cup Categories, brand : {None} \cup Brands]]
           /\ \A p \in DOMAIN product : product[p] \in [category : Categories, brand : Brands \cup {None}]
           /\ brand \subseteq Brands /\ DOMAIN product \subseteq Products
           /\ Sound /\ (\A r \in Requests : Known(r)) /\ RoomKept /\ Unentangled

-----------------------------------------------------------------------------
(* Ancestors, and what a write to the tree makes of them.                   *)
LEMMA OwnAncestor ==
    ASSUME NEW p, Shaped(p), NEW c \in Categories
    PROVE  c \in Ancestors(p, c) /\ ClosedUp(p, Ancestors(p, c)) /\ Ancestors(p, c) \subseteq Categories
<1>1. c \in Ancestors(p, c) /\ Ancestors(p, c) \subseteq Categories
  BY DEF Ancestors
<1>2. ASSUME NEW a \in Ancestors(p, c), a \in DOMAIN p, p[a] # None
      PROVE  p[a] \in Ancestors(p, c)
  BY <1>2, <1>1 DEF Ancestors, ClosedUp, Shaped
<1> QED
  BY <1>1, <1>2 DEF ClosedUp

LEMMA LeastAncestors ==
    ASSUME NEW p, NEW c, NEW S \in SUBSET Categories, c \in S, ClosedUp(p, S)
    PROVE  Ancestors(p, c) \subseteq S
  BY DEF Ancestors

(* Such a tree is rooted, and a rooted one is such.                         *)
LEMMA GroundedIsRooted ==
    ASSUME NEW p, Shaped(p), Grounded(p)
    PROVE  Rooted(p)
<1> SUFFICES ASSUME NEW c \in DOMAIN p
             PROVE  Ancestors(p, c) \subseteq DOMAIN p /\ Ancestors(p, c) \cap Tops(p) # {}
  BY DEF Rooted
<1>1. c \in Ancestors(p, c) /\ ClosedUp(p, Ancestors(p, c))
  BY OwnAncestor DEF Shaped
<1>2. Ancestors(p, c) \subseteq DOMAIN p
  <2>1. ClosedUp(p, DOMAIN p) /\ DOMAIN p \in SUBSET Categories
    BY DEF ClosedUp, Shaped
  <2> QED
    BY <2>1, LeastAncestors
<1>3. PICK a \in Ancestors(p, c) : p[a] \notin Ancestors(p, c)
  BY <1>1, <1>2 DEF Grounded
<1>4. a \in Tops(p)
  BY <1>1, <1>2, <1>3 DEF ClosedUp, Tops
<1> QED
  BY <1>2, <1>3, <1>4

LEMMA RootedIsGrounded ==
    ASSUME NEW D \in SUBSET Categories, NEW p \in [D -> D \cup {None}], Rooted(p)
    PROVE  Shaped(p) /\ Grounded(p)
<1>1. Shaped(p)
  BY DEF Shaped
<1> SUFFICES ASSUME NEW S \in SUBSET DOMAIN p, S # {}, \A a \in S : p[a] \in S
             PROVE  FALSE
  BY <1>1 DEF Grounded
<1>2. PICK c \in S : TRUE
  OBVIOUS
<1>3. ClosedUp(p, S) /\ S \in SUBSET Categories
  BY DEF ClosedUp
<1>4. Ancestors(p, c) \subseteq S
  BY <1>3, LeastAncestors
<1>5. PICK t \in Ancestors(p, c) : t \in Tops(p)
  BY <1>2 DEF Rooted
<1> QED
  BY <1>4, <1>5, CatalogAssumption DEF Tops

(* A category moves.                                                        *)
LEMMA MovedAncestors ==
    ASSUME NEW p, Shaped(p), NEW m \in DOMAIN p, NEW x \in DOMAIN p \cup {None}, NEW c \in Categories
    PROVE  LET q == [p EXCEPT ![m] = x] IN
           /\ m \notin Ancestors(p, c) => Ancestors(q, c) \subseteq Ancestors(p, c)
           /\ x = None => Ancestors(q, c) \subseteq Ancestors(p, c)
           /\ x # None => Ancestors(q, c) \subseteq Ancestors(p, c) \cup Ancestors(p, x)
<1> DEFINE q == [p EXCEPT ![m] = x]
<1>0. /\ c \in Ancestors(p, c) /\ Ancestors(p, c) \in SUBSET Categories
      /\ \A a \in Ancestors(p, c) \cap DOMAIN p : p[a] \in Ancestors(p, c) \cup {None}
  BY OwnAncestor DEF ClosedUp
<1>1. /\ q[m] = x /\ DOMAIN q = DOMAIN p
      /\ \A a \in DOMAIN p \ {m} : q[a] = p[a]
  OBVIOUS
<1> HIDE DEF q
<1>2. m \notin Ancestors(p, c) => Ancestors(q, c) \subseteq Ancestors(p, c)
  <2>1. m \notin Ancestors(p, c) => ClosedUp(q, Ancestors(p, c))
    BY <1>0, <1>1 DEF ClosedUp
  <2> QED
    BY <2>1, <1>0, LeastAncestors
<1>3. x = None => Ancestors(q, c) \subseteq Ancestors(p, c)
  <2>1. x = None => ClosedUp(q, Ancestors(p, c))
    BY <1>0, <1>1 DEF ClosedUp
  <2> QED
    BY <2>1, <1>0, LeastAncestors
<1>4. x # None => Ancestors(q, c) \subseteq Ancestors(p, c) \cup Ancestors(p, x)
  <2> HAVE x # None
  <2>0. x \in Categories
    BY DEF Shaped
  <2>1. /\ x \in Ancestors(p, x) /\ Ancestors(p, x) \in SUBSET Categories
        /\ \A a \in Ancestors(p, x) \cap DOMAIN p : p[a] \in Ancestors(p, x) \cup {None}
    BY <2>0, OwnAncestor DEF ClosedUp
  <2> DEFINE S == Ancestors(p, c) \cup Ancestors(p, x)
  <2>2. c \in S /\ S \in SUBSET Categories /\ ClosedUp(q, S)
    BY <1>0, <1>1, <2>1 DEF ClosedUp
  <2> QED
    BY <2>2, LeastAncestors
<1> QED
  BY <1>2, <1>3, <1>4 DEF q

LEMMA MovedTree ==
    ASSUME NEW p, Shaped(p), Grounded(p), NEW m \in DOMAIN p, NEW x \in DOMAIN p \cup {None},
           x = None \/ m \notin Ancestors(p, x)
    PROVE  Shaped([p EXCEPT ![m] = x]) /\ Grounded([p EXCEPT ![m] = x])
<1> DEFINE q == [p EXCEPT ![m] = x]
<1>1. /\ q[m] = x /\ DOMAIN q = DOMAIN p /\ q = [d \in DOMAIN q |-> q[d]]
      /\ \A a \in DOMAIN p \ {m} : q[a] = p[a]
  BY DEF Shaped
<1> HIDE DEF q
<1>2. Shaped(q)
  BY <1>1 DEF Shaped
<1>3. ASSUME NEW S \in SUBSET DOMAIN q, S # {}, \A a \in S : q[a] \in S
      PROVE  FALSE
  <2>1. m \in S
    <3> SUFFICES ASSUME m \notin S PROVE FALSE
      OBVIOUS
    <3>1. \A a \in S : p[a] \in S
      BY <1>1, <1>3
    <3> QED
      BY <3>1, <1>1, <1>3 DEF Grounded
  <2>2. x \in S /\ x # None /\ x \in Categories
    BY <1>1, <1>3, <2>1, CatalogAssumption DEF Shaped
  <2>3. /\ x \in Ancestors(p, x)
        /\ \A a \in Ancestors(p, x) \cap DOMAIN p : p[a] \in Ancestors(p, x) \cup {None}
    BY <2>2, OwnAncestor DEF ClosedUp
  <2> DEFINE T == S \cap Ancestors(p, x)
  <2>4. T \in SUBSET DOMAIN p /\ T # {}
    BY <1>1, <1>3, <2>2, <2>3
  <2>5. ASSUME NEW a \in T PROVE p[a] \in T
    <3>1. a # m /\ a \in DOMAIN p
      BY <2>2, <2>4
    <3>2. p[a] \in S
      BY <3>1, <1>1, <1>3
    <3>3. p[a] # None
      BY <3>2, <1>1, <1>3, CatalogAssumption DEF Shaped
    <3> QED
      BY <3>1, <3>2, <3>3, <2>3
  <2> QED
    BY <2>4, <2>5 DEF Grounded
<1>4. Grounded(q)
  BY <1>3 DEF Grounded
<1> QED
  BY <1>2, <1>4 DEF q

(* A new one hangs on an old one, or is a top one.                          *)
LEMMA GrownTree ==
    ASSUME NEW p, Shaped(p), Grounded(p), NEW c \in Categories \ DOMAIN p, NEW x \in DOMAIN p \cup {None}
    PROVE  LET q == [d \in DOMAIN p \cup {c} |-> IF d = c THEN x ELSE p[d]] IN
           /\ Shaped(q) /\ Grounded(q)
           /\ \A d \in Categories \ {c} : Ancestors(q, d) \subseteq Ancestors(p, d)
<1> DEFINE q == [d \in DOMAIN p \cup {c} |-> IF d = c THEN x ELSE p[d]]
<1>1. /\ q[c] = x /\ DOMAIN q = DOMAIN p \cup {c} /\ q = [d \in DOMAIN q |-> q[d]]
      /\ \A a \in DOMAIN p : q[a] = p[a] /\ p[a] # c
  BY CatalogAssumption DEF Shaped
<1> HIDE DEF q
<1>2. Shaped(q)
  BY <1>1 DEF Shaped
<1>3. ASSUME NEW S \in SUBSET DOMAIN q, S # {}, \A a \in S : q[a] \in S
      PROVE  FALSE
  <2>1. S \ {c} \in SUBSET DOMAIN p /\ S \ {c} # {}
    BY <1>1, <1>3, CatalogAssumption DEF Shaped
  <2>2. \A a \in S \ {c} : p[a] \in S \ {c}
    BY <1>1, <1>3, <2>1
  <2> QED
    BY <2>1, <2>2 DEF Grounded
<1>4. ASSUME NEW d \in Categories \ {c}
      PROVE  Ancestors(q, d) \subseteq Ancestors(p, d)
  <2>1. /\ d \in Ancestors(p, d) /\ Ancestors(p, d) \in SUBSET Categories
        /\ \A a \in Ancestors(p, d) \cap DOMAIN p : p[a] \in Ancestors(p, d) \cup {None}
    BY OwnAncestor DEF ClosedUp
  <2> DEFINE S == Ancestors(p, d) \ {c}
  <2>2. d \in S /\ S \in SUBSET Categories /\ ClosedUp(q, S)
    BY <1>1, <2>1 DEF ClosedUp
  <2> QED
    BY <2>2, LeastAncestors
<1> QED
  BY <1>2, <1>3, <1>4 DEF q, Grounded

(* One without children goes.                                               *)
LEMMA PrunedTree ==
    ASSUME NEW p, Shaped(p), Grounded(p), NEW c \in DOMAIN p, \A d \in DOMAIN p : p[d] # c
    PROVE  LET q == [d \in DOMAIN p \ {c} |-> p[d]] IN
           /\ Shaped(q) /\ Grounded(q) /\ Tops(q) \subseteq Tops(p)
           /\ \A d \in Categories : Ancestors(q, d) \subseteq Ancestors(p, d)
<1> DEFINE q == [d \in DOMAIN p \ {c} |-> p[d]]
<1>1. /\ DOMAIN q = DOMAIN p \ {c} /\ q = [d \in DOMAIN q |-> q[d]]
      /\ \A a \in DOMAIN q : q[a] = p[a]
  OBVIOUS
<1> HIDE DEF q
<1>2. Shaped(q) /\ Grounded(q) /\ Tops(q) \subseteq Tops(p)
  BY <1>1 DEF Shaped, Grounded, Tops
<1>4. ASSUME NEW d \in Categories
      PROVE  Ancestors(q, d) \subseteq Ancestors(p, d)
  <2>1. /\ d \in Ancestors(p, d) /\ Ancestors(p, d) \in SUBSET Categories
        /\ ClosedUp(q, Ancestors(p, d))
    BY <1>1, OwnAncestor DEF ClosedUp
  <2> QED
    BY <2>1, LeastAncestors
<1> QED
  BY <1>2, <1>4 DEF q

LEMMA FewTops ==
    ASSUME NEW p, Shaped(p), NEW q, Shaped(q), NEW c,
           \/ Tops(q) \subseteq Tops(p) /\ Cardinality(Tops(p)) <= MaxTops
           \/ Tops(q) \subseteq Tops(p) \cup {c} /\ Cardinality(Tops(p)) < MaxTops
    PROVE  Cardinality(Tops(q)) <= MaxTops
<1>1. Tops(p) \subseteq Categories /\ IsFiniteSet(Tops(p)) /\ IsFiniteSet(Tops(p) \cup {c})
  BY CatalogAssumption, FS_Subset, FS_AddElement DEF Tops, Shaped
<1>2. /\ Cardinality(Tops(p)) \in Nat /\ Cardinality(Tops(p) \cup {c}) \in Nat
      /\ Cardinality(Tops(p) \cup {c}) <= Cardinality(Tops(p)) + 1
  BY <1>1, FS_AddElement, FS_CardinalityType
<1>3. /\ \A T \in SUBSET Tops(p) : Cardinality(T) \in Nat /\ Cardinality(T) <= Cardinality(Tops(p))
      /\ \A T \in SUBSET (Tops(p) \cup {c}) : Cardinality(T) \in Nat /\ Cardinality(T) <= Cardinality(Tops(p) \cup {c})
  BY <1>1, FS_Subset, FS_CardinalityType
<1>4. \A m, n, k \in Nat : m <= n /\ n <= k + 1 /\ k < 2 => m <= 2
  OBVIOUS
<1>5. CASE Tops(q) \subseteq Tops(p) /\ Cardinality(Tops(p)) <= MaxTops
  BY <1>2, <1>3, <1>5 DEF MaxTops
<1>6. CASE Tops(q) \subseteq Tops(p) \cup {c} /\ Cardinality(Tops(p)) < MaxTops
  BY <1>2, <1>3, <1>4, <1>6 DEF MaxTops
<1> QED
  BY <1>5, <1>6

-----------------------------------------------------------------------------
(* The transactions.                                                        *)
LEMMA RowsDiffer ==
    \A c : TopRows # Row(c) /\ TopRows # BrandRow(c) /\ TopRows # ProductsOf(c)
  BY DEF TopRows, Row, BrandRow, ProductsOf

LEMMA AfterOpening ==
    ASSUME TreeInv, NEW r \in Requests, NEW reads, NEW updates, NEW creates, Opens(r, reads, updates, creates)
    PROVE  /\ DOMAIN tx' = Requests /\ tx' = [o \in Requests |-> tx'[o]]
           /\ \A o \in Requests \ {r} : tx'[o] = tx[o]
           /\ tx'[r].open /\ ~tx'[r].lost /\ ~tx'[r].behind /\ ~tx'[r].ahead
           /\ tx'[r].reads = reads /\ tx'[r].updates = updates /\ tx'[r].writes = updates \cup creates
           /\ tx'[r] \in [open : BOOLEAN, reads : {tx'[r].reads}, updates : {tx'[r].updates},
                          writes : {tx'[r].writes}, lost : BOOLEAN, behind : BOOLEAN, ahead : BOOLEAN]
  BY DEF Opens, Opened, Closed, TreeInv

(* The transaction of o has gone on, or has ended.                          *)
GoesOn(o) ==
    /\ tx'[o].open <=> tx[o].open
    /\ tx'[o].reads = tx[o].reads /\ tx'[o].updates = tx[o].updates /\ tx'[o].writes = tx[o].writes
    /\ tx[o].lost => tx'[o].lost
    /\ tx[o].behind => tx'[o].behind
    /\ tx[o].ahead => tx'[o].ahead

LEMMA AfterAStatement ==
    ASSUME TreeInv, NEW written, tx' = AfterStatement(tx, written)
    PROVE  /\ DOMAIN tx' = Requests /\ tx' = [o \in Requests |-> tx'[o]]
           /\ \A o \in Requests :
                 /\ GoesOn(o) /\ (~tx[o].open => tx'[o] = tx[o])
                 /\ tx'[o].behind = tx[o].behind /\ tx'[o].ahead = tx[o].ahead
                 /\ tx[o].open => /\ tx'[o].lost = (tx[o].lost \/ Meets(tx[o].updates, written))
                                  /\ tx'[o] \in [open : BOOLEAN, reads : {tx'[o].reads}, updates : {tx'[o].updates},
                                       writes : {tx'[o].writes}, lost : BOOLEAN, behind : BOOLEAN, ahead : BOOLEAN]
<1>1. DOMAIN tx' = Requests /\ tx' = [o \in Requests |-> tx'[o]]
  BY DEF AfterStatement, TreeInv
<1>2. ASSUME NEW o \in Requests, tx[o].open
      PROVE  /\ GoesOn(o)
             /\ tx'[o].behind = tx[o].behind /\ tx'[o].ahead = tx[o].ahead
             /\ tx'[o].lost = (tx[o].lost \/ Meets(tx[o].updates, written))
             /\ tx'[o] \in [open : BOOLEAN, reads : {tx'[o].reads}, updates : {tx'[o].updates},
                            writes : {tx'[o].writes}, lost : BOOLEAN, behind : BOOLEAN, ahead : BOOLEAN]
  <2>1. tx'[o] = [tx[o] EXCEPT !.lost = @ \/ Meets(tx[o].updates, written)]
    BY <1>2 DEF AfterStatement, TreeInv
  <2>2. tx[o] \in [open : BOOLEAN, reads : {tx[o].reads}, updates : {tx[o].updates}, writes : {tx[o].writes},
                   lost : BOOLEAN, behind : BOOLEAN, ahead : BOOLEAN]
    BY <1>2 DEF TreeInv, Known, TxOK
  <2>3. Meets(tx[o].updates, written) \in BOOLEAN
    BY DEF Meets
  <2> QED
    BY <2>1, <2>2, <2>3 DEF GoesOn
<1>3. ASSUME NEW o \in Requests, ~tx[o].open
      PROVE  tx'[o] = tx[o] /\ GoesOn(o)
  BY <1>3 DEF AfterStatement, TreeInv, GoesOn
<1> QED
  BY <1>1, <1>2, <1>3

LEMMA AfterACommit ==
    ASSUME TreeInv, NEW r \in Requests, tx' = AfterCommit(tx, r)
    PROVE  /\ DOMAIN tx' = Requests /\ tx' = [o \in Requests |-> tx'[o]] /\ tx'[r] = Closed
           /\ \A o \in Requests \ {r} :
                 /\ GoesOn(o) /\ (~tx[o].open => tx'[o] = tx[o])
                 /\ tx[o].open => /\ tx'[o].lost = (tx[o].lost \/ Meets(tx[o].updates, tx[r].writes))
                                  /\ tx'[o].behind = (tx[o].behind \/ Meets(tx[o].reads, tx[r].writes))
                                  /\ tx'[o].ahead = (tx[o].ahead \/ Meets(tx[r].reads, tx[o].writes))
                                  /\ tx'[o] \in [open : BOOLEAN, reads : {tx'[o].reads}, updates : {tx'[o].updates},
                                       writes : {tx'[o].writes}, lost : BOOLEAN, behind : BOOLEAN, ahead : BOOLEAN]
<1>1. DOMAIN tx' = Requests /\ tx' = [o \in Requests |-> tx'[o]] /\ tx'[r] = Closed
  BY DEF AfterCommit, TreeInv
<1>2. ASSUME NEW o \in Requests \ {r}, tx[o].open
      PROVE  /\ GoesOn(o)
             /\ tx'[o].lost = (tx[o].lost \/ Meets(tx[o].updates, tx[r].writes))
             /\ tx'[o].behind = (tx[o].behind \/ Meets(tx[o].reads, tx[r].writes))
             /\ tx'[o].ahead = (tx[o].ahead \/ Meets(tx[r].reads, tx[o].writes))
             /\ tx'[o] \in [open : BOOLEAN, reads : {tx'[o].reads}, updates : {tx'[o].updates},
                            writes : {tx'[o].writes}, lost : BOOLEAN, behind : BOOLEAN, ahead : BOOLEAN]
  <2>1. tx'[o] = [tx[o] EXCEPT !.lost = @ \/ Meets(tx[o].updates, tx[r].writes),
                               !.behind = @ \/ Meets(tx[o].reads, tx[r].writes),
                               !.ahead = @ \/ Meets(tx[r].reads, tx[o].writes)]
    BY <1>2 DEF AfterCommit, TreeInv
  <2>2. tx[o] \in [open : BOOLEAN, reads : {tx[o].reads}, updates : {tx[o].updates}, writes : {tx[o].writes},
                   lost : BOOLEAN, behind : BOOLEAN, ahead : BOOLEAN]
    BY <1>2 DEF TreeInv, Known, TxOK
  <2>3. /\ Meets(tx[o].updates, tx[r].writes) \in BOOLEAN /\ Meets(tx[o].reads, tx[r].writes) \in BOOLEAN
        /\ Meets(tx[r].reads, tx[o].writes) \in BOOLEAN
    BY DEF Meets
  <2> QED
    BY <2>1, <2>2, <2>3 DEF GoesOn
<1>3. ASSUME NEW o \in Requests \ {r}, ~tx[o].open
      PROVE  tx'[o] = tx[o] /\ GoesOn(o)
  <2>1. tx'[o] = Closed /\ tx[o] = Closed
    BY <1>3 DEF AfterCommit, TreeInv, Known, TxOK
  <2> QED
    BY <2>1 DEF GoesOn
<1> QED
  BY <1>1, <1>2, <1>3

-----------------------------------------------------------------------------
(* What becomes of the requests that do not act.                            *)
Rests(o) == req'[o] = req[o] /\ GoesOn(o)

RecordOK(o) ==
    IF tx'[o].open
    THEN tx'[o] \in [open : BOOLEAN, reads : {tx'[o].reads}, updates : {tx'[o].updates}, writes : {tx'[o].writes},
                     lost : BOOLEAN, behind : BOOLEAN, ahead : BOOLEAN]
    ELSE tx'[o] = Closed

LEMMA CommitRests ==
    ASSUME TreeInv, NEW r \in Requests, tx' = AfterCommit(tx, r), \A o \in Requests \ {r} : req'[o] = req[o]
    PROVE  /\ DOMAIN tx' = Requests /\ tx' = [o \in Requests |-> tx'[o]] /\ tx'[r] = Closed
           /\ \A o \in Requests \ {r} : Rests(o) /\ RecordOK(o)
<1>1. /\ DOMAIN tx' = Requests /\ tx' = [o \in Requests |-> tx'[o]] /\ tx'[r] = Closed
      /\ \A o \in Requests \ {r} : Rests(o)
  BY AfterACommit DEF Rests
<1>2. ASSUME NEW o \in Requests \ {r} PROVE RecordOK(o)
  <2>1. CASE tx[o].open
    BY <2>1, AfterACommit DEF RecordOK, GoesOn
  <2>2. CASE ~tx[o].open
    <3>1. tx[o] = Closed /\ tx'[o] = tx[o]
      BY <2>2, AfterACommit DEF TreeInv, Known, TxOK
    <3> QED
      BY <2>2, <3>1 DEF RecordOK
  <2> QED
    BY <2>1, <2>2
<1> QED
  BY <1>1, <1>2

LEMMA StatementRests ==
    ASSUME TreeInv, NEW written, tx' = AfterStatement(tx, written)
    PROVE  /\ DOMAIN tx' = Requests /\ tx' = [o \in Requests |-> tx'[o]]
           /\ \A o \in Requests : GoesOn(o) /\ RecordOK(o)
<1>1. /\ DOMAIN tx' = Requests /\ tx' = [o \in Requests |-> tx'[o]]
      /\ \A o \in Requests : GoesOn(o)
  BY AfterAStatement
<1>2. ASSUME NEW o \in Requests PROVE RecordOK(o)
  <2>1. CASE tx[o].open
    BY <2>1, AfterAStatement DEF RecordOK, GoesOn
  <2>2. CASE ~tx[o].open
    <3>1. tx[o] = Closed /\ tx'[o] = tx[o]
      BY <2>2, AfterAStatement DEF TreeInv, Known, TxOK
    <3> QED
      BY <2>2, <3>1 DEF RecordOK
  <2> QED
    BY <2>1, <2>2
<1> QED
  BY <1>1, <1>2

LEMMA Bystander ==
    ASSUME TreeInv, NEW o \in Requests, Rests(o), RecordOK(o),
           req[o].op = "createCategory" =>
              /\ req[o].of \notin DOMAIN parent'
              /\ \A x \in Requests \ {o} : req[o].of \notin Named(x)',
           Moving(o) /\ Begun(o)' => req[o].of \in DOMAIN parent' /\ parent'[req[o].of] = parent[req[o].of],
           Moving(o) /\ Begun(o)' /\ ~tx'[o].behind /\ req[o].to # None =>
              Ancestors(parent', req[o].to) \subseteq Ancestors(parent, req[o].to),
           req[o].op = "deleteBrand" /\ Begun(o)' => \A p \in DOMAIN product' : product'[p].brand # req[o].of
    PROVE  Known(o)'
<1>0. Known(o)
  BY DEF TreeInv
<1>1. TxOK(o)'
  BY <1>0 DEF Known, TxOK, Rests, GoesOn, RecordOK, Risen
<1>2. Creates(o)'
  BY <1>0 DEF Known, Creates, Rests, GoesOn, Risen
<1>3. Moves(o)'
  BY <1>0 DEF Known, Moves, Moving, Rests, GoesOn, Risen, Begun
<1>4. Sees(o)'
  BY <1>0 DEF Known, Sees, Moving, Rests, GoesOn, Begun
<1>5. Drops(o)'
  BY <1>0 DEF Known, Drops, Rests, GoesOn, Begun
<1> QED
  BY <1>1, <1>2, <1>3, <1>4, <1>5 DEF Known

LEMMA Finished ==
    ASSUME NEW r \in Requests, req'[r] = Idle, tx'[r] = Closed
    PROVE  Known(r)'
  BY DEF Known, TxOK, Creates, Moves, Moving, Sees, Drops, Idle, Closed

LEMMA RoomStays ==
    ASSUME TreeInv, Shaped(parent'),
           \A o \in Requests : \/ ~(Able(o)' /\ Risen(o)')
                               \/ RoomAtTop'
                               \/ Rests(o) /\ Tops(parent') \subseteq Tops(parent)
    PROVE  RoomKept'
<1> SUFFICES ASSUME NEW o \in Requests, Able(o)', Risen(o)', Rests(o), Tops(parent') \subseteq Tops(parent)
             PROVE  RoomAtTop'
  BY DEF RoomKept
<1>1. RoomAtTop
  BY DEF TreeInv, RoomKept, Rests, GoesOn, Able, Begun, Risen
<1>2. IsFiniteSet(Tops(parent))
  BY CatalogAssumption, FS_Subset DEF Tops, TreeInv, Sound, Shaped
<1>3. /\ Cardinality(Tops(parent)) \in Nat /\ Cardinality(Tops(parent')) \in Nat
      /\ Cardinality(Tops(parent')) <= Cardinality(Tops(parent))
  BY <1>2, FS_Subset, FS_CardinalityType
<1> QED
  BY <1>1, <1>3 DEF RoomAtTop, MaxTops

LEMMA StaysUntangled ==
    ASSUME TreeInv,
           \A o \in Movers' : /\ Rests(o)
                              /\ Ancestors(parent', req[o].to) \subseteq Ancestors(parent, req[o].to)
    PROVE  Unentangled'
<1>1. Movers' \subseteq Movers
  BY DEF Movers, Moving, Live, Begun, Rests, GoesOn
<1>2. \A t, r \in Movers' : Hidden(t, r)' => Hidden(t, r)
  BY DEF Hidden, Rests, GoesOn
<1>3. ASSUME NEW O \in SUBSET Movers', O # {}
      PROVE  \E t \in O : \A r \in O : ~Hidden(t, r)'
  <2>1. O \in SUBSET Movers
    BY <1>1
  <2>2. PICK t \in O : \A r \in O : ~Hidden(t, r)
    BY <1>3, <2>1 DEF TreeInv, Unentangled
  <2> QED
    BY <1>2, <2>2
<1> QED
  BY <1>3 DEF Unentangled

ReqType == [Requests -> [op : Operations, of : {None} \cup Categories \cup Brands \cup Products,
                         to : {None} \cup Categories, brand : {None} \cup Brands]]

LEMMA AfterAsking ==
    ASSUME TreeInv, NEW r \in Requests, NEW op \in Operations, NEW of \in {None} \cup Categories \cup Brands \cup Products,
           NEW to \in {None} \cup Categories, NEW b \in {None} \cup Brands, Asks(r, op, of, to, b)
    PROVE  /\ req[r] = Idle /\ ~tx[r].open /\ tx[r] = Closed
           /\ parent' = parent /\ brand' = brand /\ product' = product
           /\ req' \in ReqType /\ Sound'
           /\ req'[r].op = op /\ req'[r].of = of /\ req'[r].to = to /\ req'[r].brand = b
           /\ \A o \in Requests \ {r} : req'[o] = req[o]
<1>1. req[r] = Idle /\ parent' = parent /\ brand' = brand /\ product' = product /\ Sound'
  BY DEF Asks, TreeInv, Sound
<1>2. tx[r] = Closed /\ ~tx[r].open
  BY <1>1 DEF TreeInv, Known, TxOK, Idle, Closed
<1>3. req' = [req EXCEPT ![r] = [op |-> op, of |-> of, to |-> to, brand |-> b]]
  BY DEF Asks
<1> QED
  BY <1>1, <1>2, <1>3 DEF TreeInv, ReqType

LEMMA AfterEnding ==
    ASSUME TreeInv, NEW r \in Requests, Ends(r)
    PROVE  /\ req' \in ReqType /\ req'[r] = Idle
           /\ \A o \in Requests \ {r} : req'[o] = req[o]
           /\ \A o \in Requests : Named(o)' \subseteq Named(o)
<1>1. req' = [req EXCEPT ![r] = Idle]
  BY DEF Ends
<1>2. /\ Idle \in [op : Operations, of : {None} \cup Categories \cup Brands \cup Products,
                   to : {None} \cup Categories, brand : {None} \cup Brands]
      /\ Idle.op = "none"
  BY DEF Idle, Operations
<1>3. req \in ReqType
  BY DEF TreeInv, ReqType
<1> HIDE DEF Idle
<1>4. req' \in ReqType /\ req'[r] = Idle /\ \A o \in Requests \ {r} : req'[o] = req[o]
  BY <1>1, <1>2, <1>3 DEF ReqType
<1> QED
  BY <1>2, <1>4 DEF Named

(* The categories a request may create are nobody else's.                   *)
LEMMA NamesKept ==
    ASSUME TreeInv, \A x \in Requests : Named(x)' \subseteq Named(x)
    PROVE  \A o \in Requests : req[o].op = "createCategory" =>
              \A x \in Requests \ {o} : req[o].of \notin Named(x)'
  BY DEF TreeInv, Known, Creates

LEMMA NamesAsked ==
    ASSUME TreeInv, NEW r \in Requests, \A o \in Requests \ {r} : req'[o] = req[o],
           \A c \in Named(r)' : c \in DOMAIN parent \cup {None} \/ Fresh(c)
    PROVE  \A o \in Requests \ {r} : req[o].op = "createCategory" =>
              \A x \in Requests \ {o} : req[o].of \notin Named(x)'
<1> SUFFICES ASSUME NEW o \in Requests \ {r}, req[o].op = "createCategory", NEW x \in Requests \ {o}
             PROVE  req[o].of \notin Named(x)'
  OBVIOUS
<1>1. req[o].of \in Categories \ DOMAIN parent /\ \A y \in Requests \ {o} : req[o].of \notin Named(y)
  BY DEF TreeInv, Known, Creates
<1>2. x # r => Named(x)' = Named(x)
  BY DEF Named
<1>3. ~Fresh(req[o].of)
  BY DEF Fresh
<1> QED
  BY <1>1, <1>2, <1>3, CatalogAssumption

-----------------------------------------------------------------------------
(* One lemma per operation.                                                 *)
LEMMA StepAskCreateCategory ==
    ASSUME TreeInv, NEW r \in Requests, AskCreateCategory(r)
    PROVE  TreeInv'
<1>1. PICK c \in Categories \ DOMAIN parent, to \in DOMAIN parent \cup {None} :
          /\ Fresh(c) /\ (to = None => RoomAtTop)
          /\ Asks(r, "createCategory", c, to, None)
          /\ IF to = None THEN Opens(r, {TopRows}, {}, {Row(c), TopRows}) ELSE Opens(r, {Row(to)}, {}, {Row(c)})
  BY DEF AskCreateCategory
<1>2. DOMAIN parent \subseteq Categories
  BY DEF TreeInv, Sound, Shaped
<1>3. /\ req[r] = Idle /\ ~tx[r].open /\ tx[r] = Closed
      /\ parent' = parent /\ brand' = brand /\ product' = product
      /\ req' \in ReqType /\ Sound'
      /\ req'[r].op = "createCategory" /\ req'[r].of = c /\ req'[r].to = to
      /\ \A o \in Requests \ {r} : req'[o] = req[o]
  BY <1>1, <1>2, AfterAsking DEF Operations
<1>4. /\ DOMAIN tx' = Requests /\ tx' = [o \in Requests |-> tx'[o]]
      /\ \A o \in Requests \ {r} : tx'[o] = tx[o]
      /\ tx'[r].open /\ ~tx'[r].lost /\ ~tx'[r].behind /\ ~tx'[r].ahead
      /\ tx'[r].updates = {} /\ tx'[r].reads = IF to = None THEN {TopRows} ELSE {Row(to)}
      /\ tx'[r].writes = IF to = None THEN {Row(c), TopRows} ELSE {Row(c)}
      /\ RecordOK(r)
  <2>1. CASE to = None
    BY <1>1, <2>1, AfterOpening DEF RecordOK
  <2>2. CASE to # None
    BY <1>1, <2>2, AfterOpening DEF RecordOK
  <2> QED
    BY <2>1, <2>2
<1>5. \A o \in Requests \ {r} : Rests(o) /\ RecordOK(o)
  BY <1>3, <1>4 DEF Rests, GoesOn, RecordOK, TreeInv, Known, TxOK
<1>6. Known(r)'
  <2>1. TxOK(r)' /\ Moves(r)' /\ Sees(r)' /\ Drops(r)'
    BY <1>3, <1>4, RowsDiffer DEF TxOK, Moves, Moving, Sees, Drops, RecordOK, Risen
  <2>2. \A o \in Requests \ {r} : c \notin Named(o)'
    BY <1>1, <1>3, <1>2, CatalogAssumption DEF Fresh, Named
  <2>3. Creates(r)'
    BY <1>1, <1>2, <1>3, <1>4, <2>2, CatalogAssumption DEF Creates, Risen
  <2> QED
    BY <2>1, <2>3 DEF Known
<1>7. \A o \in Requests \ {r} : Known(o)'
  <2>1. \A o \in Requests \ {r} : req[o].op = "createCategory" =>
            \A x \in Requests \ {o} : req[o].of \notin Named(x)'
    BY <1>1, <1>3, NamesAsked DEF Named
  <2> QED
    BY <1>3, <1>5, <2>1, <1>4, Bystander DEF TreeInv, Known, Creates, Moves, Drops, Begun, Rests, GoesOn
<1>8. RoomKept'
  <2>1. Shaped(parent') /\ (to = None => RoomAtTop')
    BY <1>1, <1>3 DEF Sound, RoomAtTop
  <2>2. to # None => ~Risen(r)'
    BY <1>4, RowsDiffer DEF Risen
  <2> QED
    BY <1>3, <1>5, <2>1, <2>2, RoomStays
<1>9. Unentangled'
  <2>1. \A o \in Movers' : o # r
    BY <1>3 DEF Movers, Moving
  <2> QED
    BY <1>3, <1>5, <2>1, StaysUntangled DEF Movers
<1> QED
  BY <1>3, <1>4, <1>6, <1>7, <1>8, <1>9 DEF TreeInv, ReqType

LEMMA StepAskDeleteBrand ==
    ASSUME TreeInv, NEW r \in Requests, AskDeleteBrand(r)
    PROVE  TreeInv'
<1>1. PICK b \in Brands :
          /\ MayDrop(b) /\ Asks(r, "deleteBrand", b, None, None)
          /\ Opens(r, {BrandRow(b), ProductsOf(b)}, {BrandRow(b), ProductsOf(b)}, {})
  BY DEF AskDeleteBrand
<1>3. /\ req[r] = Idle /\ ~tx[r].open /\ tx[r] = Closed
      /\ parent' = parent /\ brand' = brand /\ product' = product
      /\ req' \in ReqType /\ Sound'
      /\ req'[r].op = "deleteBrand" /\ req'[r].of = b /\ req'[r].to = None
      /\ \A o \in Requests \ {r} : req'[o] = req[o]
  BY <1>1, AfterAsking DEF Operations
<1>4. /\ DOMAIN tx' = Requests /\ tx' = [o \in Requests |-> tx'[o]]
      /\ \A o \in Requests \ {r} : tx'[o] = tx[o]
      /\ tx'[r].open /\ ~tx'[r].lost /\ ~tx'[r].behind /\ ~tx'[r].ahead
      /\ tx'[r].updates = {BrandRow(b), ProductsOf(b)} /\ tx'[r].reads = {BrandRow(b), ProductsOf(b)}
      /\ tx'[r].writes = {BrandRow(b), ProductsOf(b)} \cup {}
      /\ RecordOK(r)
  BY <1>1, AfterOpening DEF RecordOK
<1>5. \A o \in Requests \ {r} : Rests(o) /\ RecordOK(o)
  BY <1>3, <1>4 DEF Rests, GoesOn, RecordOK, TreeInv, Known, TxOK
<1>6. Known(r)'
  <2>1. TxOK(r)' /\ Moves(r)' /\ Sees(r)' /\ Creates(r)'
    BY <1>3, <1>4, RowsDiffer DEF TxOK, Moves, Moving, Sees, Creates, RecordOK, Risen
  <2>2. Drops(r)'
    BY <1>1, <1>3, <1>4, CatalogAssumption DEF Drops, MayDrop
  <2> QED
    BY <2>1, <2>2 DEF Known
<1>7. \A o \in Requests \ {r} : Known(o)'
  <2>1. \A o \in Requests \ {r} : req[o].op = "createCategory" =>
            \A x \in Requests \ {o} : req[o].of \notin Named(x)'
    BY <1>3, NamesAsked DEF Named
  <2> QED
    BY <1>3, <1>5, <2>1, <1>4, Bystander DEF TreeInv, Known, Creates, Moves, Drops, Begun, Rests, GoesOn
<1>8. RoomKept'
  <2>2. Shaped(parent') /\ ~Risen(r)'
    BY <1>3, <1>4, RowsDiffer DEF Risen, Sound
  <2> QED
    BY <1>3, <1>5, <2>2, RoomStays
<1>9. Unentangled'
  <2>1. \A o \in Movers' : o # r
    BY <1>3 DEF Movers, Moving
  <2> QED
    BY <1>3, <1>5, <2>1, StaysUntangled DEF Movers
<1> QED
  BY <1>3, <1>4, <1>6, <1>7, <1>8, <1>9 DEF TreeInv, ReqType

LEMMA StepAskUpdateCategory ==
    ASSUME TreeInv, NEW r \in Requests, AskUpdateCategory(r)
    PROVE  TreeInv'
<1>1. PICK c \in DOMAIN parent, to \in DOMAIN parent \cup {None} :
          /\ MayMove(c, to)
          /\ Asks(r, "updateCategory", c, to, None)
          /\ Opens(r, ReadsToMove(c, to), {Row(c)}, IF (to = None) # (parent[c] = None) THEN {TopRows} ELSE {})
  BY DEF AskUpdateCategory
<1>2. DOMAIN parent \subseteq Categories /\ c # None
  BY CatalogAssumption DEF TreeInv, Sound, Shaped
<1>3. /\ req[r] = Idle /\ ~tx[r].open /\ tx[r] = Closed
      /\ parent' = parent /\ brand' = brand /\ product' = product
      /\ req' \in ReqType /\ Sound'
      /\ req'[r].op = "updateCategory" /\ req'[r].of = c /\ req'[r].to = to
      /\ \A o \in Requests \ {r} : req'[o] = req[o]
  BY <1>1, <1>2, AfterAsking DEF Operations
<1>4. /\ DOMAIN tx' = Requests /\ tx' = [o \in Requests |-> tx'[o]]
      /\ \A o \in Requests \ {r} : tx'[o] = tx[o]
      /\ tx'[r].open /\ ~tx'[r].lost /\ ~tx'[r].behind /\ ~tx'[r].ahead
      /\ tx'[r].updates = {Row(c)} /\ tx'[r].reads = ReadsToMove(c, to)
      /\ tx'[r].writes = {Row(c)} \cup IF (to = None) # (parent[c] = None) THEN {TopRows} ELSE {}
      /\ RecordOK(r)
  BY <1>1, AfterOpening DEF RecordOK
<1>5. \A o \in Requests \ {r} : Rests(o) /\ RecordOK(o)
  BY <1>3, <1>4 DEF Rests, GoesOn, RecordOK, TreeInv, Known, TxOK
<1>a. /\ Row(c) \in ReadsToMove(c, to)
      /\ TopRows \in ReadsToMove(c, to) <=> to = None /\ parent[c] # None
      /\ to # None => \A a \in Ancestors(parent, to) : Row(a) \in ReadsToMove(c, to)
  BY RowsDiffer DEF ReadsToMove
<1>6. Known(r)'
  <2>1. TxOK(r)' /\ Creates(r)' /\ Drops(r)'
    BY <1>3, <1>4, <1>a DEF TxOK, Creates, Drops, RecordOK, Risen
  <2>2. Moves(r)'
    BY <1>2, <1>3, <1>4, <1>a DEF Moves, Moving, Risen
  <2>3. Sees(r)'
    BY <1>1, <1>3, <1>4, <1>a DEF Sees, Moving, MayMove
  <2> QED
    BY <2>1, <2>2, <2>3 DEF Known
<1>7. \A o \in Requests \ {r} : Known(o)'
  <2>1. \A o \in Requests \ {r} : req[o].op = "createCategory" =>
            \A x \in Requests \ {o} : req[o].of \notin Named(x)'
    BY <1>3, NamesAsked DEF Named
  <2> QED
    BY <1>3, <1>5, <2>1, <1>4, Bystander DEF TreeInv, Known, Creates, Moves, Drops, Begun, Rests, GoesOn
<1>8. RoomKept'
  <2>1. Shaped(parent') /\ (Risen(r)' => RoomAtTop')
    BY <1>1, <1>3, <1>4, <1>a DEF Sound, RoomAtTop, MayMove, Risen
  <2> QED
    BY <1>3, <1>5, <2>1, RoomStays
<1>9. Unentangled'
  <2>1. ASSUME NEW t \in Movers', NEW o \in Movers', t # r, o # r, Hidden(t, o)'
        PROVE  t \in Movers /\ o \in Movers /\ Hidden(t, o)
    BY <1>3, <1>4, <2>1 DEF Movers, Hidden, Moving, Live, Begun
  <2>2. ASSUME NEW t \in Movers', r \in Movers' PROVE ~Hidden(t, r)'
    <3>1. to # None /\ c \notin Ancestors(parent, to)
      BY <1>1, <1>3, <2>2 DEF Movers, MayMove
    <3> QED
      BY <1>3, <1>4, <1>a, <3>1 DEF Hidden
  <2> SUFFICES ASSUME NEW O \in SUBSET Movers', O # {}
               PROVE  \E t \in O : \A o \in O : ~Hidden(t, o)'
    BY DEF Unentangled
  <2>3. CASE O \subseteq {r}
    BY <2>2, <2>3
  <2>4. CASE ~(O \subseteq {r})
    <3>1. O \ {r} # {} /\ O \ {r} \in SUBSET Movers
      BY <2>4, <1>3, <1>4 DEF Movers, Moving, Live, Begun
    <3>2. PICK t \in O \ {r} : \A o \in O \ {r} : ~Hidden(t, o)
      BY <3>1 DEF TreeInv, Unentangled
    <3>3. \A o \in O : ~Hidden(t, o)'
      BY <3>2, <2>1, <2>2
    <3> QED
      BY <3>3
  <2> QED
    BY <2>3, <2>4
<1> QED
  BY <1>3, <1>4, <1>6, <1>7, <1>8, <1>9 DEF TreeInv, ReqType

(* Category m of move s goes below x: what lies ahead of a move now either  *)
(* did so before, or lay ahead of s, which lay ahead of that move.          *)
LEMMA StepUpdateCategory ==
    ASSUME TreeInv, NEW s \in Requests, UpdateCategory(s)
    PROVE  TreeInv'
<1> DEFINE m == req[s].of
           x == req[s].to
<1>1. /\ Moving(s) /\ m \in DOMAIN parent /\ (x # None => x \in DOMAIN parent)
      /\ ~tx[s].lost
      /\ tx[s].behind => /\ ~tx[s].ahead
                         /\ \A o \in Requests \ {s} : ~Meets(tx[o].reads, tx[s].writes)
      /\ tx' = AfterCommit(tx, s) /\ Ends(s) /\ brand' = brand /\ product' = product
      /\ parent' = [parent EXCEPT ![m] = x]
  BY DEF UpdateCategory, CommitsCategory, MayCommit, Moving, TreeInv
<1>2. /\ tx[s].open /\ Begun(s) /\ Able(s) /\ (tx[s].behind => Live(s))
      /\ Row(m) \in tx[s].writes /\ m \in Categories
      /\ x = None /\ parent[m] # None => Risen(s)
      /\ Risen(s) => TopRows \in tx[s].writes
  BY <1>1 DEF TreeInv, Known, TxOK, Moves, Moving, Begun, Able, Live
<1>3. req' \in ReqType /\ req'[s] = Idle /\ \A o \in Requests \ {s} : req'[o] = req[o]
  BY <1>1, AfterEnding
<1>4. /\ DOMAIN tx' = Requests /\ tx' = [o \in Requests |-> tx'[o]] /\ tx'[s] = Closed
      /\ \A o \in Requests \ {s} : Rests(o) /\ RecordOK(o)
  BY <1>1, <1>3, CommitRests
<1>5. ASSUME NEW o \in Requests \ {s}, tx[o].open
      PROVE  /\ ~tx'[o].lost => Row(m) \notin tx[o].updates
             /\ ~tx'[o].behind => Row(m) \notin tx[o].reads
             /\ ~tx'[o].ahead => \A w \in tx[o].writes : w \notin tx[s].reads
             /\ Risen(s) /\ Risen(o) => tx'[o].behind /\ tx'[o].ahead
  <2>1. /\ tx'[o].lost = (tx[o].lost \/ Meets(tx[o].updates, tx[s].writes))
        /\ tx'[o].behind = (tx[o].behind \/ Meets(tx[o].reads, tx[s].writes))
        /\ tx'[o].ahead = (tx[o].ahead \/ Meets(tx[s].reads, tx[o].writes))
    BY <1>1, <1>5, AfterACommit
  <2>2. Risen(o) => TopRows \in tx[o].writes
    BY <1>5 DEF TreeInv, Known, TxOK
  <2> QED
    BY <2>1, <2>2, <1>2 DEF Meets, Risen
<1>6. ~tx[s].behind /\ x # None => \A a \in Ancestors(parent, x) : a # m /\ Row(a) \in tx[s].reads
  BY <1>1, <1>2 DEF TreeInv, Known, Sees
<1>7. x = None \/ m \notin Ancestors(parent, x)
  <2>1. CASE tx[s].behind /\ x # None
    <3>1. {s} \in SUBSET Movers
      BY <2>1, <1>1, <1>2 DEF Movers
    <3>2. ~Hidden(s, s)
      BY <3>1 DEF TreeInv, Unentangled
    <3> QED
      BY <3>2 DEF Hidden
  <2> QED
    BY <2>1, <1>6
<1>8. Shaped(parent') /\ Grounded(parent')
  BY <1>1, <1>7, MovedTree DEF TreeInv, Sound
<1>9. /\ DOMAIN parent' = DOMAIN parent /\ parent'[m] = x
      /\ \A c \in DOMAIN parent \ {m} : parent'[c] = parent[c]
  BY <1>1
<1>10. \/ Tops(parent') \subseteq Tops(parent)
       \/ Tops(parent') \subseteq Tops(parent) \cup {m} /\ Risen(s)
  BY <1>2, <1>9 DEF Tops
<1>11. Sound'
  <2>1. Risen(s) => Cardinality(Tops(parent)) < MaxTops
    BY <1>2 DEF TreeInv, RoomKept, RoomAtTop
  <2>2. Cardinality(Tops(parent')) <= MaxTops
    BY <1>8, <1>10, <2>1, FewTops DEF TreeInv, Sound
  <2> QED
    BY <1>1, <1>8, <1>9, <2>2 DEF TreeInv, Sound
<1>12. RoomKept'
  <2>1. ASSUME NEW o \in Requests, Able(o)', Risen(o)'
        PROVE  Rests(o) /\ Tops(parent') \subseteq Tops(parent)
    <3>1. o # s /\ tx[o].open /\ Risen(o) /\ Rests(o)
      BY <2>1, <1>4 DEF Able, Begun, Closed, Rests, GoesOn, Risen
    <3> QED
      BY <3>1, <2>1, <1>5, <1>10 DEF Able
  <2> QED
    BY <2>1, <1>8, RoomStays
<1>13. ASSUME NEW o \in Requests PROVE Known(o)'
  <2>1. CASE o = s
    BY <2>1, <1>3, <1>4, Finished
  <2>2. CASE o # s
    <3>1. Rests(o) /\ RecordOK(o) /\ Known(o)
      BY <2>2, <1>4 DEF TreeInv
    <3>2. req[o].op = "createCategory" =>
              /\ req[o].of \notin DOMAIN parent'
              /\ \A y \in Requests \ {o} : req[o].of \notin Named(y)'
      BY <3>1, <1>1, <1>9, AfterEnding, NamesKept DEF Known, Creates
    <3>3. Moving(o) /\ Begun(o)' => req[o].of \in DOMAIN parent' /\ parent'[req[o].of] = parent[req[o].of]
      BY <3>1, <2>2, <1>5, <1>9 DEF Known, Moves, Begun, Rests, GoesOn
    <3>4. Moving(o) /\ Begun(o)' /\ ~tx'[o].behind /\ req[o].to # None =>
              Ancestors(parent', req[o].to) \subseteq Ancestors(parent, req[o].to)
      <4> HAVE Moving(o) /\ Begun(o)' /\ ~tx'[o].behind /\ req[o].to # None
      <4>1. tx[o].open /\ Begun(o) /\ ~tx[o].behind
        BY <3>1 DEF Begun, Rests, GoesOn
      <4>2. m \notin Ancestors(parent, req[o].to)
        BY <4>1, <3>1, <2>2, <1>5 DEF Known, Sees
      <4>3. req[o].to \in Categories
        BY <4>1, <3>1 DEF Known, Moves
      <4> QED
        BY <4>2, <4>3, <1>1, MovedAncestors DEF TreeInv, Sound
    <3>5. req[o].op = "deleteBrand" /\ Begun(o)' => \A p \in DOMAIN product' : product'[p].brand # req[o].of
      BY <3>1, <1>1 DEF Known, Drops, Begun, Rests, GoesOn
    <3> QED
      BY <3>1, <3>2, <3>3, <3>4, <3>5, Bystander
  <2> QED
    BY <2>1, <2>2
<1>14. Unentangled'
  <2>1. Movers' \subseteq Movers \ {s}
    BY <1>3, <1>4 DEF Movers, Moving, Live, Begun, Rests, GoesOn, Idle
  <2>2. ASSUME NEW t \in Movers', NEW o \in Movers', Hidden(t, o)', ~Hidden(t, o)
        PROVE  s \in Movers /\ Hidden(t, s) /\ Hidden(s, o)
    <3>1. /\ t \in Movers /\ o \in Movers /\ t # s /\ o # s /\ t \in Requests /\ o \in Requests
          /\ req'[t] = req[t] /\ req'[o] = req[o] /\ tx'[o].reads = tx[o].reads
          /\ tx[t].open /\ ~tx'[t].ahead /\ Moving(t) /\ Moving(o) /\ tx[o].open
      BY <2>1, <1>4 DEF Movers, Live, Begun, Rests, GoesOn
    <3>2. req[o].to \in Categories /\ req[o].to # None /\ Row(req[t].of) \in tx[t].writes
      BY <3>1, CatalogAssumption DEF TreeInv, Known, TxOK, Moves, Movers
    <3>3. req[t].of \in Ancestors(parent', req[o].to) /\ req[t].of \notin Ancestors(parent, req[o].to)
      BY <2>2, <3>1 DEF Hidden
    <3>4. m \in Ancestors(parent, req[o].to) /\ x # None /\ req[t].of \in Ancestors(parent, x)
      BY <1>1, <3>2, <3>3, MovedAncestors DEF TreeInv, Sound
    <3>5. Row(req[t].of) \notin tx[s].reads
      BY <3>1, <3>2, <1>5
    <3>6. tx[s].behind /\ Live(s) /\ s \in Movers
      BY <3>4, <3>5, <1>1, <1>2, <1>6 DEF Movers
    <3>7. Row(m) \notin tx[o].reads
      BY <3>1, <3>6, <1>1, <1>2 DEF Meets
    <3> QED
      BY <3>4, <3>5, <3>6, <3>7 DEF Hidden
  <2> SUFFICES ASSUME NEW O \in SUBSET Movers', O # {}
               PROVE  \E t \in O : \A o \in O : ~Hidden(t, o)'
    BY DEF Unentangled
  <2>3. PICK t0 \in O : \A o \in O : ~Hidden(t0, o)
    BY <2>1 DEF TreeInv, Unentangled
  <2>4. CASE s \notin Movers
    BY <2>2, <2>3, <2>4
  <2>5. CASE s \in Movers
    <3>1. O \cup {s} \in SUBSET Movers /\ O \cup {s} # {}
      BY <2>1, <2>5
    <3>2. PICK t1 \in O \cup {s} : \A o \in O \cup {s} : ~Hidden(t1, o)
      BY <3>1 DEF TreeInv, Unentangled
    <3>3. CASE t1 = s
      BY <2>2, <2>3, <3>2, <3>3
    <3>4. CASE t1 # s
      BY <2>2, <3>2, <3>4
    <3> QED
      BY <3>3, <3>4
  <2> QED
    BY <2>4, <2>5
<1> QED
  BY <1>1, <1>3, <1>4, <1>11, <1>12, <1>13, <1>14 DEF TreeInv, ReqType

LEMMA StepCreateCategory ==
    ASSUME TreeInv, NEW r \in Requests, CreateCategory(r)
    PROVE  TreeInv'
<1> DEFINE c == req[r].of
           x == req[r].to
<1>1. /\ req[r].op = "createCategory" /\ (x # None => x \in DOMAIN parent)
      /\ MayCommit(tx, r) /\ tx' = AfterCommit(tx, r) /\ Ends(r) /\ brand' = brand /\ product' = product
      /\ parent' = [d \in DOMAIN parent \cup {c} |-> IF d = c THEN x ELSE parent[d]]
  BY DEF CreateCategory, CommitsCategory
<1>2. /\ tx[r].open /\ Able(r) /\ c \in Categories \ DOMAIN parent
      /\ \A o \in Requests \ {r} : c \notin Named(o)
      /\ x = None => Risen(r)
      /\ Risen(r) => TopRows \in tx[r].writes
  BY <1>1 DEF TreeInv, Known, TxOK, Creates, Begun, Able, MayCommit
<1>3. req' \in ReqType /\ req'[r] = Idle /\ \A o \in Requests \ {r} : req'[o] = req[o]
  BY <1>1, AfterEnding
<1>4. /\ DOMAIN tx' = Requests /\ tx' = [o \in Requests |-> tx'[o]] /\ tx'[r] = Closed
      /\ \A o \in Requests \ {r} : Rests(o) /\ RecordOK(o)
  BY <1>1, <1>3, CommitRests
<1>5. /\ Shaped(parent') /\ Grounded(parent')
      /\ \A d \in Categories \ {c} : Ancestors(parent', d) \subseteq Ancestors(parent, d)
  <2>1. Shaped(parent) /\ Grounded(parent) /\ x \in DOMAIN parent \cup {None}
    BY <1>1 DEF TreeInv, Sound
  <2> QED
    BY <1>1, <1>2, <2>1, GrownTree
<1>6. /\ DOMAIN parent' = DOMAIN parent \cup {c} /\ parent'[c] = x
      /\ \A d \in DOMAIN parent : parent'[d] = parent[d]
  BY <1>1, <1>2
<1>7. \/ Tops(parent') \subseteq Tops(parent)
      \/ Tops(parent') \subseteq Tops(parent) \cup {c} /\ Risen(r)
  BY <1>2, <1>6 DEF Tops
<1>8. Sound'
  <2>1. Risen(r) => Cardinality(Tops(parent)) < MaxTops
    BY <1>2 DEF TreeInv, RoomKept, RoomAtTop
  <2>2. Cardinality(Tops(parent')) <= MaxTops
    BY <1>5, <1>7, <2>1, FewTops DEF TreeInv, Sound
  <2> QED
    BY <1>1, <1>5, <1>6, <2>2 DEF TreeInv, Sound
<1>9. RoomKept'
  <2>1. ASSUME NEW o \in Requests, Able(o)', Risen(o)'
        PROVE  Rests(o) /\ Tops(parent') \subseteq Tops(parent)
    <3>1. o # r /\ tx[o].open /\ Risen(o) /\ Rests(o) /\ TopRows \in tx[o].writes
      BY <2>1, <1>4 DEF Able, Begun, Closed, Rests, GoesOn, Risen, TreeInv, Known, TxOK
    <3>2. /\ tx'[o].behind = (tx[o].behind \/ Meets(tx[o].reads, tx[r].writes))
          /\ tx'[o].ahead = (tx[o].ahead \/ Meets(tx[r].reads, tx[o].writes))
      BY <1>1, <3>1, AfterACommit
    <3>3. ~Risen(r)
      BY <2>1, <3>1, <3>2, <1>2 DEF Able, Risen, Meets
    <3> QED
      BY <3>1, <3>3, <1>7
  <2> QED
    BY <2>1, <1>5, RoomStays
<1>10. ASSUME NEW o \in Requests \ {r}, Moving(o), tx[o].open, req[o].to # None
       PROVE  Ancestors(parent', req[o].to) \subseteq Ancestors(parent, req[o].to)
  <2>1. req[o].to \in Categories \ {c}
    BY <1>2, <1>10 DEF TreeInv, Known, Moves, Named, Moving
  <2> QED
    BY <2>1, <1>5
<1>11. ASSUME NEW o \in Requests PROVE Known(o)'
  <2>1. CASE o = r
    BY <2>1, <1>3, <1>4, Finished
  <2>2. CASE o # r
    <3>1. Rests(o) /\ RecordOK(o) /\ Known(o)
      BY <2>2, <1>4 DEF TreeInv
    <3>2. req[o].op = "createCategory" =>
              /\ req[o].of \notin DOMAIN parent'
              /\ \A y \in Requests \ {o} : req[o].of \notin Named(y)'
      <4>1. req[o].op = "createCategory" => req[o].of # c
        BY <1>2, <2>2 DEF Named
      <4> QED
        BY <4>1, <3>1, <1>1, <1>6, AfterEnding, NamesKept DEF Known, Creates
    <3>3. Moving(o) /\ Begun(o)' => req[o].of \in DOMAIN parent' /\ parent'[req[o].of] = parent[req[o].of]
      BY <3>1, <2>2, <1>6 DEF Known, Moves, Begun, Rests, GoesOn
    <3>4. Moving(o) /\ Begun(o)' /\ ~tx'[o].behind /\ req[o].to # None =>
              Ancestors(parent', req[o].to) \subseteq Ancestors(parent, req[o].to)
      BY <3>1, <2>2, <1>10 DEF Begun, Rests, GoesOn
    <3>5. req[o].op = "deleteBrand" /\ Begun(o)' => \A p \in DOMAIN product' : product'[p].brand # req[o].of
      BY <3>1, <1>1 DEF Known, Drops, Begun, Rests, GoesOn
    <3> QED
      BY <3>1, <3>2, <3>3, <3>4, <3>5, Bystander
  <2> QED
    BY <2>1, <2>2
<1>12. Unentangled'
  <2>1. \A o \in Movers' : o \in Requests \ {r} /\ Moving(o) /\ tx[o].open /\ req[o].to # None /\ Rests(o)
    BY <1>3, <1>4 DEF Movers, Moving, Live, Begun, Rests, GoesOn, Idle
  <2> QED
    BY <2>1, <1>10, StaysUntangled
<1> QED
  BY <1>1, <1>3, <1>4, <1>8, <1>9, <1>11, <1>12 DEF TreeInv, ReqType

(* Where the tree stays and nobody opens a transaction.                     *)
LEMMA TreeStays ==
    ASSUME TreeInv, parent' = parent,
           \A o \in Requests : Rests(o) \/ ~tx'[o].open
    PROVE  RoomKept' /\ Unentangled'
<1>1. \A o \in Requests : ~(Able(o)' /\ Risen(o)') \/ RoomAtTop' \/ (Rests(o) /\ Tops(parent') \subseteq Tops(parent))
  BY DEF Able, Begun
<1>2. Shaped(parent')
  BY DEF TreeInv, Sound
<1>3. RoomKept'
  BY <1>1, <1>2, RoomStays
<1>4. \A o \in Movers' : Rests(o)
  BY DEF Movers, Live, Begun
<1> QED
  BY <1>3, <1>4, StaysUntangled

(* A request that is taken up without a transaction.                        *)
LEMMA StepAskAlone ==
    ASSUME TreeInv, NEW r \in Requests, AskDeleteCategory(r) \/ AskUpdateProduct(r)
    PROVE  TreeInv'
<1>1. /\ tx' = tx
      /\ \E op \in {"deleteCategory", "updateProduct"}, of \in Categories \cup Products,
             to \in {None} \cup Categories, b \in {None} \cup Brands : Asks(r, op, of, to, b)
  <2>1. CASE AskDeleteCategory(r)
    BY <2>1 DEF AskDeleteCategory, TreeInv, Sound, Shaped
  <2>2. CASE AskUpdateProduct(r)
    BY <2>2 DEF AskUpdateProduct, TreeInv, Sound, Shaped
  <2> QED
    BY <2>1, <2>2
<1>2. PICK op \in {"deleteCategory", "updateProduct"}, of \in Categories \cup Products,
           to \in {None} \cup Categories, b \in {None} \cup Brands : Asks(r, op, of, to, b)
  BY <1>1
<1>3. /\ req[r] = Idle /\ ~tx[r].open /\ tx[r] = Closed
      /\ parent' = parent /\ brand' = brand /\ product' = product
      /\ req' \in ReqType /\ Sound' /\ req'[r].op = op
      /\ \A o \in Requests \ {r} : req'[o] = req[o]
  BY <1>2, AfterAsking DEF Operations
<1>4. \A o \in Requests : (o # r => Rests(o)) /\ RecordOK(o)
  BY <1>1, <1>3 DEF Rests, GoesOn, RecordOK, TreeInv, Known, TxOK
<1>5. Known(r)'
  BY <1>1, <1>3 DEF Known, TxOK, Creates, Moves, Moving, Sees, Drops
<1>6. ASSUME NEW o \in Requests \ {r} PROVE Known(o)'
  <2>1. req[o].op = "createCategory" => \A y \in Requests \ {o} : req[o].of \notin Named(y)'
    BY <1>3, NamesAsked DEF Named
  <2> QED
    BY <1>1, <1>3, <1>4, <2>1, Bystander DEF TreeInv, Known, Creates, Moves, Drops, Begun
<1> QED
  BY <1>1, <1>3, <1>4, <1>5, <1>6, TreeStays DEF TreeInv, ReqType

LEMMA StepDeleteCategory ==
    ASSUME TreeInv, NEW r \in Requests, DeleteCategory(r)
    PROVE  TreeInv'
<1> DEFINE c == req[r].of
<1>1. /\ req[r].op = "deleteCategory" /\ c \in DOMAIN parent
      /\ \A d \in DOMAIN parent : parent[d] # c
      /\ \A p \in DOMAIN product : product[p].category # c
      /\ parent' = [d \in DOMAIN parent \ {c} |-> parent[d]]
      /\ tx' = AfterStatement(tx, {Row(c)}) /\ Ends(r) /\ brand' = brand /\ product' = product
  BY DEF DeleteCategory
<1>2. ~tx[r].open
  BY <1>1 DEF TreeInv, Known, TxOK
<1>3. req' \in ReqType /\ req'[r] = Idle /\ \A o \in Requests \ {r} : req'[o] = req[o]
  BY <1>1, AfterEnding
<1>4. /\ DOMAIN tx' = Requests /\ tx' = [o \in Requests |-> tx'[o]] /\ tx'[r] = Closed
      /\ \A o \in Requests : RecordOK(o) /\ (o # r => Rests(o))
  BY <1>1, <1>2, <1>3, StatementRests DEF Rests, RecordOK, GoesOn
<1>5. /\ Shaped(parent') /\ Grounded(parent') /\ Tops(parent') \subseteq Tops(parent)
      /\ \A d \in Categories : Ancestors(parent', d) \subseteq Ancestors(parent, d)
  BY <1>1, PrunedTree DEF TreeInv, Sound
<1>6. /\ DOMAIN parent' = DOMAIN parent \ {c}
      /\ \A d \in DOMAIN parent \ {c} : parent'[d] = parent[d]
  BY <1>1
<1>7. Sound'
  <2>1. Cardinality(Tops(parent')) <= MaxTops
    BY <1>5, FewTops DEF TreeInv, Sound
  <2> QED
    BY <1>1, <1>5, <1>6, <2>1 DEF TreeInv, Sound
<1>9. ASSUME NEW o \in Requests PROVE Known(o)'
  <2>1. CASE o = r
    BY <2>1, <1>3, <1>4, Finished
  <2>2. CASE o # r
    <3>1. Rests(o) /\ RecordOK(o) /\ Known(o)
      BY <2>2, <1>4 DEF TreeInv
    <3>2. req[o].op = "createCategory" =>
              /\ req[o].of \notin DOMAIN parent'
              /\ \A y \in Requests \ {o} : req[o].of \notin Named(y)'
      BY <3>1, <1>1, <1>6, AfterEnding, NamesKept DEF Known, Creates
    <3>3. Moving(o) /\ Begun(o)' => req[o].of \in DOMAIN parent' /\ parent'[req[o].of] = parent[req[o].of]
      <4> HAVE Moving(o) /\ Begun(o)'
      <4>1. tx[o].open /\ Begun(o) /\ ~Meets(tx[o].updates, {Row(c)})
        BY <3>1, <1>1, AfterAStatement DEF Begun, Rests, GoesOn
      <4> QED
        BY <4>1, <3>1, <1>6 DEF Known, Moves, Begun, Meets
    <3>4. Moving(o) /\ Begun(o)' /\ ~tx'[o].behind /\ req[o].to # None =>
              Ancestors(parent', req[o].to) \subseteq Ancestors(parent, req[o].to)
      BY <1>5 DEF TreeInv
    <3>5. req[o].op = "deleteBrand" /\ Begun(o)' => \A p \in DOMAIN product' : product'[p].brand # req[o].of
      BY <3>1, <1>1 DEF Known, Drops, Begun, Rests, GoesOn
    <3> QED
      BY <3>1, <3>2, <3>3, <3>4, <3>5, Bystander
  <2> QED
    BY <2>1, <2>2
<1>10. \A o \in Requests : ~(Able(o)' /\ Risen(o)') \/ (Rests(o) /\ Tops(parent') \subseteq Tops(parent))
  BY <1>4, <1>5 DEF Able, Begun, Closed
<1>11. RoomKept'
  BY <1>5, <1>10, RoomStays
<1>12. Unentangled'
  <2>1. \A o \in Movers' : Rests(o) /\ req[o].to \in Categories
    BY <1>3, <1>4 DEF Movers, Live, Begun, Closed, Rests, TreeInv
  <2> QED
    BY <2>1, <1>5, StaysUntangled
<1> QED
  BY <1>1, <1>3, <1>4, <1>7, <1>9, <1>11, <1>12 DEF TreeInv, ReqType

(* The deletion found no product of the brand, and there is none yet.       *)
LEMMA NoneInBrand ==
    ASSUME TreeInv, NEW r \in Requests, DeleteBrand(r)
    PROVE  \A p \in DOMAIN product : product[p].brand # req[r].of
  BY DEF DeleteBrand, MayCommit, TreeInv, Known, TxOK, Drops

LEMMA StepDeleteBrand ==
    ASSUME TreeInv, NEW r \in Requests, DeleteBrand(r)
    PROVE  TreeInv' /\ \A p \in DOMAIN product : p \in DOMAIN product' /\ product'[p] = product[p]
<1>1. /\ tx' = AfterCommit(tx, r) /\ Ends(r) /\ parent' = parent /\ brand' \subseteq brand
      /\ DOMAIN product' = DOMAIN product /\ \A p \in DOMAIN product : product'[p] = product[p]
  BY NoneInBrand DEF DeleteBrand
<1>2. req' \in ReqType /\ req'[r] = Idle /\ \A o \in Requests \ {r} : req'[o] = req[o]
  BY <1>1, AfterEnding
<1>3. /\ DOMAIN tx' = Requests /\ tx' = [o \in Requests |-> tx'[o]] /\ tx'[r] = Closed
      /\ \A o \in Requests \ {r} : Rests(o) /\ RecordOK(o)
  BY <1>1, <1>2, CommitRests
<1>4. Known(r)'
  BY <1>2, <1>3, Finished
<1>5. ASSUME NEW o \in Requests \ {r} PROVE Known(o)'
  <2>1. Rests(o) /\ RecordOK(o) /\ Known(o)
    BY <1>3 DEF TreeInv
  <2>2. req[o].op = "createCategory" => \A y \in Requests \ {o} : req[o].of \notin Named(y)'
    BY <1>1, AfterEnding, NamesKept
  <2> QED
    BY <2>1, <2>2, <1>1, Bystander DEF Known, Creates, Moves, Drops, Begun, Rests, GoesOn
<1>6. \A o \in Requests : Rests(o) \/ ~tx'[o].open
  BY <1>3 DEF Closed
<1>7. Sound' /\ \A p \in DOMAIN product' : product'[p] \in [category : Categories, brand : Brands \cup {None}]
  BY <1>1 DEF TreeInv, Sound
<1> QED
  BY <1>1, <1>2, <1>3, <1>4, <1>5, <1>6, <1>7, TreeStays DEF TreeInv, ReqType

(* A statement puts product p under category c and brand b.                 *)
LEMMA ProductFiled ==
    ASSUME TreeInv, NEW p \in Products, NEW c, NEW b, Files(p, c, b), parent' = parent, brand' = brand,
           req' \in ReqType, \A o \in Requests : req'[o] = req[o] \/ (req'[o] = Idle /\ ~tx[o].open)
    PROVE  TreeInv'
<1>1. /\ c \in DOMAIN parent /\ b \in Brands \cup {None} /\ c \in Categories
      /\ DOMAIN product' = DOMAIN product \cup {p} /\ product'[p] = [category |-> c, brand |-> b]
      /\ \A q \in DOMAIN product \ {p} : product'[q] = product[q]
      /\ tx' = AfterStatement(tx, {ProductsOf(b)})
  BY DEF Files, TreeInv, Sound, Shaped
<1>2. /\ DOMAIN tx' = Requests /\ tx' = [o \in Requests |-> tx'[o]]
      /\ \A o \in Requests : GoesOn(o) /\ RecordOK(o)
  BY <1>1, StatementRests
<1>3. \A o \in Requests : Rests(o) \/ ~tx'[o].open
  BY <1>2 DEF Rests, GoesOn
<1>4. ASSUME NEW o \in Requests PROVE Known(o)'
  <2>1. CASE req'[o] # req[o]
    BY <2>1, <1>2, Finished DEF RecordOK, GoesOn
  <2>2. CASE req'[o] = req[o]
    <3>1. Rests(o) /\ RecordOK(o) /\ Known(o)
      BY <2>2, <1>2 DEF TreeInv, Rests
    <3>2. req[o].op = "createCategory" => \A y \in Requests \ {o} : req[o].of \notin Named(y)'
      <4>1. \A y \in Requests : Named(y)' \subseteq Named(y)
        BY DEF Named, Idle
      <4> QED
        BY <4>1, NamesKept
    <3>3. req[o].op = "deleteBrand" /\ Begun(o)' => \A q \in DOMAIN product' : product'[q].brand # req[o].of
      <4> HAVE req[o].op = "deleteBrand" /\ Begun(o)'
      <4>1. tx[o].open /\ Begun(o) /\ ~Meets(tx[o].updates, {ProductsOf(b)})
        BY <3>1, <1>1, AfterAStatement DEF Begun, Rests, GoesOn
      <4>2. b # req[o].of
        BY <4>1, <3>1 DEF Known, Drops, Meets
      <4> QED
        BY <4>1, <4>2, <3>1, <1>1 DEF Known, Drops, Begun
    <3> QED
      BY <3>1, <3>2, <3>3, Bystander DEF Known, Creates, Moves, Begun, Rests, GoesOn
  <2> QED
    BY <2>1, <2>2
<1>5. Sound' /\ \A q \in DOMAIN product' : product'[q] \in [category : Categories, brand : Brands \cup {None}]
  BY <1>1 DEF TreeInv, Sound
<1> QED
  BY <1>1, <1>2, <1>3, <1>4, <1>5, TreeStays DEF TreeInv, ReqType

LEMMA StepUpdateProduct ==
    ASSUME TreeInv, NEW r \in Requests, UpdateProduct(r)
    PROVE  TreeInv'
<1>1. PICK c, b : Files(req[r].of, c, b)
  BY DEF UpdateProduct
<1>2. /\ req[r].op = "updateProduct" /\ req[r].of \in Products
      /\ Ends(r) /\ parent' = parent /\ brand' = brand
  BY DEF UpdateProduct, TreeInv
<1>3. ~tx[r].open
  BY <1>2 DEF TreeInv, Known, TxOK
<1> QED
  BY <1>1, <1>2, <1>3, ProductFiled, AfterEnding

LEMMA StepRefused ==
    ASSUME TreeInv, NEW r \in Requests, Refused(r)
    PROVE  TreeInv'
<1>1. /\ Ends(r) /\ tx' = [tx EXCEPT ![r] = Closed]
      /\ parent' = parent /\ brand' = brand /\ product' = product
  BY DEF Refused
<1>2. req' \in ReqType /\ req'[r] = Idle /\ \A o \in Requests \ {r} : req'[o] = req[o]
  BY <1>1, AfterEnding
<1>3. /\ DOMAIN tx' = Requests /\ tx' = [o \in Requests |-> tx'[o]] /\ tx'[r] = Closed
      /\ \A o \in Requests \ {r} : tx'[o] = tx[o]
  BY <1>1 DEF TreeInv
<1>4. \A o \in Requests \ {r} : Rests(o) /\ RecordOK(o)
  BY <1>2, <1>3 DEF Rests, GoesOn, RecordOK, TreeInv, Known, TxOK
<1>5. Known(r)'
  BY <1>2, <1>3, Finished
<1>6. ASSUME NEW o \in Requests \ {r} PROVE Known(o)'
  <2>1. req[o].op = "createCategory" => \A y \in Requests \ {o} : req[o].of \notin Named(y)'
    BY <1>1, AfterEnding, NamesKept
  <2> QED
    BY <1>1, <1>4, <2>1, Bystander DEF TreeInv, Known, Creates, Moves, Drops, Begun, Rests, GoesOn
<1>7. \A o \in Requests : Rests(o) \/ ~tx'[o].open
  BY <1>3, <1>4 DEF Closed
<1> QED
  BY <1>1, <1>2, <1>3, <1>5, <1>6, <1>7, TreeStays DEF TreeInv, Sound, ReqType

(* What needs no request: a brand, a product, a product's end, or nothing.  *)
LEMMA StepAtOnce ==
    ASSUME TreeInv, CreateBrand \/ CreateProduct \/ DeleteProduct \/ UNCHANGED vars
    PROVE  TreeInv'
<1>1. CASE CreateProduct
  BY <1>1, ProductFiled DEF CreateProduct, TreeInv, ReqType
<1>2. CASE CreateBrand \/ DeleteProduct \/ UNCHANGED vars
  <2>1. /\ parent' = parent /\ req' = req /\ tx' = tx /\ brand' \subseteq Brands
        /\ DOMAIN product' \subseteq DOMAIN product
        /\ \A p \in DOMAIN product' : product'[p] = product[p]
    BY <1>2 DEF CreateBrand, DeleteProduct, vars, TreeInv
  <2>2. \A o \in Requests : Rests(o) /\ RecordOK(o)
    BY <2>1 DEF Rests, GoesOn, RecordOK, TreeInv, Known, TxOK
  <2>3. ASSUME NEW o \in Requests PROVE Known(o)'
    <3>1. req[o].op = "createCategory" => \A y \in Requests \ {o} : req[o].of \notin Named(y)'
      BY <2>1, NamesKept DEF Named
    <3> QED
      BY <2>1, <2>2, <3>1, Bystander DEF TreeInv, Known, Creates, Moves, Drops, Begun, Rests, GoesOn
  <2>4. Sound' /\ \A p \in DOMAIN product' : product'[p] \in [category : Categories, brand : Brands \cup {None}]
    BY <2>1 DEF TreeInv, Sound
  <2> QED
    BY <2>1, <2>2, <2>3, <2>4, TreeStays DEF TreeInv
<1> QED
  BY <1>1, <1>2

LEMMA TreeStarts ==
    ASSUME Init
    PROVE  TreeInv
<1>1. /\ parent \in Trees /\ brand \in SUBSET Brands /\ product = <<>>
      /\ req = [r \in Requests |-> Idle] /\ tx = [r \in Requests |-> Closed]
  BY DEF Init
<1>2. PICK D \in SUBSET Categories : parent \in [D -> D \cup {None}]
  BY <1>1 DEF Trees
<1>3. Shaped(parent) /\ Grounded(parent) /\ Cardinality(Tops(parent)) <= MaxTops
  BY <1>1, <1>2, RootedIsGrounded DEF Trees
<1>4. DOMAIN product = {}
  BY <1>1
<1>5. \A r \in Requests : Known(r) /\ ~tx[r].open
  BY <1>1 DEF Known, TxOK, Creates, Moves, Moving, Sees, Drops, Idle, Closed
<1>6. RoomKept /\ Unentangled
  BY <1>5 DEF RoomKept, Unentangled, Movers, Able, Live, Begun
<1>7. Idle \in [op : Operations, of : {None} \cup Categories \cup Brands \cup Products,
                to : {None} \cup Categories, brand : {None} \cup Brands]
  BY DEF Idle, Operations
<1>8. DOMAIN tx = Requests /\ tx = [r \in Requests |-> tx[r]]
  BY <1>1
<1> QED
  BY <1>1, <1>3, <1>4, <1>5, <1>6, <1>7, <1>8 DEF TreeInv, Sound

LEMMA TreeStep ==
    ASSUME TreeInv, [Next]_vars
    PROVE  TreeInv'
<1>1. CASE UNCHANGED vars
  BY <1>1, StepAtOnce
<1>2. CASE Next
  BY <1>2, StepAskCreateCategory, StepCreateCategory, StepAskUpdateCategory, StepUpdateCategory, StepAskAlone,
     StepDeleteCategory, StepAskDeleteBrand, StepDeleteBrand, StepUpdateProduct, StepRefused, StepAtOnce DEF Next
<1> QED
  BY <1>1, <1>2

(* The inductive invariant of the category tree, the brands and the         *)
(* products under concurrent SERIALIZABLE requests                          *)
(* (AdminCategoriesService, AdminBrandsService, AdminProductsService).      *)
THEOREM TreeInvariant == Spec => []TreeInv
  BY TreeStarts, TreeStep, PTL DEF Spec

(* However the administrators' requests meet, the categories are trees under *)
(* at most two top ones and every product hangs on one that is there.       *)
THEOREM TreeStaysSound == Spec => []TreeSound
<1>1. TreeInv => TreeSound
  BY GroundedIsRooted DEF TreeInv, Sound, TreeSound
<1> QED
  BY <1>1, TreeInvariant, PTL

(* Deleting a brand takes it from no product, not even from one that joins  *)
(* the brand during the deletion (AdminBrandsService.delete).               *)
THEOREM NoBrandLost == Spec => BrandsKept
<1> DEFINE Kept == \A p \in DOMAIN product \cap DOMAIN product' :
                      product'[p].brand # product[p].brand =>
                          \E r \in Requests : req[r].op = "updateProduct" /\ req[r].of = p /\ req'[r] = Idle
<1>1. ASSUME TreeInv, [Next]_vars PROVE [Kept]_vars
  <2>1. CASE product' = product
    BY <2>1
  <2>2. ASSUME NEW r \in Requests, UpdateProduct(r) PROVE Kept
    <3>1. req[r].op = "updateProduct" /\ req'[r] = Idle
      BY <1>1, <2>2, AfterEnding DEF UpdateProduct
    <3>2. \A p \in DOMAIN product : p # req[r].of => product'[p] = product[p]
      BY <2>2 DEF UpdateProduct, Files
    <3> QED
      BY <3>1, <3>2
  <2>3. ASSUME NEW r \in Requests, DeleteBrand(r) PROVE Kept
    BY <1>1, <2>3, StepDeleteBrand
  <2>4. CASE CreateProduct
    BY <2>4 DEF CreateProduct, Files
  <2>5. CASE DeleteProduct
    BY <2>5 DEF DeleteProduct
  <2> QED
    BY <1>1, <2>1, <2>2, <2>3, <2>4, <2>5
    DEF Next, vars, AskCreateCategory, CreateCategory, AskUpdateCategory, UpdateCategory, AskDeleteCategory,
        DeleteCategory, AskDeleteBrand, AskUpdateProduct, Refused, CreateBrand, CommitsCategory, Asks
<1> QED
  BY <1>1, TreeInvariant, PTL DEF Spec, BrandsKept

-----------------------------------------------------------------------------
(* The images of a product.                                                 *)
IsRows(f) == /\ f = [i \in DOMAIN f |-> f[i]] /\ DOMAIN f \subseteq Images
             /\ \A i \in DOMAIN f : f[i] \in [position : {f[i].position}, primary : BOOLEAN]

Ops == {"none", "upload", "save", "order", "delete"}
Stages == {"none", "sent", "found", "writing", "open", "dropping", "answered"}

IsStep(k) ==
    /\ k \in [op : Ops, at : Stages, image : Images \cup {0}, primary : BOOLEAN, sets : {k.sets},
              puts : SUBSET Variants, drops : SUBSET Variants, failed : BOOLEAN, known : BOOLEAN, live : BOOLEAN]
    /\ IsRows(k.sets)

Recorded(c) ==
    /\ IsStep(call[c])
    /\ IF call[c].at = "open"
       THEN /\ txn[c].open
            /\ txn[c] \in [open : BOOLEAN, reads : {txn[c].reads}, updates : {txn[c].updates}, writes : {txn[c].writes},
                           lost : BOOLEAN, behind : BOOLEAN, ahead : BOOLEAN]
       ELSE txn[c] = Closed

(* How far a call is, and what it knows by then.                            *)
Staged(c) ==
    /\ call[c].at = "none" \/ call[c].op = "none" => call[c] = NoCall
    /\ call[c].puts # {} => call[c].at = "writing"
    /\ call[c].drops # {} => call[c].at = "dropping"
    /\ call[c].at = "writing" => call[c].op = "upload"
    /\ call[c].at = "found" => call[c].op = "delete"
    /\ call[c].at = "open" => call[c].op \in {"upload", "save", "order"}
    /\ call[c].at = "dropping" => call[c].op \in {"upload", "delete"}
    /\ call[c].at = "answered" => call[c].live /\ (call[c].op = "delete" => call[c].failed)
    /\ call[c].at \in {"sent", "found", "open"} => ~call[c].failed
    /\ call[c].at \in {"sent", "found", "writing", "open"} => call[c].known
    /\ call[c].op = "upload" /\ call[c].at = "dropping" /\ call[c].live => call[c].failed
    /\ call[c].op = "delete" /\ call[c].at = "dropping" => ~call[c].failed
    /\ call[c].at = "answered" /\ call[c].failed => call[c].sets = <<>>
    /\ call[c].image \in drawn \cup {0}

(* The rows a transaction writes.                                           *)
StillMay(c) == ~txn[c].lost /\ ~(txn[c].behind /\ txn[c].ahead)
Marks(c) == call[c].op # "order" /\ call[c].sets[call[c].image].primary

Writes(c) ==
    call[c].at = "open" =>
        /\ txn[c].writes = DOMAIN call[c].sets
        /\ txn[c].updates = DOMAIN call[c].sets \ IF call[c].op = "upload" THEN {call[c].image} ELSE {}
        /\ ~txn[c].lost => /\ txn[c].updates \subseteq DOMAIN row
                           /\ call[c].op = "order" =>
                                 \A i \in DOMAIN call[c].sets : call[c].sets[i].primary = row[i].primary
        /\ call[c].op # "order" => /\ call[c].image \in DOMAIN call[c].sets
                                   /\ Primaries(call[c].sets) \subseteq {call[c].image}
        /\ Marks(c) => /\ txn[c].reads = Images
                       /\ StillMay(c) => Primaries(row) \subseteq DOMAIN call[c].sets

(* Its files.                                                               *)
Uploading(c) == call[c].op = "upload" /\ call[c].at \in {"writing", "open"}

Puts(c) ==
    Uploading(c) =>
        /\ call[c].image \in drawn \ DOMAIN row
        /\ \A o \in Calls \ {c} : call[o].image # call[c].image
        /\ ~call[c].failed => \A v \in Variants \ call[c].puts : <<call[c].image, v>> \in file

Gone(f) == f \notin file \/ f \in excused
Takes(c) ==
    call[c].at = "dropping" =>
        /\ call[c].image \in DOMAIN row => call[c].image \in doubtful
        /\ \A v \in Variants \ call[c].drops : Gone(<<call[c].image, v>>)

(* The files without a row are those of a call that works on them.          *)
Works(c) == call[c].at \in {"writing", "dropping"} \/ (call[c].op = "upload" /\ call[c].at = "open")
Kept(f) == f[1] \in DOMAIN row \/ f \in excused \/ \E c \in Calls : call[c].image = f[1] /\ Works(c)

(* The page, which waits for one call at a time.                            *)
Fitting(op, i, sets, rows) ==
    IF op = "order" THEN /\ DOMAIN sets = DOMAIN rows
                         /\ \A j \in DOMAIN rows : sets[j].primary = rows[j].primary
    ELSE /\ i \in DOMAIN sets
         /\ op = "save" => i \in DOMAIN rows
         /\ IF sets[i].primary THEN /\ DOMAIN sets = DOMAIN rows \cup {i}
                                    /\ \A j \in DOMAIN rows \ {i} : sets[j] = [rows[j] EXCEPT !.primary = FALSE]
            ELSE DOMAIN sets = {i}
Fits(c, rows) == Fitting(call[c].op, call[c].image, call[c].sets, rows)

Told(c) ==
    /\ call[c].live
    /\ call[c].at \in {"sent", "writing", "found", "open"} \/ (call[c].failed /\ call[c].known) => page.images = row
    /\ call[c].op = "order" /\ call[c].at = "sent" => DOMAIN call[c].sets = DOMAIN page.images
    /\ call[c].at = "open" \/ (call[c].at = "answered" /\ ~call[c].failed) => Fits(c, page.images)
    /\ call[c].at = "answered" /\ ~call[c].failed => row = Merged(call[c].sets, page.images)
    /\ call[c].at = "dropping" /\ ~call[c].failed => row = Without(page.images, call[c].image)

Followed ==
    /\ page \in [open : BOOLEAN, busy : BOOLEAN, images : {page.images}, form : {page.form}, touched : {page.touched}]
    /\ IsRows(page.images)
    /\ ~page.open => page = Away /\ \A c \in Calls : ~call[c].live
    /\ page.open =>
          /\ page.form = [i \in DOMAIN page.images |-> page.form[i]]
          /\ \A i \in DOMAIN page.images : page.form[i] \in BOOLEAN /\ (page.form[i] = page.images[i].primary \/ i \in page.touched)
          /\ \A c \in Calls : call[c] # NoCall => Told(c) /\ page.busy /\ \A o \in Calls \ {c} : call[o] = NoCall
          /\ ~page.busy => page.images = row

ImagesInv ==
    /\ DOMAIN call = Calls /\ call = [c \in Calls |-> call[c]]
    /\ DOMAIN txn = Calls /\ txn = [c \in Calls |-> txn[c]]
    /\ IsRows(row) /\ DOMAIN row \subseteq drawn /\ drawn \subseteq Images /\ file \subseteq Images \X Variants
    /\ \A i, j \in Primaries(row) : i = j
    /\ \A c \in Calls : Recorded(c) /\ Staged(c) /\ Writes(c) /\ Puts(c) /\ Takes(c)
    /\ ImagesServed /\ (\A f \in file : Kept(f)) /\ Followed

-----------------------------------------------------------------------------
(* Rows, and the operators on them.                                         *)
USE ImagesAssumption

LEMMA NoRows == IsRows(<<>>) /\ DOMAIN <<>> = {} /\ Primaries(<<>>) = {}
<1>1. DOMAIN <<>> = {} /\ <<>> = [i \in {} |-> <<>>[i]]
  OBVIOUS
<1> QED
  BY <1>1 DEF IsRows, Primaries

LEMMA SameRows ==
    ASSUME NEW f, IsRows(f), NEW g, IsRows(g), DOMAIN f = DOMAIN g,
           \A i \in DOMAIN f : f[i].position = g[i].position /\ f[i].primary = g[i].primary
    PROVE  f = g
<1>1. \A i \in DOMAIN f : f[i] = g[i]
  BY DEF IsRows
<1> QED
  BY <1>1 DEF IsRows

LEMMA MergedRows ==
    ASSUME NEW f, IsRows(f), NEW g, IsRows(g)
    PROVE  /\ IsRows(Merged(f, g)) /\ DOMAIN Merged(f, g) = DOMAIN f \cup DOMAIN g
           /\ \A i \in DOMAIN f : Merged(f, g)[i] = f[i]
           /\ \A i \in DOMAIN g \ DOMAIN f : Merged(f, g)[i] = g[i]
           /\ Primaries(Merged(f, g)) = Primaries(f) \cup (Primaries(g) \ DOMAIN f)
  BY DEF Merged, IsRows, Primaries

LEMMA ClearedRows ==
    ASSUME NEW f, IsRows(f)
    PROVE  /\ IsRows(Cleared(f)) /\ DOMAIN Cleared(f) = DOMAIN f /\ Primaries(Cleared(f)) = {}
           /\ \A i \in DOMAIN f : Cleared(f)[i] = [f[i] EXCEPT !.primary = FALSE]
  BY DEF Cleared, IsRows, Primaries

LEMMA WithoutRows ==
    ASSUME NEW f, IsRows(f), NEW i
    PROVE  /\ IsRows(Without(f, i)) /\ DOMAIN Without(f, i) = DOMAIN f \ {i}
           /\ Primaries(Without(f, i)) = Primaries(f) \ {i}
           /\ \A j \in DOMAIN f \ {i} : Without(f, i)[j] = f[j]
  BY DEF Without, IsRows, Primaries

LEMMA OneRow ==
    ASSUME NEW i \in Images, NEW x, x \in [position : {x.position}, primary : BOOLEAN]
    PROVE  IsRows(Single(i, x)) /\ DOMAIN Single(i, x) = {i} /\ Single(i, x)[i] = x
  BY DEF IsRows, Single

LEMMA NoCallIs ==
    /\ NoCall.op = "none" /\ NoCall.at = "none" /\ NoCall.image = 0 /\ NoCall.sets = <<>> /\ NoCall.puts = {}
    /\ NoCall.drops = {} /\ ~NoCall.failed /\ NoCall.known /\ ~NoCall.live
    /\ IsStep(NoCall)
<1>1. NoCall = [op |-> "none", at |-> "none", image |-> 0, primary |-> FALSE, sets |-> <<>>,
                puts |-> {}, drops |-> {}, failed |-> FALSE, known |-> TRUE, live |-> FALSE]
  BY DEF NoCall
<1>2. IsRows(NoCall.sets)
  BY <1>1, NoRows
<1> QED
  BY <1>1, <1>2 DEF IsStep, Ops, Stages

LEMMA ClosesTo ==
    ASSUME NEW step, IsStep(step)
    PROVE  /\ IsStep(Closes(step))
           /\ ~step.live => Closes(step) = NoCall
           /\ step.live => LET k == Closes(step) IN
                 /\ k.op = step.op /\ k.at = "answered" /\ k.image = step.image /\ k.sets = step.sets
                 /\ k.puts = step.puts /\ k.drops = step.drops
                 /\ k.failed = step.failed /\ k.known = step.known /\ k.live
<1>1. CASE ~step.live
  BY <1>1, NoCallIs DEF Closes
<1>2. CASE step.live
  BY <1>2 DEF Closes, IsStep, Stages
<1> QED
  BY <1>1, <1>2

LEMMA RemovesTo ==
    ASSUME NEW step, IsStep(step), NEW failed \in BOOLEAN
    PROVE  LET k == Removes(step, failed) IN
           /\ IsStep(k)
           /\ k.op = step.op /\ k.at = "dropping" /\ k.image = step.image /\ k.sets = <<>>
           /\ k.puts = step.puts /\ k.drops = Variants
           /\ k.failed = (failed /\ step.live) /\ k.known = step.known /\ k.live = step.live
  BY NoRows DEF Removes, IsStep, Stages

LEMMA FailsTo ==
    ASSUME NEW step, IsStep(step)
    PROVE  LET k == FailsIn(step) IN
           /\ IsStep(k)
           /\ IF step.op = "upload" /\ step.at # "sent"
              THEN /\ k.op = step.op /\ k.at = "dropping" /\ k.image = step.image /\ k.sets = <<>>
                   /\ k.puts = step.puts /\ k.drops = Variants
                   /\ k.failed = step.live /\ k.known = step.known /\ k.live = step.live
              ELSE IF ~step.live THEN k = NoCall
              ELSE /\ k.op = step.op /\ k.at = "answered" /\ k.image = step.image /\ k.sets = <<>>
                   /\ k.puts = step.puts /\ k.drops = step.drops
                   /\ k.failed /\ k.known = step.known /\ k.live
<1>1. CASE step.op = "upload" /\ step.at # "sent"
  <2>1. FailsIn(step) = Removes(step, TRUE) /\ step.live \in BOOLEAN
    BY <1>1 DEF FailsIn, IsStep
  <2>2. IsStep(Removes(step, TRUE)) /\ Removes(step, TRUE).failed = step.live
    BY <2>1, RemovesTo
  <2>3. /\ Removes(step, TRUE).op = step.op /\ Removes(step, TRUE).at = "dropping"
        /\ Removes(step, TRUE).image = step.image /\ Removes(step, TRUE).sets = <<>>
        /\ Removes(step, TRUE).puts = step.puts /\ Removes(step, TRUE).drops = Variants
        /\ Removes(step, TRUE).known = step.known /\ Removes(step, TRUE).live = step.live
    BY RemovesTo
  <2> QED
    BY <1>1, <2>1, <2>2, <2>3
<1>2. CASE ~(step.op = "upload" /\ step.at # "sent")
  <2> DEFINE k == [step EXCEPT !.failed = TRUE, !.sets = <<>>]
  <2>1. /\ IsStep(k) /\ k.op = step.op /\ k.image = step.image /\ k.sets = <<>> /\ k.puts = step.puts
        /\ k.drops = step.drops /\ k.failed /\ k.known = step.known /\ k.live = step.live
    BY NoRows DEF IsStep
  <2>2. FailsIn(step) = Closes(k)
    BY <1>2 DEF FailsIn
  <2> HIDE DEF k
  <2>3. IsStep(Closes(k))
    BY <2>1, ClosesTo
  <2>4. CASE ~step.live
    BY <1>2, <2>1, <2>2, <2>3, <2>4, ClosesTo
  <2>5. CASE step.live
    <3> DEFINE e == Closes(k)
    <3>1. /\ e.op = k.op /\ e.at = "answered" /\ e.image = k.image /\ e.sets = k.sets
          /\ e.puts = k.puts /\ e.drops = k.drops /\ e.failed = k.failed /\ e.known = k.known /\ e.live
      BY <2>1, <2>5, ClosesTo
    <3>2. e.failed /\ FailsIn(step) = e
      BY <2>1, <2>2, <3>1
    <3> HIDE DEF e
    <3> QED
      BY <1>2, <2>1, <2>3, <2>5, <3>1, <3>2 DEF e
  <2> QED
    BY <2>4, <2>5
<1> QED
  BY <1>1, <1>2

-----------------------------------------------------------------------------
(* The calls that do not act.                                               *)
TxnGoesOn(o) ==
    /\ txn'[o].open <=> txn[o].open
    /\ txn'[o].reads = txn[o].reads /\ txn'[o].updates = txn[o].updates /\ txn'[o].writes = txn[o].writes
    /\ txn[o].lost => txn'[o].lost
    /\ txn[o].behind => txn'[o].behind
    /\ txn[o].ahead => txn'[o].ahead
    /\ IF txn[o].open
       THEN txn'[o] \in [open : BOOLEAN, reads : {txn'[o].reads}, updates : {txn'[o].updates}, writes : {txn'[o].writes},
                         lost : BOOLEAN, behind : BOOLEAN, ahead : BOOLEAN]
       ELSE txn'[o] = Closed

CallOK(c) == Recorded(c) /\ Staged(c) /\ Writes(c) /\ Puts(c) /\ Takes(c)

LEMMA TxnRests ==
    ASSUME ImagesInv, NEW o \in Calls, txn'[o] = txn[o]
    PROVE  TxnGoesOn(o)
<1>1. Recorded(o)
  BY DEF ImagesInv
<1>2. CASE call[o].at = "open"
  BY <1>1, <1>2 DEF Recorded, TxnGoesOn
<1>3. CASE call[o].at # "open"
  <2>1. txn[o] = Closed /\ ~txn[o].open
    BY <1>1, <1>3 DEF Recorded, Closed
  <2> QED
    BY <2>1 DEF TxnGoesOn
<1> QED
  BY <1>2, <1>3

LEMMA Onlooker ==
    ASSUME ImagesInv, NEW o \in Calls, call'[o] = call[o], TxnGoesOn(o), drawn \subseteq drawn',
           call[o].at = "open" /\ ~txn'[o].lost =>
              \A i \in txn[o].updates : i \in DOMAIN row' /\ row'[i].primary = row[i].primary,
           Marks(o) /\ call[o].at = "open" /\ StillMay(o)' => Primaries(row') \subseteq DOMAIN call[o].sets,
           Uploading(o) => /\ call[o].image \notin DOMAIN row'
                           /\ \A x \in Calls \ {o} : call'[x].image # call[o].image
                           /\ \A v \in Variants : <<call[o].image, v>> \in file => <<call[o].image, v>> \in file',
           call[o].at = "dropping" => /\ call[o].image \in DOMAIN row' => call[o].image \in doubtful'
                                      /\ \A v \in Variants : Gone(<<call[o].image, v>>) => Gone(<<call[o].image, v>>)'
    PROVE  CallOK(o)'
<1>0. CallOK(o)
  BY DEF ImagesInv, CallOK
<1>1. Recorded(o)'
  <2>1. CASE call[o].at = "open"
    BY <1>0, <2>1 DEF CallOK, Recorded, TxnGoesOn
  <2>2. CASE call[o].at # "open"
    <3>1. txn[o] = Closed /\ ~txn[o].open
      BY <1>0, <2>2 DEF CallOK, Recorded, Closed
    <3> QED
      BY <1>0, <2>2, <3>1 DEF CallOK, Recorded, TxnGoesOn
  <2> QED
    BY <2>1, <2>2
<1>2. Staged(o)'
  BY <1>0 DEF CallOK, Staged
<1>3. Writes(o)'
  <2> SUFFICES ASSUME call[o].at = "open"
               PROVE  Writes(o)'
    BY DEF Writes
  <2>1. /\ txn'[o].writes = DOMAIN call[o].sets
        /\ txn'[o].updates = DOMAIN call[o].sets \ IF call[o].op = "upload" THEN {call[o].image} ELSE {}
        /\ call[o].op # "order" => /\ call[o].image \in DOMAIN call[o].sets
                                   /\ Primaries(call[o].sets) \subseteq {call[o].image}
        /\ Marks(o) => txn'[o].reads = Images
    BY <1>0 DEF CallOK, Writes, TxnGoesOn
  <2>2. ~txn'[o].lost => /\ txn[o].updates \subseteq DOMAIN row'
                         /\ call[o].op = "order" =>
                               \A i \in DOMAIN call[o].sets : call[o].sets[i].primary = row'[i].primary
    BY <1>0 DEF CallOK, Writes, TxnGoesOn
  <2> QED
    BY <2>1, <2>2 DEF Writes, Marks, TxnGoesOn, StillMay
<1>4. Puts(o)'
  BY <1>0 DEF CallOK, Puts, Uploading
<1>5. Takes(o)'
  BY <1>0 DEF CallOK, Takes, Gone
<1> QED
  BY <1>1, <1>2, <1>3, <1>4, <1>5 DEF CallOK

(* Where rows, files and what is known of them stay.                        *)
StorageRests == row' = row /\ file' = file /\ excused' = excused /\ doubtful' = doubtful

LEMMA OnlookerRests ==
    ASSUME ImagesInv, NEW o \in Calls, call'[o] = call[o], TxnGoesOn(o), drawn \subseteq drawn', StorageRests,
           Uploading(o) => \A x \in Calls \ {o} : call'[x].image # call[o].image
    PROVE  CallOK(o)'
<1>1. call[o].at = "open" /\ ~txn'[o].lost =>
         \A i \in txn[o].updates : i \in DOMAIN row' /\ row'[i].primary = row[i].primary
  BY DEF ImagesInv, Writes, TxnGoesOn, StorageRests
<1>2. Marks(o) /\ call[o].at = "open" /\ StillMay(o)' => Primaries(row') \subseteq DOMAIN call[o].sets
  BY DEF ImagesInv, Writes, TxnGoesOn, StorageRests, StillMay
<1>3. Uploading(o) => call[o].image \notin DOMAIN row'
  BY DEF ImagesInv, Puts, StorageRests
<1>4. call[o].at = "dropping" => (call[o].image \in DOMAIN row' => call[o].image \in doubtful')
  BY DEF ImagesInv, Takes, StorageRests
<1> QED
  BY <1>1, <1>2, <1>3, <1>4, Onlooker DEF StorageRests, Gone

(* One call goes on while rows and files stay.                              *)
LEMMA CallMoves ==
    ASSUME ImagesInv, NEW c \in Calls, StorageRests, drawn \subseteq drawn', drawn' \subseteq Images,
           DOMAIN call' = Calls, call' = [o \in Calls |-> call'[o]],
           DOMAIN txn' = Calls, txn' = [o \in Calls |-> txn'[o]],
           \A o \in Calls \ {c} : call'[o] = call[o] /\ txn'[o] = txn[o],
           \/ call'[c].image \in {call[c].image, 0}
           \/ call'[c].image \notin drawn
           \/ \A o \in Calls \ {c} : ~Uploading(o),
           Works(c) => (Works(c)' /\ call'[c].image = call[c].image)
                       \/ (call[c].at = "dropping" /\ call[c].drops = {}),
           CallOK(c)', Followed'
    PROVE  ImagesInv'
<1>1. ASSUME NEW o \in Calls PROVE CallOK(o)'
  <2>1. CASE o = c
    BY <2>1
  <2>2. CASE o # c
    <3>1. Uploading(o) => \A x \in Calls \ {o} : call'[x].image # call[o].image
      <4> HAVE Uploading(o)
      <4>1. call[o].image \in drawn /\ call[o].image # 0 /\ \A x \in Calls \ {o} : call[x].image # call[o].image
        BY DEF ImagesInv, Puts
      <4> QED
        BY <2>2, <4>1
    <3>2. TxnGoesOn(o)
      BY <2>2, TxnRests
    <3> QED
      BY <2>2, <3>1, <3>2, OnlookerRests
  <2> QED
    BY <2>1, <2>2
<1>2. ASSUME NEW f \in file PROVE Kept(f)'
  <2>1. Kept(f) /\ f = <<f[1], f[2]>> /\ f[2] \in Variants
    BY DEF ImagesInv
  <2>2. CASE f[1] \in DOMAIN row \/ f \in excused
    BY <2>2 DEF Kept, StorageRests
  <2>3. ASSUME NEW o \in Calls, call[o].image = f[1], Works(o)
        PROVE  Kept(f)'
    <3>1. CASE o # c
      BY <2>3, <3>1 DEF Kept, Works
    <3>2. CASE o = c /\ Works(c)' /\ call'[c].image = call[c].image
      BY <2>3, <3>2 DEF Kept
    <3>3. CASE o = c /\ call[c].at = "dropping" /\ call[c].drops = {}
      BY <2>1, <2>3, <3>3 DEF ImagesInv, Takes, Gone, Kept, StorageRests
    <3> QED
      BY <2>3, <3>1, <3>2, <3>3
  <2> QED
    BY <2>1, <2>2, <2>3 DEF Kept
<1> QED
  BY <1>1, <1>2 DEF ImagesInv, CallOK, StorageRests, ImagesServed

-----------------------------------------------------------------------------
(* What the page knows of a step.                                           *)
LEMMA PageAway ==
    ASSUME page' = Away, \A c \in Calls : ~call'[c].live
    PROVE  Followed'
<1>1. Away.images = <<>> /\ ~Away.open /\ ~Away.busy
  BY DEF Away
<1>2. Away \in [open : BOOLEAN, busy : BOOLEAN, images : {Away.images}, form : {Away.form}, touched : {Away.touched}]
  BY DEF Away
<1> QED
  BY <1>1, <1>2, NoRows DEF Followed

LEMMA PageKept ==
    ASSUME ImagesInv, NEW c \in Calls, call[c] # NoCall, page' = page,
           \A o \in Calls \ {c} : call'[o] = call[o],
           ~page.open => ~call'[c].live,
           page.open /\ call'[c] # NoCall => Told(c)'
    PROVE  Followed'
<1>0. Followed
  BY DEF ImagesInv
<1>1. CASE ~page.open
  <2>1. \A o \in Calls : ~call'[o].live
    BY <1>0, <1>1 DEF Followed
  <2> QED
    BY <1>0, <1>1, <2>1, PageAway DEF Followed
<1>2. CASE page.open
  <2>1. page.busy /\ \A o \in Calls \ {c} : call[o] = NoCall
    BY <1>0, <1>2 DEF Followed
  <2>2. \A o \in Calls : call'[o] # NoCall => Told(o)' /\ page'.busy /\ \A x \in Calls \ {o} : call'[x] = NoCall
    BY <1>2, <2>1
  <2> QED
    BY <1>0, <1>2, <2>1, <2>2 DEF Followed
<1> QED
  BY <1>1, <1>2

(* A page that is open waits for the one call there is.                     *)
LEMMA Waiting ==
    ASSUME ImagesInv, NEW c \in Calls, call[c] # NoCall
    PROVE  /\ page.open => Told(c) /\ page.busy /\ \A o \in Calls \ {c} : call[o] = NoCall
           /\ ~page.open => page = Away /\ \A o \in Calls : ~call[o].live
  BY DEF ImagesInv, Followed

LEMMA SentCall ==
    ASSUME ImagesInv, NEW c \in Calls, NEW op \in Ops \ {"none"}, NEW image, NEW primary \in BOOLEAN, NEW sets, IsRows(sets),
           NEW live \in BOOLEAN,
           Sent(c, op, image, primary, sets, live),
           \/ image = 0
           \/ image \in drawn /\ \A o \in Calls \ {c} : Uploading(o) => call[o].image # image
    PROVE  /\ call[c] = NoCall /\ StorageRests
           /\ call'[c].op = op /\ call'[c].at = "sent" /\ call'[c].image = image /\ call'[c].primary = primary
           /\ call'[c].sets = sets /\ (call'[c].live <=> live) /\ ~call'[c].failed
           /\ \A o \in Calls \ {c} : call'[o] = call[o]
           /\ Followed' => ImagesInv'
<1>1. /\ call[c] = NoCall /\ txn' = txn /\ drawn' = drawn /\ StorageRests
      /\ call' = [call EXCEPT ![c] = [NoCall EXCEPT !.op = op, !.at = "sent", !.image = image,
                                                   !.primary = primary, !.sets = sets, !.live = live]]
  BY DEF Sent, StorageRests
<1> DEFINE k == [NoCall EXCEPT !.op = op, !.at = "sent", !.image = image, !.primary = primary, !.sets = sets, !.live = live]
<1>2. /\ k.op = op /\ k.at = "sent" /\ k.image = image /\ k.sets = sets /\ k.puts = {} /\ k.primary = primary
      /\ k.drops = {} /\ ~k.failed /\ k.known /\ k.live = live /\ IsStep(k)
  <2>1. image \in Images \cup {0}
    BY DEF ImagesInv
  <2>2. IsRows(k.sets)
    BY NoCallIs DEF IsStep
  <2> QED
    BY <2>1, <2>2, NoCallIs DEF IsStep, Stages
<1> HIDE DEF k
<1>3. DOMAIN call = Calls /\ call = [o \in Calls |-> call[o]]
  BY DEF ImagesInv
<1>4. /\ call'[c] = k /\ \A o \in Calls \ {c} : call'[o] = call[o]
      /\ DOMAIN call' = Calls /\ call' = [o \in Calls |-> call'[o]]
  BY <1>1, <1>3 DEF k
<1>5. txn[c] = Closed /\ ~Works(c)
  BY <1>1, NoCallIs DEF ImagesInv, Recorded, Works
<1>6. CallOK(c)'
  <2>1. k # NoCall /\ k.image \in drawn \cup {0}
    BY <1>2, NoCallIs
  <2> QED
    BY <1>1, <1>2, <1>4, <1>5, <2>1 DEF CallOK, Recorded, Staged, Writes, Puts, Uploading, Takes
<1>7. ASSUME Followed' PROVE ImagesInv'
  <2>1. ASSUME NEW o \in Calls PROVE CallOK(o)'
    <3>1. CASE o = c
      BY <3>1, <1>6
    <3>2. CASE o # c
      <4>1. Uploading(o) => \A x \in Calls \ {o} : call'[x].image # call[o].image
        BY <3>2, <1>2, <1>4 DEF ImagesInv, Puts
      <4>2. TxnGoesOn(o) /\ drawn \subseteq drawn'
        BY <1>1, TxnRests
      <4> QED
        BY <3>2, <1>1, <1>4, <4>1, <4>2, OnlookerRests
    <3> QED
      BY <3>1, <3>2
  <2>2. ASSUME NEW f \in file PROVE Kept(f)'
    <3>1. \A o \in Calls : Works(o) => call'[o] = call[o]
      BY <1>4, <1>5
    <3> QED
      BY <1>1, <3>1 DEF ImagesInv, Kept, Works, StorageRests
  <2> QED
    BY <1>1, <1>4, <1>7, <2>1, <2>2 DEF ImagesInv, CallOK, StorageRests, ImagesServed
<1> QED
  BY <1>1, <1>2, <1>4, <1>7

LEMMA StepSends ==
    ASSUME ImagesInv, NEW c \in Calls, NEW op \in Ops \ {"none"}, NEW image, NEW primary \in BOOLEAN, NEW sets, IsRows(sets),
           Sends(c, op, image, primary, sets), image \in DOMAIN page.images \cup {0},
           op = "order" => DOMAIN sets = DOMAIN page.images
    PROVE  ImagesInv'
<1>1. /\ page.open /\ ~page.busy /\ Sent(c, op, image, primary, sets, TRUE)
      /\ page' = [page EXCEPT !.busy = TRUE]
  BY DEF Sends
<1>2. /\ page.images = row /\ \A o \in Calls : call[o] = NoCall
  BY <1>1 DEF ImagesInv, Followed
<1>3. \A o \in Calls : ~Uploading(o)
  BY <1>2, NoCallIs DEF Uploading
<1>4. /\ StorageRests /\ (Followed' => ImagesInv')
      /\ call'[c].op = op /\ call'[c].at = "sent" /\ call'[c].live /\ call'[c].sets = sets /\ ~call'[c].failed
      /\ \A o \in Calls \ {c} : call'[o] = call[o]
  <2>1. image = 0 \/ (image \in drawn /\ \A o \in Calls \ {c} : Uploading(o) => call[o].image # image)
    BY <1>2, <1>3 DEF ImagesInv
  <2>2. PICK live \in BOOLEAN : live = TRUE /\ Sent(c, op, image, primary, sets, live)
    BY <1>1, Zenon
  <2>3. Sent(c, op, image, primary, sets, live)
    BY <2>2
  <2>4. StorageRests /\ (Followed' => ImagesInv')
    BY <2>1, <2>3, SentCall
  <2>5. call'[c].op = op /\ call'[c].at = "sent" /\ call'[c].sets = sets
    BY <2>1, <2>3, SentCall
  <2>7. call'[c].live <=> live
    BY <2>1, <2>3, SentCall
  <2>8. ~call'[c].failed
    BY <2>1, <2>3, SentCall
  <2>6. \A o \in Calls \ {c} : call'[o] = call[o]
    BY <2>1, <2>3, SentCall
  <2> QED
    BY <2>2, <2>4, <2>5, <2>6, <2>7, <2>8
<1>5. /\ page'.open /\ page'.busy /\ page'.images = page.images /\ page'.form = page.form /\ page'.touched = page.touched
      /\ page' \in [open : BOOLEAN, busy : BOOLEAN, images : {page'.images}, form : {page'.form}, touched : {page'.touched}]
  BY <1>1 DEF ImagesInv, Followed
<1>6. Told(c)'
  BY <1>2, <1>4, <1>5 DEF Told, StorageRests
<1>7. \A o \in Calls : call'[o] # NoCall => Told(o)' /\ page'.busy /\ \A x \in Calls \ {o} : call'[x] = NoCall
  BY <1>2, <1>4, <1>5, <1>6
<1>8. Followed'
  BY <1>1, <1>5, <1>7 DEF ImagesInv, Followed
<1> QED
  BY <1>4, <1>8

LEMMA StepSendElsewhere ==
    ASSUME ImagesInv, NEW c \in Calls, SendElsewhere(c)
    PROVE  ImagesInv'
<1>1. /\ ~page.open /\ page' = page
      /\ \E op \in Ops \ {"none"}, image \in DOMAIN row \cup {0}, primary \in BOOLEAN : Sent(c, op, image, primary, <<>>, FALSE)
  BY DEF SendElsewhere, Ops
<1>2. PICK op \in Ops \ {"none"}, image \in DOMAIN row \cup {0}, primary \in BOOLEAN : Sent(c, op, image, primary, <<>>, FALSE)
  BY <1>1
<1>3. image = 0 \/ (image \in drawn /\ \A o \in Calls \ {c} : Uploading(o) => call[o].image # image)
  BY DEF ImagesInv, Puts
<1>4. /\ ~call'[c].live /\ (Followed' => ImagesInv')
      /\ \A o \in Calls \ {c} : call'[o] = call[o]
  <2>1. PICK live \in BOOLEAN : live = FALSE /\ Sent(c, op, image, primary, <<>>, live)
    BY <1>2, Zenon
  <2>2. Sent(c, op, image, primary, <<>>, live)
    BY <2>1
  <2>3. /\ (call'[c].live <=> live) /\ (Followed' => ImagesInv')
        /\ \A o \in Calls \ {c} : call'[o] = call[o]
    BY <1>3, <2>2, NoRows, SentCall
  <2> QED
    BY <2>1, <2>3
<1>5. page' = Away /\ \A o \in Calls : ~call'[o].live
  BY <1>1, <1>4 DEF ImagesInv, Followed
<1> QED
  BY <1>4, <1>5, PageAway

LEMMA StepSend ==
    ASSUME ImagesInv, NEW c \in Calls, SendUpload(c) \/ SendSave(c) \/ SendMove(c) \/ SendDelete(c)
    PROVE  ImagesInv'
<1>0. /\ IsRows(page.images)
      /\ page.open => \A i \in DOMAIN page.images : page.form[i] \in BOOLEAN
  BY DEF ImagesInv, Followed
<1>1. CASE SendUpload(c)
  BY <1>1, NoRows, StepSends DEF SendUpload, Ops
<1>2. CASE SendSave(c)
  <2>1. PICK i \in DOMAIN page.images : Sends(c, "save", i, page.form[i], <<>>)
    BY <1>2 DEF SendSave
  <2>2. page.form[i] \in BOOLEAN
    BY <1>0, <2>1 DEF Sends
  <2> QED
    BY <2>1, <2>2, NoRows, StepSends DEF Ops
<1>3. CASE SendDelete(c)
  BY <1>3, NoRows, StepSends DEF SendDelete, Ops
<1>4. CASE SendMove(c)
  <2>1. PICK f : Sends(c, "order", 0, FALSE, [i \in DOMAIN page.images |-> [page.images[i] EXCEPT !.position = f[i]]])
    <3> DEFINE list == InOrder(page.images)
    <3>1. PICK k \in 1..(Len(list) - 1) :
            LET next == [list EXCEPT ![k] = list[k + 1], ![k + 1] = list[k]] IN
            Sends(c, "order", 0, FALSE,
              [i \in DOMAIN page.images |->
                  [page.images[i] EXCEPT !.position = (CHOOSE n \in DOMAIN next : next[n] = i) - 1]])
      BY <1>4 DEF SendMove
    <3> DEFINE next == [list EXCEPT ![k] = list[k + 1], ![k + 1] = list[k]]
               g == [i \in DOMAIN page.images |-> (CHOOSE n \in DOMAIN next : next[n] = i) - 1]
    <3>2. \A i \in DOMAIN page.images : g[i] = (CHOOSE n \in DOMAIN next : next[n] = i) - 1
      OBVIOUS
    <3>3. [i \in DOMAIN page.images |-> [page.images[i] EXCEPT !.position = (CHOOSE n \in DOMAIN next : next[n] = i) - 1]]
          = [i \in DOMAIN page.images |-> [page.images[i] EXCEPT !.position = g[i]]]
      BY <3>2
    <3>4. Sends(c, "order", 0, FALSE, [i \in DOMAIN page.images |-> [page.images[i] EXCEPT !.position = g[i]]])
      BY <3>1, <3>3, Zenon
    <3> HIDE DEF g
    <3> QED
      BY <3>4
  <2> DEFINE sets == [i \in DOMAIN page.images |-> [page.images[i] EXCEPT !.position = f[i]]]
  <2>2. IsRows(sets) /\ DOMAIN sets = DOMAIN page.images
    BY <1>0 DEF IsRows
  <2> HIDE DEF sets
  <2> QED
    BY <2>1, <2>2, StepSends DEF Ops, sets
<1> QED
  BY <1>1, <1>2, <1>3, <1>4

-----------------------------------------------------------------------------
(* The steps of a call.                                                     *)
LEMMA CallSet ==
    ASSUME ImagesInv, NEW c \in Calls, NEW k, call' = [call EXCEPT ![c] = k]
    PROVE  /\ DOMAIN call' = Calls /\ call' = [o \in Calls |-> call'[o]] /\ call'[c] = k
           /\ \A o \in Calls \ {c} : call'[o] = call[o]
  BY DEF ImagesInv

LEMMA TxnSet ==
    ASSUME ImagesInv, NEW c \in Calls, NEW x, txn' = [txn EXCEPT ![c] = x] \/ (txn' = txn /\ txn[c] = x)
    PROVE  /\ DOMAIN txn' = Calls /\ txn' = [o \in Calls |-> txn'[o]] /\ txn'[c] = x
           /\ \A o \in Calls \ {c} : txn'[o] = txn[o]
  BY DEF ImagesInv

LEMMA Active ==
    ASSUME ImagesInv, NEW c \in Calls
    PROVE  /\ CallOK(c) /\ IsStep(call[c])
           /\ call[c].at # "none" => call[c] # NoCall
           /\ call[c].at # "open" => txn[c] = Closed
           /\ drawn \subseteq Images
  BY NoCallIs DEF ImagesInv, CallOK, Recorded

LEMMA StepAccepted ==
    ASSUME ImagesInv, NEW c \in Calls, Accepted(c)
    PROVE  ImagesInv'
<1>1. PICK i \in Images :
          /\ drawn = 1..(i - 1) /\ drawn' = drawn \cup {i}
          /\ call' = [call EXCEPT ![c].at = "writing", ![c].image = i, ![c].puts = Variants]
  BY DEF Accepted
<1>2. /\ call[c].op = "upload" /\ call[c].at = "sent" /\ StorageRests /\ txn' = txn /\ page' = page
  BY DEF Accepted, StorageRests
<1>3. i \notin drawn /\ drawn \subseteq drawn' /\ drawn' \subseteq Images /\ i # 0
  BY <1>1, Active
<1> DEFINE k == [call[c] EXCEPT !.at = "writing", !.image = i, !.puts = Variants]
<1>4. call' = [call EXCEPT ![c] = k]
  BY <1>1 DEF ImagesInv
<1>5. /\ IsStep(k) /\ k.at = "writing" /\ k.image = i /\ k.puts = Variants
      /\ k.op = call[c].op /\ k.sets = call[c].sets /\ k.drops = call[c].drops
      /\ k.failed = call[c].failed /\ k.known = call[c].known /\ k.live = call[c].live
  BY <1>2, Active DEF IsStep, Stages
<1> HIDE DEF k
<1>6. /\ DOMAIN call' = Calls /\ call' = [o \in Calls |-> call'[o]] /\ call'[c] = k
      /\ \A o \in Calls \ {c} : call'[o] = call[o]
      /\ DOMAIN txn' = Calls /\ txn' = [o \in Calls |-> txn'[o]]
      /\ txn'[c] = Closed /\ \A o \in Calls \ {c} : txn'[o] = txn[o]
  BY <1>2, <1>4, Active, CallSet, TxnSet
<1>7. Recorded(c)' /\ Writes(c)' /\ Takes(c)'
  BY <1>5, <1>6 DEF Recorded, Writes, Takes
<1>8. Staged(c)'
  BY <1>1, <1>2, <1>5, <1>6, NoCallIs, Active DEF Staged, CallOK
<1>9. Puts(c)'
  <2>1. i \notin DOMAIN row' /\ i \in drawn'
    BY <1>1, <1>2, <1>3 DEF ImagesInv, StorageRests
  <2>2. \A o \in Calls \ {c} : call'[o].image # i
    BY <1>3, <1>6 DEF ImagesInv, Staged
  <2> QED
    BY <1>5, <1>6, <2>1, <2>2 DEF Puts, Uploading
<1>10. Followed'
  <2>1. page.open => Told(c)'
    BY <1>2, <1>5, <1>6, Active, Waiting DEF Told, StorageRests, CallOK, Staged
  <2> QED
    BY <1>2, <1>5, <1>6, <2>1, Active, Waiting, PageKept
<1>11. ~Works(c)
  BY <1>2 DEF Works
<1> QED
  BY <1>2, <1>3, <1>5, <1>6, <1>7, <1>8, <1>9, <1>10, <1>11, CallMoves DEF CallOK

LEMMA StepFindsImage ==
    ASSUME ImagesInv, NEW c \in Calls, FindsImage(c)
    PROVE  ImagesInv'
<1>2. /\ call[c].op = "delete" /\ call[c].at = "sent" /\ StorageRests /\ txn' = txn /\ page' = page
      /\ drawn' = drawn
  BY DEF FindsImage, StorageRests
<1> DEFINE k == [call[c] EXCEPT !.at = "found"]
<1>4. call' = [call EXCEPT ![c] = k]
  BY DEF FindsImage, ImagesInv
<1>5. /\ IsStep(k) /\ k.at = "found" /\ k.image = call[c].image /\ k.puts = call[c].puts
      /\ k.op = call[c].op /\ k.sets = call[c].sets /\ k.drops = call[c].drops
      /\ k.failed = call[c].failed /\ k.known = call[c].known /\ k.live = call[c].live
  BY Active DEF IsStep, Stages
<1> HIDE DEF k
<1>6. /\ DOMAIN call' = Calls /\ call' = [o \in Calls |-> call'[o]] /\ call'[c] = k
      /\ \A o \in Calls \ {c} : call'[o] = call[o]
      /\ DOMAIN txn' = Calls /\ txn' = [o \in Calls |-> txn'[o]]
      /\ txn'[c] = Closed /\ \A o \in Calls \ {c} : txn'[o] = txn[o]
  BY <1>2, <1>4, Active, CallSet, TxnSet
<1>7. Recorded(c)' /\ Writes(c)' /\ Takes(c)' /\ Puts(c)'
  BY <1>5, <1>6 DEF Recorded, Writes, Takes, Puts, Uploading
<1>8. Staged(c)'
  BY <1>2, <1>5, <1>6, NoCallIs, Active DEF Staged, CallOK
<1>10. Followed'
  <2>1. page.open => Told(c)'
    BY <1>2, <1>5, <1>6, Active, Waiting DEF Told, StorageRests, CallOK, Staged
  <2> QED
    BY <1>2, <1>5, <1>6, <2>1, Active, Waiting, PageKept
<1>11. ~Works(c)
  BY <1>2 DEF Works
<1> QED
  BY <1>2, <1>5, <1>6, <1>7, <1>8, <1>10, <1>11, Active, CallMoves DEF CallOK

LEMMA StepFails ==
    ASSUME ImagesInv, NEW c \in Calls, CallFails(c) \/ WriteFailed(c)
    PROVE  ImagesInv'
<1>2. /\ call[c].at \in {"sent", "found", "open", "writing"} /\ call[c].puts = {} /\ call[c].drops = {} /\ call[c].known
      /\ StorageRests /\ page' = page /\ drawn' = drawn
      /\ call' = [call EXCEPT ![c] = FailsIn(call[c])]
      /\ txn' = [txn EXCEPT ![c] = Closed] \/ (txn' = txn /\ txn[c] = Closed)
  BY Active DEF CallFails, WriteFailed, StorageRests, Settled, CallOK, Staged
<1> DEFINE k == FailsIn(call[c])
<1>5. /\ IsStep(k)
      /\ IF call[c].op = "upload" /\ call[c].at # "sent"
         THEN /\ k.op = call[c].op /\ k.at = "dropping" /\ k.image = call[c].image /\ k.sets = <<>>
              /\ k.puts = call[c].puts /\ k.drops = Variants
              /\ k.failed = call[c].live /\ k.known = call[c].known /\ k.live = call[c].live
         ELSE IF ~call[c].live THEN k = NoCall
         ELSE /\ k.op = call[c].op /\ k.at = "answered" /\ k.image = call[c].image /\ k.sets = <<>>
              /\ k.puts = call[c].puts /\ k.drops = call[c].drops
              /\ k.failed /\ k.known = call[c].known /\ k.live
  BY Active, FailsTo
<1>6. /\ DOMAIN call' = Calls /\ call' = [o \in Calls |-> call'[o]] /\ call'[c] = k
      /\ \A o \in Calls \ {c} : call'[o] = call[o]
      /\ DOMAIN txn' = Calls /\ txn' = [o \in Calls |-> txn'[o]]
      /\ txn'[c] = Closed /\ \A o \in Calls \ {c} : txn'[o] = txn[o]
  BY <1>2, CallSet, TxnSet
<1> HIDE DEF k
<1>7. Recorded(c)' /\ Writes(c)' /\ Puts(c)'
  BY <1>5, <1>6, NoCallIs DEF Recorded, Writes, Puts, Uploading
<1>8. Staged(c)'
  <2>1. Staged(c)
    BY Active DEF CallOK
  <2>2. CASE call[c].op = "upload" /\ call[c].at # "sent"
    BY <1>2, <1>5, <1>6, <2>1, <2>2 DEF Staged
  <2>3. CASE ~(call[c].op = "upload" /\ call[c].at # "sent") /\ ~call[c].live
    BY <1>5, <1>6, <2>3, NoCallIs DEF Staged
  <2>4. CASE ~(call[c].op = "upload" /\ call[c].at # "sent") /\ call[c].live
    <3>1. call[c] # NoCall /\ k # NoCall /\ call[c].op # "none"
      BY <1>2, <1>5, <2>1, <2>4, NoCallIs DEF Staged
    <3> QED
      BY <1>2, <1>5, <1>6, <2>1, <2>4, <3>1 DEF Staged
  <2> QED
    BY <2>2, <2>3, <2>4
<1>9. Takes(c)'
  <2>1. call[c].op = "upload" /\ call[c].at # "sent" => call[c].image \notin DOMAIN row
    BY <1>2, Active DEF CallOK, Staged, Puts, Uploading
  <2> QED
    BY <1>2, <1>5, <1>6, <2>1, NoCallIs DEF Takes, StorageRests
<1>10. Followed'
  <2>1. page.open => Told(c)'
    BY <1>2, <1>5, <1>6, Active, Waiting DEF Told, StorageRests
  <2>2. ~call[c].live => ~call'[c].live
    BY <1>5, <1>6, NoCallIs
  <2> QED
    BY <1>2, <1>6, <2>1, <2>2, Active, Waiting, PageKept
<1>11. Works(c) => Works(c)' /\ call'[c].image = call[c].image
  BY <1>2, <1>5, <1>6, Active DEF Works, CallOK, Staged
<1>12. call'[c].image \in {call[c].image, 0}
  BY <1>5, <1>6, NoCallIs
<1> QED
  BY <1>2, <1>6, <1>7, <1>8, <1>9, <1>10, <1>11, <1>12, Active, CallMoves DEF CallOK

LEMMA StepBegins ==
    ASSUME ImagesInv, NEW c \in Calls, NEW sets, IsRows(sets), NEW reads, Begins(c, sets, reads),
           \/ call[c].op = "upload" /\ call[c].at = "writing" /\ Written(c)
           \/ call[c].op \in {"save", "order"} /\ call[c].at = "sent",
           DOMAIN sets \cap DOMAIN row = DOMAIN sets \ IF call[c].op = "upload" THEN {call[c].image} ELSE {},
           call[c].op # "order" => /\ call[c].image \in DOMAIN sets /\ Primaries(sets) \subseteq {call[c].image}
                                   /\ sets[call[c].image].primary => reads = Images /\ Primaries(row) \subseteq DOMAIN sets,
           call[c].op = "order" => \A i \in DOMAIN sets : sets[i].primary = row[i].primary,
           page.open => Fitting(call[c].op, call[c].image, sets, row)
    PROVE  ImagesInv'
<1>1. /\ call' = [call EXCEPT ![c].at = "open", ![c].sets = sets, ![c].primary = FALSE]
      /\ txn' = [txn EXCEPT ![c] = Opened(reads, DOMAIN sets \cap DOMAIN row, DOMAIN sets)]
      /\ StorageRests /\ page' = page /\ drawn' = drawn
  BY DEF Begins, StorageRests
<1>2. /\ call[c].puts = {} /\ call[c].drops = {} /\ ~call[c].failed /\ call[c].known
  BY Active DEF Written, Settled, CallOK, Staged
<1> DEFINE k == [call[c] EXCEPT !.at = "open", !.sets = sets, !.primary = FALSE]
           x == Opened(reads, DOMAIN sets \cap DOMAIN row, DOMAIN sets)
<1>4. call' = [call EXCEPT ![c] = k]
  BY <1>1 DEF ImagesInv
<1>5. /\ k.at = "open" /\ k.image = call[c].image /\ k.puts = call[c].puts
      /\ k.op = call[c].op /\ k.sets = sets /\ k.drops = call[c].drops
      /\ k.failed = call[c].failed /\ k.known = call[c].known /\ k.live = call[c].live
      /\ k \in [op : Ops, at : Stages, image : Images \cup {0}, primary : BOOLEAN, sets : {sets}, 
                puts : SUBSET Variants, drops : SUBSET Variants, failed : BOOLEAN, known : BOOLEAN, live : BOOLEAN]
  BY Active DEF IsStep, Stages
<1>x. /\ x.open /\ ~x.lost /\ ~x.behind /\ ~x.ahead /\ x.reads = reads
      /\ x.updates = DOMAIN sets \cap DOMAIN row /\ x.writes = DOMAIN sets
      /\ x \in [open : BOOLEAN, reads : {x.reads}, updates : {x.updates}, writes : {x.writes},
                lost : BOOLEAN, behind : BOOLEAN, ahead : BOOLEAN]
  BY DEF Opened, Closed
<1>b. txn' = [txn EXCEPT ![c] = x]
  BY <1>1
<1> HIDE DEF k, x
<1>6. /\ DOMAIN call' = Calls /\ call' = [o \in Calls |-> call'[o]] /\ call'[c] = k
      /\ \A o \in Calls \ {c} : call'[o] = call[o]
      /\ DOMAIN txn' = Calls /\ txn' = [o \in Calls |-> txn'[o]]
      /\ txn'[c] = x /\ \A o \in Calls \ {c} : txn'[o] = txn[o]
  BY <1>4, <1>b, CallSet, TxnSet
<1>7. Recorded(c)' /\ Takes(c)'
  BY <1>5, <1>6, <1>x DEF Recorded, Takes, IsStep
<1>8. Staged(c)'
  BY <1>1, <1>2, <1>5, <1>6, NoCallIs, Active DEF Staged, CallOK
<1>9. Writes(c)'
  BY <1>1, <1>5, <1>6, <1>x DEF Writes, Marks, StorageRests
<1>a. Puts(c)'
  <2> SUFFICES ASSUME call[c].op = "upload"
               PROVE  Puts(c)'
    BY <1>5, <1>6 DEF Puts, Uploading
  <2>1. Puts(c) /\ Uploading(c)
    BY Active DEF CallOK, Uploading
  <2> QED
    BY <1>1, <1>2, <1>5, <1>6, <2>1 DEF Puts, Uploading, StorageRests
<1>10. Followed'
  <2>1. page.open => Told(c)'
    BY <1>1, <1>2, <1>5, <1>6, Active, Waiting DEF Told, StorageRests, Fits
  <2> QED
    BY <1>1, <1>5, <1>6, <2>1, Active, Waiting, PageKept
<1>11. Works(c) => Works(c)' /\ call'[c].image = call[c].image
  BY <1>5, <1>6 DEF Works
<1> QED
  BY <1>1, <1>5, <1>6, <1>7, <1>8, <1>9, <1>a, <1>10, <1>11, Active, CallMoves DEF CallOK

(* The row a marked or unmarked image gets, and the others'.                *)
Marking(g, f, i, x) ==
    /\ IsRows(g) /\ i \in DOMAIN g /\ g[i] = x /\ Primaries(g) \subseteq {i}
    /\ IF x.primary THEN /\ DOMAIN g = DOMAIN f \cup {i}
                         /\ \A j \in DOMAIN f \ {i} : g[j] = [f[j] EXCEPT !.primary = FALSE]
       ELSE DOMAIN g = {i}

LEMMA MarkedRows ==
    ASSUME NEW f, IsRows(f), NEW i \in Images, NEW x, x \in [position : {x.position}, primary : BOOLEAN]
    PROVE  /\ x.primary => Marking(Merged(Single(i, x), Cleared(f)), f, i, x)
           /\ ~x.primary => Marking(Merged(Single(i, x), <<>>), f, i, x) /\ Marking(Single(i, x), f, i, x)
<1> DEFINE h == Single(i, x)
<1>1. IsRows(h) /\ DOMAIN h = {i} /\ h[i] = x
  BY OneRow
<1>2. Primaries(h) \subseteq {i}
  BY <1>1 DEF Primaries
<1> HIDE DEF h
<1>3. ASSUME x.primary PROVE Marking(Merged(h, Cleared(f)), f, i, x)
  <2> DEFINE e == Cleared(f)
  <2>1. /\ IsRows(e) /\ DOMAIN e = DOMAIN f /\ Primaries(e) = {}
        /\ \A j \in DOMAIN f : e[j] = [f[j] EXCEPT !.primary = FALSE]
    BY ClearedRows
  <2> HIDE DEF e
  <2> DEFINE g == Merged(h, e)
  <2>2. /\ IsRows(g) /\ DOMAIN g = DOMAIN h \cup DOMAIN e
        /\ \A j \in DOMAIN h : g[j] = h[j]
        /\ \A j \in DOMAIN e \ DOMAIN h : g[j] = e[j]
        /\ Primaries(g) = Primaries(h) \cup (Primaries(e) \ DOMAIN h)
    BY <1>1, <2>1, MergedRows
  <2> HIDE DEF g
  <2>3. Marking(g, f, i, x)
    BY <1>1, <1>2, <1>3, <2>1, <2>2 DEF Marking
  <2> QED
    BY <2>3 DEF g, e
<1>4. ASSUME ~x.primary PROVE Marking(Merged(h, <<>>), f, i, x) /\ Marking(h, f, i, x)
  <2> DEFINE g == Merged(h, <<>>)
  <2>2. /\ IsRows(g) /\ DOMAIN g = DOMAIN h \cup DOMAIN <<>>
        /\ \A j \in DOMAIN h : g[j] = h[j]
        /\ Primaries(g) = Primaries(h) \cup (Primaries(<<>>) \ DOMAIN h)
    BY <1>1, NoRows, MergedRows
  <2> HIDE DEF g
  <2>3. Marking(g, f, i, x)
    BY <1>1, <1>2, <1>4, <2>2, NoRows DEF Marking
  <2>4. Marking(h, f, i, x)
    BY <1>1, <1>2, <1>4 DEF Marking
  <2> QED
    BY <2>3, <2>4 DEF g
<1> QED
  BY <1>3, <1>4 DEF h

LEMMA StepBeginsUpload ==
    ASSUME ImagesInv, NEW c \in Calls, BeginsUpload(c)
    PROVE  ImagesInv'
<1> DEFINE i == call[c].image
<1>1. PICK last : LET new == Single(i, [position |-> last, primary |-> call[c].primary]) IN
                  Begins(c, Merged(new, IF call[c].primary THEN Cleared(row) ELSE <<>>), Images)
  BY DEF BeginsUpload
<1> DEFINE x == [position |-> last, primary |-> call[c].primary]
<1>2. /\ call[c].op = "upload" /\ call[c].at = "writing" /\ Written(c)
  BY DEF BeginsUpload
<1>3. i \in Images \ DOMAIN row /\ IsRows(row)
  BY <1>2, Active DEF CallOK, Puts, Uploading, ImagesInv
<1>4. x \in [position : {x.position}, primary : BOOLEAN] /\ x.primary = call[c].primary
  BY Active DEF IsStep
<1>5. Begins(c, Merged(Single(i, x), IF call[c].primary THEN Cleared(row) ELSE <<>>), Images)
  BY <1>1
<1> HIDE DEF x
<1>6. PICK sets : Begins(c, sets, Images) /\ Marking(sets, row, i, x)
  <2>1. CASE call[c].primary
    BY <1>3, <1>4, <1>5, <2>1, MarkedRows
  <2>2. CASE ~call[c].primary
    BY <1>3, <1>4, <1>5, <2>2, MarkedRows
  <2> QED
    BY <2>1, <2>2
<1>7. Fitting(call[c].op, i, sets, row)
  BY <1>2, <1>6 DEF Fitting, Marking
<1>8. DOMAIN sets \cap DOMAIN row = DOMAIN sets \ {i}
  BY <1>3, <1>6 DEF Marking
<1>9. sets[i].primary => Images = Images /\ Primaries(row) \subseteq DOMAIN sets
  BY <1>6 DEF Primaries, Marking
<1> QED
  BY <1>2, <1>6, <1>7, <1>8, <1>9, StepBegins DEF Marking

LEMMA StepBeginsSave ==
    ASSUME ImagesInv, NEW c \in Calls, BeginsSave(c)
    PROVE  ImagesInv'
<1> DEFINE i == call[c].image
           x == [row[i] EXCEPT !.primary = call[c].primary]
<1>2. /\ call[c].op = "save" /\ call[c].at = "sent" /\ i \in DOMAIN row
  BY DEF BeginsSave
<1>3. i \in Images /\ IsRows(row)
  BY <1>2 DEF ImagesInv, IsRows
<1>4. /\ x \in [position : {x.position}, primary : BOOLEAN] /\ x.primary = call[c].primary
  BY <1>2, <1>3, Active DEF IsStep, IsRows
<1>5. IF call[c].primary THEN Begins(c, Merged(Single(i, x), Cleared(row)), Images) ELSE Begins(c, Single(i, x), {i})
  BY DEF BeginsSave
<1> HIDE DEF x
<1>6. PICK sets, reads : Begins(c, sets, reads) /\ (x.primary => reads = Images) /\ Marking(sets, row, i, x)
  <2>1. CASE call[c].primary
    BY <1>3, <1>4, <1>5, <2>1, MarkedRows
  <2>2. CASE ~call[c].primary
    BY <1>3, <1>4, <1>5, <2>2, MarkedRows
  <2> QED
    BY <2>1, <2>2
<1>7. Fitting(call[c].op, i, sets, row)
  BY <1>2, <1>6 DEF Fitting, Marking
<1>8. DOMAIN sets \cap DOMAIN row = DOMAIN sets \ {}
  BY <1>2, <1>6 DEF Marking
<1>9. sets[i].primary => reads = Images /\ Primaries(row) \subseteq DOMAIN sets
  BY <1>6 DEF Primaries, Marking
<1> QED
  BY <1>2, <1>6, <1>7, <1>8, <1>9, StepBegins DEF Marking

LEMMA StepBeginsOrder ==
    ASSUME ImagesInv, NEW c \in Calls, BeginsOrder(c)
    PROVE  ImagesInv'
<1> DEFINE ids == DOMAIN call[c].sets
           sets == [i \in ids |-> [row[i] EXCEPT !.position = call[c].sets[i].position]]
<1>1. /\ call[c].op = "order" /\ call[c].at = "sent" /\ ids \subseteq DOMAIN row
      /\ Begins(c, sets, ids)
  BY DEF BeginsOrder
<1>2. /\ IsRows(sets) /\ DOMAIN sets = ids /\ \A i \in ids : sets[i].primary = row[i].primary
  BY <1>1 DEF ImagesInv, IsRows
<1>3. page.open => ids = DOMAIN row
  BY <1>1, Active, Waiting DEF Told
<1> HIDE DEF sets
<1>4. page.open => Fitting(call[c].op, call[c].image, sets, row)
  BY <1>1, <1>2, <1>3 DEF Fitting
<1>5. DOMAIN sets \cap DOMAIN row = DOMAIN sets \ {}
  BY <1>1, <1>2
<1> QED
  BY <1>1, <1>2, <1>4, <1>5, StepBegins

(* A file is written, or in part, or not.                                   *)
LEMMA StepPut ==
    ASSUME ImagesInv, NEW c \in Calls, NEW v \in Variants, Put(c, v)
    PROVE  ImagesInv'
<1> DEFINE f == <<call[c].image, v>>
<1>1. /\ v \in call[c].puts /\ file' \in {file, file \cup {f}} /\ row' = row /\ drawn' = drawn
      /\ txn' = txn /\ page' = page /\ excused' = excused /\ doubtful' = doubtful
  BY DEF Put
<1>2. PICK failed \in BOOLEAN :
         /\ call' = [call EXCEPT ![c] = [call[c] EXCEPT !.puts = @ \ {v}, !.failed = failed]]
         /\ ~failed => ~call[c].failed /\ file' = file \cup {f}
  <2>1. CASE /\ call' = [call EXCEPT ![c].puts = @ \ {v}]
             /\ file' = file \cup {f}
    <3>1. [call[c] EXCEPT !.puts = @ \ {v}, !.failed = call[c].failed] = [call[c] EXCEPT !.puts = @ \ {v}]
      BY Active DEF IsStep
    <3>2. call' = [call EXCEPT ![c] = [call[c] EXCEPT !.puts = @ \ {v}, !.failed = call[c].failed]]
      BY <2>1, <3>1 DEF ImagesInv
    <3>3. call[c].failed \in BOOLEAN
      BY Active DEF IsStep
    <3> QED
      BY <2>1, <3>2, <3>3
  <2>2. CASE call' = [call EXCEPT ![c].puts = @ \ {v}, ![c].failed = TRUE]
    <3>1. call' = [call EXCEPT ![c] = [call[c] EXCEPT !.puts = @ \ {v}, !.failed = TRUE]]
      BY <2>2 DEF ImagesInv
    <3> QED
      BY <3>1
  <2> QED
    BY <2>1, <2>2 DEF Put
<1> DEFINE k == [call[c] EXCEPT !.puts = @ \ {v}, !.failed = failed]
<1>3. /\ IsStep(k) /\ k.at = call[c].at /\ k.image = call[c].image /\ k.puts = call[c].puts \ {v}
      /\ k.op = call[c].op /\ k.sets = call[c].sets /\ k.drops = call[c].drops
      /\ k.failed = failed /\ k.known = call[c].known /\ k.live = call[c].live
  BY Active DEF IsStep
<1>4. /\ DOMAIN call' = Calls /\ call' = [o \in Calls |-> call'[o]] /\ call'[c] = k
      /\ \A o \in Calls \ {c} : call'[o] = call[o]
  BY <1>2, CallSet
<1> HIDE DEF k
<1>5. call[c].op = "upload" /\ call[c].at = "writing" /\ txn[c] = Closed /\ call[c] # NoCall
  BY <1>1, Active DEF CallOK, Staged
<1>6. Recorded(c)' /\ Writes(c)' /\ Takes(c)' /\ Staged(c)'
  BY <1>1, <1>3, <1>4, <1>5, NoCallIs, Active DEF CallOK, Recorded, Writes, Takes, Staged
<1>7. Puts(c)'
  <2>1. Puts(c) /\ Uploading(c)
    BY <1>5, Active DEF CallOK, Uploading
  <2> QED
    BY <1>1, <1>2, <1>3, <1>4, <2>1 DEF Puts, Uploading
<1>8. ASSUME NEW o \in Calls PROVE CallOK(o)'
  <2>1. CASE o = c
    BY <2>1, <1>6, <1>7 DEF CallOK
  <2>2. CASE o # c
    <3>1. call[o].image # call[c].image /\ CallOK(o) /\ TxnGoesOn(o)
      BY <1>1, <1>5, <2>2, Active, TxnRests DEF CallOK, Puts, Uploading
    <3>2. Uploading(o) => /\ call[o].image \notin DOMAIN row'
                          /\ \A x \in Calls \ {o} : call'[x].image # call[o].image
                          /\ \A w \in Variants : <<call[o].image, w>> \in file => <<call[o].image, w>> \in file'
      BY <1>1, <1>3, <1>4, <3>1 DEF CallOK, Puts
    <3>3. call[o].at = "dropping" =>
              /\ call[o].image \in DOMAIN row' => call[o].image \in doubtful'
              /\ \A w \in Variants : Gone(<<call[o].image, w>>) => Gone(<<call[o].image, w>>)'
      <4>1. ASSUME NEW g, g # f, Gone(g) PROVE Gone(g)'
        BY <1>1, <4>1, Zenon DEF Gone
      <4>2. \A w \in Variants : <<call[o].image, w>> # f /\ <<call[o].image, w>>' = <<call'[o].image, w>>
        BY <3>1
      <4>3. ASSUME NEW w \in Variants, Gone(<<call[o].image, w>>) PROVE Gone(<<call[o].image, w>>)'
        <5>1. \A x : x = <<call[o].image, w>> => (Gone(x) => Gone(x)')
          BY <4>1, <4>2
        <5>2. call'[o].image = call[o].image
          BY <1>4, <2>2
        <5> QED
          BY <4>3, <5>1, <5>2 DEF Gone
      <4> QED
        BY <1>1, <3>1, <4>3 DEF CallOK, Takes
    <3>4. call[o].at = "open" /\ ~txn'[o].lost =>
              \A i \in txn[o].updates : i \in DOMAIN row' /\ row'[i].primary = row[i].primary
      BY <1>1, <3>1 DEF CallOK, Writes
    <3>5. Marks(o) /\ call[o].at = "open" /\ StillMay(o)' => Primaries(row') \subseteq DOMAIN call[o].sets
      BY <1>1, <3>1 DEF CallOK, Writes, StillMay
    <3> QED
      BY <1>1, <1>4, <2>2, <3>1, <3>2, <3>3, <3>4, <3>5, Onlooker
  <2> QED
    BY <2>1, <2>2
<1>9. ASSUME NEW g \in file' PROVE Kept(g)'
  <2>1. \A o \in Calls : Works(o)' <=> Works(o)
    BY <1>3, <1>4 DEF Works
  <2>2. CASE g = f
    BY <1>3, <1>4, <1>5, <2>1, <2>2 DEF Kept, Works
  <2>3. CASE g \in file
    BY <1>1, <1>3, <1>4, <2>1, <2>3 DEF ImagesInv, Kept
  <2> QED
    BY <1>1, <2>2, <2>3
<1>10. Followed'
  <2>1. page.open => Told(c)'
    BY <1>1, <1>3, <1>4, <1>5, Active, Waiting DEF Told, CallOK, Staged
  <2> QED
    BY <1>1, <1>3, <1>4, <1>5, <2>1, Waiting, PageKept
<1>11. file' \subseteq Images \X Variants /\ ImagesServed'
  <2>1. call[c].image \in Images
    BY <1>5, Active DEF CallOK, Puts, Uploading
  <2> QED
    BY <1>1, <2>1 DEF ImagesInv, ImagesServed
<1> QED
  BY <1>1, <1>4, <1>8, <1>9, <1>10, <1>11 DEF ImagesInv, CallOK

(* A file is removed, or its removal fails.                                 *)
LEMMA StepDrop ==
    ASSUME ImagesInv, NEW c \in Calls, NEW v \in Variants, Drop(c, v)
    PROVE  ImagesInv'
<1> DEFINE f == <<call[c].image, v>>
<1>1. /\ v \in call[c].drops /\ row' = row /\ drawn' = drawn
      /\ txn' = txn /\ page' = page /\ doubtful' = doubtful
      /\ \/ file' = file \ {f} /\ excused' = excused
         \/ file' = file /\ excused' = excused \cup {f}
  BY DEF Drop
<1> DEFINE k == [call[c] EXCEPT !.drops = @ \ {v}]
<1>2. call' = [call EXCEPT ![c] = k]
  BY DEF Drop, ImagesInv
<1>3. /\ IsStep(k) /\ k.at = call[c].at /\ k.image = call[c].image /\ k.puts = call[c].puts
      /\ k.op = call[c].op /\ k.sets = call[c].sets /\ k.drops = call[c].drops \ {v}
      /\ k.failed = call[c].failed /\ k.known = call[c].known /\ k.live = call[c].live
  BY Active DEF IsStep
<1> HIDE DEF k
<1>4. /\ DOMAIN call' = Calls /\ call' = [o \in Calls |-> call'[o]] /\ call'[c] = k
      /\ \A o \in Calls \ {c} : call'[o] = call[o]
  BY <1>2, CallSet
<1>5. call[c].at = "dropping" /\ txn[c] = Closed /\ call[c] # NoCall
  BY <1>1, Active DEF CallOK, Staged
<1>f. f \notin file' \/ f \in excused'
  <2> HIDE DEF f
  <2> QED
    BY <1>1
<1>g. \A g : Gone(g) => g \notin file' \/ g \in excused'
  <2> HIDE DEF f
  <2> QED
    BY <1>1, Zenon DEF Gone
<1>6. Recorded(c)' /\ Writes(c)' /\ Puts(c)' /\ Staged(c)'
  BY <1>1, <1>3, <1>4, <1>5, NoCallIs, Active DEF CallOK, Recorded, Writes, Puts, Uploading, Staged
<1>7. Takes(c)'
  <2>1. call'[c].image \in DOMAIN row' => call'[c].image \in doubtful'
    BY <1>1, <1>3, <1>4, <1>5, Active DEF CallOK, Takes
  <2>2. ASSUME NEW w \in Variants \ k.drops
        PROVE  <<call[c].image, w>> \notin file' \/ <<call[c].image, w>> \in excused'
    <3>1. CASE w = v
      BY <1>f, <3>1
    <3>2. CASE w # v
      <4>1. Gone(<<call[c].image, w>>)
        BY <1>3, <1>5, <2>2, <3>2, Active DEF CallOK, Takes
      <4> QED
        BY <1>g, <4>1
    <3> QED
      BY <3>1, <3>2
  <2> QED
    BY <1>3, <1>4, <2>1, <2>2 DEF Takes, Gone
<1>8. ASSUME NEW o \in Calls PROVE CallOK(o)'
  <2>1. CASE o = c
    BY <2>1, <1>6, <1>7 DEF CallOK
  <2>2. CASE o # c
    <3>1. CallOK(o) /\ TxnGoesOn(o)
      BY <1>1, Active, TxnRests
    <3>2. Uploading(o) => /\ call[o].image \notin DOMAIN row'
                          /\ \A x \in Calls \ {o} : call'[x].image # call[o].image
                          /\ \A w \in Variants : <<call[o].image, w>> \in file => <<call[o].image, w>> \in file'
      BY <1>1, <1>3, <1>4, <2>2, <3>1 DEF CallOK, Puts
    <3>3. call[o].at = "dropping" =>
              /\ call[o].image \in DOMAIN row' => call[o].image \in doubtful'
              /\ \A w \in Variants : Gone(<<call[o].image, w>>) => Gone(<<call[o].image, w>>)'
      BY <1>1, <1>4, <1>g, <2>2, <3>1 DEF CallOK, Takes, Gone
    <3>4. call[o].at = "open" /\ ~txn'[o].lost =>
              \A i \in txn[o].updates : i \in DOMAIN row' /\ row'[i].primary = row[i].primary
      BY <1>1, <3>1 DEF CallOK, Writes
    <3>5. Marks(o) /\ call[o].at = "open" /\ StillMay(o)' => Primaries(row') \subseteq DOMAIN call[o].sets
      BY <1>1, <3>1 DEF CallOK, Writes, StillMay
    <3> QED
      BY <1>1, <1>4, <2>2, <3>1, <3>2, <3>3, <3>4, <3>5, Onlooker
  <2> QED
    BY <2>1, <2>2
<1>9. ASSUME NEW g \in file' PROVE Kept(g)'
  <2>1. \A o \in Calls : (Works(o)' <=> Works(o)) /\ call'[o].image = call[o].image
    BY <1>3, <1>4 DEF Works
  <2>2. g \in file /\ Kept(g) /\ excused \subseteq excused'
    <3> HIDE DEF f
    <3> QED
      BY <1>1 DEF ImagesInv
  <2> QED
    BY <1>1, <2>1, <2>2 DEF Kept
<1>10. Followed'
  <2>1. page.open => Told(c)'
    BY <1>1, <1>3, <1>4, <1>5, Active, Waiting DEF Told, CallOK, Staged
  <2> QED
    BY <1>1, <1>3, <1>4, <1>5, <2>1, Waiting, PageKept
<1>11. file' \subseteq Images \X Variants /\ ImagesServed'
  <2>1. file' \subseteq file
    <3> HIDE DEF f
    <3> QED
      BY <1>1
  <2>2. ASSUME NEW i \in DOMAIN row, i \notin doubtful PROVE FilesOf(i) \subseteq file'
    <3>1. FilesOf(i) \subseteq file
      BY <2>2 DEF ImagesInv, ImagesServed
    <3>2. call[c].image # i
      BY <1>5, <2>2, Active DEF CallOK, Takes
    <3>3. f \notin FilesOf(i)
      BY <3>2 DEF FilesOf
    <3> HIDE DEF f
    <3> QED
      BY <1>1, <3>1, <3>3
  <2> QED
    BY <1>1, <2>1, <2>2 DEF ImagesInv, ImagesServed
<1> QED
  BY <1>1, <1>4, <1>8, <1>9, <1>10, <1>11 DEF ImagesInv, CallOK

-----------------------------------------------------------------------------
(* What a statement and a COMMIT do to the transactions that are open.      *)
LEMMA TxnAfterStatement ==
    ASSUME ImagesInv, NEW written, txn' = AfterStatement(txn, written)
    PROVE  /\ DOMAIN txn' = Calls /\ txn' = [o \in Calls |-> txn'[o]]
           /\ \A o \in Calls :
                 /\ TxnGoesOn(o) /\ (~txn[o].open => txn'[o] = txn[o])
                 /\ txn'[o].behind = txn[o].behind /\ txn'[o].ahead = txn[o].ahead
                 /\ txn[o].open => txn'[o].lost = (txn[o].lost \/ Meets(txn[o].updates, written))
<1>1. DOMAIN txn' = Calls /\ txn' = [o \in Calls |-> txn'[o]]
  BY DEF AfterStatement, ImagesInv
<1>2. ASSUME NEW o \in Calls, txn[o].open
      PROVE  /\ TxnGoesOn(o) /\ txn'[o].behind = txn[o].behind /\ txn'[o].ahead = txn[o].ahead
             /\ txn'[o].lost = (txn[o].lost \/ Meets(txn[o].updates, written))
  <2>1. txn'[o] = [txn[o] EXCEPT !.lost = @ \/ Meets(txn[o].updates, written)]
    BY <1>2 DEF AfterStatement, ImagesInv
  <2>2. txn[o] \in [open : BOOLEAN, reads : {txn[o].reads}, updates : {txn[o].updates}, writes : {txn[o].writes},
                    lost : BOOLEAN, behind : BOOLEAN, ahead : BOOLEAN]
    BY <1>2 DEF ImagesInv, Recorded, Closed
  <2>3. Meets(txn[o].updates, written) \in BOOLEAN
    BY DEF Meets
  <2> QED
    BY <1>2, <2>1, <2>2, <2>3 DEF TxnGoesOn
<1>3. ASSUME NEW o \in Calls, ~txn[o].open
      PROVE  txn'[o] = txn[o] /\ TxnGoesOn(o)
  <2>1. txn'[o] = txn[o]
    BY <1>3 DEF AfterStatement, ImagesInv
  <2> QED
    BY <2>1, TxnRests
<1> QED
  BY <1>1, <1>2, <1>3

LEMMA TxnAfterCommit ==
    ASSUME ImagesInv, NEW c \in Calls, txn' = AfterCommit(txn, c)
    PROVE  /\ DOMAIN txn' = Calls /\ txn' = [o \in Calls |-> txn'[o]] /\ txn'[c] = Closed
           /\ \A o \in Calls \ {c} :
                 /\ TxnGoesOn(o)
                 /\ txn[o].open => /\ txn'[o].lost = (txn[o].lost \/ Meets(txn[o].updates, txn[c].writes))
                                   /\ txn'[o].behind = (txn[o].behind \/ Meets(txn[o].reads, txn[c].writes))
                                   /\ txn'[o].ahead = (txn[o].ahead \/ Meets(txn[c].reads, txn[o].writes))
<1>1. DOMAIN txn' = Calls /\ txn' = [o \in Calls |-> txn'[o]] /\ txn'[c] = Closed
  BY DEF AfterCommit, ImagesInv
<1>2. ASSUME NEW o \in Calls \ {c}, txn[o].open
      PROVE  /\ TxnGoesOn(o)
             /\ txn'[o].lost = (txn[o].lost \/ Meets(txn[o].updates, txn[c].writes))
             /\ txn'[o].behind = (txn[o].behind \/ Meets(txn[o].reads, txn[c].writes))
             /\ txn'[o].ahead = (txn[o].ahead \/ Meets(txn[c].reads, txn[o].writes))
  <2>1. txn'[o] = [txn[o] EXCEPT !.lost = @ \/ Meets(txn[o].updates, txn[c].writes),
                                 !.behind = @ \/ Meets(txn[o].reads, txn[c].writes),
                                 !.ahead = @ \/ Meets(txn[c].reads, txn[o].writes)]
    BY <1>2 DEF AfterCommit, ImagesInv
  <2>2. txn[o] \in [open : BOOLEAN, reads : {txn[o].reads}, updates : {txn[o].updates}, writes : {txn[o].writes},
                    lost : BOOLEAN, behind : BOOLEAN, ahead : BOOLEAN]
    BY <1>2 DEF ImagesInv, Recorded, Closed
  <2>3. /\ Meets(txn[o].updates, txn[c].writes) \in BOOLEAN /\ Meets(txn[o].reads, txn[c].writes) \in BOOLEAN
        /\ Meets(txn[c].reads, txn[o].writes) \in BOOLEAN
    BY DEF Meets
  <2> QED
    BY <1>2, <2>1, <2>2, <2>3 DEF TxnGoesOn
<1>3. ASSUME NEW o \in Calls \ {c}, ~txn[o].open
      PROVE  TxnGoesOn(o)
  <2>1. txn'[o] = Closed /\ txn[o] = Closed
    BY <1>3 DEF AfterCommit, ImagesInv, Recorded
  <2> QED
    BY <2>1, TxnRests
<1> QED
  BY <1>1, <1>2, <1>3

LEMMA StepRemovesRow ==
    ASSUME ImagesInv, NEW c \in Calls, RemovesRow(c)
    PROVE  ImagesInv'
<1> DEFINE i == call[c].image
<1>1. /\ call[c].op = "delete" /\ call[c].at = "found" /\ i \in DOMAIN row
      /\ row' = Without(row, i) /\ txn' = AfterStatement(txn, {i})
      /\ drawn' = drawn /\ file' = file /\ page' = page /\ doubtful' = doubtful
  BY DEF RemovesRow
<1>2. /\ IsRows(row') /\ DOMAIN row' = DOMAIN row \ {i}
      /\ Primaries(row') = Primaries(row) \ {i}
      /\ \A j \in DOMAIN row \ {i} : row'[j] = row[j]
  <2>1. IsRows(row)
    BY DEF ImagesInv
  <2> HIDE DEF i
  <2> QED
    BY <1>1, <2>1, WithoutRows
<1>3. /\ DOMAIN txn' = Calls /\ txn' = [o \in Calls |-> txn'[o]]
      /\ \A o \in Calls :
            /\ TxnGoesOn(o) /\ (~txn[o].open => txn'[o] = txn[o])
            /\ txn'[o].behind = txn[o].behind /\ txn'[o].ahead = txn[o].ahead
            /\ txn[o].open => txn'[o].lost = (txn[o].lost \/ Meets(txn[o].updates, {i}))
  BY <1>1, TxnAfterStatement
<1>4. PICK k :
         /\ call' = [call EXCEPT ![c] = k] /\ IsStep(k) /\ k.puts = {} /\ (~call[c].live => ~k.live)
         /\ \/ /\ k.op = "delete" /\ k.at = "dropping" /\ k.image = i /\ k.drops = Variants /\ k.sets = <<>>
               /\ ~k.failed /\ k.known /\ k.live = call[c].live /\ excused' = excused
            \/ /\ excused' = excused \cup FilesOf(i)
               /\ \/ k = NoCall /\ ~call[c].live
                  \/ /\ k.op = "delete" /\ k.at = "answered" /\ k.image = i /\ k.drops = {} /\ k.sets = <<>>
                     /\ k.failed /\ ~k.known /\ k.live
  <2>0. call[c].puts = {} /\ call[c].drops = {} /\ call[c].known
    BY <1>1, Active DEF CallOK, Staged
  <2>1. CASE call' = [call EXCEPT ![c] = Removes(@, FALSE)] /\ excused' = excused
    <3>1. call' = [call EXCEPT ![c] = Removes(call[c], FALSE)]
      BY <2>1 DEF ImagesInv
    <3>2. PICK failed \in BOOLEAN : failed = FALSE /\ Removes(call[c], failed) = Removes(call[c], FALSE)
      OBVIOUS
    <3> DEFINE k == Removes(call[c], failed)
    <3>3. /\ IsStep(k)
          /\ k.op = call[c].op /\ k.at = "dropping" /\ k.image = call[c].image /\ k.sets = <<>>
          /\ k.puts = call[c].puts /\ k.drops = Variants
          /\ k.failed = (failed /\ call[c].live) /\ k.known = call[c].known /\ k.live = call[c].live
      BY Active, RemovesTo
    <3>4. call' = [call EXCEPT ![c] = k]
      BY <3>1, <3>2
    <3> HIDE DEF k
    <3> QED
      BY <1>1, <2>0, <2>1, <3>2, <3>3, <3>4
  <2>2. CASE call' = [call EXCEPT ![c] = FailsIn([@ EXCEPT !.known = FALSE])] /\ excused' = excused \cup FilesOf(i)
    <3> DEFINE s == [call[c] EXCEPT !.known = FALSE]
               k == FailsIn(s)
    <3>1. call' = [call EXCEPT ![c] = k]
      BY <2>2 DEF ImagesInv
    <3>2. /\ IsStep(s) /\ s.op = call[c].op /\ s.at = call[c].at /\ s.image = call[c].image /\ s.puts = call[c].puts
          /\ s.drops = call[c].drops /\ ~s.known /\ s.live = call[c].live
      BY Active DEF IsStep
    <3> HIDE DEF s
    <3>3. /\ IsStep(k)
          /\ IF s.op = "upload" /\ s.at # "sent"
             THEN /\ k.op = s.op /\ k.at = "dropping" /\ k.image = s.image /\ k.sets = <<>>
                  /\ k.puts = s.puts /\ k.drops = Variants
                  /\ k.failed = s.live /\ k.known = s.known /\ k.live = s.live
             ELSE IF ~s.live THEN k = NoCall
             ELSE /\ k.op = s.op /\ k.at = "answered" /\ k.image = s.image /\ k.sets = <<>>
                  /\ k.puts = s.puts /\ k.drops = s.drops
                  /\ k.failed /\ k.known = s.known /\ k.live
      BY <3>2, FailsTo
    <3> HIDE DEF k
    <3> QED
      BY <1>1, <2>0, <2>2, <3>1, <3>2, <3>3, NoCallIs
  <2> QED
    BY <2>1, <2>2 DEF RemovesRow
<1>5. /\ DOMAIN call' = Calls /\ call' = [o \in Calls |-> call'[o]] /\ call'[c] = k
      /\ \A o \in Calls \ {c} : call'[o] = call[o]
  BY <1>4, CallSet
<1>6. k.image \in {i, 0} /\ i \in drawn /\ i # 0 /\ drawn \subseteq Images
  BY <1>1, <1>4, NoCallIs DEF ImagesInv
<1>7. CallOK(c)'
  <2>1. Recorded(c)'
    <3>1. txn'[c] = Closed
      <4>1. txn[c] = Closed /\ ~Closed.open
        BY <1>1, Active DEF Closed
      <4> QED
        BY <1>3, <4>1
    <3>2. k.at # "open"
      BY <1>4, NoCallIs
    <3> QED
      BY <1>4, <1>5, <3>1, <3>2 DEF Recorded
  <2>2. Staged(c)'
    BY <1>1, <1>4, <1>5, <1>6, NoCallIs DEF Staged
  <2>3. Takes(c)'
    BY <1>2, <1>4, <1>5, NoCallIs DEF Takes
  <2> QED
    BY <1>4, <1>5, NoCallIs, <2>1, <2>2, <2>3 DEF CallOK, Writes, Puts, Uploading
<1>8. ASSUME NEW o \in Calls PROVE CallOK(o)'
  <2>1. CASE o = c
    BY <2>1, <1>7
  <2>2. CASE o # c
    <3>1. CallOK(o) /\ TxnGoesOn(o)
      BY <1>3, Active
    <3>2. Uploading(o) => /\ call[o].image \notin DOMAIN row'
                          /\ \A x \in Calls \ {o} : call'[x].image # call[o].image
                          /\ \A w \in Variants : <<call[o].image, w>> \in file => <<call[o].image, w>> \in file'
      BY <1>1, <1>2, <1>5, <1>6, <2>2, <3>1 DEF CallOK, Puts, ImagesInv
    <3>3. call[o].at = "dropping" =>
              /\ call[o].image \in DOMAIN row' => call[o].image \in doubtful'
              /\ \A w \in Variants : Gone(<<call[o].image, w>>) => Gone(<<call[o].image, w>>)'
      BY <1>1, <1>2, <1>4, <1>5, <2>2, <3>1 DEF CallOK, Takes, Gone
    <3>4. call[o].at = "open" /\ ~txn'[o].lost =>
              \A j \in txn[o].updates : j \in DOMAIN row' /\ row'[j].primary = row[j].primary
      BY <1>2, <1>3, <3>1 DEF CallOK, Recorded, Writes, Meets
    <3>5. Marks(o) /\ call[o].at = "open" /\ StillMay(o)' => Primaries(row') \subseteq DOMAIN call[o].sets
      BY <1>2, <1>3, <3>1 DEF CallOK, Writes, StillMay, TxnGoesOn
    <3> QED
      BY <1>1, <1>5, <2>2, <3>1, <3>2, <3>3, <3>4, <3>5, Onlooker
  <2> QED
    BY <2>1, <2>2
<1>9. ASSUME NEW f \in file PROVE Kept(f)'
  <2>1. Kept(f) /\ f = <<f[1], f[2]>> /\ f[2] \in Variants
    BY DEF ImagesInv
  <2>2. CASE f[1] = i
    <3>1. CASE k.at = "dropping" /\ k.image = i
      BY <1>5, <2>2, <3>1 DEF Kept, Works
    <3>2. CASE excused' = excused \cup FilesOf(i)
      BY <2>1, <2>2, <3>2 DEF Kept, FilesOf
    <3> QED
      BY <1>4, <3>1, <3>2
  <2>3. CASE f[1] # i
    BY <1>2, <1>4, <1>5, <2>1, <2>3 DEF Kept, Works
  <2> QED
    BY <2>2, <2>3
<1>10. Followed'
  <2>0. call[c] # NoCall
    BY <1>1, Active
  <2>1. ASSUME page.open PROVE call'[c] # NoCall => Told(c)'
    <3>1. Told(c) /\ page.images = row /\ row' = Without(page.images, i)
      BY <1>1, <2>0, <2>1, Waiting DEF Told
    <3> QED
      BY <1>1, <1>4, <1>5, <3>1, Waiting DEF Told
  <2>2. ~page.open => ~call'[c].live
    BY <1>4, <1>5, <2>0, Waiting
  <2> QED
    BY <1>1, <1>5, <2>0, <2>1, <2>2, PageKept
<1>11. ImagesServed'
  BY <1>1, <1>2 DEF ImagesInv, ImagesServed
<1> QED
  BY <1>1, <1>2, <1>3, <1>5, <1>8, <1>9, <1>10, <1>11 DEF ImagesInv, CallOK

(* A COMMIT: nobody else's mark survives one that sets a mark, and a        *)
(* transaction that would set a second one can no longer commit.            *)
LEMMA AfterMark ==
    ASSUME ImagesInv, NEW c \in Calls, call[c].at = "open", MayCommit(txn, c)
    PROVE  /\ ~txn[c].lost /\ StillMay(c) /\ IsRows(call[c].sets)
           /\ txn[c].writes = DOMAIN call[c].sets
           /\ call[c].op \in {"upload", "save", "order"}
           /\ DOMAIN call[c].sets \subseteq DOMAIN row \cup IF call[c].op = "upload" THEN {call[c].image} ELSE {}
           /\ call[c].op # "order" => call[c].image \in DOMAIN call[c].sets /\ Primaries(call[c].sets) \subseteq {call[c].image}
           /\ call[c].op = "order" => \A i \in DOMAIN call[c].sets : call[c].sets[i].primary = row[i].primary
           /\ Marks(c) => txn[c].reads = Images /\ Primaries(row) \subseteq DOMAIN call[c].sets
<1>1. CallOK(c) /\ IsStep(call[c])
  BY Active
<1>2. ~txn[c].lost /\ StillMay(c)
  BY DEF MayCommit, StillMay
<1> QED
  BY <1>1, <1>2 DEF CallOK, Staged, Writes, IsStep

LEMMA CommittedRows ==
    ASSUME ImagesInv, NEW c \in Calls, call[c].at = "open", MayCommit(txn, c), row' = Merged(call[c].sets, row)
    PROVE  /\ IsRows(row') /\ DOMAIN row' = DOMAIN call[c].sets \cup DOMAIN row
           /\ \A i \in DOMAIN row \ DOMAIN call[c].sets : row'[i] = row[i]
           /\ \A i \in Primaries(row') : i \in Primaries(row) \/ (Marks(c) /\ i = call[c].image)
           /\ \A i, j \in Primaries(row') : i = j
<1> DEFINE sets == call[c].sets
           i == call[c].image
<1>1. /\ IsRows(sets) /\ IsRows(row) /\ \A x, y \in Primaries(row) : x = y
      /\ call[c].op # "order" => i \in DOMAIN sets /\ Primaries(sets) \subseteq {i}
      /\ call[c].op = "order" => \A x \in DOMAIN sets : x \in DOMAIN row /\ sets[x].primary = row[x].primary
      /\ Marks(c) => Primaries(row) \subseteq DOMAIN sets
  BY AfterMark DEF ImagesInv
<1>2. Marks(c) <=> call[c].op # "order" /\ sets[i].primary
  BY DEF Marks
<1> HIDE DEF sets
<1>3. /\ IsRows(row') /\ DOMAIN row' = DOMAIN sets \cup DOMAIN row
      /\ \A x \in DOMAIN sets : row'[x] = sets[x]
      /\ \A x \in DOMAIN row \ DOMAIN sets : row'[x] = row[x]
      /\ Primaries(row') = Primaries(sets) \cup (Primaries(row) \ DOMAIN sets)
  <2> DEFINE g == Merged(sets, row)
  <2>1. /\ IsRows(g) /\ DOMAIN g = DOMAIN sets \cup DOMAIN row
        /\ \A x \in DOMAIN sets : g[x] = sets[x]
        /\ \A x \in DOMAIN row \ DOMAIN sets : g[x] = row[x]
        /\ Primaries(g) = Primaries(sets) \cup (Primaries(row) \ DOMAIN sets)
    BY <1>1, MergedRows
  <2>2. row' = g
    BY DEF sets
  <2> HIDE DEF g
  <2> QED
    BY <2>1, <2>2
<1>4. ASSUME NEW x \in Primaries(row') PROVE x \in Primaries(row) \/ (Marks(c) /\ x = i)
  <2>1. CASE x \in Primaries(sets) /\ call[c].op = "order"
    BY <1>1, <2>1 DEF Primaries
  <2>2. CASE x \in Primaries(sets) /\ call[c].op # "order"
    <3>1. x = i /\ sets[x].primary
      BY <1>1, <2>2 DEF Primaries
    <3> QED
      BY <1>2, <2>2, <3>1
  <2> QED
    BY <1>3, <2>1, <2>2
<1>5. ASSUME NEW x \in Primaries(row'), NEW y \in Primaries(row') PROVE x = y
  <2>1. CASE Marks(c)
    <3>1. Primaries(row') \subseteq {i}
      BY <1>1, <1>2, <1>3, <2>1
    <3> QED
      BY <3>1
  <2>2. CASE ~Marks(c)
    BY <1>1, <1>4, <2>2
  <2> QED
    BY <2>1, <2>2
<1> QED
  BY <1>3, <1>4, <1>5 DEF sets

LEMMA CommitKeepsOthers ==
    ASSUME ImagesInv, NEW c \in Calls, call[c].at = "open", MayCommit(txn, c), row' = Merged(call[c].sets, row),
           txn' = AfterCommit(txn, c), NEW o \in Calls \ {c}
    PROVE  /\ call[o].at = "open" /\ ~txn'[o].lost =>
                 \A j \in txn[o].updates : j \in DOMAIN row' /\ row'[j].primary = row[j].primary
           /\ Marks(o) /\ call[o].at = "open" /\ StillMay(o)' => Primaries(row') \subseteq DOMAIN call[o].sets
<1>1. /\ DOMAIN row' = DOMAIN call[c].sets \cup DOMAIN row
      /\ \A j \in DOMAIN row \ DOMAIN call[c].sets : row'[j] = row[j]
      /\ \A j \in Primaries(row') : j \in Primaries(row) \/ (Marks(c) /\ j = call[c].image)
  BY CommittedRows
<1>2. /\ TxnGoesOn(o)
      /\ txn[o].open => /\ txn'[o].lost = (txn[o].lost \/ Meets(txn[o].updates, txn[c].writes))
                        /\ txn'[o].behind = (txn[o].behind \/ Meets(txn[o].reads, txn[c].writes))
                        /\ txn'[o].ahead = (txn[o].ahead \/ Meets(txn[c].reads, txn[o].writes))
  BY TxnAfterCommit
<1>3. CallOK(o) /\ IsStep(call[o])
  BY Active
<1>4. txn[c].writes = DOMAIN call[c].sets /\ IsRows(call[c].sets)
  BY AfterMark
<1>5. ASSUME call[o].at = "open", ~txn'[o].lost, NEW j \in txn[o].updates
      PROVE  j \in DOMAIN row' /\ row'[j].primary = row[j].primary
  <2>1. txn[o].open /\ ~txn[o].lost
    BY <1>2, <1>3, <1>5 DEF CallOK, Recorded
  <2>2. j \in DOMAIN row
    BY <1>3, <1>5, <2>1 DEF CallOK, Writes
  <2>3. j \notin DOMAIN call[c].sets
    BY <1>2, <1>4, <1>5, <2>1 DEF Meets
  <2> QED
    BY <1>1, <2>2, <2>3
<1>6. ASSUME Marks(o), call[o].at = "open", StillMay(o)'
      PROVE  Primaries(row') \subseteq DOMAIN call[o].sets
  <2>1. txn[o].open /\ StillMay(o)
    BY <1>2, <1>3, <1>6 DEF CallOK, Recorded, StillMay, TxnGoesOn
  <2>2. Primaries(row) \subseteq DOMAIN call[o].sets
    BY <1>3, <1>6, <2>1 DEF CallOK, Writes
  <2>3. ASSUME Marks(c) PROVE FALSE
    <3>1. /\ txn[c].reads = Images /\ call[c].image \in DOMAIN call[c].sets
      BY <2>3, AfterMark DEF Marks
    <3>2. /\ txn[o].reads = Images /\ txn[o].writes = DOMAIN call[o].sets /\ call[o].image \in DOMAIN call[o].sets
      BY <1>3, <1>6 DEF CallOK, Writes, Marks
    <3>3. call[o].image \in Images /\ call[c].image \in Images
      BY <1>3, <1>4, <3>1, <3>2 DEF IsStep, IsRows
    <3>4. Meets(txn[o].reads, txn[c].writes) /\ Meets(txn[c].reads, txn[o].writes)
      BY <1>4, <3>1, <3>2, <3>3 DEF Meets
    <3>5. txn'[o].behind /\ txn'[o].ahead
      BY <1>2, <2>1, <3>4
    <3> QED
      BY <1>6, <3>5 DEF StillMay
  <2> QED
    BY <1>1, <2>2, <2>3
<1> QED
  BY <1>5, <1>6

LEMMA StepCommits ==
    ASSUME ImagesInv, NEW c \in Calls, Commits(c)
    PROVE  ImagesInv'
<1> DEFINE i == call[c].image
           sets == call[c].sets
<1>1. /\ call[c].at = "open" /\ MayCommit(txn, c)
      /\ row' = Merged(call[c].sets, row) /\ txn' = AfterCommit(txn, c)
      /\ drawn' = drawn /\ file' = file /\ page' = page /\ excused' = excused
  BY DEF Commits
<1>2. /\ IsRows(row') /\ DOMAIN row' = DOMAIN sets \cup DOMAIN row
      /\ \A x, y \in Primaries(row') : x = y
  BY <1>1, CommittedRows
<1>3. /\ DOMAIN sets \subseteq DOMAIN row \cup IF call[c].op = "upload" THEN {i} ELSE {}
      /\ call[c].op \in {"upload", "save", "order"}
      /\ call[c].op # "order" => i \in DOMAIN sets
      /\ IsRows(sets)
  BY <1>1, AfterMark
<1>4. /\ DOMAIN txn' = Calls /\ txn' = [o \in Calls |-> txn'[o]] /\ txn'[c] = Closed
      /\ \A o \in Calls \ {c} : TxnGoesOn(o)
  BY <1>1, TxnAfterCommit
<1>0. call[c].puts = {} /\ call[c].drops = {} /\ call[c].known /\ ~call[c].failed /\ i \in drawn \cup {0} /\ call[c] # NoCall
  BY <1>1, Active DEF CallOK, Staged
<1>5. PICK k :
         /\ call' = [call EXCEPT ![c] = k] /\ IsStep(k) /\ k.puts = {} /\ (~call[c].live => ~k.live)
         /\ \/ doubtful' = doubtful /\ k = NoCall /\ ~call[c].live
            \/ /\ doubtful' = doubtful /\ k.live /\ call[c].live
               /\ k.op = call[c].op /\ k.at = "answered" /\ k.image = i /\ k.drops = {} /\ k.sets = sets
               /\ ~k.failed /\ k.known
            \/ /\ doubtful' = doubtful \cup {i}
               /\ \/ k = NoCall /\ ~call[c].live /\ call[c].op # "upload"
                  \/ /\ k.op = call[c].op /\ k.at = "answered" /\ k.image = i /\ k.drops = {} /\ k.sets = <<>>
                     /\ k.failed /\ ~k.known /\ k.live
                  \/ /\ k.op = "upload" /\ k.at = "dropping" /\ k.image = i /\ k.drops = Variants /\ k.sets = <<>>
                     /\ k.failed = call[c].live /\ ~k.known /\ k.live = call[c].live
  <2>1. CASE call' = [call EXCEPT ![c] = Closes(@)] /\ doubtful' = doubtful
    <3> DEFINE k == Closes(call[c])
    <3>1. call' = [call EXCEPT ![c] = k]
      BY <2>1 DEF ImagesInv
    <3>2. CASE ~call[c].live
      BY <1>0, <2>1, <3>1, <3>2, NoCallIs, Active, ClosesTo
    <3>3. CASE call[c].live
      <4>1. /\ IsStep(k)
            /\ k.op = call[c].op /\ k.at = "answered" /\ k.image = call[c].image /\ k.sets = call[c].sets
            /\ k.puts = call[c].puts /\ k.drops = call[c].drops
            /\ k.failed = call[c].failed /\ k.known = call[c].known /\ k.live
        BY <3>3, Active, ClosesTo
      <4> HIDE DEF k
      <4> QED
        BY <1>0, <2>1, <3>1, <3>3, <4>1
    <3> QED
      BY <3>2, <3>3
  <2>2. CASE call' = [call EXCEPT ![c] = FailsIn([@ EXCEPT !.known = FALSE])] /\ doubtful' = doubtful \cup {i}
    <3> DEFINE s == [call[c] EXCEPT !.known = FALSE]
               k == FailsIn(s)
    <3>1. call' = [call EXCEPT ![c] = k]
      BY <2>2 DEF ImagesInv
    <3>2. /\ IsStep(s) /\ s.op = call[c].op /\ s.at = call[c].at /\ s.image = call[c].image /\ s.puts = call[c].puts
          /\ s.drops = call[c].drops /\ ~s.known /\ s.live = call[c].live
      BY Active DEF IsStep
    <3> HIDE DEF s
    <3>3. /\ IsStep(k)
          /\ IF s.op = "upload" /\ s.at # "sent"
             THEN /\ k.op = s.op /\ k.at = "dropping" /\ k.image = s.image /\ k.sets = <<>>
                  /\ k.puts = s.puts /\ k.drops = Variants
                  /\ k.failed = s.live /\ k.known = s.known /\ k.live = s.live
             ELSE IF ~s.live THEN k = NoCall
             ELSE /\ k.op = s.op /\ k.at = "answered" /\ k.image = s.image /\ k.sets = <<>>
                  /\ k.puts = s.puts /\ k.drops = s.drops
                  /\ k.failed /\ k.known = s.known /\ k.live
      BY <3>2, FailsTo
    <3> HIDE DEF k
    <3>4. /\ IsStep(k) /\ k.puts = {} /\ (~call[c].live => ~k.live)
          /\ \/ k = NoCall /\ ~call[c].live /\ call[c].op # "upload"
             \/ /\ k.op = call[c].op /\ k.at = "answered" /\ k.image = i /\ k.drops = {} /\ k.sets = <<>>
                /\ k.failed /\ ~k.known /\ k.live
             \/ /\ k.op = "upload" /\ k.at = "dropping" /\ k.image = i /\ k.drops = Variants /\ k.sets = <<>>
                /\ k.failed = call[c].live /\ ~k.known /\ k.live = call[c].live
      BY <1>0, <1>1, <3>2, <3>3, NoCallIs
    <3> QED
      BY <2>2, <3>1, <3>4
  <2> QED
    BY <2>1, <2>2 DEF Commits
<1>6. /\ DOMAIN call' = Calls /\ call' = [o \in Calls |-> call'[o]] /\ call'[c] = k
      /\ \A o \in Calls \ {c} : call'[o] = call[o]
  BY <1>5, CallSet
<1>7. CallOK(c)'
  <2>1. Recorded(c)'
    BY <1>4, <1>5, <1>6, NoCallIs DEF Recorded
  <2>2. Staged(c)'
    BY <1>0, <1>1, <1>3, <1>5, <1>6, NoCallIs DEF Staged
  <2>3. Takes(c)'
    BY <1>5, <1>6, NoCallIs DEF Takes
  <2> QED
    BY <1>5, <1>6, NoCallIs, <2>1, <2>2, <2>3 DEF CallOK, Writes, Puts, Uploading
<1>u. call[c].op = "upload" => /\ i \in drawn /\ FilesOf(i) \subseteq file /\ \A o \in Calls \ {c} : call[o].image # i
  BY <1>0, <1>1, Active DEF CallOK, Puts, Uploading, FilesOf
<1>8. ASSUME NEW o \in Calls PROVE CallOK(o)'
  <2>1. CASE o = c
    BY <2>1, <1>7
  <2>2. CASE o # c
    <3>1. CallOK(o) /\ TxnGoesOn(o)
      BY <1>4, <2>2, Active
    <3>2. Uploading(o) => /\ call[o].image \notin DOMAIN row'
                          /\ \A x \in Calls \ {o} : call'[x].image # call[o].image
                          /\ \A w \in Variants : <<call[o].image, w>> \in file => <<call[o].image, w>> \in file'
      <4> HAVE Uploading(o)
      <4>1. call[o].image \in drawn \ DOMAIN row /\ (\A x \in Calls \ {o} : call[x].image # call[o].image)
        BY <3>1 DEF CallOK, Puts
      <4>2. call[o].image # 0
        BY <4>1 DEF ImagesInv
      <4>3. call'[c].image \in {i, 0}
        BY <1>5, <1>6, NoCallIs
      <4>4. \A x \in Calls \ {o} : call'[x].image # call[o].image
        BY <1>6, <2>2, <4>1, <4>2, <4>3
      <4>5. call[o].image \notin DOMAIN row'
        BY <1>2, <1>3, <2>2, <4>1
      <4> QED
        BY <1>1, <4>4, <4>5
    <3>3. call[o].at = "dropping" =>
              /\ call[o].image \in DOMAIN row' => call[o].image \in doubtful'
              /\ \A w \in Variants : Gone(<<call[o].image, w>>) => Gone(<<call[o].image, w>>)'
      <4> HAVE call[o].at = "dropping"
      <4>1. call[o].image \in DOMAIN row => call[o].image \in doubtful
        BY <3>1 DEF CallOK, Takes
      <4>2. call[o].image \in DOMAIN row' => call[o].image \in doubtful'
        BY <1>2, <1>3, <1>5, <1>u, <2>2, <4>1
      <4>3. \A w \in Variants : Gone(<<call[o].image, w>>) => Gone(<<call[o].image, w>>)'
        BY <1>1, <1>6, <2>2 DEF Gone
      <4> QED
        BY <4>2, <4>3
    <3>4. /\ call[o].at = "open" /\ ~txn'[o].lost =>
                \A j \in txn[o].updates : j \in DOMAIN row' /\ row'[j].primary = row[j].primary
          /\ Marks(o) /\ call[o].at = "open" /\ StillMay(o)' => Primaries(row') \subseteq DOMAIN call[o].sets
      BY <1>1, <2>2, CommitKeepsOthers
    <3> QED
      BY <1>1, <1>6, <2>2, <3>1, <3>2, <3>3, <3>4, Onlooker
  <2> QED
    BY <2>1, <2>2
<1>9. ASSUME NEW f \in file PROVE Kept(f)'
  <2>1. Kept(f)
    BY DEF ImagesInv
  <2>2. CASE f[1] \in DOMAIN row \/ f \in excused
    BY <1>1, <1>2, <2>2 DEF Kept
  <2>3. ASSUME NEW o \in Calls, call[o].image = f[1], Works(o)
        PROVE  Kept(f)'
    <3>1. CASE o = c
      BY <1>1, <1>2, <1>3, <2>3, <3>1 DEF Kept, Works
    <3>2. CASE o # c
      BY <1>6, <2>3, <3>2 DEF Kept, Works
    <3> QED
      BY <3>1, <3>2
  <2> QED
    BY <2>1, <2>2, <2>3 DEF Kept
<1>10. Followed'
  <2>1. ASSUME page.open, call'[c] # NoCall PROVE Told(c)'
    <3>1. Told(c) /\ page.images = row /\ row' = Merged(sets, page.images) /\ Fits(c, page.images)
      BY <1>0, <1>1, <2>1, Waiting DEF Told
    <3>2. /\ k.live
          /\ \/ /\ k.op = call[c].op /\ k.at = "answered" /\ k.image = i /\ k.sets = sets /\ ~k.failed
             \/ k.at \in {"answered", "dropping"} /\ k.failed /\ ~k.known
      BY <1>5, <1>6, <2>1, <3>1, NoCallIs DEF Told
    <3> QED
      BY <1>1, <1>6, <3>1, <3>2 DEF Told, Fits
  <2>2. ~page.open => ~call'[c].live
    BY <1>0, <1>5, <1>6, Waiting
  <2> QED
    BY <1>0, <1>1, <1>6, <2>1, <2>2, PageKept
<1>11. ImagesServed'
  BY <1>1, <1>2, <1>3, <1>5, <1>u DEF ImagesInv, ImagesServed
<1>12. DOMAIN row' \subseteq drawn'
  BY <1>1, <1>2, <1>3, <1>u DEF ImagesInv
<1> QED
  BY <1>1, <1>2, <1>4, <1>6, <1>8, <1>9, <1>10, <1>11, <1>12 DEF ImagesInv, CallOK

-----------------------------------------------------------------------------
(* The answers: what the page makes of one is what the rows have become.    *)
LEMMA ShowsTheRows ==
    ASSUME ImagesInv, page.open, NEW again, Shows(row, again), row' = row, \A o \in Calls : call'[o] = NoCall
    PROVE  Followed'
<1>0. Followed /\ IsRows(row)
  BY DEF ImagesInv
<1> DEFINE form == Synchronized(row, again)
<1>1. /\ page' = [page EXCEPT !.busy = FALSE, !.images = row, !.form = form, !.touched = page.touched \ again]
      /\ page \in [open : BOOLEAN, busy : BOOLEAN, images : {page.images}, form : {page.form}, touched : {page.touched}]
  BY <1>0 DEF Shows, Followed
<1>2. /\ form = [i \in DOMAIN row |-> form[i]]
      /\ \A i \in DOMAIN row : form[i] = IF i \in DOMAIN page.form \ again /\ page.form[i] # page.images[i].primary
                                         THEN page.form[i] ELSE row[i].primary
  BY DEF Synchronized
<1> HIDE DEF form
<1>3. /\ page'.open = page.open /\ ~page'.busy /\ page'.images = row /\ page'.form = form
      /\ page'.touched = page.touched \ again
      /\ page' \in [open : BOOLEAN, busy : BOOLEAN, images : {page'.images}, form : {page'.form}, touched : {page'.touched}]
  BY <1>1
<1>4. ASSUME NEW i \in DOMAIN row
      PROVE  form[i] \in BOOLEAN /\ (form[i] = row[i].primary \/ i \in page.touched \ again)
  <2>1. row[i].primary \in BOOLEAN
    BY <1>0 DEF IsRows
  <2>2. CASE i \in DOMAIN page.form \ again /\ page.form[i] # page.images[i].primary
    BY <1>0, <1>2, <2>2 DEF Followed
  <2>3. CASE ~(i \in DOMAIN page.form \ again /\ page.form[i] # page.images[i].primary)
    BY <1>2, <2>1, <2>3
  <2> QED
    BY <2>2, <2>3
<1> QED
  BY <1>0, <1>2, <1>3, <1>4 DEF Followed

(* The service has cleared the others' marks exactly where the page does.   *)
LEMMA SameMarks ==
    ASSUME NEW rows, IsRows(rows), NEW sets, IsRows(sets), NEW i, NEW op, op # "order", Fitting(op, i, sets, rows)
    PROVE  /\ sets[i].primary => Merged(Single(i, sets[i]), Cleared(rows)) = Merged(sets, rows)
           /\ ~sets[i].primary => Merged(Single(i, sets[i]), rows) = Merged(sets, rows)
<1> DEFINE h == Single(i, sets[i])
           m == Merged(sets, rows)
<1>1. /\ i \in DOMAIN sets /\ i \in Images
      /\ IF sets[i].primary THEN /\ DOMAIN sets = DOMAIN rows \cup {i}
                                 /\ \A j \in DOMAIN rows \ {i} : sets[j] = [rows[j] EXCEPT !.primary = FALSE]
         ELSE DOMAIN sets = {i}
  BY DEF Fitting, IsRows
<1>2. IsRows(h) /\ DOMAIN h = {i} /\ h[i] = sets[i]
  <2>1. sets[i] \in [position : {sets[i].position}, primary : BOOLEAN]
    BY <1>1 DEF IsRows
  <2> QED
    BY <1>1, <2>1, OneRow
<1>3. /\ IsRows(m) /\ DOMAIN m = DOMAIN sets \cup DOMAIN rows
      /\ \A j \in DOMAIN sets : m[j] = sets[j]
      /\ \A j \in DOMAIN rows \ DOMAIN sets : m[j] = rows[j]
  BY MergedRows
<1> HIDE DEF h, m
<1>4. ASSUME sets[i].primary PROVE Merged(h, Cleared(rows)) = m
  <2> DEFINE e == Cleared(rows)
  <2>1. IsRows(e) /\ DOMAIN e = DOMAIN rows /\ \A j \in DOMAIN rows : e[j] = [rows[j] EXCEPT !.primary = FALSE]
    BY ClearedRows
  <2> HIDE DEF e
  <2> DEFINE g == Merged(h, e)
  <2>2. /\ IsRows(g) /\ DOMAIN g = DOMAIN h \cup DOMAIN e
        /\ \A j \in DOMAIN h : g[j] = h[j]
        /\ \A j \in DOMAIN e \ DOMAIN h : g[j] = e[j]
    BY <1>2, <2>1, MergedRows
  <2> HIDE DEF g
  <2>3. DOMAIN g = DOMAIN m /\ \A j \in DOMAIN g : g[j] = m[j]
    BY <1>1, <1>2, <1>3, <1>4, <2>1, <2>2
  <2>4. g = m
    BY <1>3, <2>2, <2>3, SameRows
  <2> QED
    BY <2>4 DEF g, e
<1>5. ASSUME ~sets[i].primary PROVE Merged(h, rows) = m
  <2> DEFINE g == Merged(h, rows)
  <2>2. /\ IsRows(g) /\ DOMAIN g = DOMAIN h \cup DOMAIN rows
        /\ \A j \in DOMAIN h : g[j] = h[j]
        /\ \A j \in DOMAIN rows \ DOMAIN h : g[j] = rows[j]
    BY <1>2, MergedRows
  <2> HIDE DEF g
  <2>3. DOMAIN g = DOMAIN m /\ \A j \in DOMAIN g : g[j] = m[j]
    BY <1>1, <1>2, <1>3, <1>5, <2>2
  <2>4. g = m
    BY <1>3, <2>2, <2>3, SameRows
  <2> QED
    BY <2>4 DEF g
<1> QED
  BY <1>4, <1>5 DEF h, m

LEMMA SameOrder ==
    ASSUME NEW rows, IsRows(rows), NEW sets, IsRows(sets), Fitting("order", 0, sets, rows)
    PROVE  [i \in DOMAIN rows |-> [rows[i] EXCEPT !.position = sets[i].position]] = Merged(sets, rows)
<1> DEFINE g == [i \in DOMAIN rows |-> [rows[i] EXCEPT !.position = sets[i].position]]
           m == Merged(sets, rows)
<1>1. DOMAIN sets = DOMAIN rows /\ \A j \in DOMAIN rows : sets[j].primary = rows[j].primary
  BY DEF Fitting
<1>2. /\ IsRows(m) /\ DOMAIN m = DOMAIN rows /\ \A j \in DOMAIN rows : m[j] = sets[j]
  <2>1. /\ IsRows(m) /\ DOMAIN m = DOMAIN sets \cup DOMAIN rows /\ \A j \in DOMAIN sets : m[j] = sets[j]
    BY MergedRows
  <2> HIDE DEF m
  <2> QED
    BY <1>1, <2>1
<1>3. /\ IsRows(g) /\ DOMAIN g = DOMAIN rows
      /\ \A j \in DOMAIN rows : g[j].position = sets[j].position /\ g[j].primary = rows[j].primary
  BY DEF IsRows
<1> HIDE DEF g, m
<1>4. g = m
  BY <1>1, <1>2, <1>3, SameRows
<1> QED
  BY <1>4 DEF g, m

LEMMA AcceptedRows ==
    ASSUME ImagesInv, NEW c \in Calls, Ended(c), page.open, call[c].live, ~call[c].failed,
           \/ call[c].op = "upload" /\ AcceptUpload(c)
           \/ call[c].op = "save" /\ AcceptSave(c)
           \/ call[c].op = "order" /\ AcceptOrder(c)
           \/ call[c].op = "delete" /\ AcceptDelete(c)
    PROVE  \E again : Shows(row, again)
<1> DEFINE i == call[c].image
           sets == call[c].sets
           P == page.images
<1>1. call[c] # NoCall /\ Staged(c) /\ IsRows(sets) /\ IsRows(P)
  BY Active DEF Ended, CallOK, IsStep, ImagesInv, Followed
<1>2. Told(c)
  BY <1>1, Waiting
<1>3. CASE call[c].op \in {"upload", "save"}
  <2>1. call[c].at = "answered"
    BY <1>1, <1>3 DEF Ended, Staged
  <2>2. Fitting(call[c].op, i, sets, P) /\ row = Merged(sets, P)
    BY <1>2, <2>1 DEF Told, Fits
  <2>3. PICK again : Shows(Merged(Single(i, sets[i]), IF sets[i].primary THEN Cleared(P) ELSE P), again)
    BY <1>3, Zenon DEF AcceptUpload, AcceptSave
  <2>4. Merged(Single(i, sets[i]), IF sets[i].primary THEN Cleared(P) ELSE P) = row
    <3>1. CASE sets[i].primary
      BY <1>1, <1>3, <2>2, <3>1, SameMarks
    <3>2. CASE ~sets[i].primary
      BY <1>1, <1>3, <2>2, <3>2, SameMarks
    <3> QED
      BY <3>1, <3>2
  <2> QED
    BY <2>3, <2>4
<1>4. CASE call[c].op = "order"
  <2>1. call[c].at = "answered"
    BY <1>1, <1>4 DEF Ended, Staged
  <2>2. Fitting("order", 0, sets, P) /\ row = Merged(sets, P)
    BY <1>2, <1>4, <2>1 DEF Told, Fits, Fitting
  <2>3. Shows([j \in DOMAIN P |-> [P[j] EXCEPT !.position = sets[j].position]], {})
    BY <1>4 DEF AcceptOrder
  <2>4. [j \in DOMAIN P |-> [P[j] EXCEPT !.position = sets[j].position]] = row
    BY <1>1, <2>2, SameOrder
  <2> QED
    BY <2>3, <2>4
<1>5. CASE call[c].op = "delete"
  <2>1. call[c].at = "dropping"
    BY <1>1, <1>5 DEF Ended, Staged
  <2> QED
    BY <1>2, <1>5, <2>1 DEF Told, AcceptDelete
<1> QED
  BY <1>3, <1>4, <1>5

LEMMA StepAnswers ==
    ASSUME ImagesInv, NEW c \in Calls, Answers(c)
    PROVE  ImagesInv'
<1>1. /\ call[c].puts = {} /\ call[c].drops = {} /\ call[c].at \in {"answered", "dropping"}
      /\ call' = [call EXCEPT ![c] = NoCall]
      /\ txn' = txn /\ drawn' = drawn /\ StorageRests /\ Ended(c)
  BY DEF Answers, Ended, StorageRests
<1>2. /\ DOMAIN call' = Calls /\ call' = [o \in Calls |-> call'[o]] /\ call'[c] = NoCall
      /\ \A o \in Calls \ {c} : call'[o] = call[o]
  BY <1>1, CallSet
<1>3. txn[c] = Closed /\ call[c] # NoCall
  BY <1>1, Active
<1>4. CallOK(c)'
  <2>1. Recorded(c)' /\ Staged(c)'
    BY <1>1, <1>2, <1>3, NoCallIs DEF Recorded, Staged
  <2> QED
    BY <1>2, <2>1, NoCallIs DEF CallOK, Writes, Puts, Uploading, Takes
<1>5. call[c].live => page.open /\ \A o \in Calls : call'[o] = NoCall
  BY <1>2, <1>3, Waiting
<1>6. Followed'
  <2>1. CASE ~call[c].live /\ page' = page
    BY <1>2, <1>3, <2>1, NoCallIs, PageKept
  <2>2. CASE call[c].live /\ Unfollowed
    BY <1>5, <2>2, NoCallIs, PageAway DEF Unfollowed
  <2>3. CASE call[c].live /\ call[c].failed /\ call[c].known /\ page' = [page EXCEPT !.busy = FALSE]
    <3>1. page.images = row /\ Followed /\ row' = row
      BY <1>1, <1>3, <1>5, <2>3, Waiting DEF Told, ImagesInv, StorageRests
    <3>2. /\ page'.open = page.open /\ ~page'.busy /\ page'.images = page.images /\ page'.form = page.form
          /\ page'.touched = page.touched
          /\ page' \in [open : BOOLEAN, busy : BOOLEAN, images : {page'.images}, form : {page'.form}, touched : {page'.touched}]
      BY <2>3, <3>1 DEF Followed
    <3> QED
      BY <1>5, <2>3, <3>1, <3>2 DEF Followed
  <2>4. CASE /\ call[c].live /\ ~call[c].failed
             /\ \/ call[c].op = "upload" /\ AcceptUpload(c)
                \/ call[c].op = "save" /\ AcceptSave(c)
                \/ call[c].op = "order" /\ AcceptOrder(c)
                \/ call[c].op = "delete" /\ AcceptDelete(c)
    <3>1. PICK again : Shows(row, again)
      BY <1>1, <1>5, <2>4, AcceptedRows
    <3> QED
      BY <1>1, <1>5, <2>4, <3>1, ShowsTheRows DEF StorageRests
  <2> QED
    BY <2>1, <2>2, <2>3, <2>4 DEF Answers
<1>7. Works(c) => call[c].at = "dropping" /\ call[c].drops = {}
  BY <1>1 DEF Works
<1>8. /\ DOMAIN txn' = Calls /\ txn' = [o \in Calls |-> txn'[o]]
      /\ \A o \in Calls \ {c} : txn'[o] = txn[o]
  BY <1>1 DEF ImagesInv
<1> QED
  BY <1>1, <1>2, <1>4, <1>6, <1>7, <1>8, NoCallIs, Active, CallMoves

-----------------------------------------------------------------------------
(* The steps of the page alone.                                             *)
LEMMA PageMoves ==
    ASSUME ImagesInv, call' = call, txn' = txn, drawn' = drawn, StorageRests, Followed'
    PROVE  ImagesInv'
<1>1. ASSUME NEW o \in Calls PROVE CallOK(o)'
  <2>1. TxnGoesOn(o) /\ (Uploading(o) => \A x \in Calls \ {o} : call'[x].image # call[o].image)
    BY TxnRests DEF ImagesInv, Puts
  <2> QED
    BY <2>1, OnlookerRests
<1>2. ASSUME NEW f \in file PROVE Kept(f)'
  BY DEF ImagesInv, Kept, Works, StorageRests
<1> QED
  BY <1>1, <1>2 DEF ImagesInv, CallOK, StorageRests, ImagesServed

LEMMA StepPageLoads == ASSUME ImagesInv, PageLoads PROVE ImagesInv'
<1>1. /\ \A c \in Calls : call[c] = NoCall
      /\ page' = [Away EXCEPT !.open = TRUE, !.images = row, !.form = [i \in DOMAIN row |-> row[i].primary]]
      /\ call' = call /\ txn' = txn /\ drawn' = drawn /\ StorageRests /\ row' = row
  BY DEF PageLoads, StorageRests
<1> DEFINE form == [i \in DOMAIN row |-> row[i].primary]
<1>2. /\ form = [i \in DOMAIN row |-> form[i]] /\ IsRows(row)
      /\ \A i \in DOMAIN row : form[i] = row[i].primary /\ form[i] \in BOOLEAN
  BY DEF ImagesInv, IsRows
<1>3. /\ page'.open = TRUE /\ ~page'.busy /\ page'.images = row /\ page'.form = form /\ page'.touched = {}
      /\ page' \in [open : BOOLEAN, busy : BOOLEAN, images : {page'.images}, form : {page'.form}, touched : {page'.touched}]
  BY <1>1 DEF Away
<1> HIDE DEF form
<1>4. Followed'
  BY <1>1, <1>2, <1>3 DEF Followed
<1> QED
  BY <1>1, <1>4, PageMoves

LEMMA StepTick == ASSUME ImagesInv, NEW i \in Images, Tick(i) PROVE ImagesInv'
<1>1. /\ page.open /\ ~page.busy /\ i \in DOMAIN page.form
      /\ page' = [page EXCEPT !.form[i] = ~@, !.touched = @ \cup {i}]
      /\ call' = call /\ txn' = txn /\ drawn' = drawn /\ StorageRests /\ row' = row
  BY DEF Tick, StorageRests
<1>2. Followed
  BY DEF ImagesInv
<1> DEFINE form == [page.form EXCEPT ![i] = ~@]
<1>3. /\ form = [j \in DOMAIN page.images |-> form[j]]
      /\ \A j \in DOMAIN page.images : form[j] \in BOOLEAN /\ (j # i => form[j] = page.form[j])
  BY <1>1, <1>2 DEF Followed
<1>4. /\ page'.open = page.open /\ ~page'.busy /\ page'.images = page.images /\ page'.form = form
      /\ page'.touched = page.touched \cup {i}
      /\ page' \in [open : BOOLEAN, busy : BOOLEAN, images : {page'.images}, form : {page'.form}, touched : {page'.touched}]
  BY <1>1, <1>2 DEF Followed
<1> HIDE DEF form
<1>5. Followed'
  <2>1. \A c \in Calls : call'[c] = NoCall
    BY <1>1, <1>2 DEF Followed
  <2> QED
    BY <1>1, <1>2, <1>3, <1>4, <2>1 DEF Followed
<1> QED
  BY <1>1, <1>5, PageMoves

-----------------------------------------------------------------------------
(* A page that is left hears of nothing more, and its calls go on.          *)
LEMMA UnheardIs ==
    ASSUME NEW k, IsStep(k)
    PROVE  /\ IsStep(Unheard(k)) /\ ~Unheard(k).live
           /\ k.at = "answered" \/ k = NoCall => Unheard(k) = NoCall
           /\ k.at # "answered" => LET u == Unheard(k) IN
                 /\ u.op = k.op /\ u.at = k.at /\ u.image = k.image /\ u.sets = k.sets /\ u.puts = k.puts
                 /\ u.drops = k.drops /\ u.failed = k.failed /\ u.known = k.known
<1>1. CASE k.at = "answered"
  BY <1>1, NoCallIs DEF Unheard
<1>2. CASE k.at # "answered"
  <2> DEFINE u == [k EXCEPT !.live = FALSE]
  <2>1. Unheard(k) = u
    BY <1>2 DEF Unheard
  <2>2. /\ IsStep(u) /\ ~u.live
        /\ u.op = k.op /\ u.at = k.at /\ u.image = k.image /\ u.sets = k.sets /\ u.puts = k.puts
        /\ u.drops = k.drops /\ u.failed = k.failed /\ u.known = k.known
    BY DEF IsStep
  <2>3. k = NoCall => u = NoCall
    <3> HAVE k = NoCall
    <3>1. k.live = FALSE
      BY NoCallIs DEF IsStep
    <3>2. u = k
      BY <3>1 DEF IsStep
    <3> QED
      BY <3>2
  <2> HIDE DEF u
  <2> QED
    BY <1>2, <2>1, <2>2, <2>3
<1> QED
  BY <1>1, <1>2

LEMMA AllUnheard ==
    ASSUME ImagesInv, page' = Away, call' = [c \in Calls |-> Unheard(call[c])],
           DOMAIN txn' = Calls, txn' = [c \in Calls |-> txn'[c]], \A c \in Calls : TxnGoesOn(c),
           drawn' = drawn, file' = file, doubtful' = doubtful, excused \subseteq excused',
           IsRows(row'), DOMAIN row' \subseteq DOMAIN row, \A i \in DOMAIN row' : row'[i] = row[i],
           \A f \in file : f[1] \in DOMAIN row \ DOMAIN row' => f \in excused',
           \A c \in Calls : txn[c].open /\ ~txn'[c].lost => txn[c].updates \subseteq DOMAIN row'
    PROVE  ImagesInv'
<1>1. DOMAIN call' = Calls /\ call' = [c \in Calls |-> call'[c]] /\ \A c \in Calls : call'[c] = Unheard(call[c])
  OBVIOUS
<1>2. ASSUME NEW c \in Calls
      PROVE  /\ IsStep(call'[c]) /\ ~call'[c].live
             /\ \/ call'[c] = NoCall /\ call[c].at \in {"answered", "none"}
                \/ /\ call[c].at # "answered" /\ call'[c].op = call[c].op /\ call'[c].at = call[c].at
                   /\ call'[c].image = call[c].image /\ call'[c].sets = call[c].sets
                   /\ call'[c].puts = call[c].puts /\ call'[c].drops = call[c].drops
                   /\ call'[c].failed = call[c].failed /\ call'[c].known = call[c].known
                   /\ call[c].at # "none" /\ call[c].op # "none"
  <2>1. IsStep(call[c]) /\ (call[c].at = "none" \/ call[c].op = "none" => call[c] = NoCall)
    BY Active DEF CallOK, Staged
  <2> DEFINE u == Unheard(call[c])
  <2>2. /\ IsStep(u) /\ ~u.live
        /\ call[c].at = "answered" \/ call[c] = NoCall => u = NoCall
        /\ call[c].at # "answered" =>
              /\ u.op = call[c].op /\ u.at = call[c].at /\ u.image = call[c].image /\ u.sets = call[c].sets
              /\ u.puts = call[c].puts /\ u.drops = call[c].drops
              /\ u.failed = call[c].failed /\ u.known = call[c].known
    BY <2>1, UnheardIs
  <2>3. call'[c] = u
    BY <1>1
  <2> HIDE DEF u
  <2> QED
    BY <2>1, <2>2, <2>3, NoCallIs
<1>3. Primaries(row') \subseteq Primaries(row)
  BY DEF Primaries
<1>4. ASSUME NEW c \in Calls PROVE CallOK(c)'
  <2>1. CallOK(c) /\ TxnGoesOn(c)
    BY Active
  <2>2. CASE call'[c] = NoCall /\ call[c].at \in {"answered", "none"}
    <3>1. txn'[c] = Closed
      <4>1. txn[c] = Closed /\ ~Closed.open
        BY <2>2, Active DEF Closed
      <4> QED
        BY <2>1, <4>1 DEF TxnGoesOn
    <3>2. Recorded(c)' /\ Staged(c)'
      BY <2>2, <3>1, NoCallIs DEF Recorded, Staged
    <3> QED
      BY <2>2, <3>2, NoCallIs DEF CallOK, Writes, Puts, Uploading, Takes
  <2>3. CASE call'[c] # NoCall
    <3>1. /\ call[c].at # "answered" /\ call'[c].op = call[c].op /\ call'[c].at = call[c].at
          /\ call'[c].image = call[c].image /\ call'[c].sets = call[c].sets
          /\ call'[c].puts = call[c].puts /\ call'[c].drops = call[c].drops
          /\ call'[c].failed = call[c].failed /\ call'[c].known = call[c].known
          /\ call[c].at # "none" /\ call[c].op # "none" /\ IsStep(call'[c]) /\ ~call'[c].live
      BY <1>2, <2>3
    <3>2. Recorded(c)'
      <4>1. CASE call[c].at = "open"
        BY <2>1, <3>1, <4>1 DEF CallOK, Recorded, TxnGoesOn
      <4>2. CASE call[c].at # "open"
        <5>1. txn[c] = Closed /\ ~Closed.open
          BY <4>2, Active DEF Closed
        <5>2. txn'[c] = Closed
          BY <2>1, <5>1 DEF TxnGoesOn
        <5> QED
          BY <3>1, <4>2, <5>2 DEF Recorded
      <4> QED
        BY <4>1, <4>2
    <3>3. Staged(c)'
      BY <2>1, <3>1 DEF CallOK, Staged
    <3>4. Writes(c)'
      <4> SUFFICES ASSUME call[c].at = "open"
                   PROVE  Writes(c)'
        BY <3>1 DEF Writes
      <4>0. txn[c].open /\ (Marks(c)' <=> Marks(c))
        BY <2>1, <3>1 DEF CallOK, Recorded, Marks
      <4>1. ~txn'[c].lost => /\ txn[c].updates \subseteq DOMAIN row'
                             /\ call[c].op = "order" =>
                                   \A i \in DOMAIN call[c].sets : call[c].sets[i].primary = row'[i].primary
        <5> HAVE ~txn'[c].lost
        <5>1. txn[c].updates \subseteq DOMAIN row' /\ ~txn[c].lost
          BY <2>1, <4>0 DEF TxnGoesOn
        <5>2. ASSUME call[c].op = "order", NEW i \in DOMAIN call[c].sets
              PROVE  call[c].sets[i].primary = row'[i].primary
          <6>1. i \in txn[c].updates /\ call[c].sets[i].primary = row[i].primary
            BY <2>1, <5>1, <5>2 DEF CallOK, Writes
          <6> QED
            BY <5>1, <6>1
        <5> QED
          BY <5>1, <5>2
      <4>2. Marks(c) /\ StillMay(c)' => Primaries(row') \subseteq DOMAIN call[c].sets
        BY <1>3, <2>1 DEF CallOK, Writes, StillMay, TxnGoesOn
      <4> QED
        BY <2>1, <3>1, <4>0, <4>1, <4>2 DEF CallOK, Writes, TxnGoesOn
    <3>5. Puts(c)'
      <4> SUFFICES ASSUME Uploading(c)
                   PROVE  Puts(c)'
        BY <3>1 DEF Puts, Uploading
      <4>1. /\ call[c].image \in drawn \ DOMAIN row /\ call[c].image # 0
            /\ \A o \in Calls \ {c} : call[o].image # call[c].image
        BY <2>1 DEF CallOK, Puts, ImagesInv
      <4>2. \A o \in Calls \ {c} : call'[o].image # call[c].image
        BY <1>2, <4>1, NoCallIs
      <4> QED
        BY <2>1, <3>1, <4>1, <4>2 DEF CallOK, Puts, Uploading
    <3>6. Takes(c)'
      BY <2>1, <3>1 DEF CallOK, Takes, Gone
    <3> QED
      BY <3>2, <3>3, <3>4, <3>5, <3>6 DEF CallOK
  <2> QED
    BY <1>2, <2>2, <2>3, NoCallIs
<1>5. ASSUME NEW f \in file PROVE Kept(f)'
  <2>1. Kept(f)
    BY DEF ImagesInv
  <2>2. \A c \in Calls : Works(c) => Works(c)' /\ call'[c].image = call[c].image
    BY <1>2 DEF Works
  <2> QED
    BY <2>1, <2>2 DEF Kept
<1>6. Followed'
  BY <1>2, PageAway
<1> QED
  BY <1>1, <1>3, <1>4, <1>5, <1>6 DEF ImagesInv, CallOK, ImagesServed

LEMMA StepPageLeft == ASSUME ImagesInv, PageLeft PROVE ImagesInv'
<1>1. /\ page' = Away /\ call' = [c \in Calls |-> Unheard(call[c])] /\ txn' = txn /\ row' = row
      /\ drawn' = drawn /\ file' = file /\ excused' = excused /\ doubtful' = doubtful
  BY DEF PageLeft, Unfollowed
<1>2. /\ DOMAIN txn' = Calls /\ txn' = [c \in Calls |-> txn'[c]] /\ IsRows(row)
      /\ \A c \in Calls : txn[c].open /\ ~txn[c].lost => txn[c].updates \subseteq DOMAIN row
  BY <1>1 DEF ImagesInv, Writes, Recorded, Closed
<1>3. \A c \in Calls : TxnGoesOn(c)
  BY <1>1, TxnRests
<1> QED
  BY <1>1, <1>2, <1>3, AllUnheard

LEMMA StepProductRemoved == ASSUME ImagesInv, ProductRemoved PROVE ImagesInv'
<1>1. /\ page' = Away /\ call' = [c \in Calls |-> Unheard(call[c])]
      /\ row' = <<>> /\ txn' = AfterStatement(txn, DOMAIN row)
      /\ excused' = excused \cup UNION {FilesOf(i) : i \in DOMAIN row}
      /\ drawn' = drawn /\ file' = file /\ doubtful' = doubtful
  BY DEF ProductRemoved, Unfollowed
<1>2. /\ DOMAIN txn' = Calls /\ txn' = [o \in Calls |-> txn'[o]]
      /\ \A o \in Calls :
            /\ TxnGoesOn(o)
            /\ txn[o].open => txn'[o].lost = (txn[o].lost \/ Meets(txn[o].updates, DOMAIN row))
  BY <1>1, TxnAfterStatement
<1>3. IsRows(row') /\ DOMAIN row' = {}
  BY <1>1, NoRows
<1>4. ASSUME NEW c \in Calls, txn[c].open, ~txn'[c].lost PROVE txn[c].updates \subseteq DOMAIN row'
  <2>1. ~txn[c].lost /\ ~Meets(txn[c].updates, DOMAIN row)
    BY <1>2, <1>4
  <2>2. txn[c].updates \subseteq DOMAIN row
    <3>1. call[c].at = "open"
      BY <1>4 DEF ImagesInv, Recorded, Closed
    <3> QED
      BY <2>1, <3>1 DEF ImagesInv, Writes
  <2> QED
    BY <2>1, <2>2 DEF Meets
<1>5. ASSUME NEW f \in file, f[1] \in DOMAIN row PROVE f \in excused'
  <2>1. f \in FilesOf(f[1])
    BY DEF ImagesInv, FilesOf
  <2> QED
    BY <1>1, <1>5, <2>1
<1>6. excused \subseteq excused'
  BY <1>1

<1> QED
  BY <1>1, <1>2, <1>3, <1>4, <1>5, <1>6, AllUnheard

LEMMA StepCrashes == ASSUME ImagesInv, Crashes PROVE ImagesInv'
<1>1. /\ call' = [c \in Calls |-> NoCall] /\ txn' = [c \in Calls |-> Closed]
      /\ excused' = excused \cup {f \in file : f[1] \notin DOMAIN row}
      /\ page' = Away /\ row' = row /\ file' = file /\ drawn' = drawn /\ doubtful' = doubtful
  BY DEF Crashes, Unfollowed
<1>2. \A c \in Calls : call'[c] = NoCall /\ txn'[c] = Closed
  BY <1>1
<1>3. ASSUME NEW c \in Calls PROVE CallOK(c)'
  <2>1. Recorded(c)' /\ Staged(c)'
    BY <1>2, NoCallIs DEF Recorded, Staged
  <2> QED
    BY <1>2, <2>1, NoCallIs DEF CallOK, Writes, Puts, Uploading, Takes
<1>4. ASSUME NEW f \in file PROVE Kept(f)'
  BY <1>1 DEF Kept
<1>5. Followed'
  BY <1>1, <1>2, NoCallIs, PageAway
<1>6. /\ DOMAIN call' = Calls /\ call' = [c \in Calls |-> call'[c]]
      /\ DOMAIN txn' = Calls /\ txn' = [c \in Calls |-> txn'[c]]
  BY <1>1
<1> QED
  BY <1>1, <1>3, <1>4, <1>5, <1>6 DEF ImagesInv, CallOK, ImagesServed

-----------------------------------------------------------------------------
LEMMA ImagesStarts == ImagesInit => ImagesInv
<1> SUFFICES ASSUME ImagesInit PROVE ImagesInv
  OBVIOUS
<1>1. PICK n \in 1..2, chosen \in 0..2 : row = [i \in 1..n |-> [position |-> i - 1, primary |-> i = chosen]]
  BY DEF ImagesInit
<1>2. /\ IsRows(row) /\ DOMAIN row = 1..n /\ \A i, j \in Primaries(row) : i = j
  <2>1. DOMAIN row = 1..n /\ 1..n \subseteq Images /\ \A i \in 1..n : row[i] = [position |-> i - 1, primary |-> i = chosen]
    BY <1>1
  <2>2. ASSUME NEW i \in 1..n
        PROVE  (row[i].primary <=> i = chosen) /\ row[i] \in [position : {row[i].position}, primary : BOOLEAN]
    <3>1. PICK p \in BOOLEAN : (p <=> i = chosen) /\ row[i] = [position |-> i - 1, primary |-> p]
      <4>1. (i = chosen) \in BOOLEAN /\ row[i] = [position |-> i - 1, primary |-> i = chosen]
        BY <2>1
      <4> QED
        BY <4>1, Zenon
    <3> QED
      BY <3>1
  <2>4. row = [i \in DOMAIN row |-> row[i]]
    BY <1>1
  <2>5. IsRows(row)
    BY <2>1, <2>2, <2>4 DEF IsRows
  <2> QED
    BY <2>1, <2>2, <2>5 DEF Primaries
<1>3. /\ file = UNION {FilesOf(i) : i \in DOMAIN row} /\ drawn = DOMAIN row
      /\ call = [c \in Calls |-> NoCall] /\ txn = [c \in Calls |-> Closed] /\ page = Away
  BY DEF ImagesInit
<1>4. ASSUME NEW c \in Calls PROVE Recorded(c) /\ Staged(c) /\ Writes(c) /\ Puts(c) /\ Takes(c)
  <2>1. call[c] = NoCall /\ txn[c] = Closed
    BY <1>3
  <2>2. Recorded(c) /\ Staged(c)
    BY <2>1, NoCallIs DEF Recorded, Staged
  <2> QED
    BY <2>1, <2>2, NoCallIs DEF Writes, Puts, Uploading, Takes
<1>5. ASSUME NEW f \in file PROVE Kept(f) /\ f \in Images \X Variants
  <2>1. PICK i \in DOMAIN row : f \in {i} \X Variants
    BY <1>3 DEF FilesOf
  <2>2. f[1] = i /\ i \in Images
    BY <1>2, <2>1 DEF IsRows
  <2> QED
    BY <2>1, <2>2 DEF Kept
<1>6. ImagesServed
  BY <1>3 DEF ImagesServed
<1>7. Followed
  <2>1. Away.images = <<>> /\ ~Away.open /\ ~Away.busy
    BY DEF Away
  <2>2. Away \in [open : BOOLEAN, busy : BOOLEAN, images : {Away.images}, form : {Away.form}, touched : {Away.touched}]
    BY DEF Away
  <2> QED
    BY <1>3, <2>1, <2>2, NoRows, NoCallIs DEF Followed
<1>8. /\ DOMAIN call = Calls /\ call = [c \in Calls |-> call[c]]
      /\ DOMAIN txn = Calls /\ txn = [c \in Calls |-> txn[c]]
  BY <1>3
<1>9. drawn \subseteq Images
  BY <1>2, <1>3 DEF IsRows
<1> QED
  BY <1>2, <1>3, <1>4, <1>5, <1>6, <1>7, <1>8, <1>9 DEF ImagesInv

LEMMA ImagesStep == ImagesInv /\ [ImagesNext]_imageVars => ImagesInv'
<1> SUFFICES ASSUME ImagesInv, [ImagesNext]_imageVars PROVE ImagesInv'
  OBVIOUS
<1>1. CASE PageLoads \/ PageLeft \/ ProductRemoved \/ Crashes
  BY <1>1, StepPageLoads, StepPageLeft, StepProductRemoved, StepCrashes
<1>2. CASE \E i \in Images : Tick(i)
  BY <1>2, StepTick
<1>3. ASSUME NEW c \in Calls, SendUpload(c) \/ SendSave(c) \/ SendMove(c) \/ SendDelete(c) \/ SendElsewhere(c)
      PROVE  ImagesInv'
  BY <1>3, StepSend, StepSendElsewhere
<1>4. ASSUME NEW c \in Calls, Accepted(c) \/ WriteFailed(c) \/ CallFails(c)
      PROVE  ImagesInv'
  BY <1>4, StepAccepted, StepFails
<1>5. ASSUME NEW c \in Calls, BeginsUpload(c) \/ BeginsSave(c) \/ BeginsOrder(c) \/ Commits(c)
      PROVE  ImagesInv'
  BY <1>5, StepBeginsUpload, StepBeginsSave, StepBeginsOrder, StepCommits
<1>6. ASSUME NEW c \in Calls, FindsImage(c) \/ RemovesRow(c) \/ Answers(c)
      PROVE  ImagesInv'
  BY <1>6, StepFindsImage, StepRemovesRow, StepAnswers
<1>7. ASSUME NEW c \in Calls, NEW v \in Variants, Put(c, v) \/ Drop(c, v)
      PROVE  ImagesInv'
  BY <1>7, StepPut, StepDrop
<1>8. CASE UNCHANGED imageVars
  <2>1. /\ call' = call /\ txn' = txn /\ drawn' = drawn /\ StorageRests /\ page' = page
    BY <1>8 DEF imageVars, StorageRests
  <2>2. Followed'
    BY <2>1 DEF ImagesInv, Followed, Told, Fits, StorageRests
  <2> QED
    BY <2>1, <2>2, PageMoves
<1> QED
  BY <1>1, <1>2, <1>3, <1>4, <1>5, <1>6, <1>7, <1>8 DEF ImagesNext

-----------------------------------------------------------------------------
(* The invariant: how far each call is, which rows its transaction still    *)
(* may write, which files it has put or taken, and what a page that waits   *)
(* for it has been told.                                                    *)
THEOREM ImagesInvariant == ImagesSpec => []ImagesInv
<1> QED
  BY ImagesStarts, ImagesStep, PTL DEF ImagesSpec

(* However many images, files and calls there are: every image served has   *)
(* its files, and no file is left behind (MediaService.upload, delete).     *)
THEOREM FilesStayMatched == ImagesSpec => []FilesMatchRows
<1>1. ImagesInv => FilesMatchRows
  <2> SUFFICES ASSUME ImagesInv PROVE NoFileLeft
    BY DEF FilesMatchRows, ImagesInv
  <2>1. \A c \in Calls : Works(c) => call[c].at \in {"writing", "open", "dropping"}
    BY DEF Works
  <2> QED
    BY <2>1 DEF ImagesInv, NoFileLeft, Kept
<1> QED
  BY <1>1, ImagesInvariant, PTL

(* However many uploads and saves meet, at most one image ends up primary.  *)
THEOREM StaysOnePrimary == ImagesSpec => []OnePrimary
<1>1. ImagesInv => OnePrimary
  <2> SUFFICES ASSUME ImagesInv PROVE Cardinality(Primaries(row)) <= 1
    BY DEF OnePrimary
  <2>1. CASE Primaries(row) = {}
    BY <2>1, FS_EmptySet
  <2>2. ASSUME NEW i \in Primaries(row) PROVE Cardinality(Primaries(row)) <= 1
    <3>1. Primaries(row) = {i}
      BY DEF ImagesInv
    <3>2. Cardinality({i}) = 1
      BY FS_Singleton
    <3> QED
      BY <3>1, <3>2
  <2> QED
    BY <2>1, <2>2
<1> QED
  BY <1>1, ImagesInvariant, PTL

(* A page that was told everything shows the rows as they are, whatever     *)
(* order its calls went in, and moves no mark the user has not touched.     *)
THEOREM PageStaysFaithful == ImagesSpec => []PageFaithful
<1>1. ImagesInv => PageFaithful
  BY DEF ImagesInv, Followed, PageFaithful
<1> QED
  BY <1>1, ImagesInvariant, PTL
=============================================================================
