---------------------------- MODULE CatalogTree ----------------------------
(***************************************************************************)
(* AdminCategoriesService, AdminBrandsService and AdminProductsService:    *)
(* several administrators' requests at a time change the category tree,    *)
(* the brands and the products that refer to both.  Names, texts, prices   *)
(* and flags are left out: nothing here depends on them.                   *)
(***************************************************************************)
EXTENDS Naturals, FiniteSets, Serializable

CONSTANTS Categories, Brands, Products, Requests,
          None       \* no parent, no brand, nothing asked

ASSUME CatalogAssumption == IsFiniteSet(Categories) /\ None \notin Categories \cup Brands

VARIABLES
    parent,     \* of each category there is, None at the top
    brand,      \* the brands there are
    product,    \* of each product there is: its category and its brand
    req,        \* what each request asks, and how far it is
    tx          \* its SERIALIZABLE transaction

vars == <<parent, brand, product, req, tx>>

Idle == [op |-> "none", of |-> None, to |-> None, brand |-> None]
Tops(p) == {c \in DOMAIN p : p[c] = None}
MaxTops == 2

(* The ancestors of c, c itself included: the walk from c to the top stays  *)
(* in every set that is closed under the parent.                            *)
ClosedUp(p, S) == \A a \in S \cap DOMAIN p : p[a] \in S \cup {None}
Ancestors(p, c) ==
    {a \in Categories : \A S \in SUBSET Categories : c \in S /\ ClosedUp(p, S) => a \in S}

Rooted(p) == \A c \in DOMAIN p : /\ Ancestors(p, c) \subseteq DOMAIN p
                                 /\ Ancestors(p, c) \cap Tops(p) # {}

Trees == {p \in UNION {[D -> D \cup {None}] : D \in SUBSET Categories} :
             Rooted(p) /\ Cardinality(Tops(p)) <= MaxTops}

(* What the seed and earlier requests may have left.                        *)
Init ==
    /\ parent \in Trees
    /\ brand \in SUBSET Brands
    /\ product = <<>>
    /\ req = [r \in Requests |-> Idle]
    /\ tx = [r \in Requests |-> Closed]

Row(c) == <<"category", c>>
TopRows == <<"tops", None>>    \* what counting the top categories reads
BrandRow(b) == <<"brand", b>>
ProductsOf(b) == <<"products of", b>>

-----------------------------------------------------------------------------
(* A request is taken up with the first thing it reads, which is where a    *)
(* SERIALIZABLE one has its snapshot, and ends with what it writes.         *)
Asks(r, op, of, to, b) ==
    /\ req[r] = Idle
    /\ req' = [req EXCEPT ![r] = [op |-> op, of |-> of, to |-> to, brand |-> b]]
    /\ UNCHANGED <<parent, brand, product>>

Opens(r, reads, updates, creates) == tx' = [tx EXCEPT ![r] = Opened(reads, updates, creates)]
Ends(r) == req' = [req EXCEPT ![r] = Idle]

(* An id is drawn at random: no request under way has named it.             *)
Fresh(id) == \A o \in Requests : id \notin {req[o].of, req[o].to, req[o].brand}

(* What fails at COMMIT, or before, has changed nothing.                    *)
Refused(r) ==
    /\ req[r] # Idle /\ Ends(r) /\ tx' = [tx EXCEPT ![r] = Closed]
    /\ UNCHANGED <<parent, brand, product>>

CommitsCategory(r) ==
    /\ MayCommit(tx, r) /\ tx' = AfterCommit(tx, r) /\ Ends(r)
    /\ UNCHANGED <<brand, product>>

-----------------------------------------------------------------------------
RoomAtTop == Cardinality(Tops(parent)) < MaxTops

(* create: at most two categories at the top, and a parent that is there.   *)
AskCreateCategory(r) ==
    \E c \in Categories \ DOMAIN parent, to \in DOMAIN parent \cup {None} :
        /\ Fresh(c) /\ (to = None => RoomAtTop)
        /\ Asks(r, "createCategory", c, to, None)
        /\ IF to = None THEN Opens(r, {TopRows}, {}, {Row(c), TopRows}) ELSE Opens(r, {Row(to)}, {}, {Row(c)})

CreateCategory(r) ==
    LET c == req[r].of  to == req[r].to IN
    /\ req[r].op = "createCategory"
    /\ to # None => to \in DOMAIN parent            \* the foreign key
    /\ CommitsCategory(r)
    /\ parent' = [d \in DOMAIN parent \cup {c} |-> IF d = c THEN to ELSE parent[d]]

(* update: the same limit, and no category below itself.                    *)
MayMove(c, to) ==
    IF to = None THEN parent[c] = None \/ RoomAtTop ELSE c \notin Ancestors(parent, to)

(* Wrong: the walk to the top reads outside the transaction.                *)
ReadsToMoveAlone(c, to) == {Row(c)}

ReadsToMove(c, to) ==
    {Row(c)} \cup IF to # None THEN {Row(a) : a \in Ancestors(parent, to)}
                  ELSE IF parent[c] # None THEN {TopRows} ELSE {}

AskUpdateCategory(r) ==
    \E c \in DOMAIN parent, to \in DOMAIN parent \cup {None} :
        /\ MayMove(c, to)
        /\ Asks(r, "updateCategory", c, to, None)
        /\ Opens(r, ReadsToMove(c, to), {Row(c)}, IF (to = None) # (parent[c] = None) THEN {TopRows} ELSE {})

UpdateCategory(r) ==
    LET c == req[r].of  to == req[r].to IN
    /\ req[r].op = "updateCategory" /\ c \in DOMAIN parent
    /\ to # None => to \in DOMAIN parent
    /\ CommitsCategory(r)
    /\ parent' = [parent EXCEPT ![c] = to]

(* delete: one that is there; the foreign keys keep it while it has         *)
(* children or products.                                                    *)
AskDeleteCategory(r) ==
    \E c \in DOMAIN parent : Asks(r, "deleteCategory", c, None, None) /\ UNCHANGED tx

DeleteCategory(r) ==
    LET c == req[r].of IN
    /\ req[r].op = "deleteCategory" /\ c \in DOMAIN parent
    /\ \A d \in DOMAIN parent : parent[d] # c
    /\ \A p \in DOMAIN product : product[p].category # c
    /\ parent' = [d \in DOMAIN parent \ {c} |-> parent[d]]
    /\ tx' = AfterStatement(tx, {Row(c)}) /\ Ends(r)
    /\ UNCHANGED <<brand, product>>

-----------------------------------------------------------------------------
CreateBrand ==
    /\ \E b \in Brands : Fresh(b) /\ brand' = brand \cup {b}
    /\ UNCHANGED <<parent, product, req, tx>>

(* Wrong: only the brand itself is looked up.                               *)
MayDropAny(b) == b \in brand
MayDrop(b) == b \in brand /\ \A p \in DOMAIN product : product[p].brand # b

(* delete counts the products of the brand first.  The foreign key would    *)
(* set their brand to null, but not for a product that joined since the     *)
(* snapshot: that is a serialization failure.                               *)
AskDeleteBrand(r) ==
    \E b \in Brands : /\ MayDrop(b) /\ Asks(r, "deleteBrand", b, None, None)
                      /\ Opens(r, {BrandRow(b), ProductsOf(b)}, {BrandRow(b), ProductsOf(b)}, {})

DeleteBrand(r) ==
    LET b == req[r].of IN
    /\ req[r].op = "deleteBrand" /\ b \in brand
    /\ MayCommit(tx, r) /\ tx' = AfterCommit(tx, r) /\ Ends(r)
    /\ brand' = brand \ {b}
    /\ product' = [p \in DOMAIN product |->
                      IF product[p].brand = b THEN [product[p] EXCEPT !.brand = None] ELSE product[p]]
    /\ UNCHANGED parent

-----------------------------------------------------------------------------
(* Products are written by single statements, after a look for the row to   *)
(* change; what they refer to is there, or the foreign key refuses.         *)
Files(p, c, b) ==
    /\ c \in DOMAIN parent /\ b \in brand \cup {None}
    /\ product' = [q \in DOMAIN product \cup {p} |->
                      IF q = p THEN [category |-> c, brand |-> b] ELSE product[q]]
    /\ tx' = AfterStatement(tx, {ProductsOf(b)})

CreateProduct ==
    /\ \E p \in Products \ DOMAIN product, c \in Categories, b \in Brands \cup {None} :
          Fresh(p) /\ Files(p, c, b)
    /\ UNCHANGED <<parent, brand, req>>

(* ensureExists comes first.                                                *)
AskUpdateProduct(r) ==
    /\ \E p \in DOMAIN product, c \in DOMAIN parent, b \in brand \cup {None} :
          Asks(r, "updateProduct", p, c, b)
    /\ UNCHANGED tx

(* What the request leaves out stays as it is.                              *)
UpdateProduct(r) ==
    LET p == req[r].of IN
    /\ req[r].op = "updateProduct" /\ p \in DOMAIN product
    /\ \E c \in {req[r].to, product[p].category}, b \in {req[r].brand, product[p].brand} : Files(p, c, b)
    /\ Ends(r)
    /\ UNCHANGED <<parent, brand>>

DeleteProduct ==
    /\ \E p \in DOMAIN product : product' = [q \in DOMAIN product \ {p} |-> product[q]]
    /\ UNCHANGED <<parent, brand, req, tx>>

Next ==
    \/ \E r \in Requests :
          \/ AskCreateCategory(r) \/ CreateCategory(r)
          \/ AskUpdateCategory(r) \/ UpdateCategory(r)
          \/ AskDeleteCategory(r) \/ DeleteCategory(r)
          \/ AskDeleteBrand(r) \/ DeleteBrand(r)
          \/ AskUpdateProduct(r) \/ UpdateProduct(r) \/ Refused(r)
    \/ CreateBrand \/ CreateProduct \/ DeleteProduct

Spec == Init /\ [][Next]_vars

-----------------------------------------------------------------------------
TypeOK ==
    /\ parent \in UNION {[D -> Categories \cup {None}] : D \in SUBSET Categories}
    /\ brand \subseteq Brands
    /\ product \in UNION {[D -> [category : Categories, brand : Brands \cup {None}]] : D \in SUBSET Products}
    /\ \A r \in Requests : tx[r].open => req[r].op \in {"createCategory", "updateCategory", "deleteBrand"}

(* Whatever two administrators move, add and delete at once, the categories *)
(* are trees under at most two top categories (AdminCategoriesService, its  *)
(* count and its walk to the top, each in a transaction of its own), and a  *)
(* product hangs on a category that is there.                               *)
TreeSound ==
    /\ Rooted(parent) /\ Cardinality(Tops(parent)) <= MaxTops
    /\ \A p \in DOMAIN product : product[p].category \in DOMAIN parent

(* A product loses or changes its brand only by a request about the         *)
(* product: deleting the brand never takes it away, not even from a product *)
(* that joins the brand during the deletion (AdminBrandsService.delete).    *)
BrandsKept ==
    [][\A p \in DOMAIN product \cap DOMAIN product' :
          product'[p].brand # product[p].brand =>
              \E r \in Requests : req[r].op = "updateProduct" /\ req[r].of = p
                                 /\ req'[r] = Idle]_vars
=============================================================================
