----------------------------- MODULE MCCatalog -----------------------------
(* Small instances of CatalogTree, ProductImages, AdminLists and            *)
(* AdminEditors.  They have nothing in common but that a product goes with  *)
(* its images, which is an action of each of the first two, and that the    *)
(* pages list and edit rows such as these; so a behaviour is one of one     *)
(* part, and the others rest.                                               *)
EXTENDS CatalogTree, ProductImages, AdminLists, AdminEditors

VARIABLE part

TreeRests == parent = <<>> /\ brand = {}
ImagesRest == row = (1 :> [position |-> 0, primary |-> TRUE])
ListsRest ==
    /\ at = [i \in Items |-> "there"]
    /\ view.kind = MonthlySummary /\ view.query = [filter |-> Items, page |-> 1]

MCInit ==
    /\ part \in {"tree", "images", "lists", "editors"}
    /\ Init /\ ImagesInit /\ ListsInit /\ EditorsInit
    /\ (part # "tree" => TreeRests) /\ (part # "images" => ImagesRest) /\ (part # "lists" => ListsRest)
    /\ (part # "editors" => stored = {})

MCNext ==
    /\ UNCHANGED part
    /\ \/ part = "tree" /\ Next /\ UNCHANGED <<imageVars, listVars, editorVars>>
       \/ part = "images" /\ ImagesNext /\ UNCHANGED <<vars, listVars, editorVars>>
       \/ part = "lists" /\ ListsNext /\ UNCHANGED <<vars, imageVars, editorVars>>
       \/ part = "editors" /\ EditorsNext /\ UNCHANGED <<vars, imageVars, listVars>>

MCSpec == MCInit /\ [][MCNext]_<<part, vars, imageVars, listVars, editorVars>>

Symmetry == Permutations(Variants) \cup Permutations(Calls)
=============================================================================
