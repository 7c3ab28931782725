------------------------ MODULE MCSandboxOperations ------------------------
(* The scripts an operator runs: small instances of SandboxOperations,      *)
(* Deployment and OpeningImport.  They share nothing; a behaviour is one of *)
(* any of them.                                                             *)
EXTENDS SandboxOperations, Deployment, OpeningImport

CONSTANTS d1, d2, d3, f1, f2

VARIABLE part

(* One of each product was bought and sold. *)
OneSold == [p \in Products |-> [bought |-> 1, sold |-> 1]]

(* The second release has one file less than the others. *)
OneFileDropped == [r \in 0..MaxRelease |-> IF r = 1 THEN {f1} ELSE {f1, f2}]

MCInit == part \in {"payment", "deployment", "opening"} /\ ToolInit /\ DeployInit /\ OpeningInit

(* Deployments are named in the order in which they take the lock. *)
Through(d) == step[d] \notin {"none", "waiting"}
InTurn == (lock' = d2 => Through(d1)) /\ (lock' = d3 => Through(d2))

MCNext ==
    /\ UNCHANGED part
    /\ \/ part = "payment" /\ ToolNext /\ UNCHANGED <<deployVars, openingVars>>
       \/ part = "deployment" /\ DeployNext /\ InTurn /\ UNCHANGED <<toolVars, openingVars>>
       \/ part = "opening" /\ OpeningNext /\ UNCHANGED <<toolVars, deployVars>>

MCSpec == MCInit /\ [][MCNext]_<<part, toolVars, deployVars, openingVars>> /\ Fairness
=============================================================================
