---------------------------- MODULE Serializable ----------------------------
(***************************************************************************)
(* What PostgreSQL promises a SERIALIZABLE transaction, for the services   *)
(* that rely on it.  Everything is read from one snapshot when the         *)
(* transaction opens.  It cannot commit after a row it writes has been     *)
(* written by another, nor when it is the pivot of a dangerous structure:  *)
(* it did not see what one committed concurrent transaction wrote, and     *)
(* another has not seen what it writes.  Single statements outside such a  *)
(* transaction are READ COMMITTED: they change rows, but nobody tracks     *)
(* what they read.                                                         *)
(***************************************************************************)

(* reads: the rows it read, phantoms included; updates: the rows it is to   *)
(* write, writes: those and the ones it creates.  lost: another has written *)
(* one it updates; behind: it has not seen what a transaction wrote that    *)
(* committed meanwhile; ahead: such a one has not seen what it writes.      *)
Closed == [open |-> FALSE, reads |-> {}, updates |-> {}, writes |-> {},
           lost |-> FALSE, behind |-> FALSE, ahead |-> FALSE]

Opened(reads, updates, creates) ==
    [Closed EXCEPT !.open = TRUE, !.reads = reads, !.updates = updates, !.writes = updates \cup creates]

Meets(a, b) == a \cap b # {}

(* The open transactions once a single statement has written these rows,    *)
AfterStatement(tx, written) ==
    [o \in DOMAIN tx |-> IF tx[o].open THEN [tx[o] EXCEPT !.lost = @ \/ Meets(tx[o].updates, written)]
                         ELSE tx[o]]

(* and once transaction r has committed.                                    *)
AfterCommit(tx, r) ==
    [o \in DOMAIN tx |->
        IF o = r \/ ~tx[o].open THEN Closed
        ELSE [tx[o] EXCEPT !.lost = @ \/ Meets(tx[o].updates, tx[r].writes),
                           !.behind = @ \/ Meets(tx[o].reads, tx[r].writes),
                           !.ahead = @ \/ Meets(tx[r].reads, tx[o].writes)]]

MayCommit(tx, r) ==
    /\ ~tx[r].lost
    /\ tx[r].behind => /\ ~tx[r].ahead
                       /\ \A o \in DOMAIN tx \ {r} : ~Meets(tx[o].reads, tx[r].writes)
=============================================================================
