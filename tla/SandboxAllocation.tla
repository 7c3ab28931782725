-------------------------- MODULE SandboxAllocation --------------------------
(***************************************************************************)
(* CardPaymentSandboxService.create: one sandbox payment per idempotency   *)
(* key, one Ameriabank order number per payment out of a finite sequence   *)
(* that never cycles, and at most one InitPayment per payment.             *)
(*                                                                         *)
(* A request is cut at every await.  The database transaction holds a      *)
(* PostgreSQL advisory lock on the owner and key, from its first statement *)
(* to its end; what it inserted is visible when it commits.  A number      *)
(* taken from the sequence is gone whatever becomes of the transaction.    *)
(* Fail: the request dies with its process, an await before the InitPayment*)
(* block throws, or the last update of that block does.                    *)
(* Requests that fail assertSandboxAccess or carry a malformed key change  *)
(* nothing and are left out.                                               *)
(***************************************************************************)
EXTENDS Integers, FiniteSets

CONSTANTS Requests,      \* request slots
          Keys,          \* an owner's hash with an idempotency key
          Baskets,       \* request fingerprints
          Capacity       \* order numbers in the sequence

ASSUME AllocationAssumption ==
    Capacity \in Nat /\ "free" \notin Requests /\ "none" \notin Keys

VARIABLES
    rows,      \* the committed payment of each key, or NoRow
    sequence,  \* order numbers taken so far
    lock,      \* the transaction that holds the advisory lock of each key
    bank,      \* InitPayment requests the bank has accepted, per order number
    asked,     \* auxiliary: InitPayment requests sent, per key
    spoiled,   \* auxiliary: transactions that died with a number in hand
    op,        \* each request: its step, key, basket, order number, and answer
    answer     \* auxiliary: the answer of the last request that returned

vars == <<rows, sequence, lock, bank, asked, spoiled, op, answer>>

Free == "free"
NoRow == [order |-> 0, basket |-> "none", init |-> "none"]
Initializations == {"INITIALIZING", "READY", "UNKNOWN"}
Orders == 1..Capacity

Steps == {"idle", "lookup", "begin", "prior", "insert", "commit", "initialize",
          "bank", "ready", "unknown"}

Idle == [pc |-> "idle", key |-> "none", basket |-> "none", order |-> 0]
NoAnswer == [key |-> "none", basket |-> "none", order |-> 0]

Exists(k) == rows[k].init # "none"

Init ==
    /\ rows = [k \in Keys |-> NoRow]
    /\ sequence = 0
    /\ lock = [k \in Keys |-> Free]
    /\ bank = {}
    /\ asked = [k \in Keys |-> 0]
    /\ spoiled = 0
    /\ op = [h \in Requests |-> Idle]
    /\ answer = NoAnswer

Goto(h, p) == op' = [op EXCEPT ![h].pc = p]

(* The request throws: 409 or 503. *)
Throw(h) == op' = [op EXCEPT ![h] = Idle] /\ UNCHANGED answer

(* The request returns the public session of its key's row. *)
Return(h) ==
    /\ op' = [op EXCEPT ![h] = Idle]
    /\ answer' = [key |-> op[h].key, basket |-> op[h].basket,
                  order |-> rows[op[h].key].order]

(* Wrong: a replay tries an unconfirmed initialization again. *)
ReplayRetries(h) ==
    IF rows[op[h].key].basket = op[h].basket /\ rows[op[h].key].init = "UNKNOWN"
    THEN op' = [op EXCEPT ![h].pc = "initialize", ![h].order = rows[op[h].key].order]
         /\ UNCHANGED answer
    ELSE IF rows[op[h].key].basket = op[h].basket /\ rows[op[h].key].init = "READY"
    THEN Return(h) ELSE Throw(h)

(* Wrong: a replay does not compare the baskets. *)
ReplayAnyBasket(h) ==
    IF rows[op[h].key].init = "READY" THEN Return(h) ELSE Throw(h)

(* replay: the same basket and a confirmed initialization, or an error. *)
Replay(h) ==
    IF rows[op[h].key].basket = op[h].basket /\ rows[op[h].key].init = "READY"
    THEN Return(h) ELSE Throw(h)

(* Wrong: a session lock, which outlives the transaction. *)
UnlockNever(h) == UNCHANGED lock

Unlock(h) == lock' = [k \in Keys |-> IF lock[k] = h THEN Free ELSE lock[k]]

-----------------------------------------------------------------------------
Begin(h, k, b) ==
    /\ op[h].pc = "idle"
    /\ op' = [op EXCEPT ![h] = [pc |-> "lookup", key |-> k, basket |-> b, order |-> 0]]
    /\ UNCHANGED <<rows, sequence, lock, bank, asked, spoiled, answer>>

(* findUnique before the transaction. *)
Lookup(h) ==
    /\ op[h].pc = "lookup"
    /\ IF Exists(op[h].key) THEN Replay(h) ELSE Goto(h, "begin") /\ UNCHANGED answer
    /\ UNCHANGED <<rows, sequence, lock, bank, asked, spoiled>>

(* Wrong: no advisory lock. *)
LockNothing(h) ==
    /\ op[h].pc = "begin"
    /\ Goto(h, "prior")
    /\ UNCHANGED <<rows, sequence, lock, bank, asked, spoiled, answer>>

(* pg_advisory_xact_lock: waits until the key is free. *)
Lock(h) ==
    /\ op[h].pc = "begin"
    /\ lock[op[h].key] = Free
    /\ lock' = [lock EXCEPT ![op[h].key] = h]
    /\ Goto(h, "prior")
    /\ UNCHANGED <<rows, sequence, bank, asked, spoiled, answer>>

(* findUnique under the lock; a prior row ends the transaction. *)
Prior(h) ==
    /\ op[h].pc = "prior"
    /\ IF Exists(op[h].key) THEN Replay(h) /\ Unlock(h)
       ELSE Goto(h, "insert") /\ UNCHANGED <<lock, answer>>
    /\ UNCHANGED <<rows, sequence, bank, asked, spoiled>>

(* create: the column default takes a number; an exhausted sequence fails   *)
(* the transaction.                                                         *)
Insert(h) ==
    /\ op[h].pc = "insert"
    /\ IF sequence = Capacity
       THEN Throw(h) /\ Unlock(h) /\ UNCHANGED sequence
       ELSE /\ sequence' = sequence + 1
            /\ op' = [op EXCEPT ![h].pc = "commit", ![h].order = sequence + 1]
            /\ UNCHANGED <<lock, answer>>
    /\ UNCHANGED <<rows, bank, asked, spoiled>>

(* COMMIT: the INITIALIZING row becomes visible and the lock is released.   *)
(* Should another transaction have inserted the key first, the unique index *)
(* rejects this one (P2002) and the other's row is replayed.                *)
Commit(h) ==
    /\ op[h].pc = "commit"
    /\ IF Exists(op[h].key)
       THEN Replay(h) /\ UNCHANGED rows
       ELSE /\ rows' = [rows EXCEPT ![op[h].key] =
                          [order |-> op[h].order, basket |-> op[h].basket,
                           init |-> "INITIALIZING"]]
            /\ Goto(h, "initialize") /\ UNCHANGED answer
    /\ Unlock(h)
    /\ UNCHANGED <<sequence, bank, asked, spoiled>>

(* InitPayment goes out, unless the browser's access has expired meanwhile. *)
Initialize(h) ==
    /\ op[h].pc = "initialize"
    /\ \/ /\ asked' = [asked EXCEPT ![op[h].key] = @ + 1]
          /\ Goto(h, "bank")
       \/ Goto(h, "unknown") /\ UNCHANGED asked
    /\ UNCHANGED <<rows, sequence, lock, bank, spoiled, answer>>

(* The bank accepts the payment and the answer arrives, or is lost; or the  *)
(* bank refuses.                                                            *)
BankAnswers(h) ==
    /\ op[h].pc = "bank"
    /\ \/ /\ bank' = bank \cup {op[h].order}
          /\ Goto(h, "ready") \/ Goto(h, "unknown")
       \/ Goto(h, "unknown") /\ UNCHANGED bank
    /\ UNCHANGED <<rows, sequence, lock, asked, spoiled, answer>>

Ready(h) == rows' = [rows EXCEPT ![op[h].key].init = "READY"]

(* The payment is READY and its page is returned.  An update that fails, or *)
(* whose answer is lost, is treated like a failed InitPayment.              *)
StoreReady(h) ==
    /\ op[h].pc = "ready"
    /\ \/ Ready(h) /\ Return(h)
       \/ Ready(h) /\ Goto(h, "unknown") /\ UNCHANGED answer
       \/ UNCHANGED <<rows, answer>> /\ Goto(h, "unknown")
    /\ UNCHANGED <<sequence, lock, bank, asked, spoiled>>

(* Wrong: the catch block does not ask whether the row is READY. *)
StoreUnknownBlind(h) ==
    /\ op[h].pc = "unknown"
    /\ rows' = [rows EXCEPT ![op[h].key].init = "UNKNOWN"]
    /\ Throw(h)
    /\ UNCHANGED <<sequence, lock, bank, asked, spoiled>>

(* The catch block; its where keeps a READY row. *)
StoreUnknown(h) ==
    /\ op[h].pc = "unknown"
    /\ rows' = IF rows[op[h].key].init = "INITIALIZING"
               THEN [rows EXCEPT ![op[h].key].init = "UNKNOWN"] ELSE rows
    /\ Throw(h)
    /\ UNCHANGED <<sequence, lock, bank, asked, spoiled>>

Fail(h) ==
    /\ op[h].pc # "idle"
    /\ Throw(h)
    /\ Unlock(h)
    /\ spoiled' = spoiled + (IF op[h].pc = "commit" THEN 1 ELSE 0)
    /\ UNCHANGED <<rows, sequence, bank, asked>>

Next ==
    \E h \in Requests :
        \/ \E k \in Keys, b \in Baskets : Begin(h, k, b)
        \/ Lookup(h) \/ Lock(h) \/ Prior(h) \/ Insert(h) \/ Commit(h)
        \/ Initialize(h) \/ BankAnswers(h) \/ StoreReady(h) \/ StoreUnknown(h)
        \/ Fail(h)

Spec == Init /\ [][Next]_vars
-----------------------------------------------------------------------------
Row == [order : Nat, basket : Baskets \cup {"none"}, init : Initializations \cup {"none"}]

Op == [pc : Steps, key : Keys \cup {"none"}, basket : Baskets \cup {"none"}, order : Nat]

TypeOK ==
    /\ rows \in [Keys -> Row]
    /\ sequence \in 0..Capacity
    /\ lock \in [Keys -> Requests \cup {Free}]
    /\ bank \subseteq Nat
    /\ asked \in [Keys -> Nat]
    /\ spoiled \in Nat
    /\ op \in [Requests -> Op]
    /\ answer \in [key : Keys \cup {"none"}, basket : Baskets \cup {"none"}, order : Nat]

(* A crash, a timeout or a repeated request never repeats InitPayment for a *)
(* key, and it is never sent before the row it belongs to is durable.       *)
InitOnce ==
    \A k \in Keys : asked[k] <= IF Exists(k) THEN 1 ELSE 0

(* No two payments share an Ameriabank order number, committed or about to  *)
(* be, and none is outside the sequence's range.                            *)
OrderUnique ==
    /\ \A k \in Keys : Exists(k) => rows[k].order \in 1..sequence
    /\ \A j, k \in Keys : Exists(j) /\ Exists(k) /\ rows[j].order = rows[k].order => j = k

(* The finite sequence is spent on payments: however many requests race for *)
(* one key, a number is lost only with a transaction that died holding it.  *)
NoneWasted ==
    sequence = Cardinality({k \in Keys : Exists(k)}) + spoiled
                 + Cardinality({h \in Requests : op[h].pc = "commit"})

(* Who is answered with a payment page gets the payment of the very basket  *)
(* sent, and the bank knows that payment; a READY row is known to the bank. *)
AnswersBacked ==
    /\ answer.order # 0 => /\ answer.order = rows[answer.key].order
                           /\ answer.basket = rows[answer.key].basket
                           /\ answer.order \in bank
    /\ \A k \in Keys : rows[k].init = "READY" => rows[k].order \in bank

(* A row's identity never changes, a READY row stays READY and an UNKNOWN   *)
(* one is never tried again, even by the catch block of its own request.    *)
RowsFinal ==
    [][\A k \in Keys : Exists(k) =>
         /\ rows'[k].order = rows[k].order /\ rows'[k].basket = rows[k].basket
         /\ rows[k].init \in {"READY", "UNKNOWN"} => rows'[k].init = rows[k].init]_vars

(* Every request is answered in the end, however many wait for the lock of  *)
(* one key.  PostgreSQL serves the waiters of a lock in turn (strong        *)
(* fairness of Lock); a request that can go on does.                        *)
Works(h) ==
    \/ Lookup(h) \/ Prior(h) \/ Insert(h) \/ Commit(h) \/ Initialize(h) \/ BankAnswers(h)
    \/ StoreReady(h) \/ StoreUnknown(h)

FairSpec == Spec /\ \A h \in Requests : WF_vars(Works(h)) /\ SF_vars(Lock(h))

AllAnswered == \A h \in Requests : op[h].pc # "idle" ~> op[h].pc = "idle"

-----------------------------------------------------------------------------
(* Why: the inductive invariant. *)

(* The advisory lock is held exactly by the transaction on its key, and     *)
(* nobody else can create the row between the check under it and COMMIT.    *)
LockHeld ==
    /\ \A h \in Requests : op[h].pc \in {"prior", "insert", "commit"} <=>
                            op[h].key \in Keys /\ lock[op[h].key] = h
    /\ \A k \in Keys : lock[k] # Free => op[lock[k]].key = k
    /\ \A h \in Requests : op[h].pc \in {"insert", "commit"} => ~Exists(op[h].key)

(* Numbers in hand are fresh and differ. *)
Fresh ==
    /\ \A h \in Requests : op[h].pc = "commit" =>
          /\ op[h].order \in 1..sequence
          /\ \A k \in Keys : Exists(k) => rows[k].order # op[h].order
    /\ \A g, h \in Requests :
          op[g].pc = "commit" /\ op[h].pc = "commit" /\ op[g].order = op[h].order => g = h

(* One request at most works on a payment after COMMIT. *)
After(h) == op[h].pc \in {"initialize", "bank", "ready", "unknown"}

OneInitializes ==
    /\ \A h \in Requests : After(h) =>
          /\ Exists(op[h].key)
          /\ rows[op[h].key].order = op[h].order
          /\ rows[op[h].key].basket = op[h].basket
    /\ \A g, h \in Requests : After(g) /\ After(h) /\ op[g].key = op[h].key => g = h
    /\ \A h \in Requests : op[h].pc = "initialize" => asked[op[h].key] = 0
    /\ \A h \in Requests : op[h].pc = "ready" => op[h].order \in bank
    /\ \A h \in Requests : op[h].pc \in {"initialize", "bank", "ready"} =>
          rows[op[h].key].init = "INITIALIZING"

WellFormed ==
    /\ \A h \in Requests : op[h].pc # "idle" => op[h].key \in Keys /\ op[h].basket \in Baskets
    /\ answer.order # 0 => answer.key \in Keys /\ Exists(answer.key)

IInv ==
    /\ TypeOK /\ WellFormed /\ LockHeld /\ Fresh /\ OneInitializes
    /\ InitOnce /\ OrderUnique /\ AnswersBacked
=============================================================================
