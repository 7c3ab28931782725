---------------------- MODULE SandboxAllocation_proofs ----------------------
(***************************************************************************)
(* The allocation of sandbox payments is safe for every number of racing   *)
(* requests, every set of keys and baskets and every length of sequence.   *)
(***************************************************************************)
EXTENDS SandboxAllocation, FiniteSetTheorems, TLAPS

LEMMA InitHolds == Init => IInv
  BY AllocationAssumption DEF Init, IInv, TypeOK, Op, WellFormed, LockHeld, Fresh,
     OneInitializes, InitOnce, OrderUnique, AnswersBacked, Exists, Free, NoRow, Idle,
     NoAnswer, After, Row, Steps

-----------------------------------------------------------------------------
(* One lemma per action: every step keeps the inductive invariant.         *)

(* A request starts. *)
LEMMA BeginKeeps ==
  ASSUME IInv, NEW h \in Requests, NEW k \in Keys, NEW b \in Baskets, Begin(h, k, b)
  PROVE  IInv'
<1>1. TypeOK'
  <2>1. op' \in [Requests -> Op]
    BY DEF Begin, Idle, IInv, TypeOK, Op, Steps
  <2> QED
    BY <2>1 DEF Begin, IInv, TypeOK
<1>2. WellFormed'
  BY <1>1 DEF Begin, Exists, Idle, IInv, WellFormed
<1>3. LockHeld'
  BY <1>1, AllocationAssumption DEF Begin, Exists, Free, Idle, IInv, LockHeld, TypeOK, Op
<1>4. Fresh'
  BY <1>1 DEF Begin, Exists, Idle, IInv, Fresh
<1>5. OneInitializes'
  BY <1>1 DEF Begin, After, Exists, Idle, IInv, OneInitializes
<1>6. InitOnce'
  BY <1>1 DEF Begin, Exists, IInv, InitOnce
<1>7. OrderUnique'
  BY <1>1 DEF Begin, Exists, IInv, OrderUnique
<1>8. AnswersBacked'
  BY <1>1 DEF Begin, Exists, IInv, AnswersBacked
<1> QED
  BY <1>1, <1>2, <1>3, <1>4, <1>5, <1>6, <1>7, <1>8 DEF IInv

(* The first lookup replays, or goes on. *)
LEMMA LookupKeeps ==
  ASSUME IInv, NEW h \in Requests, Lookup(h)
  PROVE  IInv'
<1>1. /\ \/ op' = [op EXCEPT ![h] = Idle]
         \/ op' = [op EXCEPT ![h].pc = "begin"] /\ answer' = answer /\ ~Exists(op[h].key)
      /\ \/ answer' = answer
         \/ /\ answer' = [key |-> op[h].key, basket |-> op[h].basket,
                          order |-> rows[op[h].key].order]
            /\ rows[op[h].key].basket = op[h].basket /\ rows[op[h].key].init = "READY"
      /\ UNCHANGED <<rows, sequence, bank, asked, spoiled>> /\ UNCHANGED lock
      /\ op[h].pc = "lookup" /\ op[h].key \in Keys
  BY DEF Lookup, Replay, Return, Throw, Goto, Unlock, Exists, IInv, WellFormed
<1>2. /\ \A g \in Requests : g # h => op'[g] = op[g]
      /\ \/ op'[h] = Idle
         \/ /\ op'[h].pc = "begin" /\ op'[h].key = op[h].key
            /\ op'[h].basket = op[h].basket /\ rows[op[h].key].init = "none"
  BY <1>1 DEF IInv, TypeOK, Op, Exists
<1>3. TypeOK'
  BY <1>1, AllocationAssumption DEF Row, Steps, Initializations, Free, Idle, IInv,
     TypeOK, Op, WellFormed
<1>4. WellFormed'
  BY <1>1, <1>2, <1>3, AllocationAssumption DEF Exists, Idle, IInv, WellFormed, TypeOK, Op
<1>5. LockHeld'
  BY <1>1, <1>2, <1>3, AllocationAssumption DEF Exists, Free, Idle, IInv, LockHeld,
     TypeOK, Op, WellFormed
<1>6. Fresh'
  BY <1>1, <1>2, <1>3, AllocationAssumption DEF Exists, Idle, IInv, Fresh, TypeOK, Op,
     WellFormed
<1>7. OneInitializes'
  <2>1. \A g \in Requests : After(g)' => g # h /\ After(g) /\ op'[g] = op[g]
    BY <1>2 DEF After, Idle
  <2> QED
    BY <1>1, <2>1 DEF After, Exists, IInv, OneInitializes
<1>8. InitOnce'
  BY <1>1, <1>2, <1>3, AllocationAssumption DEF Exists, IInv, InitOnce, TypeOK, Op,
     WellFormed
<1>9. OrderUnique'
  BY <1>1, <1>2, <1>3, AllocationAssumption DEF Exists, IInv, OrderUnique, TypeOK, Op,
     WellFormed
<1>10. AnswersBacked'
  BY <1>1, <1>2, <1>3, AllocationAssumption DEF Exists, IInv, AnswersBacked, TypeOK, Op,
     WellFormed
<1> QED
  BY <1>3, <1>4, <1>5, <1>6, <1>7, <1>8, <1>9, <1>10 DEF IInv

(* The advisory lock is taken. *)
LEMMA LockKeeps ==
  ASSUME IInv, NEW h \in Requests, Lock(h)
  PROVE  IInv'
<1>1. TypeOK'
  <2>1. op' \in [Requests -> Op]
    BY DEF Lock, Goto, IInv, TypeOK, Op, Steps
  <2> QED
    BY <2>1 DEF Lock, IInv, TypeOK
<1>2. WellFormed'
  BY <1>1 DEF Lock, Goto, Exists, Idle, IInv, WellFormed
<1>3. LockHeld'
  BY <1>1, AllocationAssumption DEF Lock, Goto, Exists, Free, Idle, IInv, LockHeld,
     TypeOK, Op
<1>4. Fresh'
  BY <1>1 DEF Lock, Goto, Exists, Idle, IInv, Fresh
<1>5. OneInitializes'
  BY <1>1 DEF Lock, Goto, After, Exists, Idle, IInv, OneInitializes
<1>6. InitOnce'
  BY <1>1 DEF Lock, Goto, Exists, IInv, InitOnce
<1>7. OrderUnique'
  BY <1>1 DEF Lock, Goto, Exists, IInv, OrderUnique
<1>8. AnswersBacked'
  BY <1>1 DEF Lock, Goto, Exists, IInv, AnswersBacked
<1> QED
  BY <1>1, <1>2, <1>3, <1>4, <1>5, <1>6, <1>7, <1>8 DEF IInv

(* The lookup under the lock. *)
LEMMA PriorKeeps ==
  ASSUME IInv, NEW h \in Requests, Prior(h)
  PROVE  IInv'
<1>1. /\ \/ op' = [op EXCEPT ![h] = Idle]
            /\ lock' = [k \in Keys |-> IF lock[k] = h THEN Free ELSE lock[k]]
         \/ op' = [op EXCEPT ![h].pc = "insert"] /\ answer' = answer /\ ~Exists(op[h].key) /\ lock' = lock
      /\ \/ answer' = answer
         \/ /\ answer' = [key |-> op[h].key, basket |-> op[h].basket,
                          order |-> rows[op[h].key].order]
            /\ rows[op[h].key].basket = op[h].basket /\ rows[op[h].key].init = "READY"
      /\ UNCHANGED <<rows, sequence, bank, asked, spoiled>>
      /\ op[h].pc = "prior" /\ op[h].key \in Keys
  BY DEF Prior, Replay, Return, Throw, Goto, Unlock, Exists, IInv, WellFormed
<1>2. /\ \A g \in Requests : g # h => op'[g] = op[g]
      /\ \/ op'[h] = Idle
         \/ /\ op'[h].pc = "insert" /\ op'[h].key = op[h].key
            /\ op'[h].basket = op[h].basket /\ rows[op[h].key].init = "none"
  BY <1>1 DEF IInv, TypeOK, Op, Exists
<1>3. TypeOK'
  BY <1>1, AllocationAssumption DEF Row, Steps, Initializations, Free, Idle, IInv,
     TypeOK, Op, WellFormed
<1>4. WellFormed'
  BY <1>1, <1>2, <1>3, AllocationAssumption DEF Exists, Idle, IInv, WellFormed, TypeOK, Op
<1>5. LockHeld'
  <2>1. lock[op[h].key] = h /\ h # Free
    BY <1>1, AllocationAssumption DEF IInv, LockHeld, Free
  <2>2. CASE op' = [op EXCEPT ![h] = Idle]
    <3>1. \A k \in Keys : lock'[k] = IF k = op[h].key THEN Free ELSE lock[k]
      <4>1. lock' = [k \in Keys |-> IF lock[k] = h THEN Free ELSE lock[k]]
        BY <1>1, <2>2 DEF IInv, TypeOK, Op, Idle
      <4> QED
        BY <2>1, <4>1 DEF IInv, LockHeld
    <3>2. \A g \in Requests : g # h /\ op[g].pc \in {"prior", "insert", "commit"} =>
            op[g].key # op[h].key
      BY <2>1 DEF IInv, LockHeld
    <3>3. op'[h] = Idle
      BY <2>2 DEF IInv, TypeOK, Op
    <3>4. \A g \in Requests : op'[g].pc \in {"prior", "insert", "commit"} <=>
                               op'[g].key \in Keys /\ lock'[op'[g].key] = g
      BY <1>2, <3>1, <3>2, <3>3, AllocationAssumption DEF IInv, LockHeld, Idle, Free
    <3>5. \A k \in Keys : lock'[k] # Free => op'[lock'[k]].key = k
      BY <1>2, <2>1, <3>1 DEF IInv, LockHeld, TypeOK, Op
    <3>6. \A g \in Requests : op'[g].pc \in {"insert", "commit"} =>
                               rows'[op'[g].key].init = "none"
      BY <1>1, <1>2, <3>3 DEF IInv, LockHeld, Exists, Idle
    <3> QED
      BY <3>4, <3>5, <3>6 DEF LockHeld, Exists, Free
  <2>3. CASE op' = [op EXCEPT ![h].pc = "insert"] /\ ~Exists(op[h].key) /\ lock' = lock
    BY <1>1, <2>1, <2>3 DEF IInv, LockHeld, TypeOK, Op, Exists
  <2> QED
    BY <1>1, <2>2, <2>3
<1>6. Fresh'
  <2>1. \A g \in Requests : op'[g].pc = "commit" => op[g].pc = "commit" /\ op'[g] = op[g]
    BY <1>2 DEF Idle
  <2> QED
    BY <1>1, <2>1 DEF Exists, IInv, Fresh
<1>7. OneInitializes'
  <2>1. \A g \in Requests : After(g)' => g # h /\ After(g) /\ op'[g] = op[g]
    BY <1>2 DEF After, Idle
  <2> QED
    BY <1>1, <2>1 DEF After, Exists, IInv, OneInitializes
<1>8. InitOnce'
  BY <1>1, <1>2, <1>3, AllocationAssumption DEF Exists, IInv, InitOnce, TypeOK, Op,
     WellFormed
<1>9. OrderUnique'
  BY <1>1, <1>2, <1>3, AllocationAssumption DEF Exists, IInv, OrderUnique, TypeOK, Op,
     WellFormed
<1>10. AnswersBacked'
  BY <1>1, <1>2, <1>3, AllocationAssumption DEF Exists, IInv, AnswersBacked, TypeOK, Op,
     WellFormed
<1> QED
  BY <1>3, <1>4, <1>5, <1>6, <1>7, <1>8, <1>9, <1>10 DEF IInv

(* A fresh number is taken, or the sequence is exhausted. *)
LEMMA InsertKeeps ==
  ASSUME IInv, NEW h \in Requests, Insert(h)
  PROVE  IInv'
<1>1. TypeOK' /\ Fresh'
  <2>1. CASE sequence = Capacity
    <3>1. /\ op' = [op EXCEPT ![h] = Idle]
          /\ lock' = [k \in Keys |-> IF lock[k] = h THEN Free ELSE lock[k]]
          /\ UNCHANGED <<rows, sequence, bank, asked, spoiled, answer>>
      BY <2>1 DEF Insert, Throw, Unlock
    <3>2. TypeOK'
      BY <3>1 DEF IInv, TypeOK, Op, Idle, Steps
    <3>3. Fresh'
      BY <3>1 DEF IInv, TypeOK, Op, Fresh, Idle, Exists
    <3> QED
      BY <3>2, <3>3
  <2>2. CASE sequence # Capacity
    <3>1. /\ sequence' = sequence + 1
          /\ op' = [op EXCEPT ![h].pc = "commit", ![h].order = sequence + 1]
          /\ UNCHANGED <<rows, lock, bank, asked, spoiled, answer>>
      BY <2>2 DEF Insert
    <3>2. sequence \in Nat /\ sequence + 1 \in Nat /\ sequence + 1 \in 0..Capacity
      BY <2>2, AllocationAssumption DEF IInv, TypeOK, Op
    <3>3. TypeOK'
      <4>1. op[h] \in Op
        BY DEF IInv, TypeOK
      <4>2. [op[h] EXCEPT !.pc = "commit", !.order = sequence + 1] \in Op
        BY <3>2, <4>1 DEF Op, Steps
      <4>3. op' \in [Requests -> Op]
        BY <3>1, <4>2 DEF IInv, TypeOK
      <4> QED
        BY <3>1, <3>2, <4>3 DEF IInv, TypeOK
    <3>4. /\ op'[h].pc = "commit" /\ op'[h].order = sequence + 1
          /\ \A g \in Requests : g # h => op'[g] = op[g]
      BY <3>1 DEF IInv, TypeOK, Op
    <3>5. /\ \A g \in Requests : op[g].pc = "commit" => op[g].order # sequence + 1
          /\ \A k \in Keys : Exists(k) => rows[k].order # sequence + 1
      <4>1. \A g \in Requests : op[g].pc = "commit" => op[g].order \in 1..sequence
        BY DEF IInv, Fresh
      <4>2. \A k \in Keys : Exists(k) => rows[k].order \in 1..sequence
        BY DEF IInv, OrderUnique
      <4> QED
        BY <3>2, <4>1, <4>2
    <3>6. rows' = rows
      BY <3>1
    <3>7. \A g \in Requests : op'[g].pc = "commit" =>
            /\ op'[g].order \in 1..sequence'
            /\ \A k \in Keys : rows'[k].init # "none" => rows'[k].order # op'[g].order
      <4>1. ASSUME NEW g \in Requests, op[g].pc = "commit", g # h
            PROVE  /\ op[g].order \in 1..(sequence + 1)
                   /\ \A k \in Keys : rows[k].init # "none" => rows[k].order # op[g].order
        BY <3>2, <4>1 DEF IInv, Fresh, Exists
      <4>2. sequence + 1 \in 1..(sequence + 1)
        BY <3>2
      <4> QED
        <5>1. ASSUME NEW g \in Requests, op'[g].pc = "commit", g # h
              PROVE  /\ op'[g].order \in 1..sequence'
                     /\ \A k \in Keys : rows'[k].init # "none" => rows'[k].order # op'[g].order
          BY <3>1, <3>4, <4>1, <5>1
        <5>2. /\ op'[h].order \in 1..sequence'
              /\ \A k \in Keys : rows'[k].init # "none" => rows'[k].order # op'[h].order
          BY <3>1, <3>4, <3>5, <4>2 DEF Exists
        <5> QED
          BY <5>1, <5>2
    <3>8. \A f, g \in Requests :
            op'[f].pc = "commit" /\ op'[g].pc = "commit" /\ op'[f].order = op'[g].order => f = g
      BY <3>4, <3>5 DEF IInv, Fresh
    <3> QED
      BY <3>3, <3>7, <3>8 DEF Fresh, Exists
  <2> QED
    BY <2>1, <2>2
<1>2. WellFormed'
  BY <1>1 DEF Insert, Throw, Unlock, Exists, Idle, IInv, WellFormed, TypeOK, Op
<1>3. LockHeld'
  BY <1>1, AllocationAssumption DEF Insert, Throw, Unlock, Exists, Free, Idle, IInv,
     LockHeld, TypeOK, Op
<1>4. OneInitializes'
  <2>1. \A g \in Requests : After(g)' => After(g) /\ op'[g] = op[g]
    BY DEF Insert, Throw, Idle, After, IInv, TypeOK, Op
  <2>2. UNCHANGED <<rows, bank, asked>>
    BY DEF Insert
  <2> QED
    BY <2>1, <2>2 DEF After, Exists, IInv, OneInitializes
<1>5. InitOnce'
  BY <1>1 DEF Insert, Throw, Unlock, Exists, IInv, InitOnce
<1>6. OrderUnique'
  BY <1>1 DEF Insert, Throw, Unlock, Exists, IInv, OrderUnique, TypeOK, Op
<1>7. AnswersBacked'
  BY <1>1 DEF Insert, Throw, Unlock, Exists, IInv, AnswersBacked
<1> QED
  BY <1>1, <1>2, <1>3, <1>4, <1>5, <1>6, <1>7 DEF IInv

(* The row becomes durable: nobody else can have created it under the lock. *)
LEMMA CommitKeeps ==
  ASSUME IInv, NEW h \in Requests, Commit(h)
  PROVE  IInv'
<1> DEFINE key == op[h].key
<1>1. op[h].pc = "commit" /\ key \in Keys /\ op[h].basket \in Baskets /\ ~Exists(key) /\ lock[key] = h
  BY DEF IInv, WellFormed, LockHeld, Commit
<1>2. /\ rows' = [rows EXCEPT ![key] =
                    [order |-> op[h].order, basket |-> op[h].basket, init |-> "INITIALIZING"]]
      /\ op' = [op EXCEPT ![h].pc = "initialize"]
      /\ lock' = [k \in Keys |-> IF lock[k] = h THEN Free ELSE lock[k]]
      /\ UNCHANGED <<sequence, bank, asked, spoiled, answer>>
  BY <1>1 DEF Commit, Goto, Unlock
<1>3. TypeOK'
  <2>1. rows' \in [Keys -> Row]
    BY <1>1, <1>2 DEF IInv, TypeOK, Op, Row, Initializations
  <2> QED
    BY <1>2, <2>1 DEF IInv, TypeOK, Op, Steps, Free
<1>4. /\ op'[h].pc = "initialize" /\ op'[h].key = key /\ op'[h].order = op[h].order
      /\ op'[h].basket = op[h].basket
      /\ \A g \in Requests : g # h => op'[g] = op[g]
  BY <1>2 DEF IInv, TypeOK, Op
<1>5. /\ rows'[key].order = op[h].order /\ rows'[key].init = "INITIALIZING"
      /\ rows'[key].basket = op[h].basket
      /\ rows'[key].init # "none"
      /\ \A k \in Keys : k # key => rows'[k] = rows[k]
  BY <1>1, <1>2 DEF IInv, TypeOK, Op, Exists, NoRow, Row
<1>6. /\ op[h].order \in 1..sequence
      /\ \A k \in Keys : Exists(k) => rows[k].order # op[h].order
      /\ \A g \in Requests : op[g].pc = "commit" /\ op[g].order = op[h].order => g = h
  BY <1>1 DEF IInv, Fresh
<1>7. \A g \in Requests : After(g) => op[g].key # key
  BY <1>1 DEF IInv, OneInitializes
<1>8. asked[key] = 0
  BY <1>1 DEF IInv, InitOnce, TypeOK, Op
<1>9. WellFormed'
  BY <1>1, <1>2, <1>4, <1>5 DEF IInv, WellFormed, Exists
<1>10. LockHeld'
  <2>1. \A k \in Keys : lock'[k] = IF lock[k] = h THEN Free ELSE lock[k]
    BY <1>2
  <2>2. \A g \in Requests : g # h /\ op[g].pc \in {"prior", "insert", "commit"} =>
          op[g].key # key
    BY <1>1 DEF IInv, LockHeld
  <2>3. h # Free
    BY AllocationAssumption DEF Free
  <2>4. \A g \in Requests : op'[g].pc \in {"prior", "insert", "commit"} <=>
                             op'[g].key \in Keys /\ lock'[op'[g].key] = g
    <3>2. ASSUME NEW g \in Requests, g # h
          PROVE  op'[g].pc \in {"prior", "insert", "commit"} <=>
                             op'[g].key \in Keys /\ lock'[op'[g].key] = g
      <4>1. op'[g] = op[g] /\ g # Free
        BY <1>4, <3>2, AllocationAssumption DEF Free
      <4> QED
        BY <3>2, <4>1, <2>1 DEF IInv, LockHeld
    <3>3. ~(op'[h].pc \in {"prior", "insert", "commit"}) /\ lock'[op'[h].key] # h
      BY <1>1, <1>4, <2>1, <2>3
    <3> QED
      BY <3>2, <3>3
  <2>5. \A k \in Keys : lock'[k] # Free => op'[lock'[k]].key = k
    BY <1>4, <2>1, <2>3 DEF IInv, LockHeld, TypeOK, Op
  <2>6. \A g \in Requests : op'[g].pc \in {"insert", "commit"} => rows'[op'[g].key].init = "none"
    <3>1. ASSUME NEW g \in Requests, op'[g].pc \in {"insert", "commit"}
          PROVE  rows'[op[g].key].init = "none" /\ op'[g] = op[g]
      BY <1>4, <1>5, <2>2, <3>1 DEF IInv, LockHeld, WellFormed, Exists
    <3> QED
      BY <3>1
  <2> QED
    BY <2>4, <2>5, <2>6 DEF LockHeld, Exists, Free
<1>11. Fresh'
  BY <1>1, <1>2, <1>4, <1>5, <1>6 DEF IInv, Fresh, Exists
<1>12. OneInitializes'
  <2>1. \A g \in Requests : g # h => (After(g)' <=> After(g))
    BY <1>4 DEF After
  <2>2. \A g \in Requests : After(g)' =>
           rows'[op'[g].key].init # "none" /\ rows'[op'[g].key].order = op'[g].order
           /\ rows'[op'[g].key].basket = op'[g].basket
    BY <1>4, <1>5, <1>7, <2>1 DEF IInv, OneInitializes, WellFormed, After, Exists
  <2> QED
    BY <1>2, <1>4, <1>5, <1>7, <1>8, <2>1, <2>2 DEF IInv, OneInitializes, WellFormed, After, Exists
<1>13. InitOnce'
  BY <1>2, <1>5, <1>8 DEF IInv, InitOnce, TypeOK, Op, Exists
<1>14. OrderUnique'
  BY <1>1, <1>2, <1>5, <1>6 DEF IInv, OrderUnique, Exists
<1>15. AnswersBacked'
  BY <1>1, <1>2, <1>5 DEF IInv, AnswersBacked, WellFormed, Exists
<1> QED
  BY <1>3, <1>9, <1>10, <1>11, <1>12, <1>13, <1>14, <1>15 DEF IInv

(* InitPayment goes out, for the first time. *)
LEMMA InitializeKeeps ==
  ASSUME IInv, NEW h \in Requests, Initialize(h)
  PROVE  IInv'
<1>1. TypeOK'
  <2>1. op' \in [Requests -> Op]
    BY DEF Initialize, Goto, IInv, TypeOK, Op, Steps
  <2>2. asked' \in [Keys -> Nat]
    BY DEF Initialize, IInv, TypeOK
  <2>3. UNCHANGED <<rows, sequence, lock, bank, spoiled, answer>>
    BY DEF Initialize, Goto
  <2> QED
    BY <2>1, <2>2, <2>3 DEF IInv, TypeOK
<1>2. WellFormed'
  BY <1>1 DEF Initialize, Goto, Exists, Idle, IInv, WellFormed, TypeOK, Op
<1>3. LockHeld'
  BY <1>1 DEF Initialize, Goto, Exists, Free, Idle, IInv, LockHeld, TypeOK, Op
<1>4. Fresh'
  <2>1. \A g \in Requests : op'[g].pc = "commit" => op[g].pc = "commit" /\ op'[g] = op[g]
    BY DEF Initialize, Goto, IInv, TypeOK, Op
  <2> QED
    BY <2>1 DEF Initialize, Exists, IInv, Fresh
<1>5. OneInitializes'
  <2>1. /\ op[h].pc = "initialize" /\ op'[h].pc \in {"bank", "unknown"}
        /\ op'[h].key = op[h].key /\ op'[h].order = op[h].order /\ op'[h].basket = op[h].basket
        /\ \A g \in Requests : g # h => op'[g] = op[g]
        /\ UNCHANGED <<rows, bank>>
        /\ \A k \in Keys : k # op[h].key => asked'[k] = asked[k]
    BY DEF IInv, TypeOK, Op, Initialize, Goto
  <2>2. \A g \in Requests : After(g)' <=> After(g)
    BY <2>1 DEF After
  <2>3. \A g \in Requests : op'[g].pc = "initialize" => asked'[op'[g].key] = 0
    BY <2>1 DEF IInv, OneInitializes, WellFormed, After
  <2> QED
    BY <2>1, <2>2, <2>3 DEF IInv, OneInitializes, After, Exists
<1>6. InitOnce'
  BY <1>1 DEF Initialize, Exists, IInv, InitOnce, TypeOK, WellFormed,
     OneInitializes, After
<1>7. OrderUnique'
  BY <1>1 DEF Initialize, Goto, Exists, IInv, OrderUnique
<1>8. AnswersBacked'
  BY <1>1 DEF Initialize, Goto, Exists, IInv, AnswersBacked
<1> QED
  BY <1>1, <1>2, <1>3, <1>4, <1>5, <1>6, <1>7, <1>8 DEF IInv

(* The bank accepts or refuses. *)
LEMMA BankAnswersKeeps ==
  ASSUME IInv, NEW h \in Requests, BankAnswers(h)
  PROVE  IInv'
<1>1. TypeOK'
  <2>1. op' \in [Requests -> Op]
    BY DEF BankAnswers, Goto, IInv, TypeOK, Op, Steps
  <2>2. bank' \subseteq Nat
    <3>1. op[h].order \in Nat
      BY DEF IInv, TypeOK, Op
    <3> QED
      BY <3>1 DEF BankAnswers, IInv, TypeOK
  <2>3. UNCHANGED <<rows, sequence, lock, asked, spoiled, answer>>
    BY DEF BankAnswers, Goto
  <2> QED
    BY <2>1, <2>2, <2>3 DEF IInv, TypeOK
<1>2. WellFormed'
  BY <1>1 DEF BankAnswers, Goto, Exists, Idle, IInv, WellFormed, TypeOK, Op
<1>3. LockHeld'
  BY <1>1 DEF BankAnswers, Goto, Exists, Free, Idle, IInv, LockHeld, TypeOK, Op
<1>4. Fresh'
  BY <1>1, AllocationAssumption DEF BankAnswers, Goto, Exists, Idle, IInv, Fresh,
     TypeOK, Op
<1>5. OneInitializes'
  BY <1>1, AllocationAssumption DEF BankAnswers, Goto, After, Exists, Idle, IInv,
     OneInitializes, TypeOK, Op
<1>6. InitOnce'
  BY <1>1 DEF BankAnswers, Goto, Exists, IInv, InitOnce
<1>7. OrderUnique'
  BY <1>1 DEF BankAnswers, Goto, Exists, IInv, OrderUnique
<1>8. AnswersBacked'
  BY <1>1 DEF BankAnswers, Goto, Exists, IInv, AnswersBacked
<1> QED
  BY <1>1, <1>2, <1>3, <1>4, <1>5, <1>6, <1>7, <1>8 DEF IInv

(* The payment is READY; the row was its own request's. *)
LEMMA StoreReadyKeeps ==
  ASSUME IInv, NEW h \in Requests, StoreReady(h)
  PROVE  IInv'
<1> DEFINE key == op[h].key
<1>1. /\ op[h].pc = "ready" /\ key \in Keys /\ op[h].basket \in Baskets
      /\ rows[key].init # "none" /\ rows[key].order = op[h].order
      /\ rows[key].basket = op[h].basket
      /\ op[h].order \in bank
  BY DEF IInv, WellFormed, OneInitializes, StoreReady, After, Exists
<1>2. /\ \/ rows' = [rows EXCEPT ![key].init = "READY"] \/ rows' = rows
      /\ \/ op' = [op EXCEPT ![h] = Idle] \/ op' = [op EXCEPT ![h].pc = "unknown"]
      /\ \/ answer' = answer
         \/ answer' = [key |-> key, basket |-> op[h].basket, order |-> rows[key].order]
      /\ UNCHANGED <<sequence, lock, bank, asked, spoiled>>
  BY DEF StoreReady, Ready, Return, Goto
<1>3. TypeOK'
  <2>1. rows' \in [Keys -> Row]
    <3>1. CASE rows' = rows
      BY <3>1 DEF IInv, TypeOK, Op
    <3>2. CASE rows' = [rows EXCEPT ![key].init = "READY"]
      <4>1. rows[key] \in Row
        BY <1>1 DEF IInv, TypeOK, Op
      <4>2. [rows[key] EXCEPT !.init = "READY"] \in Row
        BY <4>1 DEF Row, Initializations
      <4> QED
        BY <3>2, <4>2 DEF IInv, TypeOK, Op
    <3> QED
      BY <1>2, <3>1, <3>2
  <2>2. op' \in [Requests -> Op]
    BY <1>2 DEF IInv, TypeOK, Op, Idle, Steps
  <2>3. answer' \in [key : Keys \cup {"none"}, basket : Baskets \cup {"none"}, order : Nat]
    BY <1>1, <1>2 DEF IInv, TypeOK, Op, Row
  <2> QED
    BY <1>2, <2>1, <2>2, <2>3 DEF IInv, TypeOK, Op, Free
<1>4. /\ op'[h].pc \in {"idle", "unknown"}
      /\ op'[h].pc = "unknown" => op'[h].key = key /\ op'[h].order = op[h].order
                                  /\ op'[h].basket = op[h].basket
      /\ op'[h].pc = "idle" => op'[h].key = "none"
      /\ \A g \in Requests : g # h => op'[g] = op[g]
  BY <1>2 DEF IInv, TypeOK, Op, Idle
<1>5. /\ \A k \in Keys : /\ rows'[k].init # "none" <=> rows[k].init # "none"
                         /\ rows'[k].order = rows[k].order
                         /\ rows'[k].basket = rows[k].basket
                         /\ k # key => rows'[k] = rows[k]
      /\ rows'[key].init \in {"READY", rows[key].init}
  BY <1>1, <1>2 DEF IInv, TypeOK, Op, Row, NoRow
<1>6. \A g \in Requests : g # h /\ After(g) => op[g].key # key
  BY <1>1 DEF IInv, OneInitializes, After
<1>7. WellFormed'
  BY <1>1, <1>2, <1>4, <1>5 DEF IInv, WellFormed, Exists
<1>8. LockHeld'
  <2>1. \A g \in Requests : op'[g].pc \in {"prior", "insert", "commit"} <=>
                             op'[g].key \in Keys /\ lock'[op'[g].key] = g
    BY <1>1, <1>2, <1>4, AllocationAssumption DEF IInv, LockHeld
  <2>2. \A k \in Keys : lock'[k] # Free => op'[lock'[k]].key = k
    BY <1>1, <1>2, <1>4 DEF IInv, LockHeld, TypeOK, Op
  <2>3. \A g \in Requests : op'[g].pc \in {"insert", "commit"} => rows'[op'[g].key].init = "none"
    BY <1>1, <1>4, <1>5 DEF IInv, LockHeld, WellFormed, Exists
  <2> QED
    BY <2>1, <2>2, <2>3 DEF LockHeld, Exists, Free
<1>9. Fresh'
  BY <1>1, <1>2, <1>4, <1>5 DEF IInv, Fresh, Exists
<1>10. OneInitializes'
  <2>1. \A g \in Requests : /\ After(g)' => After(g) /\ op'[g].key = op[g].key
                                           /\ op'[g].order = op[g].order
                                           /\ op'[g].basket = op[g].basket
                            /\ g # h /\ After(g) => op[g].key \in Keys
    BY <1>1, <1>4 DEF After, IInv, WellFormed
  <2> QED
    BY <1>1, <1>2, <1>4, <1>5, <1>6, <2>1 DEF IInv, OneInitializes, After, Exists
<1>11. InitOnce'
  BY <1>2, <1>5 DEF IInv, InitOnce, Exists
<1>12. OrderUnique'
  BY <1>2, <1>5 DEF IInv, OrderUnique, Exists
<1>13. AnswersBacked'
  <2>1. \A k \in Keys : rows'[k].init = "READY" => rows'[k].order \in bank'
    BY <1>1, <1>2, <1>5 DEF IInv, AnswersBacked
  <2>2. CASE answer' = answer
    BY <1>2, <1>5, <2>1, <2>2 DEF IInv, AnswersBacked, WellFormed
  <2>3. CASE answer' = [key |-> key, basket |-> op[h].basket, order |-> rows[key].order]
    BY <1>1, <1>2, <1>5, <2>1, <2>3 DEF AnswersBacked
  <2> QED
    BY <1>2, <2>1, <2>2, <2>3
<1> QED
  BY <1>3, <1>7, <1>8, <1>9, <1>10, <1>11, <1>12, <1>13 DEF IInv

(* The catch block. *)
LEMMA StoreUnknownKeeps ==
  ASSUME IInv, NEW h \in Requests, StoreUnknown(h)
  PROVE  IInv'
<1>1. TypeOK'
  <2>1. op' \in [Requests -> Op]
    BY DEF StoreUnknown, Throw, Idle, IInv, TypeOK, Op, Steps
  <2>2. rows' \in [Keys -> Row]
    <3>1. rows[op[h].key] \in Row
      BY DEF StoreUnknown, IInv, TypeOK, WellFormed
    <3>2. [rows[op[h].key] EXCEPT !.init = "UNKNOWN"] \in Row
      BY <3>1 DEF Row, Initializations
    <3> QED
      BY <3>2 DEF StoreUnknown, IInv, TypeOK
  <2> QED
    BY <2>1, <2>2 DEF StoreUnknown, Throw, IInv, TypeOK
<1>2. WellFormed'
  BY <1>1 DEF StoreUnknown, Throw, Exists, Idle, IInv, WellFormed
<1>3. LockHeld'
  BY <1>1, AllocationAssumption DEF StoreUnknown, Throw, Exists, Free, Idle, IInv,
     LockHeld, TypeOK, Op
<1>4. Fresh'
  BY <1>1 DEF StoreUnknown, Throw, Exists, Idle, IInv, Fresh
<1>5. OneInitializes'
  BY <1>1 DEF StoreUnknown, Throw, After, Exists, Idle, IInv, OneInitializes
<1>6. InitOnce'
  BY <1>1 DEF StoreUnknown, Throw, Exists, IInv, InitOnce
<1>7. OrderUnique'
  BY <1>1 DEF StoreUnknown, Throw, Exists, IInv, OrderUnique
<1>8. AnswersBacked'
  BY <1>1 DEF StoreUnknown, Throw, Exists, IInv, AnswersBacked
<1> QED
  BY <1>1, <1>2, <1>3, <1>4, <1>5, <1>6, <1>7, <1>8 DEF IInv

(* A request dies at an await. *)
LEMMA FailKeeps ==
  ASSUME IInv, NEW h \in Requests, Fail(h)
  PROVE  IInv'
<1>1. TypeOK'
  <2>1. op' \in [Requests -> Op]
    BY DEF Fail, Throw, Idle, IInv, TypeOK, Op, Steps
  <2>2. lock' \in [Keys -> Requests \cup {Free}]
    BY DEF Fail, Unlock, IInv, TypeOK
  <2>3. UNCHANGED <<rows, sequence, bank, asked, answer>> /\ spoiled' \in Nat
    BY DEF Fail, Throw, IInv, TypeOK
  <2> QED
    BY <2>1, <2>2, <2>3 DEF IInv, TypeOK
<1>2. WellFormed'
  BY <1>1 DEF Fail, Throw, Unlock, Exists, Idle, IInv, WellFormed
<1>3. LockHeld'
  BY <1>1, AllocationAssumption DEF Fail, Throw, Unlock, Exists, Free, Idle, IInv,
     LockHeld, TypeOK, Op
<1>4. Fresh'
  BY <1>1 DEF Fail, Throw, Unlock, Exists, Idle, IInv, Fresh
<1>5. OneInitializes'
  BY <1>1 DEF Fail, Throw, Unlock, After, Exists, Idle, IInv, OneInitializes
<1>6. InitOnce'
  BY <1>1 DEF Fail, Throw, Unlock, Exists, IInv, InitOnce
<1>7. OrderUnique'
  BY <1>1 DEF Fail, Throw, Unlock, Exists, IInv, OrderUnique
<1>8. AnswersBacked'
  BY <1>1 DEF Fail, Throw, Unlock, Exists, IInv, AnswersBacked
<1> QED
  BY <1>1, <1>2, <1>3, <1>4, <1>5, <1>6, <1>7, <1>8 DEF IInv

-----------------------------------------------------------------------------
LEMMA StepHolds == IInv /\ [Next]_vars => IInv'
<1> SUFFICES ASSUME IInv, [Next]_vars PROVE IInv'
  OBVIOUS
<1>1. ASSUME NEW h \in Requests, NEW k \in Keys, NEW b \in Baskets, Begin(h, k, b)
      PROVE  IInv'
  BY <1>1, BeginKeeps
<1>2. ASSUME NEW h \in Requests,
             \/ Lookup(h) \/ Lock(h) \/ Prior(h) \/ Insert(h) \/ Commit(h)
             \/ Initialize(h) \/ BankAnswers(h) \/ StoreReady(h) \/ StoreUnknown(h)
             \/ Fail(h)
      PROVE  IInv'
  BY <1>2, LookupKeeps, LockKeeps, PriorKeeps, InsertKeeps, CommitKeeps, InitializeKeeps,
     BankAnswersKeeps, StoreReadyKeeps, StoreUnknownKeeps, FailKeeps
<1>3. CASE UNCHANGED vars
  BY <1>3 DEF vars, IInv, TypeOK, Op, WellFormed, LockHeld, Fresh, OneInitializes, InitOnce,
     OrderUnique, AnswersBacked, Exists, After
<1> QED
  BY <1>1, <1>2, <1>3 DEF Next

(* The advisory lock and the durable row keep every request within what it  *)
(* may rely on at each await.                                               *)
THEOREM AllocationInvariant == Spec => []IInv
  BY InitHolds, StepHolds, PTL DEF Spec

(* Every variable keeps its type. *)
THEOREM AllocationTypes == Spec => []TypeOK
<1>1. IInv => TypeOK
  BY DEF IInv
<1> QED
  BY <1>1, AllocationInvariant, PTL

(* InitPayment is sent once at most per key, and only for a durable row.    *)
THEOREM InitializedOnce == Spec => []InitOnce
<1>1. IInv => InitOnce
  BY DEF IInv
<1> QED
  BY <1>1, AllocationInvariant, PTL

(* No order number is given to two payments.                                *)
THEOREM OrdersDiffer == Spec => []OrderUnique
<1>1. IInv => OrderUnique
  BY DEF IInv
<1> QED
  BY <1>1, AllocationInvariant, PTL

(* A payment page is handed out for the basket sent and a payment the bank  *)
(* knows.                                                                   *)
THEOREM AnswersTruthful == Spec => []AnswersBacked
<1>1. IInv => AnswersBacked
  BY DEF IInv
<1> QED
  BY <1>1, AllocationInvariant, PTL

(* A row's identity and its READY or UNKNOWN verdict are never revised.     *)
THEOREM RowsNeverRevised == Spec => RowsFinal
<1> DEFINE Kept ==
      \A k \in Keys : Exists(k) =>
         /\ rows'[k].order = rows[k].order /\ rows'[k].basket = rows[k].basket
         /\ rows[k].init \in {"READY", "UNKNOWN"} => rows'[k].init = rows[k].init
<1>1. IInv /\ [Next]_vars => [Kept]_vars
  <2> SUFFICES ASSUME IInv, [Next]_vars PROVE Kept
    OBVIOUS
  <2>1. ASSUME NEW h \in Requests, Commit(h) PROVE Kept
    <3>1. ~Exists(op[h].key)
      BY <2>1 DEF IInv, LockHeld, Commit
    <3> QED
      BY <2>1, <3>1 DEF Commit, IInv, TypeOK, Op, Exists
  <2>2. ASSUME NEW h \in Requests, StoreReady(h) PROVE Kept
    <3>1. rows[op[h].key].init = "INITIALIZING"
      BY <2>2 DEF IInv, OneInitializes, StoreReady
    <3>2. rows' = rows \/ rows' = [rows EXCEPT ![op[h].key].init = "READY"]
      BY <2>2 DEF StoreReady, Ready
    <3> QED
      BY <3>1, <3>2 DEF IInv, TypeOK, Op, Row
  <2>3. ASSUME NEW h \in Requests, StoreUnknown(h) PROVE Kept
    BY <2>3 DEF StoreUnknown, IInv, TypeOK, Op, Row
  <2>4. ASSUME UNCHANGED rows PROVE Kept
    BY <2>4
  <2> QED
    BY <2>1, <2>2, <2>3, <2>4 DEF Next, vars, Begin, Lookup, Lock, Prior, Insert, Initialize,
       BankAnswers, Fail
<1> QED
  BY <1>1, AllocationInvariant, PTL DEF Spec, RowsFinal

-----------------------------------------------------------------------------
(* The account of the order numbers.                                        *)
Existing == {k \in Keys : Exists(k)}
Committing == {h \in Requests : op[h].pc = "commit"}

(* Inductive beside IInv: however large Keys and Requests are, only         *)
(* finitely many of them hold a number.                                     *)
Counted == IsFiniteSet(Existing) /\ IsFiniteSet(Committing) /\ NoneWasted

LEMMA Account ==
    /\ NoneWasted <=> sequence = Cardinality(Existing) + spoiled + Cardinality(Committing)
    /\ NoneWasted' <=> sequence' = Cardinality(Existing') + spoiled' + Cardinality(Committing')
  BY DEF NoneWasted, Existing, Committing

LEMMA CountTypes ==
    ASSUME IInv, Counted
    PROVE  /\ Cardinality(Existing) \in Nat /\ Cardinality(Committing) \in Nat
           /\ sequence \in Nat /\ spoiled \in Nat
  BY FS_CardinalityType, AllocationAssumption DEF Counted, IInv, TypeOK

(* Whoever neither has a number in hand nor takes one changes no count.     *)
LEMMA CountStays ==
    ASSUME IInv, Counted, NEW h \in Requests, UNCHANGED <<sequence, spoiled>>,
           op[h].pc # "commit", op'[h].pc # "commit",
           \A g \in Requests : g # h => op'[g] = op[g],
           \A k \in Keys : rows'[k].init = "none" <=> rows[k].init = "none"
    PROVE  Counted'
<1>1. Existing' = Existing /\ Committing' = Committing
  BY DEF Existing, Committing, Exists
<1> QED
  BY <1>1, Account DEF Counted

(* A number is taken from the sequence by a transaction ...                 *)
LEMMA InsertCounts ==
    ASSUME IInv, Counted, NEW h \in Requests, Insert(h)
    PROVE  Counted'
<1>1. op[h].pc = "insert" /\ UNCHANGED <<rows, spoiled>>
  BY DEF Insert
<1>2. CASE sequence = Capacity
  <2>1. op' = [op EXCEPT ![h] = Idle] /\ UNCHANGED sequence
    BY <1>2 DEF Insert, Throw
  <2>2. op'[h].pc # "commit" /\ \A g \in Requests : g # h => op'[g] = op[g]
    BY <2>1 DEF Idle, IInv, TypeOK
  <2> QED
    BY <1>1, <2>1, <2>2, CountStays
<1>3. CASE sequence # Capacity
  <2>1. sequence' = sequence + 1 /\ op' = [op EXCEPT ![h].pc = "commit", ![h].order = sequence + 1]
    BY <1>3 DEF Insert
  <2>2. op'[h].pc = "commit" /\ \A g \in Requests : g # h => op'[g] = op[g]
    BY <2>1 DEF IInv, TypeOK, Op
  <2>3. Existing' = Existing /\ Committing' = Committing \cup {h} /\ h \notin Committing
    BY <1>1, <2>2 DEF Existing, Committing, Exists
  <2>4. /\ IsFiniteSet(Committing \cup {h})
        /\ Cardinality(Committing \cup {h}) = Cardinality(Committing) + 1
    BY <2>3, FS_AddElement DEF Counted
  <2>5. sequence' = Cardinality(Existing') + spoiled' + Cardinality(Committing')
    BY <1>1, <2>1, <2>3, <2>4, Account, CountTypes DEF Counted
  <2> QED
    BY <2>3, <2>4, <2>5, Account DEF Counted
<1> QED
  BY <1>2, <1>3

(* ... goes over to the payment it creates ...                              *)
LEMMA CommitCounts ==
    ASSUME IInv, Counted, NEW h \in Requests, Commit(h)
    PROVE  Counted'
<1> DEFINE key == op[h].key
<1>1. op[h].pc = "commit" /\ ~Exists(key) /\ key \in Keys /\ UNCHANGED <<sequence, spoiled>>
  BY DEF Commit, IInv, LockHeld, WellFormed
<1>2. /\ rows' = [rows EXCEPT ![key] = [order |-> op[h].order, basket |-> op[h].basket,
                                        init |-> "INITIALIZING"]]
      /\ op' = [op EXCEPT ![h].pc = "initialize"]
  BY <1>1 DEF Commit, Goto
<1>3. op'[h].pc = "initialize" /\ \A g \in Requests : g # h => op'[g] = op[g]
  BY <1>2 DEF IInv, TypeOK, Op
<1>4. rows'[key].init = "INITIALIZING" /\ \A k \in Keys : k # key => rows'[k] = rows[k]
  BY <1>1, <1>2 DEF IInv, TypeOK
<1> HIDE DEF key
<1>5. Existing' = Existing \cup {key} /\ key \notin Existing
  BY <1>1, <1>4 DEF Existing, Exists
<1>6. Committing' = Committing \ {h} /\ h \in Committing
  BY <1>1, <1>3 DEF Committing
<1>7. IsFiniteSet(Existing') /\ Cardinality(Existing') = Cardinality(Existing) + 1
  BY <1>5, FS_AddElement DEF Counted
<1>8. IsFiniteSet(Committing') /\ Cardinality(Committing') = Cardinality(Committing) - 1
  BY <1>6, FS_RemoveElement DEF Counted
<1>9. sequence' = Cardinality(Existing') + spoiled' + Cardinality(Committing')
  BY <1>1, <1>7, <1>8, Account, CountTypes DEF Counted
<1> QED
  BY <1>7, <1>8, <1>9, Account DEF Counted

(* ... or dies with the transaction.                                        *)
LEMMA FailCounts ==
    ASSUME IInv, Counted, NEW h \in Requests, Fail(h)
    PROVE  Counted'
<1>1. /\ UNCHANGED <<rows, sequence>> /\ op' = [op EXCEPT ![h] = Idle]
      /\ spoiled' = spoiled + (IF op[h].pc = "commit" THEN 1 ELSE 0)
  BY DEF Fail, Throw
<1>2. op'[h].pc # "commit" /\ \A g \in Requests : g # h => op'[g] = op[g]
  BY <1>1 DEF Idle, IInv, TypeOK
<1>3. CASE op[h].pc # "commit"
  <2>1. spoiled' = spoiled
    BY <1>1, <1>3, CountTypes
  <2> QED
    BY <1>1, <1>2, <1>3, <2>1, CountStays
<1>4. CASE op[h].pc = "commit"
  <2>1. Existing' = Existing /\ Committing' = Committing \ {h} /\ h \in Committing
    BY <1>1, <1>2, <1>4 DEF Existing, Committing, Exists
  <2>2. IsFiniteSet(Committing') /\ Cardinality(Committing') = Cardinality(Committing) - 1
    BY <2>1, FS_RemoveElement DEF Counted
  <2>3. sequence' = Cardinality(Existing') + spoiled' + Cardinality(Committing')
    BY <1>1, <1>4, <2>1, <2>2, Account, CountTypes DEF Counted
  <2> QED
    BY <2>1, <2>2, <2>3, Account DEF Counted
<1> QED
  BY <1>3, <1>4

(* All other steps leave the counts alone.                                  *)
LEMMA OthersCount ==
    ASSUME IInv, Counted, NEW h \in Requests,
           \/ \E k \in Keys, b \in Baskets : Begin(h, k, b)
           \/ Lookup(h) \/ Lock(h) \/ Prior(h) \/ Initialize(h) \/ BankAnswers(h)
           \/ StoreReady(h) \/ StoreUnknown(h)
    PROVE  Counted'
<1>1. UNCHANGED <<sequence, spoiled>> /\ op[h].pc # "commit"
  BY DEF Begin, Lookup, Lock, Prior, Initialize, BankAnswers, StoreReady, StoreUnknown
<1>2. op'[h].pc # "commit" /\ \A g \in Requests : g # h => op'[g] = op[g]
  <2>1. CASE \E k \in Keys, b \in Baskets : Begin(h, k, b)
    BY <2>1 DEF Begin, IInv, TypeOK
  <2>2. CASE ~\E k \in Keys, b \in Baskets : Begin(h, k, b)
    <3>1. \/ op' = [op EXCEPT ![h] = Idle]
          \/ \E p \in {"begin", "prior", "insert", "bank", "unknown", "ready"} :
                op' = [op EXCEPT ![h].pc = p]
      BY <2>2 DEF Lookup, Lock, Prior, Initialize, BankAnswers, StoreReady, StoreUnknown,
         Replay, Return, Throw, Goto
    <3> QED
      BY <3>1 DEF Idle, IInv, TypeOK, Op
  <2> QED
    BY <2>1, <2>2
<1>3. \A k \in Keys : rows'[k].init = "none" <=> rows[k].init = "none"
  <2>1. CASE StoreReady(h)
    <3>1. op[h].key \in Keys /\ rows[op[h].key].init # "none"
      BY <2>1 DEF StoreReady, IInv, WellFormed, OneInitializes
    <3>2. rows' = rows \/ rows' = [rows EXCEPT ![op[h].key].init = "READY"]
      BY <2>1 DEF StoreReady, Ready
    <3> QED
      BY <3>1, <3>2 DEF IInv, TypeOK, Row
  <2>2. CASE StoreUnknown(h)
    <3>1. \/ rows' = rows
          \/ /\ rows[op[h].key].init = "INITIALIZING"
             /\ rows' = [rows EXCEPT ![op[h].key].init = "UNKNOWN"]
      BY <2>2 DEF StoreUnknown
    <3> QED
      BY <3>1 DEF IInv, TypeOK, Row
  <2>3. CASE UNCHANGED rows
    BY <2>3
  <2> QED
    BY <2>1, <2>2, <2>3 DEF Begin, Lookup, Lock, Prior, Initialize, BankAnswers
<1> QED
  BY <1>1, <1>2, <1>3, CountStays

(* However many requests race, an order number belongs to a payment, is in  *)
(* a transaction's hand, or died with one: the finite sequence is spent on  *)
(* nothing else.                                                            *)
THEOREM NumbersAccounted == Spec => []NoneWasted
<1>1. Init => Counted
  <2> SUFFICES ASSUME Init PROVE Counted
    OBVIOUS
  <2>1. Existing = {} /\ Committing = {} /\ sequence = 0 /\ spoiled = 0
    BY DEF Init, Existing, Committing, Exists, NoRow, Idle
  <2> QED
    BY <2>1, Account, FS_EmptySet DEF Counted
<1>2. IInv /\ Counted /\ [Next]_vars => Counted'
  <2> SUFFICES ASSUME IInv, Counted, [Next]_vars PROVE Counted'
    OBVIOUS
  <2>1. CASE UNCHANGED vars
    <3>1. Existing' = Existing /\ Committing' = Committing /\ UNCHANGED <<sequence, spoiled>>
      BY <2>1 DEF vars, Existing, Committing, Exists
    <3> QED
      BY <3>1, Account DEF Counted
  <2>2. CASE Next
    BY <2>2, InsertCounts, CommitCounts, FailCounts, OthersCount DEF Next
  <2> QED
    BY <2>1, <2>2
<1>3. Counted => NoneWasted
  BY DEF Counted
<1> QED
  BY <1>1, <1>2, <1>3, AllocationInvariant, PTL DEF Spec
=============================================================================
