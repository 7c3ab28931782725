------------------------ MODULE SandboxPayment_proofs ------------------------
(***************************************************************************)
(* The safety of a sandbox payment, for every number of concurrent         *)
(* requests, every clock bound and every length of the windows.            *)
(***************************************************************************)
EXTENDS SandboxPayment, TLAPS

LEMMA InitType == Init => TypeOK
<1> SUFFICES ASSUME Init PROVE TypeOK
  OBVIOUS
<1> USE DEF Init, Null, CreatedAt
<1>1. row \in [status : Status, nextCheck : Nat, cancelAt : Nat, cancelAck : BOOLEAN,
              refundAt : Nat, refundAck : BOOLEAN, refunded : BOOLEAN]
  BY DEF Status
<1>2. bank \in BankStates /\ captured \in BOOLEAN
  BY Zenon DEF BankStates
<1>3. now \in Nat \ {0}
  OBVIOUS
<1>4. /\ call \in [Kinds -> {"none", "sent", "accepted", "refused"}]
      /\ submitted \in [Kinds -> Nat]
  OBVIOUS
<1>5. NoRow \in Local
  BY DEF NoRow, Local, Status
<1>6. /\ op \in [Requests -> Ops \cup {"none"}]
      /\ pc \in [Requests -> Steps]
      /\ seen \in [Requests -> Local]
      /\ token \in [Requests -> Nat]
      /\ verdict \in [Requests -> Status]
  BY <1>5 DEF Steps, Status
<1> QED
  BY <1>1, <1>2, <1>3, <1>4, <1>6 DEF TypeOK

(* Return and Goto keep the request's own variables well typed. *)
LEMMA LocalsType ==
  ASSUME TypeOK, NEW h \in Requests, NEW p \in Steps, Return(h) \/ Goto(h, p)
  PROVE  /\ op' \in [Requests -> Ops \cup {"none"}]
         /\ pc' \in [Requests -> Steps]
         /\ seen' \in [Requests -> Local]
         /\ token' \in [Requests -> Nat]
         /\ verdict' \in [Requests -> Status]
<1>1. NoRow \in Local
  BY DEF NoRow, Local, Status, Null
<1>2. CASE Return(h)
  BY <1>1, <1>2 DEF TypeOK, Return, Status, Steps, Null
<1>3. CASE Goto(h, p)
  BY <1>3 DEF TypeOK, Goto
<1> QED
  BY <1>2, <1>3

(* A request that starts keeps them well typed, and nothing else moves. *)
LEMMA BeginType ==
  ASSUME TypeOK, NEW h \in Requests, NEW o \in Ops, NEW p \in Steps, NEW t \in Nat,
         Begin(h, o, p, t)
  PROVE  TypeOK'
<1>1. [status |-> row.status, cancelAt |-> row.cancelAt] \in Local
  BY DEF TypeOK, Local
<1> QED
  BY <1>1 DEF Begin, TypeOK, world

LEMMA CheckoutType ==
  ASSUME NEW d PROVE CheckoutStatus(d) \in Status
  BY DEF CheckoutStatus, Status

LEMMA NextType == TypeOK /\ [Next]_vars => TypeOK'
<1> SUFFICES ASSUME TypeOK, [Next]_vars PROVE TypeOK'
  OBVIOUS
<1> USE ConstantsAssumption
<1>1. ASSUME NEW h \in Requests, Reads(h) PROVE TypeOK'
  <2>1. /\ now + RecheckDelay \in Nat /\ Null \in Nat
        /\ row.cancelAt \in Nat /\ row.refundAt \in Nat
    BY DEF TypeOK, Null
  <2>2. \E o \in Ops, p \in Steps, t \in Nat : Begin(h, o, p, t)
    BY <1>1, <2>1 DEF Reads, PollRead, CancelRead, RefundRead, AdminCancelRead, RecheckRead,
       Ops, Steps
  <2> QED
    BY <2>2, BeginType
<1>2. ASSUME NEW h \in Requests, Continues(h) PROVE TypeOK'
  <2>1. CASE PollClaim(h)
    BY <2>1, LocalsType DEF PollClaim, TypeOK, world, Steps
  <2>2. CASE PollDetails(h)
    BY <2>2, LocalsType, CheckoutType DEF PollDetails, PolledStatus, TypeOK, world, Steps, Status
  <2>3. CASE PollWrite(h)
    BY <2>3, LocalsType DEF PollWrite, TypeOK, world, Steps
  <2>4. CASE MutationDetails(h)
    BY <2>4, LocalsType DEF MutationDetails, TypeOK, world, Steps
  <2>5. CASE CancelClaim(h)
    BY <2>5, LocalsType DEF CancelClaim, TypeOK, world, Steps
  <2>6. CASE RefundClaim(h)
    BY <2>6, LocalsType DEF RefundClaim, TypeOK, world, Steps
  <2>7. CASE HistoricalRefund(h)
    BY <2>7, LocalsType DEF HistoricalRefund, TypeOK, world, Steps
  <2>8. CASE Submit(h)
    BY <2>8, LocalsType DEF Submit, KindOf, Kinds, TypeOK, world, Steps
  <2>9. CASE Acknowledged(h)
    BY <2>9, LocalsType DEF Acknowledged, TypeOK, world, Steps
  <2>10. CASE RecordAck(h)
    BY <2>10, LocalsType DEF RecordAck, TypeOK, world, Steps
  <2>11. CASE ReadBack(h)
    BY <2>11, LocalsType DEF ReadBack, TypeOK, world, Steps
  <2>12. CASE BrowserCancelWrite(h)
    BY <2>12, LocalsType DEF BrowserCancelWrite, TypeOK, world, Steps, Status
  <2>13. CASE AdminCancelWrite(h)
    BY <2>13, LocalsType DEF AdminCancelWrite, TypeOK, world, Steps, Status
  <2>14. CASE RefundWrite(h)
    BY <2>14, LocalsType DEF RefundWrite, TypeOK, world, Steps
  <2> QED
    BY <1>2, <2>1, <2>2, <2>3, <2>4, <2>5, <2>6, <2>7, <2>8, <2>9, <2>10, <2>11, <2>12,
       <2>13, <2>14 DEF Continues
<1>3. ASSUME NEW h \in Requests, Fail(h) PROVE TypeOK'
  BY <1>3, LocalsType DEF Fail, TypeOK, world, Steps
<1>4. ASSUME NEW k \in Kinds, BankAccepts(k) \/ BankRefuses(k) PROVE TypeOK'
  BY <1>4 DEF BankAccepts, BankRefuses, TypeOK, locals, BankStates
<1>5. CASE BankMoves
  BY <1>5 DEF BankMoves, TypeOK, locals, BankStates
<1>6. CASE Tick
  BY <1>6 DEF Tick, TypeOK, world, locals
<1>7. CASE UNCHANGED vars
  BY <1>7 DEF vars, TypeOK
<1> QED
  BY <1>1, <1>2, <1>3, <1>4, <1>5, <1>6, <1>7 DEF Next

(* The columns, the bank, the clock and every request stay in their types   *)
(* through every step of the two services, the bank and the clock.          *)
THEOREM TypeCorrect == Spec => []TypeOK
  BY InitType, NextType, PTL DEF Spec

-----------------------------------------------------------------------------
(* One lemma per action: every step keeps the inductive invariant.         *)

(* A request that has just read the row relies on nothing yet. *)
LEMMA BeginKeeps ==
  ASSUME IInv, NEW h \in Requests, NEW o \in Ops, NEW p \in Steps, NEW t \in Nat,
         pc[h] = "idle", Begin(h, o, p, t), TypeOK',
         IF o = "poll" THEN p = "claim" ELSE p \in {"details", "readBack"},
         p # "details" => t # Null,
         o \in {"cancel", "adminCancel"} => row.status \in {"PENDING", "SUCCEEDED"}
  PROVE  IInv'
<1> USE DEF Null
<1>1. OneAttempt' /\ RefundFences' /\ SubmittedAsRecorded' /\ StatusBacked'
      /\ RefundBacked' /\ EvidenceSound'
  BY DEF IInv, Begin, world, OneAttempt, RefundFences, SubmittedAsRecorded, AttemptAt,
     StatusBacked, RefundBacked, EvidenceSound
<1>2. Track' /\ HoldsAttempt'
  BY DEF IInv, TypeOK, Begin, Track, HoldsAttempt, Ops, CancelOps, RefundOps
<1>3. SendOnce' /\ CallsFollow' /\ WritesBacked'
  BY DEF IInv, TypeOK, Begin, world, SendOnce, AttemptAt, KindOf, CallsFollow, WritesBacked,
     CancelOps, RefundOps
<1>4. LeaseBounded' /\ LeaseUnique'
  BY DEF IInv, TypeOK, Begin, LeaseBounded, LeaseUnique, Verifying
<1>5. CancelCandidates'
  BY DEF IInv, TypeOK, Begin, CancelCandidates
<1> QED
  BY <1>1, <1>2, <1>3, <1>4, <1>5 DEF IInv

LEMMA ReadsKeep ==
  ASSUME IInv, NEW h \in Requests, Reads(h), TypeOK'
  PROVE  IInv'
<1> USE DEF Null
<1>1. /\ now + RecheckDelay \in Nat \ {0}
      /\ row.cancelAt \in Nat /\ row.refundAt \in Nat
  BY ConstantsAssumption DEF IInv, TypeOK
<1>2. \E o \in Ops, p \in Steps, t \in Nat :
        /\ pc[h] = "idle" /\ Begin(h, o, p, t)
        /\ IF o = "poll" THEN p = "claim" ELSE p \in {"details", "readBack"}
        /\ p # "details" => t # Null
        /\ o \in {"cancel", "adminCancel"} => row.status \in {"PENDING", "SUCCEEDED"}
  BY <1>1 DEF Reads, PollRead, CancelRead, RefundRead, AdminCancelRead, RecheckRead,
     IsCancellationCandidate, Ops, Steps
<1> QED
  BY <1>2, BeginKeeps

(* get leases the row, or gives up. *)
LEMMA PollClaimKeeps ==
  ASSUME IInv, NEW h \in Requests, PollClaim(h), TypeOK'
  PROVE  IInv'
<1> USE DEF Null
<1>1. Track'
  BY DEF IInv, PollClaim, Return, Goto, world, Track, CancelOps, RefundOps, TypeOK
<1>2. HoldsAttempt'
  BY DEF IInv, PollClaim, Return, Goto, world, HoldsAttempt, TypeOK, NoRow, Track
<1>3. OneAttempt'
  BY DEF IInv, PollClaim, Return, Goto, world, OneAttempt, TypeOK, HoldsAttempt
<1>4. RefundFences'
  BY DEF IInv, PollClaim, Return, Goto, world, RefundFences, TypeOK, HoldsAttempt,
     RefundBacked
<1>5. SendOnce'
  BY DEF IInv, PollClaim, Return, Goto, world, SendOnce, AttemptAt, KindOf, TypeOK,
     SubmittedAsRecorded, Track, OneAttempt, HoldsAttempt, Kinds
<1>6. SubmittedAsRecorded'
  BY DEF IInv, PollClaim, Return, Goto, world, SubmittedAsRecorded, AttemptAt, TypeOK,
     SendOnce, KindOf, HoldsAttempt, Kinds
<1>7. CallsFollow'
  BY DEF IInv, PollClaim, Return, Goto, world, CallsFollow, KindOf, TypeOK, Kinds,
     SendOnce, Track
<1>8. WritesBacked'
  BY DEF IInv, PollClaim, Return, Goto, world, WritesBacked, CancelOps, RefundOps, TypeOK,
     Track, CallsFollow
<1>9. StatusBacked'
  BY DEF IInv, PollClaim, Return, Goto, world, StatusBacked, TypeOK, WritesBacked,
     CancelOps, RefundOps
<1>10. RefundBacked'
  BY DEF IInv, PollClaim, Return, Goto, world, RefundBacked, TypeOK, WritesBacked,
     RefundFences, HoldsAttempt, CancelOps, RefundOps
<1>11. EvidenceSound'
  BY DEF IInv, PollClaim, Return, Goto, world, EvidenceSound, TypeOK, CallsFollow,
     SendOnce, KindOf, Kinds
<1>12. LeaseBounded'
  BY ConstantsAssumption DEF IInv, PollClaim, Return, Goto, world, LeaseBounded,
     Verifying, TypeOK, HoldsAttempt
<1>13. LeaseUnique'
  BY ConstantsAssumption DEF IInv, PollClaim, Return, Goto, world, LeaseUnique, Verifying,
     TypeOK, LeaseBounded, HoldsAttempt
<1>14. CancelCandidates'
  BY DEF IInv, PollClaim, Return, Goto, world, CancelCandidates, TypeOK, WritesBacked,
     HoldsAttempt, NoRow, CancelOps
<1> QED
  BY <1>1, <1>2, <1>3, <1>4, <1>5, <1>6, <1>7, <1>8, <1>9, <1>10, <1>11, <1>12, <1>13,
     <1>14 DEF IInv

(* get hears from the bank. *)
LEMMA PollDetailsKeeps ==
  ASSUME IInv, NEW h \in Requests, PollDetails(h), TypeOK'
  PROVE  IInv'
<1> USE DEF Null
<1>1. OneAttempt' /\ RefundFences' /\ SubmittedAsRecorded' /\ StatusBacked' /\ RefundBacked' /\ EvidenceSound'
  BY DEF IInv, PollDetails, Return, world, OneAttempt, RefundFences, SubmittedAsRecorded,
     AttemptAt, StatusBacked, RefundBacked, EvidenceSound
<1>2. Track'
  BY DEF IInv, PollDetails, Return, world, Track, CancelOps, RefundOps, TypeOK
<1>3. HoldsAttempt'
  BY DEF IInv, PollDetails, Return, world, HoldsAttempt, TypeOK, NoRow, Track
<1>4. SendOnce'
  BY DEF IInv, PollDetails, Return, world, SendOnce, AttemptAt, KindOf, TypeOK,
     SubmittedAsRecorded, Track, OneAttempt, HoldsAttempt, Kinds
<1>5. CallsFollow'
  BY DEF IInv, PollDetails, Return, world, CallsFollow, KindOf, TypeOK, Kinds, SendOnce,
     Track
<1>6. WritesBacked'
  BY DEF IInv, PollDetails, Return, world, WritesBacked, CancelOps, RefundOps, TypeOK,
     Track, CallsFollow, PolledStatus, CheckoutStatus, ConfirmsCancellation, Reported,
     BankStates, Details, Started, Approved, Deposited, VoidAuthorization, VoidCapture,
     Refunded, Declined, Unverifiable
<1>7. LeaseBounded'
  BY DEF IInv, PollDetails, Return, world, LeaseBounded, Verifying, TypeOK, HoldsAttempt
<1>8. LeaseUnique'
  BY DEF IInv, PollDetails, Return, world, LeaseUnique, Verifying, TypeOK, LeaseBounded,
     HoldsAttempt
<1>9. CancelCandidates'
  BY DEF IInv, PollDetails, Return, world, CancelCandidates, TypeOK, WritesBacked,
     HoldsAttempt, NoRow, CancelOps
<1> QED
  BY <1>1, <1>2, <1>3, <1>4, <1>5, <1>6, <1>7, <1>8, <1>9 DEF IInv

(* get stores the bank's answer. *)
LEMMA PollWriteKeeps ==
  ASSUME IInv, NEW h \in Requests, PollWrite(h), TypeOK'
  PROVE  IInv'
<1> USE DEF Null
<1>1. OneAttempt' /\ RefundFences' /\ SubmittedAsRecorded' /\ RefundBacked' /\ EvidenceSound'
  BY DEF IInv, PollWrite, Return, world, OneAttempt, RefundFences, SubmittedAsRecorded,
     AttemptAt, RefundBacked, EvidenceSound
<1>2. SendOnce'
  BY DEF IInv, PollWrite, Return, world, SendOnce, AttemptAt, KindOf
<1>3. CallsFollow'
  BY DEF IInv, PollWrite, Return, world, CallsFollow, KindOf
<1>4. Track'
  BY DEF IInv, PollWrite, Return, world, Track, CancelOps, RefundOps, TypeOK
<1>5. HoldsAttempt'
  BY DEF IInv, PollWrite, Return, world, HoldsAttempt, TypeOK, NoRow, Track
<1>6. WritesBacked'
  BY DEF IInv, PollWrite, Return, world, WritesBacked, CancelOps, RefundOps, TypeOK,
     Track, CallsFollow
<1>7. StatusBacked'
  BY DEF IInv, PollWrite, Return, world, StatusBacked, TypeOK, WritesBacked, CancelOps,
     RefundOps
<1>8. LeaseBounded'
  BY DEF IInv, PollWrite, Return, world, LeaseBounded, Verifying, TypeOK, HoldsAttempt
<1>9. LeaseUnique'
  BY DEF IInv, PollWrite, Return, world, LeaseUnique, Verifying, TypeOK, LeaseBounded,
     HoldsAttempt
<1>10. CancelCandidates'
  BY DEF IInv, PollWrite, Return, world, CancelCandidates, TypeOK, WritesBacked,
     HoldsAttempt, NoRow, CancelOps
<1> QED
  BY <1>1, <1>2, <1>3, <1>4, <1>5, <1>6, <1>7, <1>8, <1>9, <1>10 DEF IInv

(* A mutation checks the bank's state before it is recorded. *)
LEMMA MutationDetailsKeeps ==
  ASSUME IInv, NEW h \in Requests, MutationDetails(h), TypeOK'
  PROVE  IInv'
<1> USE DEF Null
<1>1. OneAttempt' /\ RefundFences' /\ SubmittedAsRecorded' /\ StatusBacked' /\ RefundBacked' /\ EvidenceSound'
  BY DEF IInv, MutationDetails, Return, Goto, world, OneAttempt, RefundFences,
     SubmittedAsRecorded, AttemptAt, StatusBacked, RefundBacked, EvidenceSound
<1>2. Track'
  BY DEF IInv, MutationDetails, Return, Goto, world, Track, CancelOps, RefundOps, TypeOK
<1>3. HoldsAttempt'
  BY DEF IInv, MutationDetails, Return, Goto, world, HoldsAttempt, TypeOK, NoRow, Track
<1>4. SendOnce'
  BY DEF IInv, MutationDetails, Return, Goto, world, SendOnce, AttemptAt, KindOf, TypeOK,
     SubmittedAsRecorded, Track, OneAttempt, HoldsAttempt, Kinds
<1>5. CallsFollow'
  BY DEF IInv, MutationDetails, Return, Goto, world, CallsFollow, KindOf, TypeOK, Kinds,
     SendOnce, Track
<1>6. WritesBacked'
  BY DEF IInv, MutationDetails, Return, Goto, world, WritesBacked, CancelOps, RefundOps,
     TypeOK, Track, CallsFollow, Eligible, Reported, IsFullBankRefund, IsRefundable,
     BankStates, Details, Started, Approved, Deposited, VoidAuthorization, VoidCapture,
     Refunded, Declined, Unverifiable
<1>7. LeaseBounded'
  BY DEF IInv, MutationDetails, Return, Goto, world, LeaseBounded, Verifying, TypeOK,
     HoldsAttempt
<1>8. LeaseUnique'
  BY DEF IInv, MutationDetails, Return, Goto, world, LeaseUnique, Verifying, TypeOK,
     LeaseBounded, HoldsAttempt
<1>9. CancelCandidates'
  BY DEF IInv, MutationDetails, Return, Goto, world, CancelCandidates, TypeOK,
     WritesBacked, HoldsAttempt, NoRow, CancelOps
<1> QED
  BY <1>1, <1>2, <1>3, <1>4, <1>5, <1>6, <1>7, <1>8, <1>9 DEF IInv

(* A cancellation is recorded: nobody else is about to send. *)
LEMMA CancelClaimKeeps ==
  ASSUME IInv, NEW h \in Requests, CancelClaim(h), TypeOK'
  PROVE  IInv'
<1> USE DEF Null
<1>1. Track'
  BY DEF IInv, CancelClaim, Return, Goto, world, Track, CancelOps, RefundOps, TypeOK
<1>2. HoldsAttempt'
  BY DEF IInv, CancelClaim, Return, Goto, world, HoldsAttempt, TypeOK, NoRow, Track,
     CancelUnclaimed
<1>3. OneAttempt'
  BY DEF IInv, CancelClaim, Return, Goto, world, OneAttempt, TypeOK, HoldsAttempt,
     CancelUnclaimed
<1>4. RefundFences'
  BY DEF IInv, CancelClaim, Return, Goto, world, RefundFences, TypeOK, HoldsAttempt,
     RefundBacked, CancelUnclaimed
<1>5. SendOnce'
  <2>1. CASE ~CancelUnclaimed(h)
    <3> QED
      BY <2>1 DEF IInv, CancelClaim, Return, world, SendOnce, AttemptAt, KindOf, TypeOK
  <2>2. CASE CancelUnclaimed(h)
    <3>1. \A g \in Requests : pc[g] # "send"
      BY <2>2 DEF CancelUnclaimed, IInv, SendOnce, AttemptAt
    <3>2. submitted["cancel"] = 0
      BY <2>2 DEF CancelUnclaimed, IInv, SubmittedAsRecorded, AttemptAt, Kinds, TypeOK
    <3>3. row'.cancelAt # Null
      BY <2>2 DEF CancelClaim, IInv, HoldsAttempt, TypeOK
    <3>4. KindOf(op[h]) = "cancel"
      BY DEF CancelClaim, KindOf
    <3>5. \A g \in Requests : pc'[g] = "send" => g = h
      BY <2>2, <3>1 DEF CancelClaim, Goto, IInv, TypeOK
    <3> QED
      BY <2>2, <3>2, <3>3, <3>4, <3>5 DEF CancelClaim, Goto, world, SendOnce, AttemptAt
  <2> QED
    BY <2>1, <2>2 DEF CancelClaim
<1>6. SubmittedAsRecorded'
  BY DEF IInv, CancelClaim, Return, Goto, world, SubmittedAsRecorded, AttemptAt, TypeOK,
     SendOnce, KindOf, HoldsAttempt, Kinds, CancelUnclaimed
<1>7. CallsFollow'
  BY DEF IInv, CancelClaim, Return, Goto, world, CallsFollow, KindOf, TypeOK, Kinds,
     SendOnce, Track
<1>8. WritesBacked'
  BY DEF IInv, CancelClaim, Return, Goto, world, WritesBacked, CancelOps, RefundOps,
     TypeOK, Track, CallsFollow
<1>9. StatusBacked'
  BY DEF IInv, CancelClaim, Return, Goto, world, StatusBacked, TypeOK, WritesBacked,
     CancelOps, RefundOps
<1>10. RefundBacked'
  BY DEF IInv, CancelClaim, Return, Goto, world, RefundBacked, TypeOK, WritesBacked,
     RefundFences, HoldsAttempt, CancelOps, RefundOps, CancelUnclaimed, BankStates,
     Details, Started, Approved, Deposited, VoidAuthorization, VoidCapture, Refunded,
     Declined, Unverifiable
<1>11. EvidenceSound'
  BY DEF IInv, CancelClaim, Return, Goto, world, EvidenceSound, TypeOK, CallsFollow,
     SendOnce, KindOf, Kinds
<1>12. LeaseBounded'
  <2>1. CASE ~CancelUnclaimed(h)
    BY <2>1 DEF IInv, CancelClaim, Return, Goto, LeaseBounded, Verifying, TypeOK
  <2>2. CASE CancelUnclaimed(h)
    <3>1. row'.cancelAt # Null /\ UNCHANGED seen
      BY <2>2 DEF CancelClaim, Goto, IInv, HoldsAttempt, TypeOK
    <3>2. \A g \in Requests : seen[g].cancelAt = Null
      BY <2>2 DEF CancelUnclaimed, IInv, HoldsAttempt
    <3> QED
      BY <3>1, <3>2 DEF LeaseBounded
  <2> QED
    BY <2>1, <2>2 DEF CancelClaim
<1>13. LeaseUnique'
  BY DEF IInv, CancelClaim, Return, Goto, world, LeaseUnique, Verifying, TypeOK,
     LeaseBounded, HoldsAttempt
<1>14. CancelCandidates'
  <2>1. CASE ~CancelUnclaimed(h)
    BY <2>1 DEF IInv, CancelClaim, Return, CancelCandidates, TypeOK
  <2>2. CASE CancelUnclaimed(h)
    <3>1. row'.status \in {"PENDING", "SUCCEEDED"}
      BY <2>2 DEF IInv, TypeOK, CancelClaim, CancelUnclaimed, CancelCandidates
    <3> QED
      BY <2>2, <3>1 DEF IInv, CancelClaim, Goto, CancelCandidates
  <2> QED
    BY <2>1, <2>2
<1> QED
  BY <1>1, <1>2, <1>3, <1>4, <1>5, <1>6, <1>7, <1>8, <1>9, <1>10, <1>11, <1>12, <1>13, <1>14 DEF IInv

(* A refund is recorded: nobody else is about to send. *)
LEMMA RefundClaimKeeps ==
  ASSUME IInv, NEW h \in Requests, RefundClaim(h), TypeOK'
  PROVE  IInv'
<1> USE DEF Null
<1>1. Track'
  BY DEF IInv, RefundClaim, Return, Goto, world, Track, CancelOps, RefundOps, TypeOK
<1>2. HoldsAttempt'
  BY DEF IInv, RefundClaim, Return, Goto, world, HoldsAttempt, TypeOK, NoRow, Track
<1>3. OneAttempt'
  BY DEF IInv, RefundClaim, Return, Goto, world, OneAttempt, TypeOK, HoldsAttempt,
     RefundUnclaimed
<1>4. RefundFences'
  BY DEF IInv, RefundClaim, Return, Goto, world, RefundFences, TypeOK, HoldsAttempt,
     RefundBacked, RefundUnclaimed
<1>5. SendOnce'
  BY DEF IInv, RefundClaim, Return, Goto, world, SendOnce, AttemptAt, KindOf, TypeOK,
     SubmittedAsRecorded, Track, OneAttempt, HoldsAttempt, Kinds, RefundUnclaimed
<1>6. SubmittedAsRecorded'
  BY DEF IInv, RefundClaim, Return, Goto, world, SubmittedAsRecorded, AttemptAt, TypeOK,
     SendOnce, KindOf, HoldsAttempt, Kinds
<1>7. CallsFollow'
  BY DEF IInv, RefundClaim, Return, Goto, world, CallsFollow, KindOf, TypeOK, Kinds,
     SendOnce, Track
<1>8. WritesBacked'
  BY DEF IInv, RefundClaim, Return, Goto, world, WritesBacked, CancelOps, RefundOps,
     TypeOK, Track, CallsFollow
<1>9. StatusBacked'
  BY DEF IInv, RefundClaim, Return, Goto, world, StatusBacked, TypeOK, WritesBacked,
     CancelOps, RefundOps
<1>10. RefundBacked'
  BY DEF IInv, RefundClaim, Return, Goto, world, RefundBacked, TypeOK, WritesBacked,
     RefundFences, HoldsAttempt, CancelOps, RefundOps
<1>11. EvidenceSound'
  BY DEF IInv, RefundClaim, Return, Goto, world, EvidenceSound, TypeOK, CallsFollow,
     SendOnce, KindOf, Kinds
<1>12. LeaseBounded'
  BY DEF IInv, RefundClaim, Return, Goto, world, LeaseBounded, Verifying, TypeOK,
     HoldsAttempt
<1>13. LeaseUnique'
  BY DEF IInv, RefundClaim, Return, Goto, world, LeaseUnique, Verifying, TypeOK,
     LeaseBounded, HoldsAttempt
<1>14. CancelCandidates'
  BY DEF IInv, RefundClaim, Return, Goto, world, CancelCandidates, TypeOK, WritesBacked,
     HoldsAttempt, NoRow, CancelOps
<1> QED
  BY <1>1, <1>2, <1>3, <1>4, <1>5, <1>6, <1>7, <1>8, <1>9, <1>10, <1>11, <1>12, <1>13,
     <1>14 DEF IInv

(* A refund made elsewhere is stored. *)
LEMMA HistoricalRefundKeeps ==
  ASSUME IInv, NEW h \in Requests, HistoricalRefund(h), TypeOK'
  PROVE  IInv'
<1> USE DEF Null
<1>1. OneAttempt' /\ RefundFences' /\ SubmittedAsRecorded' /\ StatusBacked' /\ EvidenceSound'
  BY DEF IInv, HistoricalRefund, Return, world, OneAttempt, RefundFences,
     SubmittedAsRecorded, AttemptAt, StatusBacked, EvidenceSound
<1>2. SendOnce'
  BY DEF IInv, HistoricalRefund, Return, world, SendOnce, AttemptAt, KindOf
<1>3. CallsFollow' /\ WritesBacked' /\ LeaseBounded' /\ LeaseUnique'
  BY DEF IInv, HistoricalRefund, Return, world, CallsFollow, KindOf, WritesBacked,
     CancelOps, RefundOps, LeaseBounded, Verifying, LeaseUnique
<1>4. Track'
  BY DEF IInv, HistoricalRefund, Return, world, Track, CancelOps, RefundOps, TypeOK
<1>5. HoldsAttempt'
  BY DEF IInv, HistoricalRefund, Return, world, HoldsAttempt, TypeOK, NoRow, Track
<1>6. RefundBacked'
  BY DEF IInv, HistoricalRefund, Return, world, RefundBacked, TypeOK, WritesBacked,
     RefundFences, HoldsAttempt, CancelOps, RefundOps, RefundUnclaimed, BankStates,
     Details, Started, Approved, Deposited, VoidAuthorization, VoidCapture, Refunded,
     Declined, Unverifiable
<1>7. CancelCandidates'
  BY DEF IInv, HistoricalRefund, Return, world, CancelCandidates
<1> QED
  BY <1>1, <1>2, <1>3, <1>4, <1>5, <1>6, <1>7 DEF IInv

(* The mutation goes out, for the first time. *)
LEMMA SubmitKeeps ==
  ASSUME IInv, NEW h \in Requests, Submit(h), TypeOK'
  PROVE  IInv'
<1> USE DEF Null
<1>1. OneAttempt' /\ RefundFences' /\ StatusBacked' /\ RefundBacked'
  BY DEF IInv, Submit, Goto, OneAttempt, RefundFences, StatusBacked, RefundBacked
<1>2. Track' /\ HoldsAttempt'
  BY DEF IInv, Submit, Goto, Track, CancelOps, RefundOps, HoldsAttempt
<1>3. WritesBacked' /\ LeaseBounded' /\ LeaseUnique'
  BY DEF IInv, Submit, Goto, WritesBacked, CancelOps, RefundOps, LeaseBounded, Verifying,
     LeaseUnique
<1>4. SendOnce'
  BY DEF IInv, Submit, Goto, SendOnce, AttemptAt, KindOf, TypeOK, SubmittedAsRecorded,
     Track, OneAttempt, HoldsAttempt, Kinds
<1>5. SubmittedAsRecorded'
  BY DEF IInv, Submit, Goto, SubmittedAsRecorded, AttemptAt, TypeOK, SendOnce, KindOf,
     HoldsAttempt, Kinds
<1>6. CallsFollow'
  BY DEF IInv, Submit, Goto, CallsFollow, KindOf, TypeOK, Kinds, SendOnce, Track
<1>7. EvidenceSound'
  BY DEF IInv, Submit, Goto, EvidenceSound, TypeOK, CallsFollow, SendOnce, KindOf, Kinds
<1>8. CancelCandidates'
  BY DEF IInv, Submit, Goto, CancelCandidates
<1> QED
  BY <1>1, <1>2, <1>3, <1>4, <1>5, <1>6, <1>7, <1>8 DEF IInv

(* The bank answered 00. *)
LEMMA AcknowledgedKeeps ==
  ASSUME IInv, NEW h \in Requests, Acknowledged(h), TypeOK'
  PROVE  IInv'
<1> USE DEF Null
<1>1. OneAttempt' /\ RefundFences' /\ SubmittedAsRecorded' /\ StatusBacked' /\ RefundBacked' /\ EvidenceSound'
  BY DEF IInv, Acknowledged, Goto, world, OneAttempt, RefundFences, SubmittedAsRecorded,
     AttemptAt, StatusBacked, RefundBacked, EvidenceSound
<1>2. Track' /\ HoldsAttempt' /\ SendOnce'
  BY DEF IInv, Acknowledged, Goto, world, Track, CancelOps, RefundOps, HoldsAttempt,
     SendOnce, AttemptAt, KindOf
<1>3. CallsFollow' /\ WritesBacked' /\ LeaseBounded' /\ LeaseUnique'
  BY DEF IInv, Acknowledged, Goto, world, CallsFollow, KindOf, WritesBacked, CancelOps,
     RefundOps, LeaseBounded, Verifying, LeaseUnique
<1>4. CancelCandidates'
  BY DEF IInv, Acknowledged, Goto, world, CancelCandidates
<1> QED
  BY <1>1, <1>2, <1>3, <1>4 DEF IInv

(* The acknowledgement is stored. *)
LEMMA RecordAckKeeps ==
  ASSUME IInv, NEW h \in Requests, RecordAck(h), TypeOK'
  PROVE  IInv'
<1> USE DEF Null
<1>1. OneAttempt' /\ RefundFences' /\ SubmittedAsRecorded' /\ StatusBacked' /\ RefundBacked'
  BY DEF IInv, RecordAck, Goto, world, OneAttempt, RefundFences, SubmittedAsRecorded,
     AttemptAt, StatusBacked, RefundBacked
<1>2. Track' /\ HoldsAttempt' /\ SendOnce'
  BY DEF IInv, RecordAck, Goto, world, Track, CancelOps, RefundOps, HoldsAttempt,
     SendOnce, AttemptAt, KindOf
<1>3. CallsFollow' /\ WritesBacked' /\ LeaseBounded' /\ LeaseUnique'
  BY DEF IInv, RecordAck, Goto, world, CallsFollow, KindOf, WritesBacked, CancelOps,
     RefundOps, LeaseBounded, Verifying, LeaseUnique
<1>4. EvidenceSound'
  BY DEF IInv, RecordAck, Goto, world, EvidenceSound, TypeOK, CallsFollow, SendOnce,
     KindOf, Kinds
<1>5. CancelCandidates'
  BY DEF IInv, RecordAck, Goto, world, CancelCandidates
<1> QED
  BY <1>1, <1>2, <1>3, <1>4, <1>5 DEF IInv

(* The bank is asked for the result. *)
LEMMA ReadBackKeeps ==
  ASSUME IInv, NEW h \in Requests, ReadBack(h), TypeOK'
  PROVE  IInv'
<1> USE DEF Null
<1>1. OneAttempt' /\ RefundFences' /\ SubmittedAsRecorded' /\ StatusBacked' /\ RefundBacked' /\ EvidenceSound'
  BY DEF IInv, ReadBack, Return, Goto, world, OneAttempt, RefundFences,
     SubmittedAsRecorded, AttemptAt, StatusBacked, RefundBacked, EvidenceSound
<1>2. Track'
  BY DEF IInv, ReadBack, Return, Goto, world, Track, CancelOps, RefundOps, TypeOK
<1>3. HoldsAttempt'
  BY DEF IInv, ReadBack, Return, Goto, world, HoldsAttempt, TypeOK, NoRow, Track
<1>4. SendOnce'
  BY DEF IInv, ReadBack, Return, Goto, world, SendOnce, AttemptAt, KindOf, TypeOK,
     SubmittedAsRecorded, Track, OneAttempt, HoldsAttempt, Kinds
<1>5. CallsFollow'
  BY DEF IInv, ReadBack, Return, Goto, world, CallsFollow, KindOf, TypeOK, Kinds,
     SendOnce, Track
<1>6. WritesBacked'
  BY DEF IInv, ReadBack, Return, Goto, world, WritesBacked, CancelOps, RefundOps, TypeOK,
     Track, CallsFollow, Confirmed, Reported, ConfirmsCancellation, IsBankCancellation,
     IsFullBankRefund, BankStates, Details, Started, Approved, Deposited,
     VoidAuthorization, VoidCapture, Refunded, Declined, Unverifiable
<1>7. LeaseBounded'
  BY DEF IInv, ReadBack, Return, Goto, world, LeaseBounded, Verifying, TypeOK,
     HoldsAttempt, Confirmed, Reported, ConfirmsCancellation, IsBankCancellation,
     IsFullBankRefund
<1>8. LeaseUnique'
  BY DEF IInv, ReadBack, Return, Goto, world, LeaseUnique, Verifying, TypeOK,
     LeaseBounded, HoldsAttempt, Confirmed, Reported, ConfirmsCancellation,
     IsBankCancellation, IsFullBankRefund
<1>9. CancelCandidates'
  BY DEF IInv, ReadBack, Return, Goto, world, CancelCandidates, TypeOK, WritesBacked,
     HoldsAttempt, NoRow, CancelOps
<1> QED
  BY <1>1, <1>2, <1>3, <1>4, <1>5, <1>6, <1>7, <1>8, <1>9 DEF IInv

(* The browser's cancellation is confirmed. *)
LEMMA BrowserCancelWriteKeeps ==
  ASSUME IInv, NEW h \in Requests, BrowserCancelWrite(h), TypeOK'
  PROVE  IInv'
<1> USE DEF Null
<1>1. OneAttempt' /\ RefundFences' /\ SubmittedAsRecorded' /\ RefundBacked' /\ EvidenceSound'
  BY DEF IInv, BrowserCancelWrite, Return, world, OneAttempt, RefundFences,
     SubmittedAsRecorded, AttemptAt, RefundBacked, EvidenceSound
<1>2. SendOnce'
  BY DEF IInv, BrowserCancelWrite, Return, world, SendOnce, AttemptAt, KindOf
<1>3. CallsFollow' /\ WritesBacked' /\ LeaseBounded' /\ LeaseUnique'
  BY DEF IInv, BrowserCancelWrite, Return, world, CallsFollow, KindOf, WritesBacked,
     CancelOps, RefundOps, LeaseBounded, Verifying, LeaseUnique
<1>4. Track'
  BY DEF IInv, BrowserCancelWrite, Return, world, Track, CancelOps, RefundOps, TypeOK
<1>5. HoldsAttempt'
  BY DEF IInv, BrowserCancelWrite, Return, world, HoldsAttempt, TypeOK, NoRow, Track
<1>6. StatusBacked'
  BY DEF IInv, BrowserCancelWrite, Return, world, StatusBacked, TypeOK, WritesBacked,
     CancelOps, RefundOps
<1>7. CancelCandidates'
  BY DEF IInv, BrowserCancelWrite, Return, world, CancelCandidates, TypeOK, WritesBacked,
     HoldsAttempt, NoRow, CancelOps
<1> QED
  BY <1>1, <1>2, <1>3, <1>4, <1>5, <1>6, <1>7 DEF IInv

(* An operator's cancellation is confirmed. *)
LEMMA AdminCancelWriteKeeps ==
  ASSUME IInv, NEW h \in Requests, AdminCancelWrite(h), TypeOK'
  PROVE  IInv'
<1> USE DEF Null
<1>1. OneAttempt' /\ RefundFences' /\ SubmittedAsRecorded' /\ RefundBacked' /\ EvidenceSound'
  BY DEF IInv, AdminCancelWrite, Return, world, OneAttempt, RefundFences,
     SubmittedAsRecorded, AttemptAt, RefundBacked, EvidenceSound
<1>2. SendOnce'
  BY DEF IInv, AdminCancelWrite, Return, world, SendOnce, AttemptAt, KindOf
<1>3. CallsFollow' /\ WritesBacked' /\ LeaseBounded' /\ LeaseUnique'
  BY DEF IInv, AdminCancelWrite, Return, world, CallsFollow, KindOf, WritesBacked,
     CancelOps, RefundOps, LeaseBounded, Verifying, LeaseUnique
<1>4. Track'
  BY DEF IInv, AdminCancelWrite, Return, world, Track, CancelOps, RefundOps, TypeOK
<1>5. HoldsAttempt'
  BY DEF IInv, AdminCancelWrite, Return, world, HoldsAttempt, TypeOK, NoRow, Track
<1>6. StatusBacked'
  BY DEF IInv, AdminCancelWrite, Return, world, StatusBacked, TypeOK, WritesBacked,
     CancelOps, RefundOps
<1>7. CancelCandidates'
  BY DEF IInv, AdminCancelWrite, Return, world, CancelCandidates, TypeOK, WritesBacked,
     HoldsAttempt, NoRow, CancelOps
<1> QED
  BY <1>1, <1>2, <1>3, <1>4, <1>5, <1>6, <1>7 DEF IInv

(* A refund is confirmed. *)
LEMMA RefundWriteKeeps ==
  ASSUME IInv, NEW h \in Requests, RefundWrite(h), TypeOK'
  PROVE  IInv'
<1> USE DEF Null
<1>1. OneAttempt' /\ RefundFences' /\ SubmittedAsRecorded' /\ StatusBacked' /\ EvidenceSound'
  BY DEF IInv, RefundWrite, Return, world, OneAttempt, RefundFences, SubmittedAsRecorded,
     AttemptAt, StatusBacked, EvidenceSound
<1>2. SendOnce'
  BY DEF IInv, RefundWrite, Return, world, SendOnce, AttemptAt, KindOf
<1>3. CallsFollow' /\ WritesBacked' /\ LeaseBounded' /\ LeaseUnique'
  BY DEF IInv, RefundWrite, Return, world, CallsFollow, KindOf, WritesBacked, CancelOps,
     RefundOps, LeaseBounded, Verifying, LeaseUnique
<1>4. Track'
  BY DEF IInv, RefundWrite, Return, world, Track, CancelOps, RefundOps, TypeOK
<1>5. HoldsAttempt'
  BY DEF IInv, RefundWrite, Return, world, HoldsAttempt, TypeOK, NoRow, Track
<1>6. RefundBacked'
  BY DEF IInv, RefundWrite, Return, world, RefundBacked, TypeOK, WritesBacked,
     RefundFences, HoldsAttempt, CancelOps, RefundOps
<1>7. CancelCandidates'
  BY DEF IInv, RefundWrite, Return, world, CancelCandidates
<1> QED
  BY <1>1, <1>2, <1>3, <1>4, <1>5, <1>6, <1>7 DEF IInv

(* A request dies at an await. *)
LEMMA FailKeeps ==
  ASSUME IInv, NEW h \in Requests, Fail(h), TypeOK'
  PROVE  IInv'
<1> USE DEF Null
<1>1. OneAttempt' /\ RefundFences' /\ SubmittedAsRecorded' /\ StatusBacked' /\ RefundBacked' /\ EvidenceSound'
  BY DEF IInv, Fail, Return, world, OneAttempt, RefundFences, SubmittedAsRecorded,
     AttemptAt, StatusBacked, RefundBacked, EvidenceSound
<1>2. Track'
  BY DEF IInv, Fail, Return, world, Track, CancelOps, RefundOps, TypeOK
<1>3. HoldsAttempt'
  BY DEF IInv, Fail, Return, world, HoldsAttempt, TypeOK, NoRow, Track
<1>4. SendOnce'
  BY DEF IInv, Fail, Return, world, SendOnce, AttemptAt, KindOf, TypeOK,
     SubmittedAsRecorded, Track, OneAttempt, HoldsAttempt, Kinds
<1>5. CallsFollow'
  BY DEF IInv, Fail, Return, world, CallsFollow, KindOf, TypeOK, Kinds, SendOnce, Track
<1>6. WritesBacked'
  BY DEF IInv, Fail, Return, world, WritesBacked, CancelOps, RefundOps, TypeOK, Track,
     CallsFollow
<1>7. LeaseBounded'
  BY DEF IInv, Fail, Return, world, LeaseBounded, Verifying, TypeOK, HoldsAttempt
<1>8. LeaseUnique'
  BY DEF IInv, Fail, Return, world, LeaseUnique, Verifying, TypeOK, LeaseBounded,
     HoldsAttempt
<1>9. CancelCandidates'
  BY DEF IInv, Fail, Return, world, CancelCandidates, TypeOK, WritesBacked, HoldsAttempt,
     NoRow, CancelOps
<1> QED
  BY <1>1, <1>2, <1>3, <1>4, <1>5, <1>6, <1>7, <1>8, <1>9 DEF IInv

(* The bank executes the call. *)
LEMMA BankAcceptsKeeps ==
  ASSUME IInv, NEW k \in Kinds, BankAccepts(k), TypeOK'
  PROVE  IInv'
<1> USE DEF Null
<1>1. OneAttempt' /\ RefundFences' /\ SubmittedAsRecorded'
  BY DEF IInv, BankAccepts, locals, OneAttempt, RefundFences, SubmittedAsRecorded,
     AttemptAt
<1>2. Track' /\ HoldsAttempt' /\ SendOnce'
  BY DEF IInv, BankAccepts, locals, Track, CancelOps, RefundOps, HoldsAttempt, SendOnce,
     AttemptAt, KindOf
<1>3. LeaseBounded' /\ LeaseUnique'
  BY DEF IInv, BankAccepts, locals, LeaseBounded, Verifying, LeaseUnique
<1>4. CallsFollow'
  BY DEF IInv, BankAccepts, locals, CallsFollow, KindOf, TypeOK, Kinds, SendOnce, Track,
     BankStates, Details, Started, Approved, Deposited, VoidAuthorization, VoidCapture,
     Refunded, Declined, Unverifiable
<1>5. WritesBacked'
  BY DEF IInv, BankAccepts, locals, WritesBacked, CancelOps, RefundOps, TypeOK, Track,
     CallsFollow, BankStates, Details, Started, Approved, Deposited, VoidAuthorization,
     VoidCapture, Refunded, Declined, Unverifiable
<1>6. StatusBacked'
  BY DEF IInv, BankAccepts, locals, StatusBacked, TypeOK, WritesBacked, CancelOps,
     RefundOps, BankStates, Details, Started, Approved, Deposited, VoidAuthorization,
     VoidCapture, Refunded, Declined, Unverifiable
<1>7. RefundBacked'
  BY DEF IInv, BankAccepts, locals, RefundBacked, TypeOK, WritesBacked, RefundFences,
     HoldsAttempt, CancelOps, RefundOps, BankStates, Details, Started, Approved,
     Deposited, VoidAuthorization, VoidCapture, Refunded, Declined, Unverifiable
<1>8. EvidenceSound'
  BY DEF IInv, BankAccepts, locals, EvidenceSound, TypeOK, CallsFollow, SendOnce, KindOf,
     Kinds, BankStates, Details, Started, Approved, Deposited, VoidAuthorization,
     VoidCapture, Refunded, Declined, Unverifiable
<1>9. CancelCandidates'
  BY DEF IInv, BankAccepts, locals, CancelCandidates
<1> QED
  BY <1>1, <1>2, <1>3, <1>4, <1>5, <1>6, <1>7, <1>8, <1>9 DEF IInv

(* The bank refuses the call. *)
LEMMA BankRefusesKeeps ==
  ASSUME IInv, NEW k \in Kinds, BankRefuses(k), TypeOK'
  PROVE  IInv'
<1> USE DEF Null
<1>1. OneAttempt' /\ RefundFences' /\ SubmittedAsRecorded' /\ StatusBacked' /\ RefundBacked' /\ EvidenceSound'
  BY DEF IInv, BankRefuses, locals, OneAttempt, RefundFences, SubmittedAsRecorded,
     AttemptAt, StatusBacked, RefundBacked, EvidenceSound
<1>2. Track' /\ HoldsAttempt' /\ SendOnce'
  BY DEF IInv, BankRefuses, locals, Track, CancelOps, RefundOps, HoldsAttempt, SendOnce,
     AttemptAt, KindOf
<1>3. CallsFollow' /\ WritesBacked' /\ LeaseBounded' /\ LeaseUnique'
  BY DEF IInv, BankRefuses, locals, CallsFollow, KindOf, WritesBacked, CancelOps,
     RefundOps, LeaseBounded, Verifying, LeaseUnique
<1>4. CancelCandidates'
  BY DEF IInv, BankRefuses, locals, CancelCandidates
<1> QED
  BY <1>1, <1>2, <1>3, <1>4 DEF IInv

(* The bank moves on its own. *)
LEMMA BankMovesKeeps ==
  ASSUME IInv, BankMoves, TypeOK'
  PROVE  IInv'
<1> USE DEF Null
<1>1. OneAttempt' /\ RefundFences' /\ SubmittedAsRecorded'
  BY DEF IInv, BankMoves, locals, OneAttempt, RefundFences, SubmittedAsRecorded, AttemptAt
<1>2. Track' /\ HoldsAttempt' /\ SendOnce'
  BY DEF IInv, BankMoves, locals, Track, CancelOps, RefundOps, HoldsAttempt, SendOnce,
     AttemptAt, KindOf
<1>3. LeaseBounded' /\ LeaseUnique'
  BY DEF IInv, BankMoves, locals, LeaseBounded, Verifying, LeaseUnique
<1>4. CallsFollow'
  <2>1. UNCHANGED <<call, submitted, op, pc>>
    BY DEF BankMoves, locals
  <2>2. /\ call["cancel"] = "accepted" => bank'.order = 3
        /\ call["refund"] = "accepted" => bank' = Refunded
    BY DEF IInv, CallsFollow, BankMoves, Details, Started, Approved, Deposited, VoidAuthorization, VoidCapture, Refunded
  <2>3. bank' = Deposited => captured'
    BY DEF BankMoves
  <2> QED
    BY <2>1, <2>2, <2>3 DEF IInv, CallsFollow
<1>5. WritesBacked'
  BY DEF IInv, BankMoves, locals, WritesBacked, CancelOps, RefundOps, TypeOK, Track,
     CallsFollow, BankStates, Details, Started, Approved, Deposited, VoidAuthorization,
     VoidCapture, Refunded, Declined, Unverifiable
<1>6. StatusBacked'
  BY DEF IInv, BankMoves, locals, StatusBacked, TypeOK, WritesBacked, CancelOps,
     RefundOps, BankStates, Details, Started, Approved, Deposited, VoidAuthorization,
     VoidCapture, Refunded, Declined, Unverifiable
<1>7. RefundBacked'
  BY DEF IInv, BankMoves, locals, RefundBacked, TypeOK, WritesBacked, RefundFences,
     HoldsAttempt, CancelOps, RefundOps, BankStates, Details, Started, Approved,
     Deposited, VoidAuthorization, VoidCapture, Refunded, Declined, Unverifiable
<1>8. EvidenceSound'
  BY DEF IInv, BankMoves, locals, EvidenceSound, TypeOK, CallsFollow, SendOnce, KindOf,
     Kinds, BankStates, Details, Started, Approved, Deposited, VoidAuthorization,
     VoidCapture, Refunded, Declined, Unverifiable
<1>9. CancelCandidates'
  BY DEF IInv, BankMoves, locals, CancelCandidates
<1> QED
  BY <1>1, <1>2, <1>3, <1>4, <1>5, <1>6, <1>7, <1>8, <1>9 DEF IInv

(* Time passes. *)
LEMMA TickKeeps ==
  ASSUME IInv, Tick, TypeOK'
  PROVE  IInv'
<1> USE DEF Null
<1>1. OneAttempt' /\ RefundFences' /\ SubmittedAsRecorded' /\ StatusBacked' /\ RefundBacked' /\ EvidenceSound'
  BY DEF IInv, Tick, world, locals, OneAttempt, RefundFences, SubmittedAsRecorded,
     AttemptAt, StatusBacked, RefundBacked, EvidenceSound
<1>2. Track' /\ HoldsAttempt' /\ SendOnce'
  BY DEF IInv, Tick, world, locals, Track, CancelOps, RefundOps, HoldsAttempt, SendOnce,
     AttemptAt, KindOf
<1>3. CallsFollow' /\ WritesBacked' /\ LeaseBounded' /\ LeaseUnique'
  BY DEF IInv, Tick, world, locals, CallsFollow, KindOf, WritesBacked, CancelOps,
     RefundOps, LeaseBounded, Verifying, LeaseUnique
<1>4. CancelCandidates'
  BY DEF IInv, Tick, world, locals, CancelCandidates
<1> QED
  BY <1>1, <1>2, <1>3, <1>4 DEF IInv

-----------------------------------------------------------------------------
LEMMA InitInv == Init => IInv
<1> SUFFICES ASSUME Init PROVE IInv
  OBVIOUS
<1> USE InitType DEF Init, Null, NoRow
<1>1. Track /\ HoldsAttempt /\ LeaseBounded /\ LeaseUnique
  BY DEF Track, HoldsAttempt, LeaseBounded, LeaseUnique, Verifying, CancelOps, RefundOps
<1>2. OneAttempt /\ RefundFences /\ StatusBacked /\ RefundBacked /\ EvidenceSound
  BY DEF OneAttempt, RefundFences, StatusBacked, RefundBacked, EvidenceSound
<1>3. SendOnce /\ SubmittedAsRecorded /\ WritesBacked
  BY DEF SendOnce, SubmittedAsRecorded, AttemptAt, WritesBacked, CancelOps, RefundOps
<1>4. CallsFollow /\ CancelCandidates
  BY DEF CallsFollow, CancelCandidates, Kinds, Started, Deposited, Details
<1> QED
  BY <1>1, <1>2, <1>3, <1>4 DEF IInv

LEMMA ContinuesKeep ==
  ASSUME IInv, NEW h \in Requests, Continues(h), TypeOK'
  PROVE  IInv'
  BY PollClaimKeeps, PollDetailsKeeps, PollWriteKeeps, MutationDetailsKeeps, CancelClaimKeeps, RefundClaimKeeps, HistoricalRefundKeeps, SubmitKeeps, AcknowledgedKeeps, RecordAckKeeps, ReadBackKeeps, BrowserCancelWriteKeeps, AdminCancelWriteKeeps, RefundWriteKeeps
     DEF Continues

LEMMA NextInv == IInv /\ [Next]_vars => IInv'
<1> SUFFICES ASSUME IInv, [Next]_vars PROVE IInv'
  OBVIOUS
<1>1. TypeOK'
  BY NextType DEF IInv
<1>2. CASE Next
  BY <1>1, <1>2, ReadsKeep, ContinuesKeep, FailKeeps, BankAcceptsKeeps, BankRefusesKeeps,
     BankMovesKeeps, TickKeeps DEF Next
<1>3. CASE UNCHANGED vars
  <2> USE <1>3 DEF vars, IInv
  <2>1. Track' /\ HoldsAttempt' /\ SendOnce' /\ WritesBacked'
    BY DEF Track, HoldsAttempt, SendOnce, AttemptAt, WritesBacked
  <2>2. OneAttempt' /\ RefundFences' /\ SubmittedAsRecorded' /\ CallsFollow'
    BY DEF OneAttempt, RefundFences, SubmittedAsRecorded, AttemptAt, CallsFollow
  <2>3. StatusBacked' /\ RefundBacked' /\ EvidenceSound'
    BY DEF StatusBacked, RefundBacked, EvidenceSound
  <2>4. LeaseBounded' /\ LeaseUnique' /\ CancelCandidates'
    BY DEF LeaseBounded, LeaseUnique, Verifying, CancelCandidates
  <2> QED
    BY <1>1, <2>1, <2>2, <2>3, <2>4
<1> QED
  BY <1>2, <1>3

(* The inductive invariant holds for any number of concurrent requests.     *)
THEOREM InvariantHolds == Spec => []IInv
  BY InitInv, NextInv, PTL DEF Spec

(* A cancellation and a refund are never both recorded for one payment.     *)
THEOREM AttemptsExclude == Spec => []OneAttempt
<1>1. IInv => OneAttempt
  BY DEF IInv
<1> QED
  BY <1>1, InvariantHolds, PTL

(* No bank write without a recorded attempt, none twice.                    *)
THEOREM WritesOnce == Spec => []SubmittedAsRecorded
<1>1. IInv => SubmittedAsRecorded
  BY DEF IInv
<1> QED
  BY <1>1, InvariantHolds, PTL

(* The stored status and the refund never say more than the bank did, and   *)
(* acknowledged cancellations are real ones.                                *)
THEOREM TruthfulRow == Spec => []RowBacked
<1>1. IInv => RowBacked
  BY DEF IInv, RowBacked
<1> QED
  BY <1>1, InvariantHolds, PTL

(* No two polls verify under one lease.                                     *)
THEOREM LeasesDiffer == Spec => []LeaseUnique
<1>1. IInv => LeaseUnique
  BY DEF IInv
<1> QED
  BY <1>1, InvariantHolds, PTL

-----------------------------------------------------------------------------
(* How one step may change what an operator sees of the row. *)

SameOutcome ==
    /\ row'.status = row.status /\ row'.refunded = row.refunded
    /\ row'.cancelAt = row.cancelAt /\ row'.refundAt = row.refundAt

Unclaimed == row.cancelAt = Null /\ row.refundAt = Null /\ ~row.refunded

Settles ==
    /\ Unclaimed /\ row.status = "PENDING"
    /\ row'.status \in {"SUCCEEDED", "FAILED", "CANCELLED"}
    /\ row'.cancelAt = Null /\ row'.refundAt = Null /\ ~row'.refunded

BeginsCancellation ==
    /\ Unclaimed /\ row.status \in {"PENDING", "SUCCEEDED"}
    /\ row'.status = row.status
    /\ row'.cancelAt # Null /\ row'.refundAt = Null /\ ~row'.refunded

ConfirmsCancelled ==
    /\ row.cancelAt # Null /\ row.refundAt = Null /\ ~row.refunded
    /\ row.status \in {"PENDING", "SUCCEEDED"} /\ row'.status = "CANCELLED"
    /\ row'.cancelAt = row.cancelAt /\ row'.refundAt = Null /\ ~row'.refunded

BeginsRefund ==
    /\ Unclaimed /\ row.status = "SUCCEEDED"
    /\ row'.status = "SUCCEEDED"
    /\ row'.cancelAt = Null /\ row'.refundAt # Null /\ ~row'.refunded

ConfirmsRefund ==
    /\ row.cancelAt = Null /\ ~row.refunded /\ row.status = "SUCCEEDED"
    /\ row'.status = "SUCCEEDED" /\ row'.cancelAt = Null
    /\ row'.refundAt = row.refundAt /\ row'.refunded

RowMove ==
    \/ SameOutcome \/ Settles \/ BeginsCancellation \/ ConfirmsCancelled
    \/ BeginsRefund \/ ConfirmsRefund

LEMMA ContinueMoves ==
  ASSUME IInv, NEW h \in Requests, Continues(h)
  PROVE  RowMove
<1> USE DEF RowMove, Null
<1>1. CASE PollClaim(h)
  BY <1>1 DEF IInv, TypeOK, PollClaim, SameOutcome
<1>2. CASE PollWrite(h)
  <2>1. CASE SameOutcome
    BY <2>1
  <2>2. CASE ~SameOutcome
    <3>1. row.status = "PENDING" /\ row.cancelAt = seen[h].cancelAt /\ verdict[h] # "PENDING"
          /\ row' = [row EXCEPT !.status = verdict[h]]
      BY <1>2, <2>2 DEF IInv, TypeOK, PollWrite, SameOutcome
    <3>2. row.refundAt = Null /\ ~row.refunded
      BY <3>1 DEF IInv, RefundFences, RefundBacked
    <3>3. CASE row.cancelAt = Null
      BY <3>1, <3>2, <3>3 DEF IInv, TypeOK, Status, Settles, Unclaimed
    <3>4. CASE row.cancelAt # Null
      <4>1. verdict[h] = "CANCELLED"
        BY <1>2, <3>1, <3>4 DEF IInv, PollWrite, WritesBacked
      <4> QED
        BY <3>1, <3>2, <3>4, <4>1 DEF IInv, TypeOK, ConfirmsCancelled
    <3> QED
      BY <3>3, <3>4
  <2> QED
    BY <2>1, <2>2
<1>3. CASE CancelClaim(h)
  BY <1>3 DEF IInv, TypeOK, CancelClaim, CancelUnclaimed, CancelCandidates, HoldsAttempt,
     SameOutcome, BeginsCancellation, Unclaimed
<1>4. CASE RefundClaim(h)
  BY <1>4 DEF IInv, TypeOK, RefundClaim, RefundUnclaimed, HoldsAttempt, SameOutcome,
     BeginsRefund, Unclaimed
<1>5. CASE HistoricalRefund(h)
  BY <1>5 DEF IInv, TypeOK, HistoricalRefund, RefundUnclaimed, SameOutcome, ConfirmsRefund
<1>6. CASE RecordAck(h)
  BY <1>6 DEF IInv, TypeOK, RecordAck, SameOutcome
<1>7. CASE BrowserCancelWrite(h) \/ AdminCancelWrite(h)
  <2>1. token[h] # Null
    BY <1>7 DEF IInv, HoldsAttempt, BrowserCancelWrite, AdminCancelWrite
  <2>2. row.cancelAt # Null => row.refundAt = Null /\ ~row.refunded
    BY DEF IInv, OneAttempt, RefundBacked
  <2> QED
    BY <1>7, <2>1, <2>2 DEF IInv, TypeOK, CancelCandidates, BrowserCancelWrite,
       AdminCancelWrite, SameOutcome, ConfirmsCancelled
<1>8. CASE RefundWrite(h)
  <2>1. token[h] # Null
    BY <1>8 DEF IInv, HoldsAttempt, RefundWrite
  <2> QED
    BY <1>8, <2>1 DEF IInv, TypeOK, RefundFences, RefundWrite, SameOutcome, ConfirmsRefund
<1>9. CASE \/ PollDetails(h) \/ MutationDetails(h) \/ Submit(h) \/ Acknowledged(h)
           \/ ReadBack(h)
  BY <1>9 DEF PollDetails, MutationDetails, Submit, Acknowledged, ReadBack, SameOutcome
<1> QED
  BY <1>1, <1>2, <1>3, <1>4, <1>5, <1>6, <1>7, <1>8, <1>9 DEF Continues

LEMMA StepMoves == IInv /\ [Next]_vars => RowMove
<1> SUFFICES ASSUME IInv, [Next]_vars PROVE RowMove
  OBVIOUS
<1>1. ASSUME NEW h \in Requests, Continues(h) PROVE RowMove
  BY <1>1, ContinueMoves
<1>2. ASSUME NEW h \in Requests, Reads(h) \/ Fail(h) PROVE UNCHANGED row
  BY <1>2 DEF Reads, PollRead, CancelRead, RefundRead, AdminCancelRead, RecheckRead, Begin, Fail
<1>3. ASSUME \/ \E k \in Kinds : BankAccepts(k) \/ BankRefuses(k)
             \/ BankMoves \/ Tick \/ UNCHANGED vars
      PROVE  UNCHANGED row
  BY <1>3 DEF BankAccepts, BankRefuses, BankMoves, Tick, vars
<1> QED
  BY <1>1, <1>2, <1>3 DEF Next, RowMove, SameOutcome

(* Nothing but its confirmation touches the status after a cancellation has *)
(* been recorded, however old the reads of the writing request are.         *)
THEOREM AttemptFences == Spec => FencedByAttempt
<1>1. IInv /\ [Next]_vars =>
        [row.cancelAt # Null => row'.status \in {row.status, "CANCELLED"}]_vars
  BY StepMoves DEF RowMove, SameOutcome, Settles, BeginsCancellation, ConfirmsCancelled,
     BeginsRefund, ConfirmsRefund, Unclaimed
<1> QED
  BY <1>1, InvariantHolds, PTL DEF Spec, FencedByAttempt

(* Attempts, confirmations and final states are never taken back.           *)
THEOREM NothingRevised == Spec => NeverRevised
<1> DEFINE Kept ==
      /\ row.cancelAt # Null => row'.cancelAt = row.cancelAt
      /\ row.refundAt # Null => row'.refundAt = row.refundAt
      /\ row.refunded => row'.refunded
      /\ row.status \in {"FAILED", "CANCELLED"} => row'.status = row.status
      /\ row.status = "SUCCEEDED" /\ row'.status # "SUCCEEDED" =>
            row'.status = "CANCELLED" /\ row.cancelAt # Null
<1>1. IInv /\ [Next]_vars => [Kept]_vars
  BY StepMoves DEF RowMove, SameOutcome, Settles, BeginsCancellation, ConfirmsCancelled,
     BeginsRefund, ConfirmsRefund, Unclaimed
<1> QED
  BY <1>1, InvariantHolds, PTL DEF Spec, NeverRevised

-----------------------------------------------------------------------------
(* The row implements the lifecycle the operators are shown. *)

LEMMA LifecycleInit == Init => Lifecycle!Init
  BY DEF Init, Lifecycle!Init, ToAdminStatus, Null, Kinds

LEMMA LifecycleStep ==
  IInv /\ IInv' /\ [Next]_vars => [Lifecycle!Next]_(Lifecycle!vars)
<1> SUFFICES ASSUME IInv, IInv', [Next]_vars PROVE [Lifecycle!Next]_(Lifecycle!vars)
  OBVIOUS
<1> USE DEF Null
<1>1. CASE \E h \in Requests : Submit(h)
  <2> PICK h \in Requests : Submit(h)
    BY <1>1
  <2>1. AttemptAt(KindOf(op[h])) # Null /\ submitted[KindOf(op[h])] = 0
    BY DEF IInv, SendOnce, Submit
  <2>2. submitted["cancel"] + submitted["refund"] = 0
    BY <2>1 DEF IInv, TypeOK, OneAttempt, SubmittedAsRecorded, AttemptAt, KindOf, Kinds
  <2>3. submitted'["cancel"] + submitted'["refund"] = 1
    BY <2>2 DEF IInv, TypeOK, Submit, KindOf, Kinds
  <2>4. row.cancelAt # Null \/ row.refundAt # Null
    BY <2>1 DEF AttemptAt
  <2>5. row' = row
    BY DEF Submit
  <2> QED
    BY <2>2, <2>3, <2>4, <2>5 DEF Lifecycle!Next, Lifecycle!Submit, ToAdminStatus
<1>2. CASE ~\E h \in Requests : Submit(h)
  <2>1. UNCHANGED submitted
    BY <1>2 DEF Next, Reads, PollRead, CancelRead, RefundRead, AdminCancelRead, RecheckRead,
       Begin, Continues, PollClaim, PollDetails, PollWrite, MutationDetails, CancelClaim,
       RefundClaim, HistoricalRefund, Acknowledged, RecordAck, ReadBack, BrowserCancelWrite,
       AdminCancelWrite, RefundWrite, Fail, BankAccepts, BankRefuses, BankMoves, Tick, world, vars
  <2>2. RowMove
    BY StepMoves
  <2>3. row.cancelAt # Null => row.refundAt = Null /\ ~row.refunded
    BY DEF IInv, OneAttempt, RefundBacked
  <2>4. CASE SameOutcome
    BY <2>1, <2>4 DEF SameOutcome, Lifecycle!vars, ToAdminStatus
  <2>5. CASE Settles
    BY <2>1, <2>5 DEF Settles, Unclaimed, Lifecycle!Next, Lifecycle!Settle, ToAdminStatus
  <2>6. CASE BeginsCancellation
    BY <2>1, <2>6 DEF BeginsCancellation, Unclaimed, Lifecycle!Next,
       Lifecycle!BeginCancellation, ToAdminStatus
  <2>7. CASE ConfirmsCancelled
    BY <2>1, <2>7 DEF ConfirmsCancelled, Lifecycle!Next, Lifecycle!ConfirmCancellation,
       ToAdminStatus
  <2>8. CASE BeginsRefund
    BY <2>1, <2>8 DEF BeginsRefund, Unclaimed, Lifecycle!Next, Lifecycle!BeginRefund,
       ToAdminStatus
  <2>9. CASE ConfirmsRefund
    BY <2>1, <2>9 DEF ConfirmsRefund, Lifecycle!Next, Lifecycle!ConfirmRefund, ToAdminStatus
  <2> QED
    BY <2>2, <2>4, <2>5, <2>6, <2>7, <2>8, <2>9 DEF RowMove
<1> QED
  BY <1>1, <1>2

(* Every step of the services is a step of the operator-visible lifecycle,  *)
(* or changes nothing an operator sees.                                     *)
THEOREM RefinesLifecycle == Spec => ImplementsLifecycle
  BY LifecycleInit, LifecycleStep, InvariantHolds, PTL DEF Spec, ImplementsLifecycle,
     Lifecycle!Spec
=============================================================================
