--------------------------- MODULE SandboxPayment ---------------------------
(***************************************************************************)
(* One row of CardPaymentSandboxSession, the Ameriabank sandbox, and every *)
(* request that may work on that row at the same time:                     *)
(*   poll         CardPaymentSandboxService.get                            *)
(*   cancel       CardPaymentSandboxService.cancel                         *)
(*   refund       AdminSandboxPaymentsService.refund                       *)
(*   adminCancel  AdminSandboxPaymentsService.cancel                       *)
(*   recheckCancel, recheckRefund                                          *)
(*                AdminSandboxPaymentsService.recheck, by its branches     *)
(* A request is cut at every await: what it does between two awaits is one *)
(* step, and other requests, the bank and the clock run between the steps. *)
(* A rejected promise, a timeout, a crash of the API process: Fail.        *)
(*                                                                         *)
(* The row is READY (create has returned).  Timestamps are clock ticks, 0  *)
(* is SQL null, the row was created at CreatedAt.  A request that returns  *)
(* without having changed anything after its first read is a stuttering    *)
(* step, as is the row read that only builds the answer.                   *)
(***************************************************************************)
EXTENDS Naturals

CONSTANTS Requests,            \* request slots: how many run concurrently
          RecheckDelay,        \* 15 s: the lease a poll takes on the row
          CancellationWindow,  \* 72 h
          OwnerLifetime,       \* the browser owner's sandbox access
          MaxTime              \* bound of the clock

ASSUME ConstantsAssumption ==
    /\ RecheckDelay \in Nat \ {0}
    /\ CancellationWindow \in Nat
    /\ OwnerLifetime \in Nat
    /\ MaxTime \in Nat

VARIABLES
    row,        \* the database row
    bank,       \* the payment as GetPaymentDetails reports it
    captured,   \* auxiliary: the bank has deposited the money at some time
    call,       \* the CancelPayment / RefundPayment request, as the bank has it
    submitted,  \* auxiliary: how often each of them was sent
    now,        \* Date.now()
    op, pc,     \* what each request is, and the await it stands at
    seen,       \* the columns of its row that a request uses after an await
    token,      \* claimUntil of a poll, attemptedAt of the others
    verdict     \* the status a poll is about to store

world == <<bank, captured, call, submitted>>
locals == <<op, pc, seen, token, verdict>>
vars == <<row, bank, captured, call, submitted, now, op, pc, seen, token, verdict>>

Null == 0
CreatedAt == 1
Status == {"PENDING", "SUCCEEDED", "FAILED", "CANCELLED"}
Kinds == {"cancel", "refund"}
Ops == {"poll", "cancel", "adminCancel", "refund", "recheckCancel", "recheckRefund"}
Steps == {"idle", "claim", "details", "historical", "send", "wait", "ack",
          "readBack", "write"}

KindOf(o) == IF o \in {"refund", "recheckRefund"} THEN "refund" ELSE "cancel"

-----------------------------------------------------------------------------
(* The bank's payment: OrderStatus and the two amounts the code reads.      *)
(* OrderStatus fixes ResponseCode and PaymentState, except in Unverifiable, *)
(* which stands for every reply that fails those checks or sameBankPayment. *)

Details(o, dep, ref) == [order |-> o, deposited |-> dep, refunded |-> ref]
Started == Details(0, 0, 0)
Approved == Details(1, 0, 0)
Deposited == Details(2, 10, 0)
VoidAuthorization == Details(3, 0, 0)
VoidCapture == Details(3, 10, 0)
Refunded == Details(4, 10, 10)
Declined == Details(6, 0, 0)
Unverifiable == Details(9, 0, 0)

BankStates == {Started, Approved, Deposited, VoidAuthorization, VoidCapture,
               Refunded, Declined}

(* What a GetPaymentDetails answered now may say. *)
Reported == {bank, Unverifiable}

-----------------------------------------------------------------------------
(* The predicates of the two services over a row and the bank's details.    *)

WithinCancellationWindow == now - CreatedAt < CancellationWindow

SandboxAccess == now - CreatedAt < OwnerLifetime

CanCancel(d) == WithinCancellationWindow /\ d = Approved

ConfirmsCancellation(d) == d.order = 3 /\ d.deposited = 0 /\ d.refunded = 0

(* checkoutStatus; a reply it throws on stores as little as one that leaves *)
(* the payment pending.                                                     *)
CheckoutStatus(d) ==
    IF d.order = 2 /\ d.deposited = 10 THEN "SUCCEEDED"
    ELSE IF d.order = 6 THEN "FAILED"
    ELSE IF d.order \in {3, 4} THEN "CANCELLED"
    ELSE "PENDING"

IsCaptured == row.status = "SUCCEEDED" /\ row.cancelAt = Null

IsCancellationCandidate(status, cancelAt) ==
    /\ status \in {"PENDING", "SUCCEEDED"}
    /\ cancelAt = Null
    /\ WithinCancellationWindow

IsFullBankRefund(d) == d.order = 4 /\ d.refunded = 10

IsBankCancellationCandidate(d) ==
    /\ d.refunded = 0
    /\ \/ d.order = 1 /\ d.deposited = 0
       \/ d.order = 2 /\ d.deposited = 10

IsBankCancellation(d) == d.order = 3 /\ d.refunded = 0 /\ d.deposited \in {0, 10}

IsRefundable(d) == d.order = 2 /\ d.deposited = 10 /\ d.refunded = 0

(* The operator's status of the row. *)
ToAdminStatus ==
    IF row.refunded THEN "REFUNDED"
    ELSE IF row.cancelAt # Null /\ row.status # "CANCELLED"
         THEN "CANCELLATION_UNCONFIRMED"
    ELSE IF row.refundAt # Null THEN "REFUND_UNCONFIRMED"
    ELSE row.status

(* May this request submit its mutation, given what the bank reported? *)
Eligible(h, d) ==
    \/ op[h] = "cancel" /\ CanCancel(d) /\ SandboxAccess
    \/ /\ op[h] = "adminCancel"
       /\ IsCancellationCandidate(seen[h].status, seen[h].cancelAt)
       /\ IsBankCancellationCandidate(d)
    \/ op[h] = "refund" /\ IsRefundable(d)

(* Does the bank's read-back confirm this request's mutation? *)
Confirmed(h, d) ==
    \/ op[h] = "cancel" /\ ConfirmsCancellation(d)
    \/ op[h] \in {"adminCancel", "recheckCancel"} /\ IsBankCancellation(d)
    \/ op[h] \in {"refund", "recheckRefund"} /\ IsFullBankRefund(d)

-----------------------------------------------------------------------------
NoRow == [status |-> "PENDING", cancelAt |-> Null]

Init ==
    /\ row = [status |-> "PENDING", nextCheck |-> CreatedAt,
              cancelAt |-> Null, cancelAck |-> FALSE,
              refundAt |-> Null, refundAck |-> FALSE, refunded |-> FALSE]
    /\ bank = Started
    /\ captured = FALSE
    /\ call = [k \in Kinds |-> "none"]
    /\ submitted = [k \in Kinds |-> 0]
    /\ now = CreatedAt
    /\ op = [h \in Requests |-> "none"]
    /\ pc = [h \in Requests |-> "idle"]
    /\ seen = [h \in Requests |-> NoRow]
    /\ token = [h \in Requests |-> Null]
    /\ verdict = [h \in Requests |-> "PENDING"]

(* The request reads the row and goes on to its next await. *)
Begin(h, o, p, t) ==
    /\ op' = [op EXCEPT ![h] = o]
    /\ pc' = [pc EXCEPT ![h] = p]
    /\ seen' = [seen EXCEPT ![h] = [status |-> row.status, cancelAt |-> row.cancelAt]]
    /\ token' = [token EXCEPT ![h] = t]
    /\ UNCHANGED <<verdict, row, world, now>>

(* The request answers or throws. *)
Return(h) ==
    /\ op' = [op EXCEPT ![h] = "none"]
    /\ pc' = [pc EXCEPT ![h] = "idle"]
    /\ seen' = [seen EXCEPT ![h] = NoRow]
    /\ token' = [token EXCEPT ![h] = Null]
    /\ verdict' = [verdict EXCEPT ![h] = "PENDING"]

Goto(h, p) ==
    /\ pc' = [pc EXCEPT ![h] = p]
    /\ UNCHANGED <<op, seen, token, verdict>>

-----------------------------------------------------------------------------
(* The first read of each request.                                          *)

PollRead(h) ==
    /\ pc[h] = "idle"
    /\ row.status = "PENDING"
    /\ row.nextCheck <= now
    /\ Begin(h, "poll", "claim", now + RecheckDelay)

CancelRead(h) ==
    /\ pc[h] = "idle"
    /\ SandboxAccess
    /\ row.cancelAt = Null
    /\ row.status = "PENDING"
    /\ WithinCancellationWindow
    /\ Begin(h, "cancel", "details", Null)

RefundRead(h) ==
    /\ pc[h] = "idle"
    /\ row.refundAt = Null
    /\ ~row.refunded
    /\ IsCaptured
    /\ Begin(h, "refund", "details", Null)

AdminCancelRead(h) ==
    /\ pc[h] = "idle"
    /\ IsCancellationCandidate(row.status, row.cancelAt)
    /\ row.refundAt = Null
    /\ ~row.refunded
    /\ Begin(h, "adminCancel", "details", Null)

(* Wrong: a refund is rechecked only after the bank acknowledged it. *)
RecheckReadAcknowledged(h) ==
    /\ pc[h] = "idle"
    /\ IsCaptured /\ row.refundAt # Null /\ row.refundAck /\ ~row.refunded
    /\ Begin(h, "recheckRefund", "readBack", row.refundAt)

RecheckRead(h) ==
    /\ pc[h] = "idle"
    /\ \/ /\ row.cancelAt # Null
          /\ row.status # "CANCELLED"
          /\ Begin(h, "recheckCancel", "readBack", row.cancelAt)
       \/ /\ IsCaptured
          /\ row.refundAt # Null
          /\ ~row.refunded
          /\ Begin(h, "recheckRefund", "readBack", row.refundAt)

-----------------------------------------------------------------------------
(* get: lease the row, ask the bank, store what it said.                    *)

PollClaim(h) ==
    /\ op[h] = "poll" /\ pc[h] = "claim"
    /\ IF /\ row.status = "PENDING"
          /\ row.nextCheck + RecheckDelay <= token[h]
          /\ row.cancelAt = seen[h].cancelAt
       THEN /\ row' = [row EXCEPT !.nextCheck = token[h]]
            /\ Goto(h, "details")
       ELSE Return(h) /\ UNCHANGED row
    /\ UNCHANGED <<world, now>>

PolledStatus(h, d) ==
    IF seen[h].cancelAt = Null THEN CheckoutStatus(d)
    ELSE IF ConfirmsCancellation(d) THEN "CANCELLED" ELSE "PENDING"

PollDetails(h) ==
    /\ op[h] = "poll" /\ pc[h] = "details"
    /\ \E d \in Reported :
         IF PolledStatus(h, d) = "PENDING" THEN Return(h)
         ELSE /\ pc' = [pc EXCEPT ![h] = "write"]
              /\ verdict' = [verdict EXCEPT ![h] = PolledStatus(h, d)]
              /\ UNCHANGED <<op, seen, token>>
    /\ UNCHANGED <<row, world, now>>

(* Wrong: the write trusts the lease alone. *)
PollWriteUnfenced(h) ==
    /\ op[h] = "poll" /\ pc[h] = "write"
    /\ row' = IF row.status = "PENDING" /\ row.nextCheck = token[h]
              THEN [row EXCEPT !.status = verdict[h]] ELSE row
    /\ Return(h)
    /\ UNCHANGED <<world, now>>

PollWrite(h) ==
    /\ op[h] = "poll" /\ pc[h] = "write"
    /\ row' = IF /\ row.status = "PENDING"
                 /\ row.nextCheck = token[h]
                 /\ row.cancelAt = seen[h].cancelAt
              THEN [row EXCEPT !.status = verdict[h]] ELSE row
    /\ Return(h)
    /\ UNCHANGED <<world, now>>

-----------------------------------------------------------------------------
(* The mutations: ask the bank, record the attempt, submit it once, read    *)
(* the result back.                                                         *)

MutationDetails(h) ==
    /\ op[h] \in {"cancel", "adminCancel", "refund"} /\ pc[h] = "details"
    /\ \E d \in Reported :
         \/ /\ Eligible(h, d)
            /\ pc' = [pc EXCEPT ![h] = "claim"]
            /\ token' = [token EXCEPT ![h] = now]
            /\ UNCHANGED <<op, seen, verdict>>
         \/ /\ op[h] = "refund" /\ IsFullBankRefund(d)
            /\ Goto(h, "historical")
         \/ /\ ~Eligible(h, d)
            /\ ~(op[h] = "refund" /\ IsFullBankRefund(d))
            /\ Return(h)
    /\ UNCHANGED <<row, world, now>>

(* Wrong: a cancellation does not look at what happened to the status. *)
CancelUnclaimedAnyStatus(h) ==
    row.cancelAt = Null /\ row.refundAt = Null /\ ~row.refunded

(* The where of both cancellation claims; line 265's "PENDING" is the       *)
(* status the browser's request has just required of its row.               *)
CancelUnclaimed(h) ==
    /\ row.status = seen[h].status
    /\ row.cancelAt = Null
    /\ row.refundAt = Null
    /\ ~row.refunded

(* Wrong: two operators may both record the refund. *)
RefundUnclaimedTwice == row.status = "SUCCEEDED" /\ row.cancelAt = Null /\ ~row.refunded

RefundUnclaimed ==
    /\ row.status = "SUCCEEDED"
    /\ row.cancelAt = Null
    /\ row.refundAt = Null
    /\ ~row.refunded

CancelClaim(h) ==
    /\ op[h] \in {"cancel", "adminCancel"} /\ pc[h] = "claim"
    /\ IF CancelUnclaimed(h)
       THEN /\ row' = [row EXCEPT !.cancelAt = token[h], !.nextCheck = token[h]]
            /\ Goto(h, "send")
       ELSE Return(h) /\ UNCHANGED row
    /\ UNCHANGED <<world, now>>

RefundClaim(h) ==
    /\ op[h] = "refund" /\ pc[h] = "claim"
    /\ IF RefundUnclaimed
       THEN /\ row' = [row EXCEPT !.refundAt = token[h]]
            /\ Goto(h, "send")
       ELSE Return(h) /\ UNCHANGED row
    /\ UNCHANGED <<world, now>>

HistoricalRefund(h) ==
    /\ op[h] = "refund" /\ pc[h] = "historical"
    /\ row' = IF RefundUnclaimed THEN [row EXCEPT !.refunded = TRUE] ELSE row
    /\ Return(h)
    /\ UNCHANGED <<world, now>>

Submit(h) ==
    /\ pc[h] = "send"
    /\ call' = [call EXCEPT ![KindOf(op[h])] = "sent"]
    /\ submitted' = [submitted EXCEPT ![KindOf(op[h])] = @ + 1]
    /\ Goto(h, "wait")
    /\ UNCHANGED <<row, bank, captured, now>>

(* Wrong: any reply is an acknowledgement. *)
AcknowledgedAnyReply(h) ==
    /\ pc[h] = "wait"
    /\ call[KindOf(op[h])] # "sent"
    /\ Goto(h, "ack")
    /\ UNCHANGED <<row, world, now>>

(* ResponseCode 00 has arrived. *)
Acknowledged(h) ==
    /\ pc[h] = "wait"
    /\ call[KindOf(op[h])] = "accepted"
    /\ Goto(h, "ack")
    /\ UNCHANGED <<row, world, now>>

RecordAck(h) ==
    /\ pc[h] = "ack"
    /\ row' = IF KindOf(op[h]) = "refund"
              THEN [row EXCEPT !.refundAck = @ \/ row.refundAt = token[h]]
              ELSE [row EXCEPT !.cancelAck = @ \/ row.cancelAt = token[h]]
    /\ Goto(h, "readBack")
    /\ UNCHANGED <<world, now>>

ReadBack(h) ==
    /\ pc[h] = "readBack"
    /\ \E d \in Reported :
         IF Confirmed(h, d) THEN Goto(h, "write") ELSE Return(h)
    /\ UNCHANGED <<row, world, now>>

BrowserCancelWrite(h) ==
    /\ op[h] = "cancel" /\ pc[h] = "write"
    /\ row' = IF row.status = "PENDING" /\ row.cancelAt = token[h]
              THEN [row EXCEPT !.status = "CANCELLED"] ELSE row
    /\ Return(h)
    /\ UNCHANGED <<world, now>>

AdminCancelWrite(h) ==
    /\ op[h] \in {"adminCancel", "recheckCancel"} /\ pc[h] = "write"
    /\ row' = IF /\ row.status = seen[h].status
                 /\ row.cancelAt = token[h]
                 /\ row.refundAt = Null
                 /\ ~row.refunded
              THEN [row EXCEPT !.status = "CANCELLED"] ELSE row
    /\ Return(h)
    /\ UNCHANGED <<world, now>>

RefundWrite(h) ==
    /\ op[h] \in {"refund", "recheckRefund"} /\ pc[h] = "write"
    /\ row' = IF row.refundAt = token[h] /\ ~row.refunded
              THEN [row EXCEPT !.refunded = TRUE] ELSE row
    /\ Return(h)
    /\ UNCHANGED <<world, now>>

(* An await rejects (database error, lost or refused bank call, 10 s        *)
(* timeout) or the process dies.  A call already sent stays with the bank.  *)
Fail(h) ==
    /\ pc[h] # "idle"
    /\ Return(h)
    /\ UNCHANGED <<row, world, now>>

-----------------------------------------------------------------------------
(* The bank, outside src/: the customer pays or is declined, the bank or    *)
(* the operations CLI captures, voids or refunds, and ATHLON's own calls    *)
(* are accepted or refused, possibly long after the request gave up.        *)

BankMoves ==
    /\ \/ bank = Started /\ bank' \in {Approved, Deposited, Declined}
       \/ bank = Approved /\ bank' \in {Deposited, VoidAuthorization}
       \/ bank = Deposited /\ bank' \in {VoidAuthorization, VoidCapture, Refunded}
    /\ captured' = (captured \/ bank' = Deposited)
    /\ UNCHANGED <<row, call, submitted, now, locals>>

BankAccepts(k) ==
    /\ call[k] = "sent"
    /\ \/ k = "cancel" /\ bank = Approved /\ bank' = VoidAuthorization
       \/ k = "cancel" /\ bank = Deposited /\ bank' \in {VoidAuthorization, VoidCapture}
       \/ k = "refund" /\ bank = Deposited /\ bank' = Refunded
    /\ call' = [call EXCEPT ![k] = "accepted"]
    /\ UNCHANGED <<row, captured, submitted, now, locals>>

BankRefuses(k) ==
    /\ call[k] = "sent"
    /\ call' = [call EXCEPT ![k] = "refused"]
    /\ UNCHANGED <<row, bank, captured, submitted, now, locals>>

Tick ==
    /\ now < MaxTime
    /\ now' = now + 1
    /\ UNCHANGED <<row, world, locals>>

-----------------------------------------------------------------------------
Reads(h) ==
    \/ PollRead(h) \/ CancelRead(h) \/ RefundRead(h) \/ AdminCancelRead(h)
    \/ RecheckRead(h)

Continues(h) ==
    \/ PollClaim(h) \/ PollDetails(h) \/ PollWrite(h)
    \/ MutationDetails(h) \/ CancelClaim(h) \/ RefundClaim(h) \/ HistoricalRefund(h)
    \/ Submit(h) \/ Acknowledged(h) \/ RecordAck(h) \/ ReadBack(h)
    \/ BrowserCancelWrite(h) \/ AdminCancelWrite(h) \/ RefundWrite(h)

Next ==
    \/ \E h \in Requests : Reads(h) \/ Continues(h) \/ Fail(h)
    \/ \E k \in Kinds : BankAccepts(k) \/ BankRefuses(k)
    \/ BankMoves
    \/ Tick

Spec == Init /\ [][Next]_vars

-----------------------------------------------------------------------------
AttemptAt(k) == IF k = "refund" THEN row.refundAt ELSE row.cancelAt

Local == [status : Status, cancelAt : Nat]

TypeOK ==
    /\ row \in [status : Status, nextCheck : Nat, cancelAt : Nat, cancelAck : BOOLEAN,
                refundAt : Nat, refundAck : BOOLEAN, refunded : BOOLEAN]
    /\ bank \in BankStates
    /\ captured \in BOOLEAN
    /\ call \in [Kinds -> {"none", "sent", "accepted", "refused"}]
    /\ submitted \in [Kinds -> Nat]
    /\ now \in Nat \ {0}
    /\ op \in [Requests -> Ops \cup {"none"}]
    /\ pc \in [Requests -> Steps]
    /\ seen \in [Requests -> Local]
    /\ token \in [Requests -> Nat]
    /\ verdict \in [Requests -> Status]

(* A cancellation and a refund are never both recorded for one payment,     *)
(* whichever of the browser and the operators race for it: the claims in    *)
(* cancel (both services) and refund exclude each other.                    *)
OneAttempt == row.cancelAt = Null \/ row.refundAt = Null

(* Every CancelPayment or RefundPayment request sent to the bank belongs to *)
(* an attempt recorded before it, and no attempt is sent twice: not by two  *)
(* requests, not after a lost answer, not after a crash.                    *)
SubmittedAsRecorded ==
    \A k \in Kinds : submitted[k] <= IF AttemptAt(k) = Null THEN 0 ELSE 1

(* The stored status never says more than the bank did: SUCCEEDED only      *)
(* after a deposit, FAILED only for a declined payment, CANCELLED only when *)
(* the bank holds nothing any more, although each is written from a reply   *)
(* that may be old by then.                                                 *)
StatusBacked ==
    /\ row.status = "SUCCEEDED" => captured
    /\ row.status = "FAILED" => bank = Declined
    /\ row.status = "CANCELLED" => bank.order \in {3, 4}

(* refundedAt is set only on a captured payment nobody tried to cancel, and *)
(* only when the bank has returned the money.                               *)
RefundBacked ==
    row.refunded => /\ bank = Refunded
                    /\ row.status = "SUCCEEDED"
                    /\ row.cancelAt = Null

(* The rows the README's DBeaver query counts as certification evidence,    *)
(* CANCELLED with cancellationAcknowledgedAt, are voids that the bank       *)
(* accepted from ATHLON; the same for an acknowledged refund.               *)
EvidenceSound ==
    /\ row.cancelAck => call["cancel"] = "accepted" /\ bank.order = 3
    /\ row.refundAck => call["refund"] = "accepted" /\ bank = Refunded

(* What an operator reads in the row is so: status, refund and the          *)
(* acknowledgements together never claim more than the bank did.            *)
RowBacked == StatusBacked /\ RefundBacked /\ EvidenceSound

(* Two polls never verify under the same lease: nextCheckAt tells every     *)
(* verification apart from the ones it superseded, even when a cancellation *)
(* resets it to the very tick an older poll started in.                     *)
Verifying(h) == op[h] = "poll" /\ pc[h] \in {"details", "write"}

LeaseUnique ==
    \A g, h \in Requests :
        /\ Verifying(g) /\ Verifying(h)
        /\ token[g] = token[h] /\ seen[g].cancelAt = seen[h].cancelAt
        => g = h

(* Once a cancellation is recorded, nothing but its own confirmation may    *)
(* touch the status: a poll, or an operator's request, that read the row    *)
(* before the attempt changes nothing when it writes after it.              *)
FencedByAttempt ==
    [][row.cancelAt # Null => row'.status \in {row.status, "CANCELLED"}]_vars

(* Attempts, confirmations and final states are never taken back, and the   *)
(* only way out of SUCCEEDED is a recorded cancellation.                    *)
NeverRevised ==
    [][/\ row.cancelAt # Null => row'.cancelAt = row.cancelAt
       /\ row.refundAt # Null => row'.refundAt = row.refundAt
       /\ row.refunded => row'.refunded
       /\ row.status \in {"FAILED", "CANCELLED"} => row'.status = row.status
       /\ row.status = "SUCCEEDED" /\ row'.status # "SUCCEEDED" =>
             row'.status = "CANCELLED" /\ row.cancelAt # Null]_vars

-----------------------------------------------------------------------------
(* Why the safety properties hold: the inductive invariant.  Each conjunct  *)
(* says what a request that stands at an await may rely on, or what the     *)
(* row's columns say of each other.                                         *)

CancelOps == {"cancel", "adminCancel", "recheckCancel"}
RefundOps == {"refund", "recheckRefund"}

(* The steps each kind of request goes through. *)
Track ==
    \A h \in Requests :
        /\ pc[h] = "idle" <=> op[h] = "none"
        /\ op[h] = "poll" => pc[h] \in {"claim", "details", "write"}
        /\ op[h] = "none" \/ op[h] = "poll" \/ op[h] \in CancelOps \cup RefundOps
        /\ pc[h] = "historical" => op[h] = "refund"
        /\ pc[h] \in {"claim", "send"} =>
              op[h] \in {"poll", "cancel", "adminCancel", "refund"}

(* A request that may record or use an attempt holds a real timestamp. *)
HoldsAttempt ==
    \A h \in Requests :
        /\ \/ op[h] = "poll"
           \/ pc[h] \in {"claim", "send", "wait", "ack", "readBack", "write"}
           => token[h] # Null
        /\ seen[h].cancelAt \in {Null, row.cancelAt}

(* A refund attempt keeps the row captured and free of a cancellation. *)
RefundFences ==
    row.refundAt # Null => row.status = "SUCCEEDED" /\ row.cancelAt = Null

(* Only a pending or captured payment is ever up for cancellation. *)
CancelCandidates ==
    /\ row.cancelAt # Null => row.status \in {"PENDING", "SUCCEEDED", "CANCELLED"}
    /\ \A h \in Requests : op[h] \in {"cancel", "adminCancel"} =>
          seen[h].status \in {"PENDING", "SUCCEEDED"}

(* Who is about to send has recorded the attempt and is the first to send. *)
SendOnce ==
    \A h \in Requests :
        pc[h] = "send" => /\ AttemptAt(KindOf(op[h])) # Null
                          /\ submitted[KindOf(op[h])] = 0
                          /\ \A g \in Requests : pc[g] = "send" => g = h

CallsFollow ==
    /\ \A k \in Kinds : submitted[k] = 0 => call[k] = "none"
    /\ call["cancel"] = "accepted" => bank.order = 3
    /\ call["refund"] = "accepted" => bank = Refunded
    /\ bank = Deposited => captured
    /\ \A h \in Requests : pc[h] = "ack" => call[KindOf(op[h])] = "accepted"

(* What a request is about to store is still true at the bank. *)
WritesBacked ==
    \A h \in Requests :
        /\ op[h] = "poll" /\ pc[h] = "write" =>
              /\ verdict[h] = "SUCCEEDED" => captured
              /\ verdict[h] = "FAILED" => bank = Declined
              /\ verdict[h] = "CANCELLED" => bank.order \in {3, 4}
              /\ seen[h].cancelAt # Null => verdict[h] = "CANCELLED"
        /\ op[h] \in CancelOps /\ pc[h] = "write" => bank.order = 3
        /\ op[h] \in RefundOps /\ pc[h] \in {"historical", "write"} => bank = Refunded

(* No lease reaches past the row's own nextCheckAt. *)
LeaseBounded ==
    \A h \in Requests :
        Verifying(h) /\ seen[h].cancelAt = row.cancelAt => token[h] <= row.nextCheck

(* The inductive invariant of get, cancel, refund and recheck together. *)
IInv ==
    /\ TypeOK /\ Track /\ HoldsAttempt
    /\ OneAttempt /\ RefundFences /\ CancelCandidates
    /\ SendOnce /\ SubmittedAsRecorded
    /\ CallsFollow /\ WritesBacked
    /\ StatusBacked /\ RefundBacked /\ EvidenceSound
    /\ LeaseBounded /\ LeaseUnique

-----------------------------------------------------------------------------
(* The abstract specification this module implements.                       *)

Lifecycle == INSTANCE PaymentLifecycle WITH
    shown <- ToAdminStatus,
    attempt <- IF row.cancelAt # Null THEN "cancel"
               ELSE IF row.refundAt # Null THEN "refund" ELSE "none",
    writes <- submitted["cancel"] + submitted["refund"]

(* What operators see follows the lifecycle, and at most one bank write is  *)
(* ever made, after an attempt is recorded.                                 *)
ImplementsLifecycle == Lifecycle!Spec

-----------------------------------------------------------------------------
(* Progress.  Assumed: an operator keeps pressing Recheck, and neither the  *)
(* bank's answers nor the requests fail every time (strong fairness of the  *)
(* recheck's three steps); a request that can go on does (weak fairness).   *)

ReadBackVerified(h) ==
    /\ pc[h] = "readBack"
    /\ Confirmed(h, bank)
    /\ Goto(h, "write")
    /\ UNCHANGED <<row, world, now>>

Fairness ==
    \A h \in Requests :
        /\ WF_vars(Continues(h) \/ (pc[h] = "wait" /\ Fail(h)))
        /\ SF_vars(RecheckRead(h))
        /\ SF_vars(ReadBackVerified(h))
        /\ SF_vars(AdminCancelWrite(h))
        /\ SF_vars(RefundWrite(h))

FairSpec == Spec /\ Fairness

(* An attempt whose outcome was lost is reconciled: when the bank has       *)
(* voided, or refunded, the payment, rechecking stores it in the end,       *)
(* whatever crashed in between and whoever recorded the attempt.            *)
CancellationReconciled ==
    (row.cancelAt # Null /\ bank.order = 3) ~> row.status = "CANCELLED"

RefundReconciled ==
    (row.refundAt # Null /\ bank = Refunded) ~> row.refunded

(* Both kinds of attempt are reconciled, by requests that race each other.  *)
Reconciled == CancellationReconciled /\ RefundReconciled
=============================================================================
