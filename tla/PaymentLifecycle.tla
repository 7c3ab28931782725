-------------------------- MODULE PaymentLifecycle --------------------------
(***************************************************************************)
(* What the sandbox payment services promise an operator about ONE payment *)
(* row: the status the admin panel shows (AdminSandboxPayment.status) and  *)
(* how it may move, and that ATHLON writes to the bank at most once, and   *)
(* only for the kind of attempt it has recorded.  SandboxPayment           *)
(* implements this specification.                                          *)
(***************************************************************************)
EXTENDS Naturals

VARIABLES shown,    \* the status of AdminSandboxPayment
          attempt,  \* the one attempt recorded for the payment
          writes    \* bank mutations submitted for the payment

vars == <<shown, attempt, writes>>

Shown == {"PENDING", "SUCCEEDED", "FAILED", "CANCELLED", "REFUNDED",
          "REFUND_UNCONFIRMED", "CANCELLATION_UNCONFIRMED"}

Init ==
    /\ shown = "PENDING"
    /\ attempt = "none"
    /\ writes = 0

(* The bank's answer to the checkout settles a pending payment. *)
Settle ==
    /\ shown = "PENDING"
    /\ shown' \in {"SUCCEEDED", "FAILED", "CANCELLED"}
    /\ UNCHANGED <<attempt, writes>>

BeginCancellation ==
    /\ shown \in {"PENDING", "SUCCEEDED"}
    /\ attempt = "none"
    /\ shown' = "CANCELLATION_UNCONFIRMED"
    /\ attempt' = "cancel"
    /\ UNCHANGED writes

ConfirmCancellation ==
    /\ shown = "CANCELLATION_UNCONFIRMED"
    /\ shown' = "CANCELLED"
    /\ UNCHANGED <<attempt, writes>>

BeginRefund ==
    /\ shown = "SUCCEEDED"
    /\ attempt = "none"
    /\ shown' = "REFUND_UNCONFIRMED"
    /\ attempt' = "refund"
    /\ UNCHANGED writes

(* The bank reports a full refund: ours, or one made outside the panel. *)
ConfirmRefund ==
    /\ shown \in {"REFUND_UNCONFIRMED", "SUCCEEDED"}
    /\ shown' = "REFUNDED"
    /\ UNCHANGED <<attempt, writes>>

(* The one bank mutation; it may follow the confirmation, when the bank was *)
(* moved by someone else between the recorded attempt and the request.      *)
Submit ==
    /\ attempt # "none"
    /\ writes = 0
    /\ writes' = 1
    /\ UNCHANGED <<shown, attempt>>

Next ==
    \/ Settle
    \/ BeginCancellation \/ ConfirmCancellation
    \/ BeginRefund \/ ConfirmRefund
    \/ Submit

Spec == Init /\ [][Next]_vars
=============================================================================
