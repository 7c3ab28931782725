-------------------------- MODULE SandboxOperations --------------------------
(***************************************************************************)
(* scripts/ameria-sandbox-operations.mjs for one payment: runs of the tool *)
(* at the same time, the evidence directory they share, the bank, and the  *)
(* failures in between: a run that throws or is killed, a machine that     *)
(* loses power.  A file is linked under its name in one step; it survives  *)
(* a power loss for certain once a run has synced the directory after      *)
(* that.  A run is cut at every file and bank operation; temporary files,  *)
(* never read under another name, are left out, and so are previews,       *)
(* reports and all that only prints.                                       *)
(***************************************************************************)
EXTENDS Naturals

CONSTANTS Runs,      \* runs of the tool at the same time
          MaxSent    \* how many mutations the model lets through (a bound)

ASSUME MaxSentAssumption == MaxSent \in Nat \ {0}

VARIABLES
    file,       \* the evidence, by kind: what it says, and whether it is synced
    bank,       \* the payment as the bank has it
    captured,   \* auxiliary: the bank has had the money
    mutation,   \* the last RefundPayment or CancelPayment, as the bank has it
    sent,       \* auxiliary: how many were sent
    fresh,      \* the 72 hours since initialization are not over
    run         \* what each run does next, and what it remembers

toolVars == <<file, bank, captured, mutation, sent, fresh, run>>
world == <<bank, captured, mutation, sent, fresh>>

Kinds == {"payment", "attempt", "response", "outcome"}
Operations == {"refund", "cancel"}
Absent == [says |-> "nothing", synced |-> FALSE]
Present(k) == file[k] # Absent

(* Void was never captured, voidCapture was. *)
BankStates == {"started", "approved", "deposited", "void", "voidCapture", "refunded", "declined"}

Idle == [at |-> "idle", linked |-> FALSE, command |-> "none", claim |-> "none",
         code |-> "none", details |-> "none"]

ToolInit ==
    /\ file = [k \in Kinds |-> Absent]
    /\ bank = "started" /\ captured = FALSE
    /\ mutation = [operation |-> "none", is |-> "unsent"] /\ sent = 0
    /\ fresh = TRUE
    /\ run = [r \in Runs |-> Idle]

Eligible(o, d) == IF o = "refund" THEN d = "deposited" ELSE d = "approved" /\ fresh

MatchesOutcome(o, d) == d = IF o = "refund" THEN "refunded" ELSE "void"

-----------------------------------------------------------------------------
(* A command to apply looks for an attempt and stops at one; verify stops   *)
(* without.                                                                 *)
StartRun(r) ==
    /\ run[r] = Idle
    /\ \/ run' = [run EXCEPT ![r].at = "details", ![r].command = "inspect"]
       \/ \E o \in Operations :
             /\ ~Present("attempt")
             /\ run' = [run EXCEPT ![r].at = "details", ![r].command = o, ![r].claim = o]
    /\ UNCHANGED <<file, world>>

(* Wrong: only what the bank acknowledged is looked up. *)
VerifyAcknowledged(r) ==
    /\ run[r] = Idle /\ Present("attempt") /\ file["response"].says = "00"
    /\ run' = [run EXCEPT ![r].at = "details", ![r].command = "verify",
                          ![r].claim = file["attempt"].says]
    /\ UNCHANGED <<file, world>>

Verify(r) ==
    /\ run[r] = Idle /\ Present("attempt")
    /\ run' = [run EXCEPT ![r].at = "details", ![r].command = "verify",
                          ![r].claim = file["attempt"].says]
    /\ UNCHANGED <<file, world>>

Goes(r, step) == run' = [run EXCEPT ![r] = IF step = "done" THEN Idle
                                           ELSE [@ EXCEPT !.at = step, !.details = bank]]

(* bankDetails, and what is made of it; what fails the test ends the run.   *)
Details(r) ==
    /\ run[r].at = "details"
    /\ \/ run[r].command = "inspect" /\ Goes(r, IF bank = "deposited" THEN "payment" ELSE "done")
       \/ /\ run[r].command = "verify"
          /\ Goes(r, IF MatchesOutcome(run[r].claim, bank) THEN "outcome" ELSE "done")
       \/ /\ run[r].command \in Operations
          /\ Goes(r, IF ~Eligible(run[r].command, bank) THEN "done"
                     ELSE IF run[r].command = "refund" THEN "payment" ELSE "attempt")
    /\ UNCHANGED <<file, world>>

Content(r, k) ==
    CASE k = "attempt" -> run[r].claim [] k = "response" -> run[r].code [] OTHER -> run[r].details

(* What a run does after it has saved, or found, the file of kind k.        *)
After(r, k) ==
    CASE k = "payment" -> IF run[r].command = "inspect" THEN "done" ELSE "attempt"
      [] k = "attempt" -> "submit"
      [] k = "response" -> IF run[r].code = "00" THEN "confirm" ELSE "done"
      [] k = "outcome" -> "done"

Continues(r, step) ==
    run' = [run EXCEPT ![r] = IF step = "done" THEN Idle
                              ELSE [@ EXCEPT !.at = step, !.linked = FALSE]]

(* Wrong: an attempt that is there is as good as one's own. *)
FoundLenient(r, k) == Continues(r, After(r, k))

(* EEXIST: another run has saved the file; its attempt ends this one.       *)
Found(r, k) == Continues(r, IF k = "attempt" THEN "done" ELSE After(r, k))

Link(r, k) ==
    /\ run[r].at = k /\ ~run[r].linked
    /\ IF Present(k) THEN Found(r, k) /\ UNCHANGED file
       ELSE /\ file' = [file EXCEPT ![k] = [says |-> Content(r, k), synced |-> FALSE]]
            /\ run' = [run EXCEPT ![r].linked = TRUE]
    /\ UNCHANGED world

Sync(r, k) ==
    /\ run[r].at = k /\ run[r].linked
    /\ file' = [j \in Kinds |-> IF Present(j) THEN [file[j] EXCEPT !.synced = TRUE] ELSE Absent]
    /\ Continues(r, After(r, k))
    /\ UNCHANGED world

Submit(r) ==
    /\ run[r].at = "submit" /\ sent < MaxSent
    /\ mutation' = [operation |-> run[r].claim, is |-> "sent"]
    /\ sent' = sent + 1
    /\ Continues(r, "answer")
    /\ UNCHANGED <<file, bank, captured, fresh>>

(* The bank's ResponseCode, when it arrives. *)
Answer(r) ==
    /\ run[r].at = "answer" /\ mutation.is # "sent"
    /\ run' = [run EXCEPT ![r].at = "response",
                          ![r].code = IF mutation.is = "refused" THEN "05" ELSE "00"]
    /\ UNCHANGED <<file, world>>

Confirm(r) ==
    /\ run[r].at = "confirm"
    /\ Goes(r, IF MatchesOutcome(run[r].claim, bank) THEN "outcome" ELSE "done")
    /\ UNCHANGED <<file, world>>

(* Ten seconds without an answer. *)
TimesOut(r) == run[r].at = "answer" /\ run' = [run EXCEPT ![r] = Idle] /\ UNCHANGED <<file, world>>

Fail(r) == run[r] # Idle /\ run' = [run EXCEPT ![r] = Idle] /\ UNCHANGED <<file, world>>

PowerLoss ==
    /\ \E lost \in SUBSET {k \in Kinds : ~file[k].synced} :
          file' = [k \in Kinds |-> IF k \in lost THEN Absent ELSE [file[k] EXCEPT !.synced = Present(k)]]
    /\ run' = [r \in Runs |-> Idle]
    /\ UNCHANGED world

-----------------------------------------------------------------------------
(* The bank, the customer, and whoever works on the payment elsewhere.      *)
BankMoves ==
    /\ \/ bank = "started" /\ bank' \in {"approved", "deposited", "declined"}
       \/ bank = "approved" /\ bank' \in {"deposited", "void"}
       \/ bank = "deposited" /\ bank' \in {"void", "voidCapture", "refunded"}
    /\ captured' = (captured \/ bank' = "deposited")
    /\ UNCHANGED <<file, mutation, sent, fresh, run>>

BankReplies ==
    /\ mutation.is = "sent"
    /\ \E reply \in {"acknowledged", "refused"} : mutation' = [mutation EXCEPT !.is = reply]
    /\ UNCHANGED <<file, bank, captured, sent, fresh, run>>

BankExecutes ==
    /\ mutation.is = "acknowledged"
    /\ \/ mutation.operation = "refund" /\ bank = "deposited" /\ bank' = "refunded"
       \/ mutation.operation = "cancel" /\ bank = "approved" /\ bank' = "void"
       \/ mutation.operation = "cancel" /\ bank = "deposited" /\ bank' \in {"void", "voidCapture"}
    /\ mutation' = [mutation EXCEPT !.is = "executed"]
    /\ UNCHANGED <<file, captured, sent, fresh, run>>

WindowEnds == fresh /\ fresh' = FALSE /\ UNCHANGED <<file, bank, captured, mutation, sent, run>>

Step(r) ==
    \/ Details(r) \/ Submit(r) \/ Answer(r) \/ TimesOut(r) \/ Confirm(r)
    \/ \E k \in Kinds : Link(r, k) \/ Sync(r, k)

ToolNext ==
    \/ \E r \in Runs : StartRun(r) \/ Verify(r) \/ Step(r) \/ Fail(r)
    \/ PowerLoss \/ BankMoves \/ BankReplies \/ BankExecutes \/ WindowEnds

ToolSpec == ToolInit /\ [][ToolNext]_toolVars

-----------------------------------------------------------------------------
ToolTypeOK ==
    /\ file \in [Kinds -> [says : BankStates \cup Operations \cup {"nothing", "00", "05"},
                          synced : BOOLEAN]]
    /\ bank \in BankStates /\ captured \in BOOLEAN /\ fresh \in BOOLEAN
    /\ mutation \in [operation : Operations \cup {"none"},
                     is : {"unsent", "sent", "refused", "acknowledged", "executed"}]
    /\ sent \in 0..MaxSent
    /\ run \in [Runs -> [at : Kinds \cup {"idle", "details", "submit", "answer", "confirm"},
                         linked : BOOLEAN, command : Operations \cup {"none", "inspect", "verify"},
                         claim : Operations \cup {"none"}, code : {"none", "00", "05"},
                         details : BankStates \cup {"none"}]]

(* Whatever runs at the same time, is killed or loses power, the bank never *)
(* gets a second mutation for the payment, and the record of the one it got *)
(* is on disk and says which it was.                                        *)
SentOnce ==
    /\ sent <= 1
    /\ sent = 1 => file["attempt"] = [says |-> mutation.operation, synced |-> TRUE]

(* What the report counts is true: a payment was captured, an operation it  *)
(* calls verified was sent, acknowledged, and brought the payment to the    *)
(* state it is for.                                                         *)
ReportTrue ==
    /\ Present("payment") => captured
    /\ Present("attempt") /\ Present("outcome") =>
          /\ MatchesOutcome(file["attempt"].says, bank)
          /\ file["response"].says = "00" => sent = 1 /\ mutation.is \in {"acknowledged", "executed"}

(* Both: the evidence directory tells the bank's side of it.                *)
EvidenceTrue == SentOnce /\ ReportTrue

(* With the operator running verify and no failure any more, a mutation     *)
(* that reached its state is recorded: also one whose answer was lost, or   *)
(* whose run was killed on the way.                                         *)
Fairness == \A r \in Runs : WF_toolVars(Step(r)) /\ SF_toolVars(Verify(r))

FairSpec == ToolSpec /\ Fairness

OutcomeRecorded ==
    <>[][~PowerLoss /\ \A r \in Runs : Fail(r) => TimesOut(r)]_toolVars =>
       (sent > 0 /\ MatchesOutcome(mutation.operation, bank)) ~> Present("outcome")
=============================================================================
