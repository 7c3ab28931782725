----------------------- MODULE OperatorScripts_proofs -----------------------
(***************************************************************************)
(* The operators' scripts, for any number of runs at once.  The            *)
(* certification tool sends one mutation at most and records it truly.     *)
(* Deployments write of REVISION what runs, and leave a way back to it.    *)
(***************************************************************************)
EXTENDS SandboxOperations, Deployment, TLAPS

-----------------------------------------------------------------------------
(* The certification tool: one payment, its evidence, and runs that meet.   *)

Runners == [at : Kinds \cup {"idle", "details", "submit", "answer", "confirm"},
            linked : BOOLEAN, command : Operations \cup {"none", "inspect", "verify"},
            claim : Operations \cup {"none"}, code : {"none", "00", "05"},
            details : BankStates \cup {"none"}]
Files == [says : BankStates \cup Operations \cup {"nothing", "00", "05"}, synced : BOOLEAN]
Mutations == [operation : Operations \cup {"none"},
              is : {"unsent", "sent", "refused", "acknowledged", "executed"}]

LEMMA EvidenceTypes ==
    /\ ToolTypeOK <=> /\ file \in [Kinds -> Files] /\ bank \in BankStates /\ captured \in BOOLEAN
                  /\ fresh \in BOOLEAN /\ mutation \in Mutations /\ sent \in 0..MaxSent
                  /\ run \in [Runs -> Runners]
    /\ ToolTypeOK' <=> /\ file' \in [Kinds -> Files] /\ bank' \in BankStates /\ captured' \in BOOLEAN
                   /\ fresh' \in BOOLEAN /\ mutation' \in Mutations /\ sent' \in 0..MaxSent
                   /\ run' \in [Runs -> Runners]
  BY DEF ToolTypeOK, Runners, Files, Mutations

(* The run whose link of the attempt succeeded, from there to its end; and  *)
(* whoever works with an attempt that is on disk.                           *)
OwnsAttempt(r) ==
    \/ run[r].at \in {"submit", "answer", "response", "confirm"}
    \/ run[r].at = "attempt" /\ run[r].linked

Relies(r) ==
    \/ OwnsAttempt(r) \/ run[r].at = "outcome"
    \/ run[r].at = "details" /\ run[r].command = "verify"

(* What a run knows of the disk and the bank, by the step it is at.         *)
RunSound(r) ==
    /\ run[r].command \in Operations => run[r].claim = run[r].command
    /\ run[r].at \in {"attempt", "submit", "answer", "response", "confirm"} => run[r].command \in Operations
    /\ run[r].linked => run[r].at \in Kinds
    /\ run[r].at \in {"payment", "outcome"} => run[r].details # "none"
    /\ run[r].at = "payment" => captured /\ run[r].command \in {"inspect", "refund"}
    /\ run[r].at = "idle" => run[r] = Idle
    /\ Relies(r) => Present("attempt") /\ file["attempt"].says = run[r].claim
    /\ run[r].at = "attempt" /\ run[r].linked => sent = 0
    /\ run[r].at = "submit" => sent = 0 /\ file["attempt"].synced
    /\ run[r].at \in {"answer", "response", "confirm"} => sent = 1
    /\ run[r].at = "response" => run[r].code # "none"
    /\ run[r].at = "response" /\ run[r].code = "00" => mutation.is \in {"acknowledged", "executed"}
    /\ run[r].at = "outcome" => MatchesOutcome(run[r].claim, bank)
    /\ Present("outcome") /\ ~Present("attempt") =>
          run[r].at # "attempt" /\ ~(run[r].at = "payment" /\ run[r].command = "refund")

(* What is on disk agrees with the bank, whoever put it there.              *)
DiskSound ==
    /\ \A k \in Kinds : file[k].says = "nothing" => ~file[k].synced
    /\ file["attempt"].says \in Operations \cup {"nothing"}
    /\ bank = "deposited" \/ Present("payment") => captured
    /\ \/ sent = 0 /\ mutation.is = "unsent"
       \/ /\ sent = 1 /\ mutation.is # "unsent"
          /\ file["attempt"] = [says |-> mutation.operation, synced |-> TRUE]
    /\ file["response"].says = "00" => sent = 1 /\ mutation.is \in {"acknowledged", "executed"}
    /\ Present("outcome") => bank \in {"refunded", "void"}
    /\ Present("attempt") /\ Present("outcome") => MatchesOutcome(file["attempt"].says, bank)

OneOwner == \A r, s \in Runs : OwnsAttempt(r) /\ OwnsAttempt(s) => r = s

EvidenceInv == ToolTypeOK /\ DiskSound /\ OneOwner /\ \A r \in Runs : RunSound(r)

LEMMA EvidenceStart == ToolInit => EvidenceInv
<1> SUFFICES ASSUME ToolInit PROVE EvidenceInv
  OBVIOUS
<1>1. ToolTypeOK
  <2>1. Absent \in Files /\ Idle \in Runners
    BY DEF Absent, Files, Idle, Runners
  <2>2. file \in [Kinds -> Files] /\ run \in [Runs -> Runners]
    BY <2>1 DEF ToolInit
  <2>3. mutation \in Mutations /\ sent \in 0..MaxSent /\ bank \in BankStates
    BY MaxSentAssumption DEF ToolInit, Mutations, BankStates
  <2> QED
    BY <2>2, <2>3, EvidenceTypes DEF ToolInit
<1>2. DiskSound
  BY DEF ToolInit, DiskSound, Absent, Present, Kinds
<1>3. OneOwner
  BY DEF ToolInit, OneOwner, OwnsAttempt, Idle, Kinds
<1>4. \A r \in Runs : RunSound(r)
  BY DEF ToolInit, RunSound, Relies, OwnsAttempt, Idle, Present, Absent, Kinds, Operations
<1> QED
  BY <1>1, <1>2, <1>3, <1>4 DEF EvidenceInv

(* Files stay, or are synced.                                               *)
FilesKept ==
    /\ file' \in [Kinds -> Files]
    /\ \A k \in Kinds :
          /\ file'[k].says = file[k].says
          /\ file[k].synced => file'[k].synced
          /\ file'[k].says = "nothing" => ~file'[k].synced

LEMMA KindNames ==
    "payment" \in Kinds /\ "attempt" \in Kinds /\ "response" \in Kinds /\ "outcome" \in Kinds
  BY DEF Kinds

LEMMA KeptFiles ==
    ASSUME EvidenceInv
    PROVE  /\ UNCHANGED file => FilesKept
           /\ \A k \in Kinds : Present(k) <=> file[k].says # "nothing"
           /\ FilesKept => \A k \in Kinds : Present(k)' <=> Present(k)
<1>1. file \in [Kinds -> Files] /\ \A k \in Kinds : file[k].says = "nothing" => ~file[k].synced
  BY EvidenceTypes DEF EvidenceInv, DiskSound
<1>2. \A x \in Files : x = Absent <=> x.says = "nothing" /\ ~x.synced
  BY DEF Files, Absent
<1>3. \A k \in Kinds : Present(k) <=> file[k].says # "nothing"
  BY <1>1, <1>2 DEF Present
<1>4. FilesKept => \A k \in Kinds : Present(k)' <=> Present(k)
  BY <1>2, <1>3 DEF FilesKept, Present
<1> QED
  BY <1>1, <1>3, <1>4 DEF FilesKept

(* A run that goes on by itself, without coming into an attempt.            *)
LEMMA RunSteps ==
    ASSUME EvidenceInv, NEW r \in Runs, NEW n \in Runners, FilesKept,
           UNCHANGED <<bank, captured, mutation, sent, fresh>>,
           run' = [run EXCEPT ![r] = n], RunSound(r)', OwnsAttempt(r)' => OwnsAttempt(r)
    PROVE  EvidenceInv'
<1>1. run' \in [Runs -> Runners] /\ \A s \in Runs : s # r => run'[s] = run[s]
  BY EvidenceTypes DEF EvidenceInv
<1>2. ToolTypeOK'
  BY <1>1, EvidenceTypes DEF EvidenceInv, FilesKept
<1>3. \A k \in Kinds : Present(k)' <=> Present(k)
  BY KeptFiles
<1>4. DiskSound'
  <2>1. sent = 1 => file'["attempt"] = [says |-> mutation.operation, synced |-> TRUE]
    <3>1. sent = 1 => file["attempt"].says = mutation.operation /\ file["attempt"].synced
      BY DEF EvidenceInv, DiskSound
    <3> QED
      BY <3>1, KindNames DEF FilesKept, Files
  <2> QED
    BY <1>3, <2>1, KindNames DEF EvidenceInv, DiskSound, FilesKept
<1>5. OneOwner'
  BY <1>1 DEF EvidenceInv, OneOwner, OwnsAttempt
<1>6. \A s \in Runs : s # r => RunSound(s)'
  <2> SUFFICES ASSUME NEW s \in Runs, s # r PROVE RunSound(s)'
    OBVIOUS
  <2>1. run'[s] = run[s] /\ RunSound(s)
    BY <1>1 DEF EvidenceInv
  <2>2. Relies(s)' <=> Relies(s)
    BY <2>1 DEF Relies, OwnsAttempt
  <2>3. /\ file'["attempt"].says = file["attempt"].says
        /\ file["attempt"].synced => file'["attempt"].synced
    BY KindNames DEF FilesKept
  <2> QED
    BY <1>3, <2>1, <2>2, <2>3, KindNames DEF RunSound
<1> QED
  BY <1>2, <1>4, <1>5, <1>6 DEF EvidenceInv

LEMMA Resting ==
    Idle \in Runners /\ Idle.at = "idle" /\ Idle.command = "none" /\ Idle.linked = FALSE
  BY DEF Idle, Runners

(* A run that ends. *)
LEMMA RunEnds ==
    ASSUME EvidenceInv, NEW r \in Runs, FilesKept, UNCHANGED <<bank, captured, mutation, sent, fresh>>,
           run' = [run EXCEPT ![r] = Idle]
    PROVE  EvidenceInv'
<1>1. run'[r] = Idle
  BY EvidenceTypes DEF EvidenceInv
<1>2. RunSound(r)' /\ ~OwnsAttempt(r)'
  BY <1>1, Resting DEF RunSound, Relies, OwnsAttempt, Operations
<1> QED
  BY <1>2, Resting, RunSteps

LEMMA StartSound ==
    ASSUME EvidenceInv, NEW r \in Runs, StartRun(r) \/ Verify(r)
    PROVE  EvidenceInv'
<1>1. UNCHANGED <<file, bank, captured, mutation, sent, fresh>> /\ run[r] = Idle
  BY DEF StartRun, Verify, world
<1>2. PICK c \in Operations \cup {"inspect", "verify"}, o \in Operations \cup {"none"} :
         /\ run' = [run EXCEPT ![r] = [Idle EXCEPT !.at = "details", !.command = c, !.claim = o]]
         /\ c \in Operations => o = c
         /\ c = "verify" => Present("attempt") /\ o = file["attempt"].says
  <2>1. CASE StartRun(r)
    <3>1. CASE run' = [run EXCEPT ![r].at = "details", ![r].command = "inspect"]
      <4>1. run' = [run EXCEPT ![r] = [Idle EXCEPT !.at = "details", !.command = "inspect", !.claim = "none"]]
        BY <1>1, <3>1, EvidenceTypes DEF EvidenceInv, Idle
      <4> QED
        BY <4>1 DEF Operations
    <3>2. ASSUME NEW o \in Operations,
                 run' = [run EXCEPT ![r].at = "details", ![r].command = o, ![r].claim = o]
          PROVE  run' = [run EXCEPT ![r] = [Idle EXCEPT !.at = "details", !.command = o, !.claim = o]]
      BY <1>1, <3>2, EvidenceTypes DEF EvidenceInv, Idle
    <3> QED
      BY <2>1, <3>1, <3>2 DEF StartRun, Operations
  <2>2. CASE Verify(r)
    <3> DEFINE o == file["attempt"].says
    <3>1. /\ Present("attempt")
          /\ run' = [run EXCEPT ![r].at = "details", ![r].command = "verify", ![r].claim = o]
      BY <2>2 DEF Verify
    <3>2. o \in Operations
      BY <3>1 DEF EvidenceInv, DiskSound, Present, Absent, EvidenceInv, ToolTypeOK, Kinds
    <3> HIDE DEF o
    <3>3. run' = [run EXCEPT ![r] = [Idle EXCEPT !.at = "details", !.command = "verify", !.claim = o]]
      BY <1>1, <3>1, EvidenceTypes DEF EvidenceInv, Idle
    <3>4. /\ "verify" \in Operations \cup {"inspect", "verify"} /\ "verify" \notin Operations
          /\ o \in Operations \cup {"none"} /\ o = file["attempt"].says
      BY <3>2 DEF Operations, o
    <3> QED
      BY <3>1, <3>3, <3>4
  <2> QED
    BY <2>1, <2>2
<1> DEFINE n == [Idle EXCEPT !.at = "details", !.command = c, !.claim = o]
<1>3. /\ n \in Runners /\ n.at = "details" /\ n.command = c /\ n.claim = o /\ ~n.linked
  BY DEF Idle, Runners
<1> HIDE DEF n
<1>4. run'[r] = n
  BY <1>2, EvidenceTypes DEF EvidenceInv, n
<1>5. RunSound(r)' /\ ~OwnsAttempt(r)'
  BY <1>1, <1>2, <1>3, <1>4 DEF RunSound, Relies, OwnsAttempt, Present, Kinds, Operations
<1> QED
  BY <1>1, <1>2, <1>3, <1>5, KeptFiles, RunSteps DEF n

LEMMA DetailsSound ==
    ASSUME EvidenceInv, NEW r \in Runs, Details(r)
    PROVE  EvidenceInv'
<1>1. UNCHANGED <<file, bank, captured, mutation, sent, fresh>> /\ run[r].at = "details"
  BY DEF Details, world
<1>2. run[r] \in Runners /\ RunSound(r) /\ bank \in BankStates /\ DiskSound
  BY EvidenceTypes DEF EvidenceInv
<1>3. ASSUME NEW next \in {"payment", "attempt", "outcome"}, Goes(r, next),
             next = "payment" => bank = "deposited" /\ run[r].command \in {"inspect", "refund"},
             next = "attempt" => run[r].command \in Operations /\ bank \in {"deposited", "approved"},
             next = "outcome" => run[r].command = "verify" /\ MatchesOutcome(run[r].claim, bank)
      PROVE  EvidenceInv'
  <2> DEFINE n == [run[r] EXCEPT !.at = next, !.details = bank]
  <2>1. run' = [run EXCEPT ![r] = n]
    BY <1>3, EvidenceTypes DEF Goes, EvidenceInv
  <2>2. /\ n \in Runners /\ n.at = next /\ n.command = run[r].command
        /\ n.claim = run[r].claim /\ n.linked = FALSE /\ n.details # "none"
    BY <1>1, <1>2 DEF Runners, RunSound, Kinds, BankStates
  <2> HIDE DEF n
  <2>3. run'[r] = n
    BY <2>1, EvidenceTypes DEF EvidenceInv
  <2>4. ~OwnsAttempt(r)'
    BY <2>2, <2>3 DEF OwnsAttempt
  <2>5. next = "outcome" => Present("attempt") /\ file["attempt"].says = run[r].claim
    BY <1>1, <1>2, <1>3 DEF RunSound, Relies
  <2>6. bank = "deposited" => captured
    BY <1>2 DEF DiskSound
  <2>7. bank \in {"deposited", "approved"} => ~Present("outcome")
    BY <1>2 DEF DiskSound
  <2>8. RunSound(r)'
    BY <1>1, <1>2, <1>3, <2>2, <2>3, <2>4, <2>5, <2>6, <2>7 DEF RunSound, Relies, Present, Kinds, Operations
  <2> QED
    BY <1>1, <2>1, <2>2, <2>4, <2>8, KeptFiles, RunSteps
<1>4. ASSUME Goes(r, "done") PROVE EvidenceInv'
  <2>1. run' = [run EXCEPT ![r] = Idle]
    BY <1>4 DEF Goes
  <2> QED
    BY <1>1, <2>1, KeptFiles, RunEnds
<1>5. CASE run[r].command = "inspect" /\ Goes(r, IF bank = "deposited" THEN "payment" ELSE "done")
  BY <1>3, <1>4, <1>5 DEF Operations
<1>6. CASE /\ run[r].command = "verify"
           /\ Goes(r, IF MatchesOutcome(run[r].claim, bank) THEN "outcome" ELSE "done")
  BY <1>3, <1>4, <1>6
<1>7. CASE /\ run[r].command \in Operations
           /\ Goes(r, IF ~Eligible(run[r].command, bank) THEN "done"
                       ELSE IF run[r].command = "refund" THEN "payment" ELSE "attempt")
  BY <1>3, <1>4, <1>7 DEF Eligible, Operations
<1> QED
  BY <1>5, <1>6, <1>7 DEF Details

LEMMA AnswerSound ==
    ASSUME EvidenceInv, NEW r \in Runs, Answer(r)
    PROVE  EvidenceInv'
<1> DEFINE n == [run[r] EXCEPT !.at = "response", !.code = IF mutation.is = "refused" THEN "05" ELSE "00"]
<1>1. /\ UNCHANGED <<file, bank, captured, mutation, sent, fresh>> /\ run[r].at = "answer"
      /\ mutation.is # "sent"
  BY DEF Answer, world
<1>2. run[r] \in Runners /\ RunSound(r) /\ DiskSound /\ mutation \in Mutations
  BY EvidenceTypes DEF EvidenceInv
<1>3. run' = [run EXCEPT ![r] = n]
  BY EvidenceTypes DEF Answer, EvidenceInv
<1>4. /\ n \in Runners /\ n.at = "response" /\ n.command = run[r].command /\ n.claim = run[r].claim
      /\ n.linked = FALSE /\ n.code \in {"00", "05"} /\ (n.code = "00" => mutation.is # "refused")
  BY <1>1, <1>2 DEF Runners, RunSound, Kinds
<1> HIDE DEF n
<1>5. run'[r] = n
  BY <1>3, EvidenceTypes DEF EvidenceInv
<1>6. sent = 1 /\ mutation.is \in {"refused", "acknowledged", "executed"}
  BY <1>1, <1>2 DEF RunSound, DiskSound, Mutations
<1>7. RunSound(r)' /\ OwnsAttempt(r)
  BY <1>1, <1>2, <1>4, <1>5, <1>6 DEF RunSound, Relies, OwnsAttempt, Present, Kinds
<1> QED
  BY <1>1, <1>3, <1>4, <1>7, KeptFiles, RunSteps

LEMMA ConfirmSound ==
    ASSUME EvidenceInv, NEW r \in Runs, Confirm(r)
    PROVE  EvidenceInv'
<1>1. UNCHANGED <<file, bank, captured, mutation, sent, fresh>> /\ run[r].at = "confirm"
  BY DEF Confirm, world
<1>2. run[r] \in Runners /\ RunSound(r) /\ bank \in BankStates
  BY EvidenceTypes DEF EvidenceInv
<1>3. CASE ~MatchesOutcome(run[r].claim, bank)
  <2>1. run' = [run EXCEPT ![r] = Idle]
    BY <1>3 DEF Confirm, Goes
  <2> QED
    BY <1>1, <2>1, KeptFiles, RunEnds
<1>4. CASE MatchesOutcome(run[r].claim, bank)
  <2> DEFINE n == [run[r] EXCEPT !.at = "outcome", !.details = bank]
  <2>1. run' = [run EXCEPT ![r] = n]
    BY <1>4, EvidenceTypes DEF Confirm, Goes, EvidenceInv
  <2>2. /\ n \in Runners /\ n.at = "outcome" /\ n.command = run[r].command
        /\ n.claim = run[r].claim /\ n.linked = FALSE /\ n.details # "none"
    BY <1>1, <1>2 DEF Runners, RunSound, Kinds, BankStates
  <2> HIDE DEF n
  <2>3. run'[r] = n
    BY <2>1, EvidenceTypes DEF EvidenceInv
  <2>4. RunSound(r)' /\ OwnsAttempt(r)
    BY <1>1, <1>2, <1>4, <2>2, <2>3 DEF RunSound, Relies, OwnsAttempt, Present, Kinds
  <2> QED
    BY <1>1, <2>1, <2>2, <2>4, KeptFiles, RunSteps
<1> QED
  BY <1>3, <1>4

LEMMA TimesOutSound ==
    ASSUME EvidenceInv, NEW r \in Runs, TimesOut(r) \/ Fail(r)
    PROVE  EvidenceInv'
  BY KeptFiles, RunEnds DEF TimesOut, Fail, world

(* A run that finished with a file of kind k.                               *)
LEMMA ContinuesSound ==
    ASSUME EvidenceInv, NEW r \in Runs, NEW k \in {"payment", "attempt", "response", "outcome"},
           run[r].at = k, k = "attempt" => run[r].linked /\ file'["attempt"].synced,
           Continues(r, After(r, k)), FilesKept, UNCHANGED <<bank, captured, mutation, sent, fresh>>
    PROVE  EvidenceInv'
<1>2. run[r] \in Runners /\ RunSound(r)
  BY EvidenceTypes DEF EvidenceInv
<1>3. CASE After(r, k) = "done"
  BY <1>3, KeptFiles, RunEnds DEF Continues
<1>4. ASSUME NEW next \in {"attempt", "submit", "confirm"}, Continues(r, next),
             next = "attempt" => k = "payment" /\ run[r].command \in Operations,
             next = "submit" => k = "attempt", next = "confirm" => k = "response"
      PROVE  EvidenceInv'
  <2> DEFINE n == [run[r] EXCEPT !.at = next, !.linked = FALSE]
  <2>1. run' = [run EXCEPT ![r] = n]
    BY <1>4, EvidenceTypes DEF Continues, EvidenceInv
  <2>2. /\ n \in Runners /\ n.at = next /\ n.command = run[r].command
        /\ n.claim = run[r].claim /\ n.linked = FALSE
    BY <1>2 DEF Runners, Kinds
  <2> HIDE DEF n
  <2>3. run'[r] = n
    BY <2>1, EvidenceTypes DEF EvidenceInv
  <2>4. OwnsAttempt(r)' => OwnsAttempt(r)
    BY <1>4, <2>2, <2>3 DEF OwnsAttempt
  <2>5. RunSound(r)'
    <3>1. /\ file'["attempt"].says = file["attempt"].says
          /\ Present("attempt")' <=> Present("attempt")
          /\ Present("outcome")' <=> Present("outcome")
      BY KeptFiles, KindNames DEF FilesKept
    <3> QED
      BY <1>2, <1>4, <2>2, <2>3, <3>1 DEF RunSound, Relies, OwnsAttempt, Kinds, Operations
  <2> QED
    BY <2>1, <2>2, <2>4, <2>5, KeptFiles, RunSteps
<1>5. /\ k = "payment" => After(r, k) = IF run[r].command = "inspect" THEN "done" ELSE "attempt"
      /\ k = "attempt" => After(r, k) = "submit"
      /\ k = "response" => After(r, k) = IF run[r].code = "00" THEN "confirm" ELSE "done"
      /\ k = "outcome" => After(r, k) = "done"
  BY DEF After
<1>6. k = "payment" /\ run[r].command # "inspect" => run[r].command \in Operations
  BY <1>2 DEF RunSound, Operations
<1>7. After(r, k) # "done" =>
         /\ After(r, k) \in {"attempt", "submit", "confirm"}
         /\ After(r, k) = "attempt" => k = "payment" /\ run[r].command \in Operations
         /\ After(r, k) = "submit" => k = "attempt"
         /\ After(r, k) = "confirm" => k = "response"
  BY <1>5, <1>6
<1> QED
  BY <1>3, <1>4, <1>7

(* A file that is there already is left as it is.                           *)
LEMMA FoundSound ==
    ASSUME EvidenceInv, NEW r \in Runs, NEW k \in Kinds, run[r].at = k, Found(r, k),
           UNCHANGED <<file, bank, captured, mutation, sent, fresh>>
    PROVE  EvidenceInv'
<1>1. CASE k = "attempt"
  <2>1. run' = [run EXCEPT ![r] = Idle]
    BY <1>1 DEF Found, Continues
  <2> QED
    BY <2>1, KeptFiles, RunEnds
<1>2. CASE k # "attempt"
  <2>1. Continues(r, After(r, k))
    BY <1>2 DEF Found
  <2> QED
    BY <1>2, <2>1, KeptFiles, ContinuesSound DEF Kinds
<1> QED
  BY <1>1, <1>2

(* A new file: it is true when it is written, and a new attempt has one     *)
(* owner.                                                                   *)
LEMMA LinkSound ==
    ASSUME EvidenceInv, NEW r \in Runs, NEW k \in Kinds, Link(r, k)
    PROVE  EvidenceInv'
<1>1. run[r].at = k /\ ~run[r].linked /\ UNCHANGED <<bank, captured, mutation, sent, fresh>>
  BY DEF Link, world
<1>2. /\ run[r] \in Runners /\ RunSound(r) /\ DiskSound /\ OneOwner
      /\ file \in [Kinds -> Files] /\ run \in [Runs -> Runners]
  BY EvidenceTypes DEF EvidenceInv
<1>3. CASE Present(k)
  BY <1>1, <1>3, FoundSound DEF Link
<1>4. CASE ~Present(k)
  <2> DEFINE c == Content(r, k)
             n == [run[r] EXCEPT !.linked = TRUE]
  <2>1. file' = [file EXCEPT ![k] = [says |-> c, synced |-> FALSE]] /\ run' = [run EXCEPT ![r] = n]
    BY <1>2, <1>4 DEF Link
  <2>2. /\ k = "attempt" => c = run[r].claim /\ c \in Operations
        /\ k = "response" => c = run[r].code /\ c \in {"00", "05"}
        /\ k \in {"payment", "outcome"} => c = run[r].details /\ c \in BankStates
    BY <1>1, <1>2 DEF Content, RunSound, Runners, Kinds
  <2>3. [says |-> c, synced |-> FALSE] \in Files /\ c # "nothing"
    BY <2>2 DEF Files, Kinds, BankStates, Operations
  <2>4. /\ n \in Runners /\ n.at = k /\ n.linked /\ n.command = run[r].command
        /\ n.claim = run[r].claim /\ n.code = run[r].code /\ n.details = run[r].details
    BY <1>1, <1>2 DEF Runners
  <2> HIDE DEF c, n
  <2>5. /\ file' \in [Kinds -> Files] /\ file'[k].says = c /\ ~file'[k].synced
        /\ \A j \in Kinds : j # k => file'[j] = file[j]
    BY <1>2, <2>1, <2>3
  <2>6. /\ run' \in [Runs -> Runners] /\ run'[r] = n
        /\ \A s \in Runs : s # r => run'[s] = run[s]
    BY <1>2, <2>1, <2>4
  <2>7. Present(k)' /\ \A j \in Kinds : j # k => (Present(j)' <=> Present(j))
    <3>1. Absent.says = "nothing"
      BY DEF Absent
    <3>2. file'[k] # Absent
      BY <2>3, <2>5, <3>1
    <3> QED
      BY <2>5, <3>2 DEF Present
  <2>8. ToolTypeOK'
    BY <1>1, <2>5, <2>6, EvidenceTypes DEF EvidenceInv
  <2>9. k = "attempt" =>
          /\ sent = 0 /\ ~Present("outcome")
          /\ \A s \in Runs : ~Relies(s)
    <3>1. ASSUME k = "attempt" PROVE sent = 0
      BY <1>2, <1>4, <3>1 DEF DiskSound, Present, Absent
    <3>2. ASSUME k = "attempt" PROVE ~Present("outcome")
      BY <1>1, <1>2, <1>4, <3>2 DEF RunSound
    <3>3. ASSUME k = "attempt", NEW s \in Runs PROVE ~Relies(s)
      <4>1. RunSound(s)
        BY DEF EvidenceInv
      <4> QED
        BY <1>4, <3>3, <4>1 DEF RunSound
    <3> QED
      BY <3>1, <3>2, <3>3
  <2>10. k = "outcome" => /\ Present("attempt") /\ file["attempt"].says = run[r].claim
                          /\ MatchesOutcome(run[r].claim, bank)
    BY <1>1, <1>2 DEF RunSound, Relies
  <2>11. k = "response" => sent = 1 /\ (c = "00" => mutation.is \in {"acknowledged", "executed"})
    BY <1>1, <1>2, <2>2 DEF RunSound
  <2>12. DiskSound'
    <3>1. /\ \A j \in Kinds : file'[j].says = "nothing" => ~file'[j].synced
          /\ file'["attempt"].says \in Operations \cup {"nothing"}
      BY <1>2, <2>2, <2>5, KindNames DEF DiskSound
    <3>2. bank' = "deposited" \/ Present("payment")' => captured'
      BY <1>1, <1>2, <2>7, KindNames DEF DiskSound, RunSound
    <3>3. \/ sent' = 0 /\ mutation'.is = "unsent"
          \/ /\ sent' = 1 /\ mutation'.is # "unsent"
             /\ file'["attempt"] = [says |-> mutation'.operation, synced |-> TRUE]
      BY <1>1, <1>2, <2>5, <2>9, KindNames DEF DiskSound
    <3>4. file'["response"].says = "00" => sent' = 1 /\ mutation'.is \in {"acknowledged", "executed"}
      BY <1>1, <1>2, <2>5, <2>11, KindNames DEF DiskSound
    <3>5. Present("outcome")' => bank' \in {"refunded", "void"}
      BY <1>1, <1>2, <2>7, <2>10, KindNames DEF DiskSound, MatchesOutcome
    <3>6. Present("attempt")' /\ Present("outcome")' => MatchesOutcome(file'["attempt"].says, bank')
      BY <1>1, <1>2, <2>5, <2>7, <2>9, <2>10, KindNames DEF DiskSound
    <3> QED
      BY <3>1, <3>2, <3>3, <3>4, <3>5, <3>6 DEF DiskSound, MatchesOutcome
  <2>13. OneOwner'
    <3>1. \A s \in Runs : OwnsAttempt(s)' => OwnsAttempt(s) \/ (s = r /\ k = "attempt")
      BY <1>1, <2>4, <2>6 DEF OwnsAttempt
    <3>2. \A s \in Runs : OwnsAttempt(s) => k # "attempt"
      BY <2>9 DEF Relies
    <3> QED
      BY <1>2, <3>1, <3>2 DEF OneOwner
  <2>14. RunSound(r)'
    <3>1. Relies(r)' => k = "attempt" \/ Relies(r)
      BY <1>1, <2>4, <2>6 DEF Relies, OwnsAttempt
    <3>2. Relies(r)' => Present("attempt")' /\ file'["attempt"].says = run[r].claim
      BY <1>2, <2>2, <2>5, <2>7, <3>1, KindNames DEF RunSound
    <3>3. run'[r].at = k /\ k \in Kinds /\ k \notin {"submit", "answer", "confirm", "idle", "details"}
      BY <2>4, <2>6 DEF Kinds
    <3>4. Present("outcome")' /\ ~Present("attempt")' =>
             k # "attempt" /\ ~(k = "payment" /\ run[r].command = "refund")
      <4>1. CASE k = "attempt"
        BY <2>7, <4>1
      <4>2. CASE k = "outcome"
        BY <4>2
      <4>3. CASE k \in {"payment", "response"}
        BY <1>1, <1>2, <2>7, <4>3, KindNames DEF RunSound
      <4> QED
        BY <4>1, <4>2, <4>3 DEF Kinds
    <3> QED
      BY <1>1, <1>2, <2>4, <2>6, <2>9, <3>2, <3>3, <3>4 DEF RunSound
  <2>15. ASSUME NEW s \in Runs, s # r PROVE RunSound(s)'
    <3>1. run'[s] = run[s] /\ RunSound(s)
      BY <2>6, <2>15 DEF EvidenceInv
    <3>2. Relies(s)' <=> Relies(s)
      BY <3>1 DEF Relies, OwnsAttempt
    <3>3. Relies(s) => k # "attempt"
      BY <2>9
    <3>4. OwnsAttempt(s) => Relies(s)
      BY DEF Relies
    <3>5. Relies(s) => /\ file'["attempt"] = file["attempt"]
                       /\ Present("attempt")' <=> Present("attempt")
      BY <2>5, <2>7, <3>3, KindNames
    <3>6. run[s].at = "submit" => Relies(s)
      BY DEF Relies, OwnsAttempt
    <3>7. Present("outcome")' /\ ~Present("attempt")' => Present("outcome") /\ ~Present("attempt")
      BY <2>7, <2>10, KindNames
    <3> QED
      BY <1>1, <3>1, <3>2, <3>5, <3>6, <3>7 DEF RunSound
  <2> QED
    BY <2>8, <2>12, <2>13, <2>14, <2>15 DEF EvidenceInv
<1> QED
  BY <1>3, <1>4

(* The directory is synced, and with it every file in it.                   *)
LEMMA SyncSound ==
    ASSUME EvidenceInv, NEW r \in Runs, NEW k \in Kinds, Sync(r, k)
    PROVE  EvidenceInv'
<1>1. /\ run[r].at = k /\ run[r].linked /\ Continues(r, After(r, k))
      /\ UNCHANGED <<bank, captured, mutation, sent, fresh>>
      /\ file' = [j \in Kinds |-> IF Present(j) THEN [file[j] EXCEPT !.synced = TRUE] ELSE Absent]
  BY DEF Sync, world
<1>2. \A j \in Kinds : file[j] \in Files /\ (Present(j) <=> file[j].says # "nothing")
  BY KeptFiles, EvidenceTypes DEF EvidenceInv
<1>3. \A j \in Kinds : /\ file'[j] \in Files
                       /\ file'[j].says = file[j].says
                       /\ file'[j].synced <=> Present(j)
  BY <1>1, <1>2 DEF Files, Absent
<1>4. file' \in [Kinds -> Files]
  BY <1>1, <1>3
<1>5. FilesKept
  BY <1>2, <1>3, <1>4, KeptFiles DEF FilesKept, EvidenceInv, DiskSound
<1>6. k = "attempt" => Present("attempt")
  BY <1>1, KindNames DEF EvidenceInv, RunSound, Relies, OwnsAttempt
<1>7. k = "attempt" => file'["attempt"].synced
  BY <1>3, <1>6, KindNames
<1> QED
  BY <1>1, <1>5, <1>7, ContinuesSound DEF Kinds

(* The one mutation is sent by the owner of an attempt that is synced.      *)
LEMMA SubmitSound ==
    ASSUME EvidenceInv, NEW r \in Runs, Submit(r)
    PROVE  EvidenceInv'
<1> DEFINE n == [run[r] EXCEPT !.at = "answer", !.linked = FALSE]
<1>1. /\ run[r].at = "submit" /\ sent < MaxSent /\ UNCHANGED <<file, bank, captured, fresh>>
      /\ mutation' = [operation |-> run[r].claim, is |-> "sent"] /\ sent' = sent + 1
  BY DEF Submit
<1>2. /\ run[r] \in Runners /\ RunSound(r) /\ DiskSound /\ OneOwner
      /\ file \in [Kinds -> Files] /\ run \in [Runs -> Runners]
  BY EvidenceTypes DEF EvidenceInv
<1>3. run' = [run EXCEPT ![r] = n]
  BY <1>2 DEF Submit, Continues
<1>4. /\ n \in Runners /\ n.at = "answer" /\ n.command = run[r].command
      /\ n.claim = run[r].claim /\ n.linked = FALSE
  BY <1>2 DEF Runners
<1> HIDE DEF n
<1>5. run' \in [Runs -> Runners] /\ run'[r] = n /\ \A s \in Runs : s # r => run'[s] = run[s]
  BY <1>2, <1>3, <1>4
<1>6. /\ sent = 0 /\ Present("attempt") /\ run[r].claim \in Operations
      /\ file["attempt"].says = run[r].claim /\ file["attempt"].synced
  BY <1>1, <1>2 DEF RunSound, Relies, OwnsAttempt
<1>7. ToolTypeOK'
  <2>1. sent' \in 0..MaxSent
    BY <1>1, <1>6, MaxSentAssumption
  <2>2. mutation' \in Mutations
    BY <1>1, <1>6 DEF Mutations
  <2> QED
    BY <1>1, <1>5, <2>1, <2>2, EvidenceTypes DEF EvidenceInv
<1>8. DiskSound'
  <2>1. file["attempt"] = [says |-> run[r].claim, synced |-> TRUE]
    BY <1>2, <1>6, KindNames DEF Files
  <2>2. sent' = 1 /\ file["response"].says # "00"
    BY <1>1, <1>2, <1>6 DEF DiskSound
  <2> QED
    BY <1>1, <1>2, <2>1, <2>2 DEF DiskSound, Present
<1>9. \A s \in Runs : s # r => ~OwnsAttempt(s)
  BY <1>1, <1>2 DEF OneOwner, OwnsAttempt
<1>10. OneOwner'
  BY <1>5, <1>9 DEF OneOwner, OwnsAttempt
<1>11. RunSound(r)'
  BY <1>1, <1>2, <1>4, <1>5, <1>6 DEF RunSound, Relies, OwnsAttempt, Present, Kinds
<1>12. \A s \in Runs : s # r => RunSound(s)'
  BY <1>1, <1>5, <1>9 DEF EvidenceInv, RunSound, Relies, OwnsAttempt, Present
<1> QED
  BY <1>7, <1>8, <1>10, <1>11, <1>12 DEF EvidenceInv

(* Power is lost: every run ends, and what was not synced may be gone.      *)
LEMMA PowerLossSound ==
    ASSUME EvidenceInv, PowerLoss
    PROVE  EvidenceInv'
<1>1. PICK lost \in SUBSET {k \in Kinds : ~file[k].synced} :
         file' = [k \in Kinds |-> IF k \in lost THEN Absent ELSE [file[k] EXCEPT !.synced = Present(k)]]
  BY DEF PowerLoss
<1>2. run' = [s \in Runs |-> Idle] /\ UNCHANGED <<bank, captured, mutation, sent, fresh>>
  BY DEF PowerLoss, world
<1>3. file \in [Kinds -> Files] /\ DiskSound /\ \A k \in Kinds : Present(k) <=> file[k].says # "nothing"
  BY KeptFiles, EvidenceTypes DEF EvidenceInv
<1>4. Absent \in Files /\ Absent.says = "nothing" /\ ~Absent.synced
  BY DEF Absent, Files
<1>5. \A k \in Kinds : /\ file'[k] \in Files
                       /\ k \in lost => file'[k] = Absent
                       /\ k \notin lost => file'[k].says = file[k].says /\ (file'[k].synced <=> Present(k))
  <2> SUFFICES ASSUME NEW k \in Kinds
               PROVE  /\ file'[k] \in Files
                      /\ k \in lost => file'[k] = Absent
                      /\ k \notin lost => file'[k].says = file[k].says /\ (file'[k].synced <=> Present(k))
    OBVIOUS
  <2>1. CASE k \in lost
    BY <1>1, <1>4, <2>1
  <2>2. CASE k \notin lost
    <3>1. file'[k] = [file[k] EXCEPT !.synced = Present(k)] /\ file[k] \in Files
      BY <1>1, <1>3, <2>2
    <3>2. Present(k) \in BOOLEAN
      BY DEF Present
    <3> QED
      BY <2>2, <3>1, <3>2 DEF Files
  <2> QED
    BY <2>1, <2>2
<1>6. file' \in [Kinds -> Files]
  BY <1>1, <1>5
<1>7. \A k \in Kinds : /\ Present(k)' => Present(k) /\ file'[k].says = file[k].says
                       /\ file[k].synced => file'[k].says = file[k].says /\ (Present(k) => file'[k].synced)
  <2> SUFFICES ASSUME NEW k \in Kinds
               PROVE  /\ Present(k)' => Present(k) /\ file'[k].says = file[k].says
                      /\ file[k].synced => file'[k].says = file[k].says /\ (Present(k) => file'[k].synced)
    OBVIOUS
  <2>1. CASE k \in lost
    <3>1. ~Present(k)' /\ ~file[k].synced
      BY <1>5, <2>1 DEF Present
    <3> QED
      BY <3>1
  <2>2. CASE k \notin lost
    <3>1. file'[k].says = file[k].says /\ (Present(k) => file'[k].synced)
      BY <1>5, <2>2
    <3>2. file[k].says = "nothing" => file'[k] = Absent
      BY <1>3, <1>5, <2>2 DEF Files, Absent
    <3> QED
      BY <1>3, <3>1, <3>2 DEF Present
  <2> QED
    BY <2>1, <2>2
<1>8. ToolTypeOK'
  BY <1>2, <1>6, Resting, EvidenceTypes DEF EvidenceInv
<1>9. DiskSound'
  <2>1. \A k \in Kinds : file'[k].says = "nothing" => ~file'[k].synced
    BY <1>3, <1>4, <1>5
  <2>2. file'["attempt"].says \in Operations \cup {"nothing"}
    BY <1>3, <1>4, <1>5, KindNames DEF DiskSound
  <2>3. sent = 1 => file'["attempt"] = [says |-> mutation.operation, synced |-> TRUE]
    <3>1. sent = 1 => /\ file["attempt"].synced /\ file["attempt"].says = mutation.operation
                      /\ Present("attempt")
      BY <1>3 DEF DiskSound, Present, Absent
    <3>2. sent = 1 => file'["attempt"].says = mutation.operation /\ file'["attempt"].synced
      BY <1>7, <3>1, KindNames
    <3> QED
      BY <1>5, <3>2, KindNames DEF Files
  <2>4. file'["response"].says = "00" => file["response"].says = "00"
    BY <1>4, <1>5, KindNames
  <2> QED
    BY <1>2, <1>3, <1>7, <2>1, <2>2, <2>3, <2>4, KindNames DEF DiskSound
<1>10. OneOwner' /\ \A s \in Runs : RunSound(s)'
  <2>1. \A s \in Runs : run'[s] = Idle
    BY <1>2
  <2>2. \A s \in Runs : ~OwnsAttempt(s)' /\ ~Relies(s)'
    BY <2>1, Resting DEF OwnsAttempt, Relies
  <2> QED
    BY <2>1, <2>2, Resting DEF OneOwner, RunSound, Operations
<1> QED
  BY <1>8, <1>9, <1>10 DEF EvidenceInv

(* The bank moves on. *)
LEMMA BankSound ==
    ASSUME EvidenceInv, BankMoves \/ BankReplies \/ BankExecutes \/ WindowEnds
    PROVE  EvidenceInv'
<1>1. UNCHANGED <<file, run, sent>>
  BY DEF BankMoves, BankReplies, BankExecutes, WindowEnds
<1>2. /\ DiskSound /\ bank \in BankStates /\ mutation \in Mutations
      /\ \A r \in Runs : RunSound(r) /\ run[r] \in Runners
  BY EvidenceTypes DEF EvidenceInv
<1>3. /\ bank' \in BankStates
      /\ bank \in {"refunded", "void"} => bank' = bank
      /\ captured' \in BOOLEAN /\ (captured => captured')
      /\ bank' = "deposited" => captured'
  BY <1>2, EvidenceTypes DEF BankMoves, BankReplies, BankExecutes, WindowEnds, BankStates, EvidenceInv, DiskSound
<1>4. /\ mutation' \in Mutations /\ mutation'.operation = mutation.operation
      /\ mutation.is = "unsent" => mutation'.is = "unsent"
      /\ mutation.is # "unsent" => mutation'.is # "unsent"
      /\ mutation.is \in {"acknowledged", "executed"} => mutation'.is \in {"acknowledged", "executed"}
  BY <1>2 DEF BankMoves, BankReplies, BankExecutes, WindowEnds, Mutations
<1>5. ToolTypeOK'
  <2>1. fresh' \in BOOLEAN
    BY EvidenceTypes DEF EvidenceInv, BankMoves, BankReplies, BankExecutes, WindowEnds
  <2> QED
    BY <1>1, <1>3, <1>4, <2>1, EvidenceTypes DEF EvidenceInv
<1>6. DiskSound'
  BY <1>1, <1>2, <1>3, <1>4 DEF DiskSound, Present, MatchesOutcome
<1>7. OneOwner'
  BY <1>1 DEF EvidenceInv, OneOwner, OwnsAttempt
<1>8. ASSUME NEW r \in Runs PROVE RunSound(r)'
  <2>1. RunSound(r)
    BY <1>2
  <2>2. MatchesOutcome(run[r].claim, bank) => MatchesOutcome(run[r].claim, bank')
    BY <1>3 DEF MatchesOutcome
  <2> QED
    BY <1>1, <1>3, <1>4, <2>1, <2>2 DEF RunSound, Relies, OwnsAttempt, Present, MatchesOutcome
<1> QED
  BY <1>5, <1>6, <1>7, <1>8 DEF EvidenceInv

LEMMA EvidenceNext == EvidenceInv /\ [ToolNext]_toolVars => EvidenceInv'
<1> SUFFICES ASSUME EvidenceInv, [ToolNext]_toolVars PROVE EvidenceInv'
  OBVIOUS
<1>1. ASSUME NEW r \in Runs, StartRun(r) \/ Verify(r) \/ Fail(r) PROVE EvidenceInv'
  BY <1>1, StartSound, TimesOutSound
<1>2. ASSUME NEW r \in Runs, Step(r) PROVE EvidenceInv'
  BY <1>2, DetailsSound, SubmitSound, AnswerSound, TimesOutSound, ConfirmSound, LinkSound,
     SyncSound DEF Step
<1>3. ASSUME PowerLoss \/ BankMoves \/ BankReplies \/ BankExecutes \/ WindowEnds PROVE EvidenceInv'
  BY <1>3, PowerLossSound, BankSound
<1>4. CASE UNCHANGED toolVars
  BY <1>4 DEF toolVars, world, EvidenceInv, ToolTypeOK, DiskSound, OneOwner, RunSound, Relies, OwnsAttempt,
     Present
<1> QED
  BY <1>1, <1>2, <1>3, <1>4 DEF ToolNext

(* The inductive invariant of the evidence directory.                       *)
THEOREM EvidenceInvariant == ToolSpec => []EvidenceInv
  BY EvidenceStart, EvidenceNext, PTL DEF ToolSpec

(* However many runs of the tool meet, die or lose their power, the bank is *)
(* sent one mutation at most, its record is durable, and the report counts  *)
(* nothing that did not happen.                                             *)
THEOREM EvidenceIsTrue == ToolSpec => []EvidenceTrue
<1>1. EvidenceInv => EvidenceTrue
  <2> SUFFICES ASSUME EvidenceInv PROVE EvidenceTrue
    OBVIOUS
  <2>1. SentOnce
    BY EvidenceTypes DEF EvidenceInv, DiskSound, SentOnce
  <2>2. ReportTrue
    BY DEF EvidenceInv, DiskSound, ReportTrue
  <2> QED
    BY <2>1, <2>2 DEF EvidenceTrue
<1> QED
  BY <1>1, EvidenceInvariant, PTL

-----------------------------------------------------------------------------
(* Deployments of any number of releases.                                   *)

Waiting == {"none", "waiting"}
Over == {"stopped", "done"}
BuiltSteps == {"backup", "migrate", "api", "web", "smoke", "record"}
MigratedSteps == {"api", "web", "smoke", "record"}

(* Who has begun and not stopped holds the lock.                            *)
Exclusive == \A d \in Deployments : step[d] \notin Waiting \cup Over => lock = d

(* What the holder has done so far is as it left it.                        *)
Progress ==
    \A d \in Deployments :
       /\ step[d] \in {"preserve", "build"} \cup BuiltSteps => \A f \in FilesOf[release[d]] : source[f] = release[d]
       /\ step[d] \in BuiltSteps => \A s \in Services : image[s] = release[d]
       /\ step[d] \in MigratedSteps => schema >= release[d]
       /\ step[d] \in {"web", "smoke", "record"} => running["api"] = release[d]
       /\ step[d] \in {"smoke", "record"} => running["web"] = release[d]

(* It has tagged what is about to be replaced, and dumped what is about to  *)
(* be migrated; nothing of an earlier deployment is lost for that.          *)
Kept ==
    \A d \in Deployments :
       /\ step[d] \in Waiting \cup {"promote", "preserve"} => \A s \in Services : kept[d][s] = Untagged
       /\ step[d] \in {"build", "backup", "migrate", "api"} => kept[d]["api"] = running["api"]
       /\ step[d] \in {"build", "backup", "migrate", "api", "web"} => kept[d]["web"] = running["web"]
       /\ step[d] = "migrate" => [of |-> schema, whole |-> TRUE] \in backups

DeployInv == DeployTypeOK /\ Exclusive /\ Progress /\ Kept /\ Restorable

USE DeploymentAssumption

LEMMA DeployStart == DeployInit => DeployInv
<1> SUFFICES ASSUME DeployInit PROVE DeployInv
  OBVIOUS
<1> USE DEF DeployInit
<1>0. /\ image = [s \in Services |-> 0] /\ running = image
      /\ kept = [d \in Deployments |-> [s \in Services |-> Untagged]]
      /\ Untagged \in Releases \cup {Untagged} /\ 0 \in Releases
  BY DEF Releases
<1>1. DeployTypeOK
  <2>1. image \in [Services -> Releases] /\ running \in [Services -> Releases]
    BY <1>0
  <2>2. kept \in [Deployments -> [Services -> Releases \cup {Untagged}]]
    BY <1>0
  <2>3. source \in [Paths -> Releases \cup {NoFile}]
    BY <1>0
  <2> QED
    BY <1>0, <2>1, <2>2, <2>3 DEF DeployTypeOK
<1>2. Exclusive /\ Progress
  BY DEF Exclusive, Progress, Waiting, BuiltSteps, MigratedSteps
<1>3. Kept /\ Restorable
  BY DEF Kept, Restorable, Waiting, Services
<1> QED
  BY <1>1, <1>2, <1>3 DEF DeployInv

(* What RevisionTrue says of one step.                                      *)
RevisionStep ==
    \A d \in Deployments : step[d] = "record" /\ step'[d] = "done" =>
       /\ running = [s \in Services |-> revision']
       /\ \A f \in FilesOf[revision'] : source[f] = revision'
       /\ schema >= revision'

LEMMA NotYetDone ==
    ASSUME DeployTypeOK, NEW d \in Deployments, NEW next, next # "done", step' = [step EXCEPT ![d] = next]
    PROVE  RevisionStep
  BY DEF DeployTypeOK, RevisionStep

LEMMA DeployStepInv == ASSUME DeployInv, NEW d \in Deployments, DeployStep(d) PROVE DeployInv' /\ RevisionStep
<1> USE DEF DeployInv, Releases, Services, Waiting, Over, BuiltSteps, MigratedSteps, NoFile, Untagged
<1>t. DeployTypeOK /\ Exclusive /\ Progress /\ Kept /\ Restorable
  OBVIOUS
<1>1. CASE Stage(d)
  <2>1. PICK r \in Releases : release' = [release EXCEPT ![d] = r]
    BY <1>1 DEF Stage
  <2>2. /\ step[d] = "none" /\ step' = [step EXCEPT ![d] = "waiting"]
        /\ UNCHANGED <<lock, source, image, running, kept, schema, backups, revision, recorded, rolledBack>>
    BY <1>1 DEF Stage
  <2>3. DeployTypeOK'
    BY <1>t, <2>1, <2>2 DEF DeployTypeOK
  <2>4. Exclusive' /\ Progress' /\ Kept' /\ Restorable'
    BY <1>t, <2>1, <2>2 DEF DeployTypeOK, Exclusive, Progress, Kept, Restorable
  <2> QED
    BY <1>t, <2>2, <2>3, <2>4, NotYetDone
<1>2. CASE TakesLock(d)
  <2>1. /\ step[d] = "waiting" /\ lock = Nobody /\ lock' = d /\ step' = [step EXCEPT ![d] = "promote"]
        /\ UNCHANGED <<release, source, image, running, kept, schema, backups, revision, recorded, rolledBack>>
    BY <1>2 DEF TakesLock, LockFree
  <2>2. DeployTypeOK' /\ Restorable'
    BY <1>t, <2>1 DEF DeployTypeOK, Restorable
  <2>3. Exclusive' /\ Progress' /\ Kept'
    BY <1>t, <2>1 DEF DeployTypeOK, Exclusive, Progress, Kept
  <2> QED
    BY <1>t, <2>1, <2>2, <2>3, NotYetDone
<1>3. CASE GivesUp(d)
  <2>1. /\ step[d] = "waiting" /\ step' = [step EXCEPT ![d] = "stopped"]
        /\ UNCHANGED <<release, lock, source, image, running, kept, schema, backups, revision, recorded, rolledBack>>
    BY <1>3 DEF GivesUp
  <2>2. DeployTypeOK' /\ Restorable'
    BY <1>t, <2>1 DEF DeployTypeOK, Restorable
  <2>3. Exclusive' /\ Progress' /\ Kept'
    BY <1>t, <2>1 DEF DeployTypeOK, Exclusive, Progress, Kept
  <2> QED
    BY <1>t, <2>1, <2>2, <2>3, NotYetDone
<1>4. CASE Promote(d)
  <2>0. FilesOf[release[d]] \subseteq Paths
    BY <1>t DEF DeployTypeOK
  <2>1. step[d] = "promote" /\ lock = d /\ UNCHANGED <<image, running, kept, schema, backups, revision, recorded, rolledBack>>
    BY <1>t, <1>4 DEF Promote, Exclusive
  <2>2. CASE /\ source' = Copied(source, FilesOf[release[d]], release[d])
             /\ step' = [step EXCEPT ![d] = "preserve"] /\ UNCHANGED <<release, lock>>
    <3>0. /\ source' \in [Paths -> Releases \cup {NoFile}]
          /\ \A f \in FilesOf[release[d]] : source'[f] = release[d]
      BY <1>t, <2>0, <2>2 DEF DeployTypeOK, Copied
    <3>1. DeployTypeOK'
      BY <1>t, <2>1, <2>2, <3>0 DEF DeployTypeOK
    <3>2. Exclusive' /\ Progress'
      BY <1>t, <2>1, <2>2, <3>0 DEF DeployTypeOK, Exclusive, Progress
    <3>3. Kept'
      BY <1>t, <2>1, <2>2 DEF DeployTypeOK, Exclusive, Kept
    <3>4. Restorable'
      BY <1>t, <2>1, <2>2 DEF DeployTypeOK, Kept, Restorable
    <3> QED
      BY <1>t, <2>2, <3>1, <3>2, <3>3, <3>4, NotYetDone
  <2>3. CASE /\ \E files \in SUBSET Paths : source' = Copied(source, files, release[d])
             /\ step' = [step EXCEPT ![d] = "stopped"] /\ lock' = Nobody /\ UNCHANGED release
    <3>0. source' \in [Paths -> Releases \cup {NoFile}]
      BY <1>t, <2>3 DEF DeployTypeOK, Copied
    <3>1. DeployTypeOK'
      BY <1>t, <2>1, <2>3, <3>0 DEF DeployTypeOK
    <3>2. Exclusive' /\ Progress'
      BY <1>t, <2>1, <2>3 DEF DeployTypeOK, Exclusive, Progress
    <3>3. Kept'
      BY <1>t, <2>1, <2>3 DEF DeployTypeOK, Exclusive, Kept
    <3>4. Restorable'
      BY <1>t, <2>1, <2>3 DEF DeployTypeOK, Kept, Restorable
    <3> QED
      BY <1>t, <2>3, <3>1, <3>2, <3>3, <3>4, NotYetDone
  <2> QED
    BY <1>4, <2>0, <2>2, <2>3 DEF Promote, GoesOn, Stops
<1>5. CASE Preserve(d)
  <2>1. step[d] = "preserve" /\ lock = d /\ UNCHANGED <<source, image, running, schema, backups, revision, recorded, rolledBack>>
    BY <1>t, <1>5 DEF Preserve, Tagged, Exclusive
  <2>2. CASE /\ kept' = [kept EXCEPT ![d] = [s \in Services |-> IF s \in Services THEN running[s] ELSE kept[d][s]]]
             /\ step' = [step EXCEPT ![d] = "build"] /\ UNCHANGED <<release, lock>>
    <3>1. DeployTypeOK'
      BY <1>t, <2>1, <2>2 DEF DeployTypeOK
    <3>2. Exclusive' /\ Progress'
      BY <1>t, <2>1, <2>2 DEF DeployTypeOK, Exclusive, Progress
    <3>3. Kept'
      BY <1>t, <2>1, <2>2 DEF DeployTypeOK, Exclusive, Kept
    <3>4. Restorable'
      BY <1>t, <2>1, <2>2 DEF DeployTypeOK, Kept, Restorable
    <3> QED
      BY <1>t, <2>2, <3>1, <3>2, <3>3, <3>4, NotYetDone
  <2>3. CASE /\ kept' = [kept EXCEPT ![d] = [s \in Services |-> IF s \in {"api"} THEN running[s] ELSE kept[d][s]]]
             /\ step' = [step EXCEPT ![d] = "stopped"] /\ lock' = Nobody /\ UNCHANGED release
    <3>1. DeployTypeOK'
      BY <1>t, <2>1, <2>3 DEF DeployTypeOK
    <3>2. Exclusive' /\ Progress'
      BY <1>t, <2>1, <2>3 DEF DeployTypeOK, Exclusive, Progress
    <3>3. Kept'
      BY <1>t, <2>1, <2>3 DEF DeployTypeOK, Exclusive, Kept
    <3>4. Restorable'
      BY <1>t, <2>1, <2>3 DEF DeployTypeOK, Kept, Restorable
    <3> QED
      BY <1>t, <2>3, <3>1, <3>2, <3>3, <3>4, NotYetDone
  <2> QED
    BY <1>5, <2>2, <2>3 DEF Preserve, Tagged, GoesOn, Stops
<1>6. CASE Build(d)
  <2>1. step[d] = "build" /\ lock = d /\ UNCHANGED <<source, running, kept, schema, backups, revision, recorded, rolledBack>>
    BY <1>t, <1>6 DEF Build, Exclusive
  <2>2. CASE /\ image' = [s \in Services |-> release[d]]
             /\ step' = [step EXCEPT ![d] = "backup"] /\ UNCHANGED <<release, lock>>
    <3>1. DeployTypeOK'
      BY <1>t, <2>1, <2>2 DEF DeployTypeOK
    <3>2. Exclusive' /\ Progress'
      BY <1>t, <2>1, <2>2 DEF DeployTypeOK, Exclusive, Progress
    <3>3. Kept'
      BY <1>t, <2>1, <2>2 DEF DeployTypeOK, Exclusive, Kept
    <3>4. Restorable'
      BY <1>t, <2>1, <2>2 DEF DeployTypeOK, Kept, Restorable
    <3> QED
      BY <1>t, <2>2, <3>1, <3>2, <3>3, <3>4, NotYetDone
  <2>3. CASE /\ \E built \in SUBSET Services : image' = [s \in Services |-> IF s \in built THEN release[d] ELSE image[s]]
             /\ step' = [step EXCEPT ![d] = "stopped"] /\ lock' = Nobody /\ UNCHANGED release
    <3>1. DeployTypeOK'
      BY <1>t, <2>1, <2>3 DEF DeployTypeOK
    <3>2. Exclusive' /\ Progress'
      BY <1>t, <2>1, <2>3 DEF DeployTypeOK, Exclusive, Progress
    <3>3. Kept'
      BY <1>t, <2>1, <2>3 DEF DeployTypeOK, Exclusive, Kept
    <3>4. Restorable'
      BY <1>t, <2>1, <2>3 DEF DeployTypeOK, Kept, Restorable
    <3> QED
      BY <1>t, <2>3, <3>1, <3>2, <3>3, <3>4, NotYetDone
  <2> QED
    BY <1>6, <2>2, <2>3 DEF Build, GoesOn, Stops
<1>7. CASE BackUp(d)
  <2>1. step[d] = "backup" /\ lock = d /\ UNCHANGED <<source, image, running, kept, schema, revision, recorded, rolledBack>>
    BY <1>t, <1>7 DEF BackUp, Exclusive
  <2>2. CASE /\ backups' = backups \cup {[of |-> schema, whole |-> TRUE]}
             /\ step' = [step EXCEPT ![d] = "migrate"] /\ UNCHANGED <<release, lock>>
    <3>1. DeployTypeOK'
      <4>1. [of |-> schema, whole |-> TRUE] \in [of : Releases, whole : BOOLEAN]
        BY <1>t DEF DeployTypeOK
      <4> QED
        BY <1>t, <2>1, <2>2, <4>1 DEF DeployTypeOK
    <3>2. Exclusive' /\ Progress'
      BY <1>t, <2>1, <2>2 DEF DeployTypeOK, Exclusive, Progress
    <3>3. Kept'
      BY <1>t, <2>1, <2>2 DEF DeployTypeOK, Exclusive, Kept
    <3>4. Restorable'
      BY <1>t, <2>1, <2>2 DEF DeployTypeOK, Kept, Restorable
    <3> QED
      BY <1>t, <2>2, <3>1, <3>2, <3>3, <3>4, NotYetDone
  <2>3. CASE /\ backups' = backups \cup {[of |-> schema, whole |-> FALSE]}
             /\ step' = [step EXCEPT ![d] = "stopped"] /\ lock' = Nobody /\ UNCHANGED release
    <3>1. DeployTypeOK'
      <4>1. [of |-> schema, whole |-> FALSE] \in [of : Releases, whole : BOOLEAN]
        BY <1>t DEF DeployTypeOK
      <4> QED
        BY <1>t, <2>1, <2>3, <4>1 DEF DeployTypeOK
    <3>2. Exclusive' /\ Progress'
      BY <1>t, <2>1, <2>3 DEF DeployTypeOK, Exclusive, Progress
    <3>3. Kept'
      BY <1>t, <2>1, <2>3 DEF DeployTypeOK, Exclusive, Kept
    <3>4. Restorable'
      BY <1>t, <2>1, <2>3 DEF DeployTypeOK, Kept, Restorable
    <3> QED
      BY <1>t, <2>3, <3>1, <3>2, <3>3, <3>4, NotYetDone
  <2> QED
    BY <1>7, <2>2, <2>3 DEF BackUp, GoesOn, Stops
<1>8. CASE Migrate(d)
  <2>1. step[d] = "migrate" /\ lock = d /\ UNCHANGED <<source, image, running, kept, backups, revision, recorded, rolledBack>>
    BY <1>t, <1>8 DEF Migrate, Exclusive
  <2>2. CASE /\ schema' \in Releases /\ schema' >= image["api"]
             /\ step' = [step EXCEPT ![d] = "api"] /\ UNCHANGED <<release, lock>>
    <3>1. DeployTypeOK'
      BY <1>t, <2>1, <2>2 DEF DeployTypeOK
    <3>2. Exclusive' /\ Progress'
      BY <1>t, <2>1, <2>2 DEF DeployTypeOK, Exclusive, Progress
    <3>3. Kept'
      BY <1>t, <2>1, <2>2 DEF DeployTypeOK, Exclusive, Kept
    <3>4. Restorable'
      BY <1>t, <2>1, <2>2 DEF DeployTypeOK, Kept, Restorable
    <3> QED
      BY <1>t, <2>2, <3>1, <3>2, <3>3, <3>4, NotYetDone
  <2>3. CASE /\ schema' \in Releases
             /\ step' = [step EXCEPT ![d] = "stopped"] /\ lock' = Nobody /\ UNCHANGED release
    <3>1. DeployTypeOK'
      BY <1>t, <2>1, <2>3 DEF DeployTypeOK
    <3>2. Exclusive' /\ Progress'
      BY <1>t, <2>1, <2>3 DEF DeployTypeOK, Exclusive, Progress
    <3>3. Kept'
      BY <1>t, <2>1, <2>3 DEF DeployTypeOK, Exclusive, Kept
    <3>4. Restorable'
      BY <1>t, <2>1, <2>3 DEF DeployTypeOK, Kept, Restorable
    <3> QED
      BY <1>t, <2>3, <3>1, <3>2, <3>3, <3>4, NotYetDone
  <2> QED
    BY <1>8, <2>2, <2>3 DEF Migrate, GoesOn, Stops
<1>9. CASE Switch(d, "api")
  <2>1. step[d] = "api" /\ lock = d /\ UNCHANGED <<source, image, kept, schema, backups, revision, recorded, rolledBack>>
    BY <1>t, <1>9 DEF Switch, Exclusive
  <2>2. CASE /\ running' = [running EXCEPT !["api"] = image["api"]]
             /\ step' = [step EXCEPT ![d] = "web"] /\ UNCHANGED <<release, lock>>
    <3>1. DeployTypeOK'
      BY <1>t, <2>1, <2>2 DEF DeployTypeOK
    <3>2. Exclusive' /\ Progress'
      BY <1>t, <2>1, <2>2 DEF DeployTypeOK, Exclusive, Progress
    <3>3. Kept'
      BY <1>t, <2>1, <2>2 DEF DeployTypeOK, Exclusive, Kept
    <3>4. Restorable'
      BY <1>t, <2>1, <2>2 DEF DeployTypeOK, Kept, Restorable
    <3> QED
      BY <1>t, <2>2, <3>1, <3>2, <3>3, <3>4, NotYetDone
  <2> QED
    BY <1>9, <2>2 DEF Switch, GoesOn, Stops
<1>10. CASE Switch(d, "web")
  <2>1. step[d] = "web" /\ lock = d /\ UNCHANGED <<source, image, kept, schema, backups, revision, recorded, rolledBack>>
    BY <1>t, <1>10 DEF Switch, Exclusive
  <2>2. CASE /\ running' = [running EXCEPT !["web"] = image["web"]]
             /\ step' = [step EXCEPT ![d] = "smoke"] /\ UNCHANGED <<release, lock>>
    <3>1. DeployTypeOK'
      BY <1>t, <2>1, <2>2 DEF DeployTypeOK
    <3>2. Exclusive' /\ Progress'
      BY <1>t, <2>1, <2>2 DEF DeployTypeOK, Exclusive, Progress
    <3>3. Kept'
      BY <1>t, <2>1, <2>2 DEF DeployTypeOK, Exclusive, Kept
    <3>4. Restorable'
      BY <1>t, <2>1, <2>2 DEF DeployTypeOK, Kept, Restorable
    <3> QED
      BY <1>t, <2>2, <3>1, <3>2, <3>3, <3>4, NotYetDone
  <2> QED
    BY <1>10, <2>2 DEF Switch, GoesOn, Stops
<1>11. CASE Smoke(d)
  <2>1. step[d] = "smoke" /\ lock = d /\ UNCHANGED <<source, image, running, kept, schema, backups, revision, recorded, rolledBack>>
    BY <1>t, <1>11 DEF Smoke, Exclusive
  <2>2. CASE /\ TRUE
             /\ step' = [step EXCEPT ![d] = "record"] /\ UNCHANGED <<release, lock>>
    <3>1. DeployTypeOK'
      BY <1>t, <2>1, <2>2 DEF DeployTypeOK
    <3>2. Exclusive' /\ Progress'
      BY <1>t, <2>1, <2>2 DEF DeployTypeOK, Exclusive, Progress
    <3>3. Kept'
      BY <1>t, <2>1, <2>2 DEF DeployTypeOK, Exclusive, Kept
    <3>4. Restorable'
      BY <1>t, <2>1, <2>2 DEF DeployTypeOK, Kept, Restorable
    <3> QED
      BY <1>t, <2>2, <3>1, <3>2, <3>3, <3>4, NotYetDone
  <2> QED
    BY <1>11, <2>2 DEF Smoke, GoesOn, Stops
<1>12. CASE Record(d)
  <2>1. /\ step[d] = "record" /\ revision' = release[d] /\ recorded' = schema /\ rolledBack' = FALSE
        /\ step' = [step EXCEPT ![d] = "done"] /\ lock' = Nobody
        /\ UNCHANGED <<release, source, image, running, kept, schema, backups>>
    BY <1>12 DEF Record
  <2>2. DeployTypeOK'
    BY <1>t, <2>1 DEF DeployTypeOK
  <2>3. Exclusive' /\ Progress'
    BY <1>t, <2>1 DEF DeployTypeOK, Exclusive, Progress
  <2>4. Kept'
    BY <1>t, <2>1 DEF DeployTypeOK, Exclusive, Kept
  <2>5. /\ running["api"] = release[d] /\ running["web"] = release[d]
        /\ \A f \in FilesOf[release[d]] : source[f] = release[d]
        /\ schema >= release[d]
    BY <1>t, <2>1 DEF Progress
  <2>6. running = [s \in Services |-> release[d]]
    BY <1>t, <2>5 DEF DeployTypeOK
  <2>7. Restorable'
    BY <2>1, <2>6 DEF Restorable
  <2>8. RevisionStep
    BY <1>t, <2>1, <2>5, <2>6 DEF DeployTypeOK, RevisionStep
  <2> QED
    BY <2>2, <2>3, <2>4, <2>7, <2>8
<1>13. CASE Breaks(d)
  <2>1. /\ step[d] \notin Waiting \cup Over /\ step' = [step EXCEPT ![d] = "stopped"] /\ lock' = Nobody
        /\ UNCHANGED <<release, source, image, running, kept, schema, backups, revision, recorded, rolledBack>>
    BY <1>13 DEF Breaks, Stops
  <2>2. DeployTypeOK' /\ Restorable'
    BY <1>t, <2>1 DEF DeployTypeOK, Restorable
  <2>3. Exclusive' /\ Progress' /\ Kept'
    BY <1>t, <2>1 DEF DeployTypeOK, Exclusive, Progress, Kept
  <2> QED
    BY <1>t, <2>1, <2>2, <2>3, NotYetDone
<1> QED
  BY <1>1, <1>2, <1>3, <1>4, <1>5, <1>6, <1>7, <1>8, <1>9, <1>10, <1>11, <1>12, <1>13 DEF DeployStep

LEMMA RollBackInv == ASSUME DeployInv, NEW d \in Deployments, RollBack(d) PROVE DeployInv' /\ RevisionStep
<1>t. DeployTypeOK /\ Exclusive /\ Progress /\ Kept
  BY DEF DeployInv
<1>1. /\ lock = Nobody /\ rolledBack' = TRUE
      /\ UNCHANGED <<release, step, lock, source, kept, schema, backups, revision, recorded>>
  BY DEF RollBack, LockFree
<1>2. \A e \in Deployments : step[e] \in Waiting \cup Over
  BY <1>t, <1>1 DEF Exclusive
<1>3. image' \in [Services -> Releases] /\ running' \in [Services -> Releases]
  <2>1. kept[d] \in [Services -> Releases]
    BY <1>t DEF RollBack, DeployTypeOK
  <2> QED
    BY <1>t, <2>1 DEF RollBack, DeployTypeOK, Services
<1>4. DeployTypeOK'
  BY <1>t, <1>1, <1>3 DEF DeployTypeOK
<1>5. Exclusive' /\ Progress' /\ Kept' /\ Restorable'
  BY <1>t, <1>1, <1>2 DEF Exclusive, Progress, Kept, Restorable, Waiting, Over, BuiltSteps, MigratedSteps
<1> QED
  BY <1>1, <1>2, <1>4, <1>5 DEF DeployInv, RevisionStep, Waiting, Over

LEMMA DeployNextInv == ASSUME DeployInv, [DeployNext]_deployVars PROVE DeployInv' /\ [RevisionStep]_deployVars
<1>1. CASE DeployNext
  BY <1>1, DeployStepInv, RollBackInv DEF DeployNext
<1>2. CASE UNCHANGED deployVars
  BY <1>2 DEF deployVars, DeployInv, DeployTypeOK, Exclusive, Progress, Kept, Restorable
<1> QED
  BY <1>1, <1>2

(* The inductive invariant of the deployments.                              *)
THEOREM DeployInvariant == DeploySpec => []DeployInv
  BY DeployStart, DeployNextInv, PTL DEF DeploySpec

(* REVISION is written of what then runs (deploy-production.sh, the lock).  *)
THEOREM RevisionAsRecorded == DeploySpec => RevisionTrue
<1>1. DeployInv /\ [DeployNext]_deployVars => [RevisionStep]_deployVars
  BY DeployNextInv
<1> QED
  BY <1>1, DeployInvariant, PTL DEF DeploySpec, RevisionTrue, RevisionStep

(* There is always a way back to the release that REVISION names.           *)
THEOREM WayBack == DeploySpec => []Restorable
<1>1. DeployInv => Restorable
  BY DEF DeployInv
<1> QED
  BY <1>1, DeployInvariant, PTL
=============================================================================
