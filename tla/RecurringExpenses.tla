-------------------------- MODULE RecurringExpenses --------------------------
(***************************************************************************)
(* One recurring expense template, the monthly charges made from it, and   *)
(* the requests that work on both: RecurringExpensesService.update and     *)
(* delete (SERIALIZABLE), and the reports of FinanceReportingService, which*)
(* store the charges that are due before they read (REPEATABLE READ).      *)
(* A request has a snapshot from its first read to its commit; the         *)
(* calendar and other requests move on in between.  Templates share        *)
(* nothing, so one stands for all.                                         *)
(***************************************************************************)
EXTENDS Integers, Sequences, FiniteSetsExt

CONSTANTS Requests,
          Lengths,        \* the days of each month of the calendar
          Terms,          \* name, category, amount, payment method and notes
          Starts, Ends    \* the dates an administrator enters (bounds of the model)

VARIABLES
    today,
    phase,      \* of the template: unborn, live or deleted
    template,   \* its row
    charges,    \* the occurrences stored for each month, with their expenses
    op          \* the open transaction of each request, <<>> for none;
                \* closed is auxiliary

recurringVars == <<today, phase, template, charges, op>>

Months == DOMAIN Lengths
First[m \in 1..Len(Lengths) + 1] == IF m = 1 THEN 1 ELSE First[m - 1] + Lengths[m - 1]
Days == 1..First[Len(Lengths) + 1] - 1

ASSUME CalendarAssumption ==
    /\ Lengths \in Seq(Nat \ {0}) /\ Lengths # <<>>
    /\ Starts \cup Ends \subseteq Days

Month(d) == CHOOSE m \in Months : First[m] <= d /\ d < First[m + 1]

Never == 0    \* no end date

Rows == [active : BOOLEAN, start : Days, end : Days \cup {Never}, terms : Terms]
Inputs == [active : BOOLEAN, start : Starts, end : Ends \cup {Never}, terms : Terms]

(* What a PATCH may carry: some of the fields. *)
Changes == UNION {{[f \in F |-> x[f]] : x \in Inputs} : F \in SUBSET {"active", "start", "end", "terms"}}

Carries(c, f) == f \in DOMAIN c

InOrder(t) == t.end = Never \/ t.start <= t.end

-----------------------------------------------------------------------------
(* monthlyOccurrenceDate: the day of the start date, or the month's last.   *)
OccurrenceDate(start, m) ==
    First[m] + Min({start - First[Month(start)], Lengths[m] - 1})

(* materializeTemplatePeriod charges month m at all. *)
Applies(t, m) ==
    LET d == OccurrenceDate(t.start, m) IN d >= t.start /\ (t.end = Never \/ d <= t.end)

Charge(t, m) == [date |-> OccurrenceDate(t.start, m), terms |-> t.terms]

(* The months of ms it finds uncharged in its snapshot. *)
Uncharged(t, book, ms) == {m \in ms : book[m] = {} /\ Applies(t, m)}

(* materializeCompletedPeriods, for a request that began on day d. *)
Completed(t, book, d) == Uncharged(t, book, {m \in Months : m < Month(d)})

(* materializePeriod of a report: what is due by the day it ends or began.  *)
Due(t, book, from, through) ==
    IF ~t.active THEN {}
    ELSE Uncharged(t, book, {m \in from..Month(through) : OccurrenceDate(t.start, m) <= through})

-----------------------------------------------------------------------------
RecurringInit ==
    /\ today = 1
    /\ phase = "unborn"
    /\ template \in Inputs /\ InOrder(template)
    /\ charges = [m \in Months |-> {}]
    /\ op = [r \in Requests |-> <<>>]

(* The row is one that create accepts; its category was active when asked. *)
Create == phase = "unborn" /\ phase' = "live" /\ UNCHANGED <<today, template, charges, op>>

(* Months that are over, and so are the requests that saw them running, and *)
(* those that began while one of these was under way.                       *)
ClosedMonths == {m \in Months : /\ m < Month(today)
                               /\ \A r \in Requests : op[r] # <<>> => m \in op[r][1].closed}

(* The first read of a request, made on day d; a missing row is a 404. *)
Snapshot(r, request, d) ==
    /\ phase = "live"
    /\ op' = [op EXCEPT ![r] = <<[request |-> request, now |-> d, row |-> template,
                                 book |-> charges, closed |-> ClosedMonths]>>]
    /\ UNCHANGED <<today, phase, template, charges>>

(* A report stores what is due until it ends or began, what is earlier.     *)
Begin(r) ==
    /\ op[r] = <<>>
    /\ \/ \E c \in Changes : Snapshot(r, [kind |-> "update", change |-> c], today)
       \/ Snapshot(r, [kind |-> "delete"], today)
       \/ \E through \in 1..today : \E from \in 1..Month(through) :
             Snapshot(r, [kind |-> "report", from |-> from, through |-> through], today)

(* After a conflict a report starts again, at most twice; its day stays.    *)
Retry(r) ==
    /\ op[r] # <<>> /\ op[r][1].request.kind = "report"
    /\ Snapshot(r, op[r][1].request, op[r][1].now)

-----------------------------------------------------------------------------
(* Wrong: a template resumed keeps its start date. *)
ResumedAsPaused(t, c, now) == t

(* Resumed without a date, a template starts anew this month. *)
Resumed(t, c, now) ==
    IF ~t.active /\ Carries(c, "active") /\ c.active
    THEN [t EXCEPT !.start = OccurrenceDate(t.start, Month(now))]
    ELSE t

(* A transaction stores the charges of the months ms; each is unique. *)
Store(t, ms) ==
    /\ \A m \in ms : charges[m] = {}
    /\ charges' = [m \in Months |-> IF m \in ms THEN {Charge(t, m)} ELSE charges[m]]

(* The end of a request.  Of those that write the template the first to     *)
(* commit wins, and the others abort.                                       *)
End(r, wrote) ==
    op' = [s \in Requests |->
             IF s = r \/ (wrote /\ op[s] # <<>> /\ op[s][1].request.kind # "report")
             THEN <<>> ELSE op[s]]

(* A field that the body carries replaces the row's. *)
Patched(t, c) == [f \in DOMAIN t |-> IF Carries(c, f) THEN c[f] ELSE t[f]]

Update(r) ==
    /\ op[r] # <<>> /\ op[r][1].request.kind = "update"
    /\ LET o == op[r][1]
           t == o.row
           c == o.request.change
       IN  /\ Store(t, IF t.active THEN Completed(t, o.book, o.now) ELSE {})
           /\ template' = Patched(Resumed(t, c, o.now), c)
           /\ InOrder(template')
    /\ End(r, TRUE)
    /\ UNCHANGED <<today, phase>>

(* Charges found or just stored keep the template, and are committed; the   *)
(* foreign key refuses a template a report has charged since.               *)
Delete(r) ==
    /\ op[r] # <<>> /\ op[r][1].request.kind = "delete"
    /\ LET o == op[r][1]
           ms == IF o.row.active THEN Completed(o.row, o.book, o.now) ELSE {}
           history == ms # {} \/ \E m \in Months : o.book[m] # {}
       IN  /\ Store(o.row, ms)
           /\ history \/ \A m \in Months : charges[m] = {}
           /\ phase' = IF history THEN "live" ELSE "deleted"
           /\ End(r, ~history)
    /\ UNCHANGED <<today, template>>

Report(r) ==
    /\ op[r] # <<>> /\ op[r][1].request.kind = "report"
    /\ LET o == op[r][1]
           ms == Due(o.row, o.book, o.request.from, o.request.through)
       IN  Store(o.row, ms) /\ (ms # {} => phase = "live")
    /\ End(r, FALSE)
    /\ UNCHANGED <<today, phase, template>>

(* 400, 409, a lost connection: nothing is stored. *)
GiveUp(r) ==
    /\ op[r] # <<>>
    /\ op' = [op EXCEPT ![r] = <<>>]
    /\ UNCHANGED <<today, phase, template, charges>>

Tick == today + 1 \in Days /\ today' = today + 1 /\ UNCHANGED <<phase, template, charges, op>>

RecurringNext ==
    \/ Create
    \/ Tick
    \/ \E r \in Requests :
          Begin(r) \/ Update(r) \/ Delete(r) \/ Report(r) \/ Retry(r) \/ GiveUp(r)

RecurringSpec == RecurringInit /\ [][RecurringNext]_recurringVars

-----------------------------------------------------------------------------
RecurringTypeOK ==
    /\ today \in Days
    /\ phase \in {"unborn", "live", "deleted"}
    /\ template \in Rows
    /\ \A m \in Months : charges[m] \subseteq [date : Days, terms : Terms]

(* What the books say, or will say once asked, about month m. *)
Books(m) ==
    IF charges[m] = {} /\ phase = "live" /\ template.active /\ Applies(template, m)
    THEN {Charge(template, m)} ELSE charges[m]

Updates == {r \in Requests : op[r] # <<>> /\ op[r][1].request.kind = "update"}

(* The update this step commits gives the template another window. *)
MovesWindow ==
    \E r \in Updates :
       /\ op[r]' = <<>>
       /\ \E f \in {"start", "end"} : /\ Carries(op[r][1].request.change, f)
                                     /\ op[r][1].request.change[f] # op[r][1].row[f]

(* It resumes the template and carries the start date: what the editor     *)
(* sends, where the list sends the switch alone.                           *)
ResumesWithDate ==
    \E r \in Updates :
       /\ op[r]' = <<>> /\ ~op[r][1].row.active
       /\ {"active", "start"} \subseteq DOMAIN op[r][1].request.change

(* The books of a closed month stay as they are, whatever is edited, paused,*)
(* resumed, deleted or reported, in whatever order: a paused month is free, *)
(* one that ran is charged once, on the terms it ran under.  A new window   *)
(* reaches back, and so does resuming with a date; what is stored stays.    *)
HistoryKept ==
    [][\A m \in Months :
         /\ charges[m] # {} => charges'[m] = charges[m]
         /\ m \in ClosedMonths /\ phase = "live" /\ ~MovesWindow /\ ~ResumesWithDate
            => Books(m)' = Books(m)]_recurringVars

(* As the editor's page says it: changes to a template do not rewrite       *)
(* historical months, the ones that only resume it among them.              *)
ChangesLookForward ==
    [][\A m \in ClosedMonths : phase = "live" /\ ~MovesWindow => Books(m)' = Books(m)]_recurringVars
=============================================================================
