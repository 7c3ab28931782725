--------------------------- MODULE ProductImages ---------------------------
(***************************************************************************)
(* The images of one product: MediaService with its storage, and the image *)
(* manager of the product page that calls it.  An image is a row with a    *)
(* position, a mark for the primary one, and a file of each variant.  A    *)
(* call is cut at every file and at its transaction.  One page is followed *)
(* as long as it has been told everything; what any other page sends, or   *)
(* this one later, are calls from elsewhere.  Alt texts, formats and sizes *)
(* are left out.                                                           *)
(***************************************************************************)
EXTENDS Naturals, FiniteSets, FiniteSetsExt, SequencesExt, Serializable

CONSTANTS Images,      \* ids an image may draw, in their order
          Variants,    \* the files of an image
          Calls,       \* calls under way at once (a bound)
          MaxFaults    \* how much the model lets fail (a bound)

ASSUME ImagesAssumption == Images \subseteq Nat \ {0} /\ 1..2 \subseteq Images

VARIABLES
    listed,     \* the product is there
    row,        \* of each image there is: its position, and whether it is primary
    file,       \* the files in storage
    drawn,      \* the ids that are taken
    call,       \* what each call does, and how far it is
    txn,        \* its SERIALIZABLE transaction
    page,       \* the image manager
    faults,     \* how many things have failed
    excused,    \* auxiliary: files nobody removes any more
    doubtful    \* auxiliary: images whose COMMIT went through unanswered

imageVars == <<listed, row, file, drawn, call, txn, page, faults, excused, doubtful>>

FilesOf(i) == {i} \X Variants
Single(i, image) == [j \in {i} |-> image]
Merged(f, g) == [i \in DOMAIN f \cup DOMAIN g |-> IF i \in DOMAIN f THEN f[i] ELSE g[i]]
Without(f, i) == [j \in DOMAIN f \ {i} |-> f[j]]
Cleared(rows) == [i \in DOMAIN rows |-> [rows[i] EXCEPT !.primary = FALSE]]
Primaries(rows) == {i \in DOMAIN rows : rows[i].primary}

(* image: the one it is about; sets: the rows it writes; puts, drops: the   *)
(* files it has still to write and to remove; failed: it answers an error;  *)
(* known: that error means nothing has changed; live: the page waits.       *)
NoCall == [op |-> "none", at |-> "none", image |-> 0, primary |-> FALSE, sets |-> <<>>,
           puts |-> {}, drops |-> {}, failed |-> FALSE, known |-> TRUE, live |-> FALSE]

(* form: the boxes for "primary"; touched: those the user has changed.      *)
Away == [open |-> FALSE, busy |-> FALSE, images |-> <<>>, form |-> <<>>, touched |-> {}]

ImagesInit ==
    /\ listed = TRUE
    /\ \E n \in 1..2, chosen \in 0..2 :
          row = [i \in 1..n |-> [position |-> i - 1, primary |-> i = chosen]]
    /\ file = UNION {FilesOf(i) : i \in DOMAIN row} /\ drawn = DOMAIN row
    /\ call = [c \in Calls |-> NoCall] /\ txn = [c \in Calls |-> Closed]
    /\ page = Away
    /\ faults = 0 /\ excused = {} /\ doubtful = {}

Fault == faults < MaxFaults /\ faults' = faults + 1

-----------------------------------------------------------------------------
(* The page.  It sends one call at a time, by busy, and waits for none once *)
(* it is left.                                                              *)
PageLoads ==
    /\ ~page.open /\ listed /\ \A c \in Calls : call[c] = NoCall
    /\ page' = [Away EXCEPT !.open = TRUE, !.images = row, !.form = [i \in DOMAIN row |-> row[i].primary]]
    /\ UNCHANGED <<listed, row, file, drawn, call, txn, faults, excused, doubtful>>

Unfollowed == page' = Away
Unheard(step) == IF step.at = "answered" THEN NoCall ELSE [step EXCEPT !.live = FALSE]

PageLeft ==
    /\ page.open /\ Unfollowed
    /\ call' = [c \in Calls |-> Unheard(call[c])]
    /\ UNCHANGED <<listed, row, file, drawn, txn, faults, excused, doubtful>>

(* One box at a time is unsaved: a bound.                                   *)
Tick(i) ==
    /\ page.open /\ ~page.busy /\ i \in DOMAIN page.form /\ page.touched = {}
    /\ page' = [page EXCEPT !.form[i] = ~@, !.touched = @ \cup {i}]
    /\ UNCHANGED <<listed, row, file, drawn, call, txn, faults, excused, doubtful>>

Sent(c, op, image, primary, sets, live) ==
    /\ call[c] = NoCall
    /\ call' = [call EXCEPT ![c] = [NoCall EXCEPT !.op = op, !.at = "sent", !.image = image,
                                                  !.primary = primary, !.sets = sets, !.live = live]]
    /\ UNCHANGED <<listed, row, file, drawn, txn, faults, excused, doubtful>>

Sends(c, op, image, primary, sets) ==
    /\ page.open /\ ~page.busy /\ Sent(c, op, image, primary, sets, TRUE)
    /\ page' = [page EXCEPT !.busy = TRUE]

SendUpload(c) == \E primary \in BOOLEAN : Sends(c, "upload", 0, primary, <<>>)
SendSave(c) == \E i \in DOMAIN page.images : Sends(c, "save", i, page.form[i], <<>>)
SendDelete(c) == \E i \in DOMAIN page.images : Sends(c, "delete", i, FALSE, <<>>)

InOrder(images) ==
    SetToSortSeq(DOMAIN images, LAMBDA i, j : \/ images[i].position < images[j].position
                                              \/ images[i].position = images[j].position /\ i < j)

(* Two neighbours change places, and every image gets its place's number.   *)
SendMove(c) ==
    LET list == InOrder(page.images) IN
    \E k \in 1..(Len(list) - 1) :
        LET next == [list EXCEPT ![k] = list[k + 1], ![k + 1] = list[k]] IN
        Sends(c, "order", 0, FALSE,
              [i \in DOMAIN page.images |->
                  [page.images[i] EXCEPT !.position = (CHOOSE n \in DOMAIN next : next[n] = i) - 1]])

(* No order comes from elsewhere: the page may be left with one under way.  *)
SendElsewhere(c) ==
    /\ ~page.open /\ UNCHANGED page
    /\ \/ \E primary \in BOOLEAN : Sent(c, "upload", 0, primary, <<>>, FALSE)
       \/ \E i \in DOMAIN row, primary \in BOOLEAN : Sent(c, "save", i, primary, <<>>, FALSE)
       \/ \E i \in DOMAIN row : Sent(c, "delete", i, FALSE, <<>>, FALSE)

-----------------------------------------------------------------------------
(* MediaService.                                                            *)
(* An upload is checked, and then has its files to write.  Ids are drawn in *)
(* their order: only a tie between positions could tell.                    *)
Accepted(c) ==
    /\ call[c].op = "upload" /\ call[c].at = "sent" /\ listed
    /\ \E i \in Images :
          /\ drawn = 1..(i - 1) /\ drawn' = drawn \cup {i}
          /\ call' = [call EXCEPT ![c].at = "writing", ![c].image = i, ![c].puts = Variants]
    /\ UNCHANGED <<listed, row, file, txn, page, faults, excused, doubtful>>

(* storage.put: a write that fails may leave a part of the file behind.     *)
Put(c, v) ==
    /\ v \in call[c].puts
    /\ \/ /\ call' = [call EXCEPT ![c].puts = @ \ {v}] /\ UNCHANGED faults
          /\ file' = file \cup {<<call[c].image, v>>}
       \/ /\ call' = [call EXCEPT ![c].puts = @ \ {v}, ![c].failed = TRUE] /\ Fault
          /\ file' \in {file, file \cup {<<call[c].image, v>>}}
    /\ UNCHANGED <<listed, row, drawn, txn, page, excused, doubtful>>

(* Nobody hears of the end of a call that no page waits for.                *)
Closes(step) == IF step.live THEN [step EXCEPT !.at = "answered", !.primary = FALSE] ELSE NoCall
Removes(step, failed) ==
    [step EXCEPT !.at = "dropping", !.drops = Variants, !.sets = <<>>, !.primary = FALSE,
                 !.failed = failed /\ step.live]
FailsIn(step) ==
    IF step.op = "upload" /\ step.at # "sent" THEN Removes(step, TRUE)
    ELSE Closes([step EXCEPT !.failed = TRUE, !.sets = <<>>])

(* Wrong: the first write that fails ends the waiting.                      *)
SettledAtFirst(c) == call[c].puts = {} \/ call[c].failed
(* Promise.allSettled.                                                      *)
Settled(c) == call[c].puts = {}

WriteFailed(c) ==
    /\ call[c].at = "writing" /\ Settled(c) /\ call[c].failed
    /\ call' = [call EXCEPT ![c] = FailsIn(@)]
    /\ UNCHANGED <<listed, row, file, drawn, txn, page, faults, excused, doubtful>>

(* What goes wrong before the COMMIT, and at it: bad input, no such row, a  *)
(* conflict with another transaction.                                       *)
CallFails(c) ==
    /\ call[c].at \in {"sent", "found", "open"}
    /\ call' = [call EXCEPT ![c] = FailsIn(@)] /\ txn' = [txn EXCEPT ![c] = Closed]
    /\ UNCHANGED <<listed, row, file, drawn, page, faults, excused, doubtful>>

Begins(c, sets, reads) ==
    /\ call' = [call EXCEPT ![c].at = "open", ![c].sets = sets, ![c].primary = FALSE]
    /\ txn' = [txn EXCEPT ![c] = Opened(reads, DOMAIN sets \cap DOMAIN row, DOMAIN sets)]
    /\ UNCHANGED <<listed, row, file, drawn, page, faults, excused, doubtful>>

Written(c) == Settled(c) /\ ~call[c].failed

(* The new row goes last; a primary one clears the mark of all the others.  *)
BeginsUpload(c) ==
    LET last == IF row = <<>> THEN 0 ELSE Max({row[i].position : i \in DOMAIN row}) + 1
        new == Single(call[c].image, [position |-> last, primary |-> call[c].primary]) IN
    /\ call[c].op = "upload" /\ call[c].at = "writing" /\ Written(c)
    /\ Begins(c, Merged(new, IF call[c].primary THEN Cleared(row) ELSE <<>>), Images)

BeginsSave(c) ==
    LET i == call[c].image
        new == Single(i, [row[i] EXCEPT !.primary = call[c].primary]) IN
    /\ call[c].op = "save" /\ call[c].at = "sent" /\ i \in DOMAIN row
    /\ IF call[c].primary THEN Begins(c, Merged(new, Cleared(row)), Images) ELSE Begins(c, new, {i})

BeginsOrder(c) ==
    LET ids == DOMAIN call[c].sets IN
    /\ call[c].op = "order" /\ call[c].at = "sent" /\ ids \subseteq DOMAIN row
    /\ Begins(c, [i \in ids |-> [row[i] EXCEPT !.position = call[c].sets[i].position]], ids)

(* Wrong: transactions that do not mind each other.                         *)
CommitsLoosely(c) ==
    /\ call[c].at = "open" /\ listed
    /\ row' = Merged(call[c].sets, row) /\ txn' = AfterCommit(txn, c)
    /\ call' = [call EXCEPT ![c] = Closes(@)]
    /\ UNCHANGED <<listed, file, drawn, page, faults, excused, doubtful>>

(* The foreign key wants the product.  The answer to the COMMIT may be      *)
(* lost, and the service takes that for a failure.                          *)
Commits(c) ==
    /\ call[c].at = "open" /\ listed /\ MayCommit(txn, c)
    /\ row' = Merged(call[c].sets, row) /\ txn' = AfterCommit(txn, c)
    /\ \/ call' = [call EXCEPT ![c] = Closes(@)] /\ UNCHANGED <<faults, doubtful>>
       \/ /\ Fault /\ doubtful' = doubtful \cup {call[c].image}
          /\ call' = [call EXCEPT ![c] = FailsIn([@ EXCEPT !.known = FALSE])]
    /\ UNCHANGED <<listed, file, drawn, page, excused>>

(* delete: a look, the row, and then its files; no transaction around them. *)
FindsImage(c) ==
    /\ call[c].op = "delete" /\ call[c].at = "sent" /\ call[c].image \in DOMAIN row
    /\ call' = [call EXCEPT ![c].at = "found"]
    /\ UNCHANGED <<listed, row, file, drawn, txn, page, faults, excused, doubtful>>

RemovesRow(c) ==
    LET i == call[c].image IN
    /\ call[c].op = "delete" /\ call[c].at = "found" /\ i \in DOMAIN row
    /\ row' = Without(row, i) /\ txn' = AfterStatement(txn, {i})
    /\ \/ call' = [call EXCEPT ![c] = Removes(@, FALSE)] /\ UNCHANGED <<faults, excused>>
       \/ /\ Fault /\ excused' = excused \cup FilesOf(i)
          /\ call' = [call EXCEPT ![c] = FailsIn([@ EXCEPT !.known = FALSE])]
    /\ UNCHANGED <<listed, file, drawn, page, doubtful>>

Drop(c, v) ==
    /\ v \in call[c].drops
    /\ call' = [call EXCEPT ![c].drops = @ \ {v}]
    /\ \/ file' = file \ {<<call[c].image, v>>} /\ UNCHANGED <<faults, excused>>
       \/ Fault /\ excused' = excused \cup {<<call[c].image, v>>} /\ UNCHANGED file
    /\ UNCHANGED <<listed, row, drawn, txn, page, doubtful>>

(* AdminProductsService.delete, asked for elsewhere: the rows go with the   *)
(* product, and nobody removes their files.                                 *)
ProductRemoved ==
    /\ listed /\ listed' = FALSE
    /\ row' = <<>> /\ txn' = AfterStatement(txn, DOMAIN row)
    /\ excused' = excused \cup UNION {FilesOf(i) : i \in DOMAIN row}
    /\ Unfollowed /\ call' = [c \in Calls |-> Unheard(call[c])]
    /\ UNCHANGED <<file, drawn, faults, doubtful>>

(* The API process dies, and with it every call.                            *)
Crashes ==
    /\ \E c \in Calls : call[c] # NoCall
    /\ Fault
    /\ call' = [c \in Calls |-> NoCall] /\ txn' = [c \in Calls |-> Closed]
    /\ excused' = excused \cup {f \in file : f[1] \notin DOMAIN row}
    /\ Unfollowed
    /\ UNCHANGED <<listed, row, file, drawn, doubtful>>

-----------------------------------------------------------------------------
(* The answer, or an error in its place, and what the page makes of it.     *)

(* synchronize: a box follows the image unless it was changed; new ones and *)
(* the one just saved start from the image.                                 *)
Synchronized(images, again) ==
    [i \in DOMAIN images |->
        IF i \in DOMAIN page.form \ again /\ page.form[i] # page.images[i].primary
        THEN page.form[i] ELSE images[i].primary]

Shows(images, again) ==
    page' = [page EXCEPT !.busy = FALSE, !.images = images, !.form = Synchronized(images, again),
                         !.touched = @ \ again]

(* Wrong: the others keep their mark.                                       *)
AcceptUploadAlone(c) ==
    LET i == call[c].image IN Shows(Merged(Single(i, call[c].sets[i]), page.images), {})

AcceptUpload(c) ==
    LET i == call[c].image
        others == IF call[c].sets[i].primary THEN Cleared(page.images) ELSE page.images IN
    Shows(Merged(Single(i, call[c].sets[i]), others), {})

AcceptSave(c) ==
    LET i == call[c].image
        others == IF call[c].sets[i].primary THEN Cleared(page.images) ELSE page.images IN
    Shows(Merged(Single(i, call[c].sets[i]), others), {i})

AcceptOrder(c) ==
    Shows([i \in DOMAIN page.images |->
              [page.images[i] EXCEPT !.position = call[c].sets[i].position]], {})

AcceptDelete(c) == Shows(Without(page.images, call[c].image), {})

Ended(c) == call[c].puts = {} /\ call[c].drops = {} /\ call[c].at \in {"answered", "dropping"}

(* takeUntilDestroyed, and the generation: a page that was left hears of    *)
(* nothing.                                                                 *)
Answers(c) ==
    /\ Ended(c) /\ call' = [call EXCEPT ![c] = NoCall]
    /\ \/ ~call[c].live /\ UNCHANGED <<page, faults>>
       \/ /\ call[c].live /\ call[c].failed /\ UNCHANGED faults
          /\ IF call[c].known THEN page' = [page EXCEPT !.busy = FALSE] ELSE Unfollowed
       \/ /\ call[c].live /\ ~call[c].failed /\ UNCHANGED faults
          /\ \/ call[c].op = "upload" /\ AcceptUpload(c)
             \/ call[c].op = "save" /\ AcceptSave(c)
             \/ call[c].op = "order" /\ AcceptOrder(c)
             \/ call[c].op = "delete" /\ AcceptDelete(c)
       \/ /\ call[c].live /\ ~call[c].failed /\ Fault      \* lost on its way
          /\ Unfollowed
    /\ UNCHANGED <<listed, row, file, drawn, txn, excused, doubtful>>

ImagesNext ==
    \/ PageLoads \/ PageLeft \/ ProductRemoved \/ Crashes
    \/ \E i \in Images : Tick(i)
    \/ \E c \in Calls :
          \/ SendUpload(c) \/ SendSave(c) \/ SendMove(c) \/ SendDelete(c) \/ SendElsewhere(c)
          \/ Accepted(c) \/ WriteFailed(c) \/ CallFails(c)
          \/ BeginsUpload(c) \/ BeginsSave(c) \/ BeginsOrder(c) \/ Commits(c)
          \/ FindsImage(c) \/ RemovesRow(c) \/ Answers(c)
          \/ \E v \in Variants : Put(c, v) \/ Drop(c, v)

ImagesSpec == ImagesInit /\ [][ImagesNext]_imageVars

-----------------------------------------------------------------------------
ImagesTypeOK ==
    /\ DOMAIN row \subseteq drawn /\ drawn \subseteq Images /\ \A i \in DOMAIN row : row[i] \in [position : Nat, primary : BOOLEAN]
    /\ file \subseteq Images \X Variants /\ excused \subseteq Images \X Variants
    /\ DOMAIN page.form = DOMAIN page.images /\ page.touched \subseteq Images
    /\ \A c \in Calls : txn[c].open <=> call[c].at = "open"

(* Every image the storefront is given has all its files, whatever failed   *)
(* and in whatever order the files and the row were written and removed     *)
(* (MediaService.upload and delete); except an image whose COMMIT went      *)
(* through while its answer was lost: upload then removes its files.        *)
ImagesServed == \A i \in DOMAIN row : i \in doubtful \/ FilesOf(i) \subseteq file

(* No file is left behind: one without a row belongs to a call that still   *)
(* works on it, or its removal failed, or the process died, or the whole    *)
(* product was deleted, which the README defers (MediaService.upload's      *)
(* allSettled and catch).                                                   *)
NoFileLeft ==
    \A f \in file : \/ f[1] \in DOMAIN row \/ f \in excused
                    \/ \E c \in Calls : call[c].image = f[1] /\ call[c].at \in {"writing", "open", "dropping"}

(* Both: the files and the rows fit each other. *)
FilesMatchRows == ImagesServed /\ NoFileLeft

(* Uploads and saves that meet leave at most one primary image: each of     *)
(* them clears the others in its own transaction.                           *)
OnePrimary == Cardinality(Primaries(row)) <= 1

(* A page that was told everything shows the rows as they are, and a box    *)
(* nobody touched says what the row says, so that saving an alt text never  *)
(* moves the primary mark (ProductImages.emit and synchronize).             *)
PageFaithful ==
    page.open /\ ~page.busy =>
        /\ page.images = row
        /\ \A i \in DOMAIN row : page.form[i] = row[i].primary \/ i \in page.touched
=============================================================================
