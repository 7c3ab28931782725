# Athlon: specifications, model checking and proofs

Athlon is a shop: an Angular storefront and administration (`apps/web`), a
NestJS API over PostgreSQL (`apps/api`), an Ameriabank card integration that
runs against the bank's sandbox, and a few operator scripts. This directory
specifies, in TLA+, the parts of it whose correctness depends on what happens
*between* steps: requests that race, answers that are lost, processes that die,
browsers that reload, transactions that overlap. TLC checks the specifications
on small instances; TLAPS proves the most important results for every instance.

How to run, in this directory:

    tlc -workers 2 -config MCSandboxPayment.cfg MCSandboxPayment.tla
    tlapm SandboxPayment_proofs.tla

`PROJECT.json` lists the runs with their properties, maps every definition to
the source lines it stands for, lists the hazards of the code with the
properties that would notice them, and gives for each property a *mutant*: a
definition marked "Wrong:" in the modules, the code with a plausible bug, under
which TLC finds the property violated. The "Wrong:" definitions are part of no
specification.

## 1. Inventory

### The system's parts and the state they keep

| Part | State | Operations | What makes it correct |
|---|---|---|---|
| **Sandbox payments** (API: `card-payment-test`, `sandbox-payments`) | rows of `CardPaymentSandboxSession`, leases and attempts as timestamps in the row; the order-number sequence; the bank | browser: create, poll, cancel; operator: refund, cancel, recheck | at most one InitPayment and one bank mutation per payment; the stored status never exceeds what the bank did; nothing confirmed is revised; unclear outcomes can be reconciled |
| **Orders** (API: `orders`) | orders by idempotency key, notification rows; the catalogue; the email provider; the bank | submit (cash on delivery, card), repeat | one order per key, only at the price the customer saw; accepted only when stored and notified; one hosted payment per order |
| **Admin authentication** (API: `auth`) | refresh sessions; cookies | login, refresh, logout, guard | a refresh token is redeemed once; revocation is final |
| **Admin session** (web: `core/auth`, interceptor, login page) | session epoch, single-flight refresh, cookie operations in flight, logout state | guard, any API call, login, refresh, logout | single refresh; a logout leaves a clean browser; late work has no effect; nobody waits for ever |
| **Inventory ledger** (API: `finance/inventory`, `purchases`, `sales`) | purchase and sale documents with business dates and stored unit costs | create, update, delete of both | stock never negative at any date; moving average costs current and conserved, whatever the order of entry |
| **Recurring expenses** (API: `finance/recurring`, `finance/reporting`) | templates, monthly occurrences with their expenses | create, update, pause, resume, delete; every report stores what is due | one charge per month; closed months are not rewritten |
| **Certification tool** (`scripts/ameria-sandbox-operations.mjs`) | evidence files of one payment | inspect, refund, cancel, verify, report | one mutation at the bank whatever is killed; the evidence tells the truth |
| **Sandbox checkout in the browser** (web: `basket`, `card-payment-test`) | basket in localStorage and in each tab's memory, request in sessionStorage, page | edit, submit, return, recheck, cancel, verify receipt | a request repeated while it is undecided is not paid twice; a paid basket is taken out once |
| **Storefront checkout form** (web: `basket-page`, orders on delivery) | request key and draft in memory and sessionStorage | edit, submit, leave, reopen | an order without an answer is not placed twice, an edited one is not taken for it; accepted is what was shown |
| **Catalog administration** (API: `categories`, `brands`, `products`) | categories, brands, products | create, move, delete, under SERIALIZABLE transactions | a tree without circles and with a bounded top level; no product loses its brand unnoticed |
| **Product images and storage** (API: `media`, `storage`; web: `product-images`) | image rows; files; the image manager's copy | upload, save, reorder, delete | a row has its files; one primary image; the page shows what is stored |
| **Reporting and export** (API: `finance/reporting`, `finance/export`) | none of its own | totals, months, products, comparison, lists, workbook | the parts of a report agree with each other and with the documents; an export holds what its list shows |
| **Admin web pages** (web: lists, reports, editors) | query in the URL, requests, rows; a form | navigate, delete, export; edit, save, retry | rows answer the URL; an editor submits only what was typed for its record |
| **Opening-ledger import** (`prisma/import-finance-opening.ts`) | import keys on documents | import, again | entered once and as approved; sales costed again |
| **Deployment and backup** (`scripts/deploy-production.sh`, `backup-production.sh`) | source, images, containers, tags, dumps, schema, REVISION, a lock | deploy, retry, roll back | REVISION is what runs; a way back to it |
| Mock payment sessions, guests (API) | one process's memory; signed cookies | create, get, outcome | synchronous; expiry |
| One-time expenses, suppliers, site settings (API) | rows | CRUD | references hold |
| Public catalog, SEO, rendering | none | reads | (presentation) |
| Seed, provisioning, monitoring, CI | database, server files | run by hand or by GitHub | repeatable |

### How they interact

* Browser to API: HTTPS requests that may be lost on either way, repeated by
  the customer or answered after the page has gone. Cookies carry the admin's
  refresh token and the guest's identity; keys make creations idempotent.
* API to database: PostgreSQL transactions. Sandbox creation serializes by an
  advisory lock; the payment lifecycle by conditional single-row updates
  (`updateMany ... where`); inventory and recurring updates by SERIALIZABLE
  with retries; reports by REPEATABLE READ with retries.
* API to bank: InitPayment, GetPaymentDetails, CancelPayment, RefundPayment
  over HTTP with timeouts; the bank may have executed a request whose answer
  never came, and may execute it later.
* API to email provider: idempotent sends by notification id.
* Web tab to web tab: only through localStorage and the cookie jar.
* Catalog and media services to database: SERIALIZABLE transactions (`Serializable`
  says what they promise), single statements outside them, and files that no
  transaction covers.
* Admin pages to API: requests that overlap as the administrator navigates; a
  page drops answers it no longer wants, or does not.
* Reports and the opening import to the stock book: reports read what the
  ledger stored; the import writes through the same replay as purchases and sales.
* Operator's tool: its own calls to the bank, and files linked exclusively.
* Deployments to each other: a lock file on the host, and whatever an earlier
  one left behind.

### What is hard here

1. *Await points.* Every API handler reads, awaits the bank and writes; other
   requests run in between. All request models are cut at every await.
2. *Lost answers.* "Unknown" outcomes are stored as such and later reconciled.
3. *Leases and fences.* A poll's lease is a timestamp that a cancellation may
   reset to a value an older poll holds.
4. *Rewriting history.* Documents may be dated in the past, moved and removed;
   stored costs must follow.
5. *Snapshots.* Two transactions on old snapshots; calendar moves between.
6. *Waiting for each other.* A logout drains a refresh on which other calls
   wait that the logout has outdated.
7. *Two storages with different lifetimes* in the browser, each of which may
   refuse to be read or written at any call.
8. *Power loss* between a file's link and the sync of its directory.
9. *Files beside rows*: an upload writes files before the row and removes them
   when the row fails, without knowing whether it did.
10. *A form that stays* while the router changes the record below it.
11. *Scripts that stop anywhere* and are run again over what they left.

The hazards in `PROJECT.json` name each of these at its line, with the
properties that would notice if it went wrong.

## 2. The modules

| Module | Models | Checked by | Proved in |
|---|---|---|---|
| `PaymentLifecycle` | the abstract promise to the operator about one payment | as a property of `SandboxPayment` | `SandboxPayment_proofs` |
| `SandboxPayment` | polls, cancellations, refunds and rechecks of one row | `sandbox_payment` | `SandboxPayment_proofs` |
| `SandboxAllocation` | idempotent creation, sequence, InitPayment | `sandbox_allocation` | `SandboxAllocation_proofs` |
| `OrderCheckout` | order submission, notifications, hosted card payment | `order_checkout` | `OrderCheckout_proofs` |
| `AuthSessions` | login, refresh, logout on the server | `admin_session` | `AdminSession_proofs` |
| `AdminSession` | the browser tab, EXTENDS and refines `AuthSessions` | `admin_session`, `admin_settles` | `AdminSession_proofs` |
| `StockBook` | the abstract stock book: one document per step, replayed | as a property of `InventoryLedger` | `Finance_proofs` |
| `InventoryLedger` | writers with SERIALIZABLE transactions over it | `inventory_ledger`, `finance_writers` | `Finance_proofs` |
| `RecurringExpenses` | one template, its charges, requests on snapshots | `finance_writers`, `recurring_editor` | `Finance_proofs` |
| `SandboxOperations` | the operator's tool, its files, kills and power loss | `sandbox_operations` | `OperatorScripts_proofs` |
| `CheckoutTabs` | browser tabs with the shared basket | `checkout`, `checkout_language` | `Checkout_proofs` |
| `DeliveryForm` | the storefront's form for orders on delivery | `checkout` | `Checkout_proofs` |
| `FinanceReports` | every figure of reports and exports, over `InventoryLedger` | `inventory_ledger` | `Finance_proofs` |
| `Serializable` | what PostgreSQL promises SERIALIZABLE transactions | with `CatalogTree` and `ProductImages` | with them |
| `CatalogTree` | categories, brands and products under concurrent administrators | `catalog` | `Catalog_proofs` |
| `ProductImages` | rows and files of a product's images, and the image manager | `catalog` | `Catalog_proofs` |
| `AdminLists` | the list and report pages, navigation faster than answers | `catalog` | `Catalog_proofs` |
| `AdminEditors` | the editors, and the history that moves below them | `catalog` | `Catalog_proofs` |
| `Deployment` | overlapping, failing and repeated deployments, rollback | `sandbox_operations` | `OperatorScripts_proofs` |
| `OpeningImport` | the opening-ledger import over `InventoryLedger` | `sandbox_operations` | `Finance_proofs` |

`MC*` modules are the instances TLC runs; some add the symmetry sets, the small
calendars and the small shop that the configurations name. Four of them
(`MCCatalog`, `MCCheckoutTabs`, `MCFinanceWriters`, `MCSandboxOperations`) put components that share
nothing side by side: a behaviour is one of one part, chosen at the start, while
the others rest, so the states of a run are the sum of its parts.

**SandboxPayment.** `row` is the database row; `op`/`pc` are the kind of each
request and the await it stands at; `seen`, `token`, `verdict` are what the
handler keeps in local variables across awaits. Each action is the code between
two awaits: the read, the conditional update (`where` clause as guard, the count
it returns as the branch taken), the HTTP call. `call` is the mutation as the
bank has it, separate from what the API heard: accepted and executed, refused,
or executed after the caller timed out. `Fail` is a rejected promise, a timeout
or a dead process. `now` moves in ticks, so leases, the 72-hour window and the
owner's access end at any moment relative to any await.

**SandboxAllocation.** `rows` holds committed rows only. The transaction takes
the advisory lock, looks for a prior row, takes a number, inserts and commits;
the number is gone if it dies. InitPayment comes after COMMIT, and its result is
stored in a conditional update; a failure there leaves UNKNOWN for good.

**OrderCheckout.** A request looks up its key, prices the order from the
catalogue of the moment, stores it (the unique key decides the race) or compares
fingerprints with the stored one, and sends the notifications still unsent, one
at a time, with the attempt counted before and SENT recorded after the send.
`Edit` lets the shop change price or withdraw the product at any step.

**AuthSessions, AdminSession.** The server's sessions; the tab's epoch,
single-flight refresh, `cookieOperations` and `logoutRequest`. The refinement
`AuthSpec` says that the tab and its lost or unanswered requests are a client the
server module allows. Sessions that live on because their cookie was overwritten
or their logout was lost are counted in `orphans`, so that `LogoutClean` can say
exactly which may remain.

**StockBook, InventoryLedger.** A replay enters the last entry of the sort upon
what the entries before it leave. Costs are exact fractions, and the stored
snapshot is rounded to `Grain` as Decimal(18,6) rounds to a millionth. The
conflict detection of SERIALIZABLE is one flag, `stale`: of two overlapping
transactions that read and write one product only one commits. `finance_writers`
checks that every such execution is one of `StockBook`'s.

**RecurringExpenses.** A request has a snapshot of template and charges from its
first read to its commit, and the day it began on. PATCH bodies are records over
any subset of the fields, because the code distinguishes absent fields.

**SandboxOperations.** A file is what it says and whether its directory was
synced since; `PowerLoss` may take away any file not synced. `fresh` is the 72
hours; `run` is what each process does next.

**CheckoutTabs.** `store` is the stored basket with its settlements, `memory`
each tab's copy, `request` the sessionStorage record, `page` the component's
signals and its language, `call` the HTTP call the page awaits. A basket has what
the code puts into a request's fingerprint: of each line the quantity and the
price, and which line came before which; `Fingerprint` adds the language, and
`Retained` compares all of it, as `retainSandboxRequestKey` compares the JSON.
`Load`, `Visit` and `Turn` may change the language. JavaScript between two awaits
is one step. `Refuses` lets every storage call fail.

**DeliveryForm.** `form` is the component with its key and buyer, `kept` the
sessionStorage, `posted` what is under way, `placed` the API's orders by key;
`attempt` remembers what the customer knows of the last submission. One step of
the API (`Recognize`, `Place`) stands for `OrderCheckout`'s whole request.

**FinanceReports.** Each figure is an operator over what one transaction saw;
`Months`, `Products`, `Categories` and the comparison read, filter and round each
for itself, as the code does. A sort is by rank (`Sorted`: each row has those
before it before it), which is what a sort in a total order gives; that the
code's orders are total is proved. It EXTENDS `InventoryLedger`, so `FiguresAgree` is
asked of every reachable book, with fractional costs as stored.

**CatalogTree, ProductImages, Serializable.** A request opens a transaction,
which reads the rows the service's queries read (phantoms included), and commits
or meets a serialization failure. `Serializable` keeps for each transaction
what it read and writes, and the two halves of a dangerous structure. Image calls
are cut at every file; `excused` and `doubtful` mark exactly what a crash and an
unanswered COMMIT leave, so that nothing else may be left.

**AdminLists, AdminEditors.** The pages are written one by one in the code and
differ in small ways; a *kind* names the ways (clears its rows while loading,
corrects a page past the end, keeps a fence against late answers, ...), and each
page is its kind. The history moves the URL under a page that stays.

**Deployment.** One action per step of the script; each also stops before or in
the middle of what it does (`Breaks` and the second disjuncts). A release is a
number with the files it has (`FilesOf`), and the database at `n` has the
migrations to `n`. `source` says for each path of which release the file there is:
`Promote` copies over the tree and, as rsync without `--delete`, takes nothing away;
it may stop after any of the files.

**OpeningImport.** `keyed` is the document with each import key. The import is
one SERIALIZABLE transaction that makes overlapping writers stale.
`OpeningAssumption` says that the approved rows are documents the finance records
can hold.

## 3. What the runs show

All runs finish within four minutes; the largest has 3.5 million states.
A property's name that stands for several is the conjunction that its module
spells out (`RowBacked`, `Reconciled`, `TruthTold`, `SessionsHeld`, `CostsSound`,
`FiguresAgree`, `EvidenceTrue`, `FilesMatchRows`).

| Run | Question | Bounds, and why they are enough |
|---|---|---|
| `sandbox_payment` | two attempts, two bank writes, or a status the bank did not reach? implements `PaymentLifecycle`? does rechecking end in agreement with the bank? | two requests at a time, of any kinds and any number one after another: one that is late or dead, one that took over or repairs. Clock to 2, lease and window 1: each deadline passes before, between and after. The theorems cover any number of requests and any durations |
| `sandbox_allocation` | one InitPayment per key, no shared or wasted numbers, answers for the right basket, everybody answered? | two requests over two keys and two baskets (same key same basket, same key other basket, other key); two numbers, so that a number lost in a dead transaction exhausts the sequence |
| `order_checkout` | accepted without emails, mailed at another price, initialised twice? do both emails go out once failures stop? | two requests on one key, prices p1, p2, "ask" and "gone"; cards enabled, the mode the code is written for; orders on delivery go the way they go without cards (as released) |
| `admin_session` | clean logout, no effect of late work, one refresh, a token redeemed once, revocation final? | two calls, two cookie operations, one logout, two server requests, two sessions: everything that can be in flight at a logout, twice |
| `admin_settles` | does every wait end? | one call, two cookie operations, one logout: the cycle needs no more |
| `inventory_ledger` | books add up after every history? | three documents over two products and two dates: a purchase, a sale, and one that comes between. With one of each the averages need no rounding; that they may be rounded anywhere is in the theorem. Reports: five days in three months and two years, every period, each filter; five expenses of which two are recurring and one category was renamed |
| `finance_writers` | overlapping writers of the stock book as if one after the other? closed months as they are, whoever edits or reports? | stock: two writers, three documents, quantities to 2. Recurring: two open snapshots, two months of which the second is too short for the first one's date, two terms, windows that end or do not |
| `recurring_editor` | the editor's promise (violated, see 6) | one request, three months, windows that begin in the first or the last |
| `sandbox_operations` | tool: a second mutation, or an untrue report? is a lost outcome recorded in the end? deployments: is REVISION what runs, and is there a way back? import: entered once, as approved? | two runs at a time and `MaxSent` 2, so that a second mutation is possible if the code lets it be. Three deployments of three releases: one that failed, its retry, and one that comes between; they are named in the order of taking the lock, as they differ in nothing else. Two files, of which the last release drops one. One product, of which one was bought and sold, and three documents: the two entries and one of an administrator |
| `checkout` | tabs: is a paid basket taken out once, is an undecided request paid again? form: one key per order, and the order as shown? | scenes, as requests are per tab: two tabs with one payment; one tab with three keys; one tab in two languages, and one with two products at two prices, both with two payments and a basket's storage that does not refuse (the first two let every storage refuse; in the last the tab does not return from the bank). With `MaxQuantity` 1 the basket may hold more, the same or less than was paid; the theorems cover every quantity, and all of this together. Form: two goods, one buyer, two languages, two keys, two submissions under way: the one without an answer, and the next |
| `checkout_language` | the test's promise of one request for one basket (violated, see 6) | the scenes of `checkout`; a tab, a product and two languages would do |
| `catalog` | tree: circles, top level, brands? images: files and rows, primary, page? lists: rows for the URL? editors: own record? | two administrators, three categories, one brand, one product; two calls among three images with one fault anywhere; two rows and two filters with a page of one row, so that the last page can vanish; two records to edit, and a new one |

Deadlock checking is off only where the system may stop: a settled payment after
the last tick, a calendar that has ended, an operator who runs nothing more, a
tab left open, a catalogue whose ids are drawn.

## 4. Fairness

No property relies on fairness except the five liveness properties.

* `Reconciled` (of cancellations and of refunds): a request that can go on does, or fails
  (`WF` of its continuation or its failure). The operator keeps rechecking and
  a recheck that is possible again and again succeeds in the end (`SF` of the
  recheck's read and of the steps that store its result): the admin panel offers
  recheck for as long as an attempt is unconfirmed, and a failure of one recheck
  changes nothing. Nothing is assumed of bank or browser.
* `AllAnswered`: `WF` of a request's own steps; `SF(Lock)`, because
  PostgreSQL queues the waiters of an advisory lock.
* `Notified`: `WF` of a request's steps; `SF(Repeat)`, a customer who
  repeats the request as long as it is not accepted; and as a premise of the
  property, that faults end (`<>[][~Fault]_vars`). The README's promise is about
  repeats, so the repeat is what is assumed.
* `Settles`: the browser ends every request it has sent, with an answer or
  an error, and runs the continuation (`WF`). The server owes nothing: a request
  the browser gives up counts as ended.
* `OutcomeRecorded`: a run goes on (`WF(Step)`), the operator runs
  `verify` again (`SF(Verify)`), and as a premise kills and power losses end;
  time-outs of the bank may go on.

## 5. What is proved

TLAPS proves, for every number of requests, keys, tabs, baskets, records,
deployments and every bound:

* `SandboxPayment_proofs`: the inductive invariant `IInv`, from it the type
  invariant, the exclusion of cancellation and refund, `SubmittedAsRecorded`,
  `RowBacked` (the truth of the row), lease uniqueness, and the action properties
  `FencedByAttempt` and `NeverRevised`; and that the module **implements
  `PaymentLifecycle`**. Why the invariant is needed: that the bank is written to
  once does not follow from the row. `HoldsAttempt` says that who is about to
  send holds the timestamp of the attempt it recorded, `SendOnce` that only one
  request stands before the send, `CallsFollow` and `WritesBacked` relate the
  call at the bank to the attempt in the row, `LeaseBounded` bounds the lease a
  late poll may hold, without which a reset lease could match it.
* `SandboxAllocation_proofs`: `IInv` = types, `LockHeld` (the lock belongs to the
  transaction between its two ends, and then no row of that key can appear),
  `Fresh` (numbers in hand are below the sequence and differ from each other and
  from the stored ones), `OneInitializes`, and `Counted` (finitely many
  payments and requests hold a number, and these with the lost ones are all); hence `InitOnce`, distinct orders, `NoneWasted`,
  `AnswersBacked`, `RowsFinal`.
* `AdminSession_proofs`: for the service, `AuthInv` = types, `InHand` (a session
  in a request's hand was issued to it), `RotatedOnce`; hence `RevocationFinal`.
  For the browser on top of it, `TabInv`: who is in flight belongs to the tab's
  generation or is waited for by a logout (`Flights`), one refresh is under way
  (`OneFlight`), a logout that is past its drain has nothing left to wait for
  (`LoggingOut`), each cookie operation listens to a request of its own (`Slots`),
  and every valid session is in the cookie, in an answer on its way, or counted
  among the lost (`Held`). Hence `SessionsHeld`, `StaleWorkIgnored`, `PartsAgree`,
  and that **the tab implements the client of `AuthSessions`** (`AuthSpec`).
* `Checkout_proofs`, tabs: `TabsInv` = types, `KeyKept` (a stored request is that
  of a payment asked for with its fingerprint, and while the last payment asked for
  is undecided its request is stored), `CallsBacked` (a verdict in an answer is the payment's),
  `SettlementsKnown` (no tab knows of a settlement the store does not); hence
  `OneAttempt` and `SettledOnce`. Without `CallsBacked` a late answer could
  retire the request of an undecided payment; without `SettlementsKnown` an edit
  could add settlements.
* `Checkout_proofs`, form: `KeyOfAttempt` (a key is kept, on the page or in
  sessionStorage, exactly while nothing is known of its submission),
  `WaitsForOne` (the page waits for one submission, of what it shows) and
  `AcceptedIsPlaced`; hence `OneKeyPerOrder` and `OrderedAsShown`.
* `OrderCheckout_proofs`: `IInv`, which the module states: `Placed` (from the
  create step on a request works on a stored order that matches its own),
  `Progress` (who no longer has to write to a recipient knows that it was written
  to, if not by whom), `OnePays` (only who stored a card order stands before the
  bank), `Absent` (nothing happens for a key without an order) and `Told`; hence
  `TruthTold`, `OneInitialization` and `OrderFinal`, for cards enabled or not.
  `Progress` carries the case that is hard to see: a request that finds SENT rows
  written by others, which further requests may set back, still tells the truth,
  because an email never goes away (`OthersKeep`: what a request knows survives
  every step by which the store only grows).
* `Catalog_proofs`: for lists, `OneAsked` (of the requests under way the page
  listens to one, for the query in the URL) and `GoneForGood` (a row the page was
  told is deleted does not come back in an answer served later); hence
  `ShownAsAsked` for every set of rows and filters. For editors, `OwnForm` and
  `OwnSaves` (a form has its own record's content, and a save is of the record it
  names) until something leads the form astray, which a fenced one never is;
  hence `SavesOwnRecord`.
  For the tree, `Sound` in the form that every non-empty set of categories has
  one whose parent is outside (equivalent to the absence of circles, and it
  survives a write where a path would have to be rebuilt), `RoomKept` (while a
  request that has counted the top level may still commit, there is room there),
  `Known` (what an open transaction has read is still so, or it can no longer
  commit) and `Unentangled`: among the moves that may still commit, "that one would
  change an ancestor this one has not read" has no circle.
  That is what serializability has to provide: two moves, each sound on its own
  snapshot, close a circle only together. Hence `TreeSound` and `BrandsKept`.
  For images, per call: `Staged` (how far it is and what it knows by then), `Writes`
  (what its transaction read and may still write), `Puts`, `Takes`; per file
  `Kept` (a row, a call that works on it, or an excuse); and `Followed` (a page
  waits for one call at a time, and one that waits for none shows the rows). Hence
  `FilesMatchRows`, `OnePrimary`, `PageFaithful`.
* `Finance_proofs`, the stock book: `BookInv` = finitely many documents, no
  replay short, and every stored cost that of the replay. The library's induction
  theorems are out of reach (they take an operator), so a claim about every replay
  is shown for a least set of entries that fails it (`LeastSubset`, from the
  well-foundedness of inclusion on finite sets); the recursion itself, and the
  function behind a sum, are shown to exist in the same way (`ReplayExists`,
  `SumExists`). Along a replay: value = quantity times average (`Worth`), the
  average lies between two prices paid before (`LedgerPriced`), no more is sold
  than bought up to any entry (`LedgerCovers`), and the gap between what was paid
  and the stored costs grows by half a storable part for each unit sold, no more
  (`LedgerConserves`). Hence `NeverOversold` and `CostsSound`.
  Writers that overlap: `LedgerInv` says that a live transaction holds the costs a
  replay of the *present* documents with its own would give. A commit keeps that of
  the others because what it wrote has nothing of the products they read
  (`ValidStays`), and it suffices to replay the products that changed
  (`ReplayedEnough`). Hence `InventoryLedger` **implements `StockBook`**.
  The opening import: `OpeningInv` adds that a key names a document that is there,
  and after an import every key does; hence `OpeningAsApproved`.
* `Finance_proofs`, recurring expenses: first the calendar (months follow each
  other, a day is of one month, a charge falls into its month), then
  `RecurringInv`: the charges a request found are there; where it saw a month over
  and uncharged, the present template charges that month as it did; and who writes
  the template has its present row and charges all months that are over *for
  anyone*. The last is what makes it inductive: an edit stores every charge that
  a report on an older snapshot may still store, so the late report either
  conflicts or agrees. Hence `HistoryKept`.
* `Finance_proofs`, reports: `FiguresAgree` follows from `BookInv`. Its figures are
  sums over the lines and expenses one transaction saw. A sum is that of its groups
  (`SumGroups`), so exact amounts add up over months, products and documents, as
  each day of a period lies in one of its months (`MonthsAre`); numbers rounded
  one by one differ from their rounded sum by half a unit each (`NearSum`). What a
  period is compared with ends the day before it begins (`PreviousIs`), so the
  snapshot of one export holds what the dashboard of that period would read
  (`ComparedAsSaid`). The stock is what was bought and not sold by `LedgerCovers`
  (`StockIsLeft`). A list's order is total, no two rows having one id
  (`DocumentsOrder`, `SpendingsOrder`), so what is exported of it stands in it in
  the same order (`PartStands`), and is all of it unless both a search and a filter
  by product are given (`ExportedIs`).
* `OperatorScripts_proofs`: for deployments, `Exclusive` (who has begun and not stopped holds the
  lock), `Progress` (what each step relies on of the steps before it) and `Kept`
  (what is about to be replaced is tagged, what is about to be migrated is
  dumped); hence `RevisionTrue` and `Restorable`. Of the tree, `Progress` says
  only that from the promotion on the files of the release are its own: others may
  lie beside them.
  For the tool, `EvidenceInv` = types, `DiskSound` (what is on disk agrees with
  the bank), `OneOwner` (one run at most works on the attempt it has recorded)
  and `RunSound` (what a run holds at each step); hence `EvidenceTrue`.

The assumptions are the named ones about the constants (`...Assumption`), which
TLC evaluates in the runs: `Null`-like values outside the sets, bounds natural
numbers, finitely many categories and rows, images numbered from 1, a calendar of
months with at least one day, an opening ledger the finance records can hold; for
reports finitely many products and expenses, expenses with distinct ids, and a
calendar that rises, whose years begin with months and are not months, and that
reaches two years further back than what is asked. The proofs assume nothing of bank, email provider, storage or network beyond the
actions.

Every inductive invariant was first checked by TLC on the instance of its run.

**Only model-checked:** the five liveness properties, as fairness is out of the
prover's reach. Every invariant and action property of the runs is a theorem,
except `ChangesLookForward` and `NewOnlyIfChanged`, which are false (see 6).

## 6. Findings

* **Resuming a template in the editor charges the paused months**
  (`recurring_editor`). The editor's page promises that changes to a template "do
  not rewrite historical months" (`recurring-expense-editor.html:9-10`). The API
  restarts a resumed template in the current month only if the request carries no
  start date; the editor sends one with every save, so the old start stays, and
  the next report charges the months that were paused. The list's switch sends
  `{active}` alone and does not.
* **An unchanged basket in another language is a new request**
  (`checkout_language`). The checkout's test is named "uses a new sandbox request
  only after the basket changes" (`basket-page-sandbox.spec.ts:483`). The
  fingerprint that is stored with the key has the language as well as the lines
  (`basket-page.ts:358-365`). After a lost answer the customer changes the
  language and submits the same basket: the fingerprints differ, a new key
  overwrites the undecided request, and there are two payments of one basket.

Everything else the runs ask of the code holds, as the properties state it. Where
a property says less than one might wish, the code does less; these are its
limits, each visible in a model:

* *Tabs.* Two tabs that edit the basket overwrite each other's items (the design
  of 2026-10-16 names it: localStorage has no compare-and-set); so an order that is
  accepted in one tab also takes out what another tab has added since.
* *Requests.* `OneAttempt` is about the same request: language, products,
  quantities, prices and order. The same goods put in again in another order, or
  at a price that changed meanwhile, are another request, and while the first is
  undecided a second payment can be asked for; so is a basket changed and changed
  back with a submission in between.
* *An UNKNOWN allocation stays so.* The repository says so too.
* *The form's key is cleared by a conflict.* After a lost answer, a switch of the
  language, or goods added from the shop, change the request under the old key;
  the API answers 409, the form clears the key, and the next submission is a new
  order beside the one that was stored. A delayed duplicate of a submission may
  likewise be stored when the price has gone and come back.
* *Editors of finance have no fence.* The editors of the catalog drop an answer
  that is not the current record's; those of sales, purchases, suppliers and
  expenses do not. After a step in the history an answer of the earlier record's
  load or save lands in the form below the new URL; "Retry" after a failed save
  loads the record again and discards the edits; a creation whose answer was lost
  is sent again, without a key. `SavesOwnRecord` promises these editors their own
  record only until such a step (`astray`).
* *Exports.* The export of a list clears the error of the rows' failed load, so
  that the rows of an earlier query stand without a message; what it exports is
  the query in the URL, which the rows on show then are not ("Export-current-view
  sends the same filter query without pagination",
  2026-09-21-finance-inventory-design.md:291).
* *Deployment.* The tree keeps what no release since has overwritten: files of
  earlier, half-promoted or newer releases stay in `/opt/athlon` (README.md:431-433
  leaves them to the operator), so `RevisionTrue` says that every file of the
  release is there, and nothing of others. After a failed deployment and a retry `.previous-images` no longer
  names the last good pair, though its images are still tagged (`Restorable`).
  `up -d caddy` does not load a Caddyfile that changed in its bind mount. A job
  that CI cancels may leave the script running on the host, under the lock.

## 7. Abstractions

* Payloads are model values: a price, terms, the fingerprint of an order. Validation of
  input (DTOs, malformed keys) refuses requests before any state changes and is
  left out, as are logging, wording and layout.
* `SandboxPayment` has one row (rows share nothing after creation); the bank's
  states are those the code tells apart. `SandboxAllocation` ends where the row
  is READY, `SandboxPayment` begins there.
* `OrderCheckout` has one product per order. Rate limits are left out.
* `AuthSessions`: expiry of a session is a step; password and hash checks are
  what the request brings. `AdminSession`: one tab, and one login at a time, as
  the login page disables its button.
* `StockBook`: a document has at most one line and one unit cost per product,
  quantities are bounded.
* `FinanceReports`: money in whole units, rounded where the code rounds; labels,
  column widths and the workbook's layout are left out. `OpeningImport`: the
  approved data are constants; the printed price discrepancies, texts and the dry
  run are left out.
* `RecurringExpenses`: templates share nothing, so there is one; a month is
  closed (`ClosedMonths`) when it is over and no transaction that saw it running is open.
* `SandboxOperations`: one payment; temporary files are never read under another
  name and are left out.
* `CheckoutTabs`: sandbox mode; one guest throughout (expiry of the guest's
  cookie is left out); the reference of a payment is named by its key; the page
  is configured only when access is granted; storage calls within one event are
  atomic across tabs. A write of the basket that the browser refuses also keeps the
  handler from what follows it (`sandboxAttemptComplete` stays set); the model lets
  it follow, which allows the page more.
* `DeliveryForm`: one tab, since key and draft are the tab's own; payment on
  delivery, as released; of the fields only whose order it is. When an order is
  accepted, `basket.clear()` may throw if localStorage refuses
  (`basket.service.ts:172`): the page is left busy, with its key and without a
  message, and one opened anew can only repeat the order under that key.
  `HearAccepted` leaves this out.
* `Serializable` is PostgreSQL's promise, modelled from its use: transactions
  that commit are serializable, and one in a dangerous structure fails. Names,
  texts and flags of `CatalogTree` are left out; `ProductImages` names a file by
  its image and size, and pictures are not decoded.
* `AdminLists`, `AdminEditors`: one page at a time; a record's content is a
  generation number, rows are numbers, columns are left out.
* `Deployment`: the committed tree deploys, the server is provisioned and has its
  `.env`; `--seed` only adds rows; health checks succeed or fail at will. rsync
  replaces a file that differs; that it takes one of the same size and time for
  equal is left out.

## 8. Not modelled, and the plan

Left out for good: rendering, localization, SEO, the health and configuration
code, CI, the workbook's layout, the seed: no state or no step to interleave. The
hosted vPOS client is switched off in the code. The mock payment sessions are
synchronous and live in one process. One-time expenses, their categories, and
suppliers are single-row operations that foreign keys decide; site settings are
independent rows, upserted one by one.

What a further iteration would add, in this order:

1. The guest's cookie, its expiry and the mock mode in `CheckoutTabs`.
2. The pages that remain: the dashboard's counts, settings, the workbook's download.
