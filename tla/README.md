# A verification project for EA Ledgers

TLA+ models of EA Ledgers, a multi-tenant Django application in which "agent"
departments read supplier bills, propose journal entries, put them in front of
a human, and post what the human approved to the tenant's ERP (Odoo) or, for
a standalone tenant, to a local general ledger, with the back office around
that ledger (documents, bank statements, fixed assets, periods), a knowledge
base the agents work from, and the plumbing that makes it multi-tenant. Paths
below are relative to `src/`.

The modules describe what the code *does*: an action is a stretch of a handler
between two points where another thread can run, a remote call can fail, or
the process can die. Properties come from the code's own docstrings where there
are any, and otherwise from what an accountant would be upset to see.

Contents: [inventory](#1-inventory) · [what is hard](#2-what-is-hard-here) ·
[modules](#3-the-modules-and-the-code) · [runs](#4-the-runs) ·
[proofs](#5-the-proofs) · [disagreements found](#6-where-the-code-and-its-documentation-disagree) ·
[not modelled](#7-what-is-not-modelled-and-why) · [plan](#8-plan)

## 1. Inventory

| Component | Code | State it keeps | Operations | What makes it correct |
|---|---|---|---|---|
| **ERP saga** | `accounting/saga.py`, `connectors/odoo/*` | `ERPOperation` rows: status, retry_count, external_ids, error | `run_erp_operation`: insert in flight, call, retry with back-off, escalate or fail, save the outcome | the row is terminal in the end, says the truth about the ERP, and bounds what retries can have duplicated |
| **AP approval queue** | `accounting/views.py:900-1010`, `accounting/admin.py:970-1050`, `agents/ap/department.py:517-760` | `ApprovalQueueItem.status`, `metadata.execution` | load + check, approve, reject, bulk review, the change form, execute | reviewed once, posted once and only if approved, marked with what happened |
| **Event bus, dispatcher** | `agents/events.py`, `agents/dispatcher.py` | `BusEvent` rows, the Django-Q2 task table, the handler registry | `emit`, `_dispatch`, `route` | no event is lost, handlers all run, a routed child stays in its chain |
| **Local general ledger** | `accounting/models.py:411-600`, `accounting/local_gl.py`, `accounting/admin.py:252-373` | `JournalEntry` state, journal and name, its lines, `Journal.next_sequence` | `post`, `cancel`, `next_entry_name`, standalone `post_journal_entry`, the admin's forms of entries, lines and journals, deletion | numbers unique and without gaps, posted entries balanced and final, as far as the forms leave them alone |
| **Invoices, supplier bills** | `accounting/models.py:791-1440` | state, linked entry, payment entry, lines | `post`, `record_payment`, `cancel`, the change form, the page of the lines | one entry per document, one payment, a cancelled document has no live entry; rounding does not stop a regular document |
| Bank statements | `accounting/models.py:1443-1760`, admin forms | line state, matched entry line, amount, statement state | CSV import, `match_to`, `unmatch`, `update_state`, two forms, and the ledger's forms of what is matched | an entry line is matched once and for the right amount; the statement's state is what its lines say |
| Fixed assets | `accounting/models.py:600-790`, admin forms | asset, schedule lines | `generate_schedule`, `post_depreciation`, two forms | an asset's state is what its lines justify |
| Periods | `accounting/models.py:1763-1900` | `Period.state`, `PeriodLock` diary | `lock`, `unlock`, `start_close` | the diary tells the state; nothing is posted into a closed period |
| FX rates | `accounting/models.py:1903-1990` | `FxRate` | admin form, `get_rate` | a rate does not depend on later fixings |
| AP intake | `accounting/views.py:636-815` | `APDocument`, a `BusEvent` | upload, e-mail webhook | every document taken has its event and its way back |
| AP specialists | `agents/ap/{extractor,classifier,proposer,reviewer}.py`, `agents/department.py` | a running context, then a queue item | extract → classify → propose → review → enqueue | the pipeline halts on a failed step and still ends in the queue; what is approved balances; what is not flagged is the bill |
| Gate, capacity | `agents/gate.py`, `agents/capacity.py` | the tenant's switches, the subscription | `check`, `effective_cap` | nothing above the ceiling is auto-approved |
| Knowledge base | `knowledge/*` | rules, procedures and their status | pages, admin, fixtures, validator, `retrieve` | a status is about the text beside it; retrieval gives the tenant's own and the best |
| Drift detector | `accounting/reconciliation.py` | a report | read recorded moves, their states, the posted moves | no false alarm, none missed |
| Odoo poller | `connectors/odoo/connector.py:384-440` | the caller's watermark | `poll_posted_entries` | no posted entry is skipped |
| Connections, health, credentials | `accounting/models.py:2114-2203`, `accounting/views.py:492-565`, health check command | `ERPConnection` | forms, test, the two lookups of a post | a health is about the configuration beside it; the audit row names the ERP that was written |
| Tenant context, row-level security | `accounting/middleware.py`, `accounting/managers.py`, migration 0008 | the browser's session, a database setting | resolve, switch, query, name approvers, the admin's pages without a filter | a request works for one tenant of its user's |
| Connector contract, registry | `connectors/{base,registry,capabilities}.py` | a table | look up, build | no state |
| Chain timeline | `agents/chain.py` | none | `timeline` | read-only |
| Ingest, pages, deployment | `ingest/*`, templates, settings, commands | — | — | presentation and configuration |

How they interact:

```
 upload / e-mail ──► BusEvent row ──► (department pipeline) ──► ApprovalQueueItem (pending)
                                                                      │ web / admin review
                                                                      ▼
                                              execute_queue_item ── approved?
                                                 │                       │
                          connection: run_erp_operation         standalone: LocalGLConnector
                             │  ERPOperation row                         │ one transaction
                             ▼                                           ▼
                    Odoo: create, action_post                 JournalEntry + Journal sequence
                             └──────────► emit('bill.posted') ◄──────────┘
                                               │ BusEvent row + Django-Q2 task
                                               ▼
                              qcluster worker: _dispatch ─► handlers ─► Dispatcher.route ─► emit
```

Everything shared lives in the database (and in Odoo); threads are web requests
and qcluster workers. Web requests run without a transaction around them
(`ATOMIC_REQUESTS` is not set), so every `save()` commits by itself.

## 2. What is hard here

- **Load, check, save later.** Nearly every operation reads a row into a Python
  object, tests a field of that object and later saves it, without a lock and
  often without `update_fields`. Between the two, other requests run. Only
  `Journal.next_entry_name` uses `select_for_update`.
- **Two systems, one after the other.** Posting a bill is: insert an audit row,
  call Odoo twice, save the audit row, insert an event, queue a task, save the
  item's metadata, save the item's status. A failure or a death can fall between
  any two.
- **Lost answers.** A remote call may take effect and its answer be lost. The
  retry loop then runs the whole operation again.
- **At-least-once delivery.** The broker hands a task out again when it was not
  acknowledged; the handlers have run by then, perhaps.
- **Emission inside dispatch.** The router emits from inside a worker, so
  the two-step `emit` (row, then task) runs inside a delivery that can die.
- **Counting beside others.** A statement's state is counted inside a
  transaction that cannot see the other one's line; a report is made of three
  reads of two systems that both move on; a poll asks for what is later than a
  date several entries share.
- **Text and its mark in two writes.** A procedure and its verdict, a
  connection and its health, a document and its link: the second write may be
  someone else's, or never come.
- **The admin writes everything.** Its pages offer a journal's `next_sequence`, the
  lines and the journal of posted entries, a subscription's approver, and save whole
  rows. What the code guarantees, it guarantees up to what a person does there, and
  the properties have to say exactly where that begins.
- **Rounding line by line.** What is rounded apart need not add up to what is
  rounded together, and an entry that does not balance to the cent is refused.

`PROJECT.json` lists each hazard at its line with the properties about it.

## 3. The modules and the code

| Module | Role |
|---|---|
| `OperationLifecycle` | abstract: the life of one `ERPOperation` row |
| `ErpSaga` | `run_erp_operation` around the Odoo connector's two calls |
| `ErpSagaProofs` | theorems about `ErpSaga` |
| `ItemLifecycle` | abstract: the life of one `ApprovalQueueItem` |
| `ApQueue` | the queue, EXTENDS `ErpSaga` (the saga runs inside a request) |
| `MCApQueue`, `ApQueueProofs` | symmetry and the two sides for TLC; theorems |
| `EventLifecycle` | abstract: the life of one event on the bus and the calls of its handlers |
| `EventBus`, `MCEventBus`, `EventBusProofs` | `emit`, broker, `_dispatch`, router; a registry and two sides for TLC; theorems |
| `EntryLifecycle` | abstract: the life of one journal entry and of its number |
| `Ledger`, `MCLedger`, `LedgerProofs` | journal entries, lines and numbers; two journals and four sides for TLC; theorems |
| `DocumentLifecycle` | abstract: the life of one invoice or bill and its ledger entries |
| `Billing`, `MCBilling`, `BillingProofs` | `CustomerInvoice` and `SupplierBill`; three sides for TLC; theorems |
| `Money`, `DocumentAmounts` | rounding to the cent; lines, tax, withholding and the entry made of them |
| `BankReconciliation` | statements, their lines, the CSV parser's amounts, matching |
| `Depreciation` | a fixed asset, its schedule, the requests and forms on it |
| `Periods` | periods and their diary |
| `ClosedBooks`, `MCClosedBooks` | `Periods` composed with `Ledger`; one period for TLC |
| `FxRates` | fixings and `get_rate` |
| `MCBackOffice`, `BackOfficeProofs` | the five back-office components side by side for TLC; theorems about four of them |
| `DocumentIntake` | upload and e-mail webhook |
| `CandidateEntry`, `ApPipeline` | what the specialists compute (no state); the pipeline, EXTENDS it and `AutoAction` |
| `AutoAction` | the switches, `AgentGate` and `CapacityEngine` |
| `KnowledgeBase` | rules, procedures, the validator, retrieval |
| `MCApAgent` | intake, pipeline, switches, knowledge base and `ErpSaga` side by side for TLC |
| `ApPipelineProofs` | theorems about the first four of them and about `DocumentAmounts` |
| `ErpDrift` | the drift detector, EXTENDS `ErpSaga` (which runs beside it) |
| `OdooPoller` | the poll and the loop around it, against Odoo's clock |
| `TenantSession` | sessions, tenants, memberships, the policies, approvers |
| `Connections` | the connection rows, probes, and a post's two lookups |
| `MCPlatform`, `PlatformProofs` | the four of them for TLC; theorems about each |

Variables named after columns (`opStatus`, `retryCount`, `externalId`, `item`,
`execution`, `row`, `state`, `name`, `sequence`, ...) are database state and
survive a death; the functions on threads (`pc`, `cur`, `attempt`, `made`,
`phase`, `todo`, `left`, `copyName`, ...) are locals and do not. Variables
marked *(history)* are in no program: they remember what properties speak about
(who made a move, which items two requests held at once, whose process died)
and no guard reads them.

### ErpSaga

One runner is one thread in `run_erp_operation` (`accounting/saga.py:53-113`).

| Action | Code |
|---|---|
| `Begin` | `ERPOperation.objects.create(status="in_flight")` |
| `CreateMove`, `PostMove` | the connector's `client.create("account.move")` and `action_post` |
| `RecordSuccess` | the save after `func()` returned |
| `BackOff`, `Wake` | `except retryable` with attempts left: save, sleep, `continue` |
| `Escalate` | `except retryable`, last attempt |
| `FailFast` | `except Exception` |
| `Leave` | the caller takes the outcome |
| `Crash` | the process dies; rows stay as saved |

A failure has a cause: `"refused"` (Odoo answered with a fault, so the call in
progress had no effect) or `"network"` (the call may or may not have taken
effect: the failure is possible before the call and after it). Which causes
the connector turns into `RetryableError` is the constant `RetryableCauses`:
empty for the connectors of this repository, `{"network"}` for one that follows
`saga.py`'s own documentation. The Odoo connector's read calls before `create`
(journal, account ids) change nothing and are part of `"calling"`.

### ApQueue

A request loads items (`Load`), passing the status check on its copy, and acts
later; the admin's bulk actions load a set and save them one by one. `Refuse`
stands for every way `execute` raises before it wrote anything. `PostLocally` is
the standalone connector's transaction, atomic here because it is atomic there;
its inside is `Ledger`'s `StartLocal`/`CommitLocal`. `Announce` is
`_emit_bill_posted`, whose exceptions are swallowed (so the event may or may not
exist). A request whose copy fails the check redirects and changes nothing, so it
has no action. `OpenForm`/`SaveForm` are the POST of the admin's change form: it
reads the row, validates, and saves every column, with the status a person chose
and `metadata`, which the form shows and does not edit, as it was read
(`copyExecution`). `Rerender` is a form with an error, or a rejection without a
reason. `edited` remembers the items a form was saved over. `ErpItems` are the
items of tenants with an active ERP connection; it is a constant here: the two
lookups of a post and a connection switched between them are in `Connections`.

### EventBus

`Emit`/`Route` insert the row, `Enqueue` calls the broker, `SaveTaskId` is
`save(update_fields=['task_id'])`. The broker itself is external and modelled
from `Q_CLUSTER` (`ea_accounting/settings.py:155-166`): a task is handed out at
most `max_attempts` times, and again `retry` seconds after a hand-out that was
not acknowledged. Time is not modelled; the only consequence of the two numbers
is that a redelivery cannot overlap the first worker when `Timeout < Retry`,
and `Retryable` says exactly that. `_dispatch` never raises for a failing
handler: it records the error and goes on, so a failing handler does not cause
a redelivery. `Receive` is the AP intake, which writes a row that is already
`dispatched`. An event's key is the next number of the table.

`Event`, the bus's view of `EventLifecycle`, takes the row for the event's status,
the handlers with a run for those called (`called`), the registry's sequences as
sets of subscribers, and `Retry > Timeout` for the promise of one call per handler
(`Patient`). The task table, the two steps of `emit` and the order of the handlers
are invisible there. An event whose worker died (`abandoned`) is beyond the
once-only part of the promise, not beyond the rest of it.

### Ledger

A request on an entry, and the pages beside it:

| Action | Code |
|---|---|
| `Load` | the entry is copied; `post()` and `cancel()` test the copy's state |
| `CheckLines`, `RefuseLines` | `post()` looks at the lines |
| `LockJournal`, `Reserve` | `next_entry_name`: lock, read, save `next_sequence`, commit |
| `SavePosted`, `SaveCancelled` | `save()` of every column of the copy |
| `SaveForm` | the entry's change form: state, journal, lines, and the whole row |
| `StartLocal`, `CommitLocal` | the standalone `post_journal_entry` |
| `WriteLine` | the page of the lines: any line of any entry, or from one to another |
| `SaveJournalForm` | the journal's form: any `next_sequence`, and the whole row |
| `Delete` | an entry with its lines; a request that holds a copy inserts it again |
| `Crash` | a death, or a statement that raises: what was committed stays |

Of the lines, the model keeps whether they satisfy `post()`'s tests (`balanced`).
A name is the pair of the journal that handed the number out and the number. The
prefix is its text; two journals with one prefix would write two pairs the same
way, and an edited prefix the same pair two ways (`sequence_prefix` is a field of
the journal's form), so "number of a journal" is what the properties speak of. The
journals of the model are those an entry's form offers. `unchecked` remembers
entries whose lines or state a person wrote after `post()` had looked at them,
`rewound` and `advanced` the journals whose form moved the sequence, `edited` the
entries saved in the form or deleted.
`StartLocal`/`CommitLocal` are the standalone connector's transaction,
which takes the journal lock inside an outer transaction and holds it to the
commit.

`Entry`, the ledger's view of `EntryLifecycle`, reads `state`, `name`, `sequence` and
`owner` as they are. The steps of `post()` become two: the number handed out
(`Reserve`) and the draft posted under it; a standalone post is one; locks, copies and
requests are invisible. A save over an entry that two requests held maps to
`Overwrite`, a form's to `Correct` (which may move the entry to another journal,
under the number it has), a deletion to `Delete`, a journal's form to `Renumber`.

### Billing

`CustomerInvoice` and `SupplierBill` are the same state machine on two tables
(`Invoices`, `Bills`), each numbered from its own journal. A request copies the
row (`Load`, with the state test of the operation), and `post()` or
`record_payment()` then runs as one transaction over that copy.

| Action | Code |
|---|---|
| `Load` | the admin's queryset or form, the test on `self.state` |
| `Price` | `recompute_amounts(save=False)` and the total's test |
| `Build` | `next_entry_name`, whose row lock the outer transaction keeps; the entry's lines from a second reading of the document's |
| `CommitPost` | `entry.post()`, the save of the whole row, the commit |
| `CommitPayment` | `record_payment`, from test to commit |
| `SaveCancelled` | `cancel`, which saves the state alone |
| `SaveForm` | the change form: `save_model`, the inline lines, `save_related` |
| `WriteLine` | the page of the lines, which recomputes nothing |
| `SaveJournalForm` | the journal's form: any `next_sequence` |
| `Abort` | anything raises, or the process dies: rolled back |

Of the amounts, the model keeps the net total (lines, tax and withholding
together), because that is what is booked on the partner's account and what is
paid. The entry balances exactly when the second reading of the lines agrees
with the total computed from the first, which is `Build`'s guard. The entry
that a post or payment creates is a key out of `Entries`; its own state machine is
`Ledger`, which `entry.post()` enters with a fresh row nobody else can load
before the commit. `record_payment` is called by no view yet; it is the model's
public operation and is modelled for any caller. A posted document consumes two
numbers of its journal, its own and its entry's (`NumbersTaken`). Every save of a
whole row meets the unique constraint on its number (`NumberFree`): after a journal's
form has lowered the sequence, a post raises until the sequence has caught up.
Deletion of documents, and the choice of a document's journal, are left out (section 7).

### Bank statements, assets, periods, rates, amounts

`BankReconciliation`. `match_to` and `unmatch` are each one transaction over
copies the request loaded before. `MatchTests`/`UnmatchTests` are the tests on
the copies, `CountLines` the line's save and the count of `update_state` (which
sees its own line and the others as committed), `BankCommit` the statement's
save, skipped when the count agrees with the request's copy, and the commit.
The line's row lock is held from the save to the commit (`RowLocked`).
`SaveStatementForm`, `AddInForm`, `DeleteInForm` and `SaveLineForm` are the two
admin forms. An amount comes in one of seven notations. The parser guesses: a lone
comma or a lone point is the decimal sign, commas beside a point are dropped. So three
notations come out a thousand times too small, `1,234`, `1.234` and `1.234,56`
(`Misread`: `commas`, `points`, `european`; the first two have no decimals, and each is
written from 1000.00 on). `SaveEntryLine` is every ledger form that writes an entry
line's account or amounts, `SaveBankAccount` the forms that change which account is the
bank's: neither looks for a match, and `amended` remembers the entry lines they wrote
while one stood or a request ran.

`Depreciation`. Neither function sets the tenant of the rows it creates, and the
column is NOT NULL, so the first INSERT of each raises (`GenerateFails`,
`PostFails`); no transaction surrounds an admin action, so the unposted lines
that `generate_schedule` deleted first (`Wipe`) stay deleted. What remains
reachable is the schedule of no lines (`GenerateNothing`) and the last test of
`post_depreciation` where nothing is due (`NothingDue`, `ReadBookValue`,
`MarkFully`). `RegenerateReplaces` is what the docstrings promise of the first, and
fails. Lines come from `DepreciationLineAdmin`, which does set the tenant
(`LineForm`).

`Periods`. A bulk action copies the selected periods in one query
(`SelectPeriods`) and handles them one by one: the method's test on the copy,
then the save of its own columns and the diary's row in one transaction
(`PeriodWrite`). `ClosedBooks` conjoins these actions with `Ledger`'s, with
nothing in common: no code that posts reads a period.

`FxRates` is the table and `GetRate`. `DocumentAmounts` is the arithmetic of
`recompute_amounts` and of the entry `post()` makes of a document, in integer
cents; `EntryAccepted` is what `JournalEntryLine.clean` and `JournalEntry.post`
ask of it.

### From a bill to the queue

`DocumentIntake`. Per acceptable file three commits: `StoreDocument`,
`CreateEvent`, `LinkDocument`. `SkipFile` is a file the checks refuse, which the
webhook passes over in silence. `DieInIntake` falls between any two.

`CandidateEntry` holds the specialists' computations: `MergeResults`
(`_merge_results`), `Build` (the proposer), `FormOk` (`structural_issues`) and
`Reviewed`. Amounts of a bill are in thousandths so that rounding to the cent
has something to round. What the language models answer is a choice among
answers of every shape: lines in another order, without an index, about a line
that is not there, with an account the chart does not have, citing rules that
were not retrieved.

`ApPipeline`. One action per specialist and way to end, in `Order`; a failure
goes to `"finish"` (`NextStage`). The proposer may refuse whatever it was given
(`ProposerRefuses`), because `handle` catches anything unexpected, a number that is
none or the database; the reviewer fails only past its form check (`ReviewerFails`),
in the retrieval, the call or the answer. `Enqueue` is `propose()` and
`from_proposal()`: whatever the results, an item is made. The chart of accounts
(`ChangeChart`) and the subscription (`AutoAction`) change in between.

`AutoAction`. `Decision` is `CapacityEngine.check`, `GateOpen` is
`AgentGate.check`. Both are asked with a `Tenant` instance that may be older
than its row (`tenantCopy`), while the subscription is queried each time.

`KnowledgeBase`. Saving a procedure is two writes: the request's copy whole
(`SaveProcedure`, `CreateProcedure`), then the status the validator finds for
that copy (`JudgeCopy`, `ApplyVerdict`). `Revalidate` is the
`validate_procedures` command, `LoadRule` the fixtures, `EditRule` the admin.
`Retrievals` is the set of answers `retrieve()` may give; how a query's terms
become scores is left to the constant `Queries`, the slug that decides among
equals to the choice of the set.

### Around the departments

`ErpDrift`. The three reads of `reconcile_connection` are `ReadRecorded`,
`ReadStates`, `ListPosted`. Sagas take any step of `ErpSaga` in between
(`SagaRuns`), people post, reset, cancel and delete moves in Odoo
(`HumanWrites`), and a read may raise (`ReadFails`).

`OdooPoller`. `Fetched` is the `search_read` with its order and limit, `Poll` the
call together with what its docstring asks of the caller. Odoo stamps
`write_date` when a transaction starts and shows the row when it commits, so
`StartWrite` and `CommitWrite` are apart; that an entry is the agent's own is
recorded by the saga later, or never (`RecordOwn`).

`TenantSession`. `Arrive` loads the session, `Resolve` is the middleware, `Switch`
is `switch_tenant`, `Query` a read through `for_tenant` or a `TenantAwareAdmin`,
`QueryUnfiltered` the admin's pages of tenants and memberships and the related
filters, which list every tenant's rows (`accounting/admin.py:156-191`),
`ListMembers`/`NameApprover` the approver page, `SaveSubscription` the admin's
page of a subscription and the tenant's inline, which name any user approver
(147-153, 194-201), `Respond` saves the whole session if it was changed. `mode`
says whether the database applies the policies of migration 0008 to this role.
`Setting` is empty because `set_config(..., is_local=true)` under autocommit ends
with the statement that makes it.

`Connections`. `OpenForm`/`SubmitForm`/`CreateConnection` are the forms, which
save the whole row and go on to `ProbeErp` and `SaveHealth` (`update_fields`);
`CheckHealth` is the command; `SubmitAdmin` and `AddInAdmin` save and add without
a test. A manual connection's health is `unconfigured` (`NullConnector`), a vendor
without a connector is `down`, only Odoo with a URL is ever `ok`; a blank key does
not exclude it, since the key may come from the environment. A post looks up "the"
connection twice: `BuildConnector`, then `Named` in `PostThrough`.

## 4. The runs

Seven passing runs and five that exhibit a disagreement between the code and its
documentation. The longest takes about two and a half minutes on two workers.
`CHECK_DEADLOCK FALSE` everywhere: keys, moves and numbers come from small pools, so a
finished system stops.

| Run | Bounds | What it shows |
|---|---|---|
| `ApAgent` | 2 intake requests with mails of up to 4 files; 7 bills, 6 answers, 5 charts; 2 plans, 2 ceilings; 2 requests, 2 procedures, 2 rules; a saga of 2 threads (one mortal), 2 operations, 3 attempts, network failures retryable, and a move for every attempt | intake complete, every handled bill queued, approved entries sound, unflagged ones whole, all off by rounding at most, ceilings respected, the knowledge base true; `SuccessIsPosted`, `OneMovePerAttempt`, refinement of `OperationLifecycle`, and `InFlightSettles` under fairness |
| `ApQueue` | 2 mortal requests, an Odoo item and a standalone item, 2 operations, 2 moves, 1 attempt, 2 local posts per item; forms beside requests on one of the items at a time | the five queue invariants and refinement of `ItemLifecycle` |
| `Bus` | a request and 2 workers, all mortal, 2 deliveries per task, broker may refuse; 3 events of one family or 2 of any kind | routed in the same chain, reruns only after deaths, refinement of `EventLifecycle` (settled only after the handlers, never back in the queue), and `QueuedSettles` under fairness |
| `Ledger` | 2 mortal threads, 2 entries, 2 journals, 2 numbers, every kind of request; with deaths, with the journal's form, with moves between journals, with line pages and deletions | numbers unique and gaps explained up to the journal's form, posted entries balanced and final up to people's edits, refinement of `EntryLifecycle` |
| `Billing` | 2 threads, 2 invoices, 2 entries, net totals 1 and 2, every kind of request; with the page of the lines; with the journal's form | booked and paid by the linked entries, settled in full, fresh numbers, refinement of `DocumentLifecycle` |
| `BackOffice` | two requests at each of five desks, the bank's three times (requests, the bank's forms, the ledger's forms); 1 statement, 2 bank lines (one in forms), 2 entry lines; 2 schedule lines; 2 periods, diaries of 3; 2 currencies, 3 dates; documents of 2 lines | the bank, asset, period, rate and amount properties |
| `Platform` | a mortal saga of 2 attempts, 2 moves, a detector; 3 entries, limit 2, overlap 1, 3 seconds; 2 requests, 2 tenants, 2 people; 2 connections, 2 threads | reports true, nothing skipped, tenants respected, connections as saved, audit rows true |
| `QueueStaleReview`, `BusOrphan`, `ClosedPeriod`, `Regenerate`, `ZeroCap` | the smallest instance that shows it | see section 6 |

What the properties say, beyond their names:

- `SuccessIsPosted`: a row that says `success` names a move that this operation
  created and that Odoo has posted, whoever died or retried meanwhile.
- `OneMovePerAttempt`: a settled operation has left at most `retry_count + 1`
  moves in Odoo. This is the strongest thing that is true: retries after lost
  answers do make duplicates, and `retry_count` is what tells how many.
- `ExecutedWasPosted`, `NothingWithoutApproval`: hold under *any* interleaving
  and death. A person may write `executed` in the change form; what the form
  cannot do is make `metadata` name an operation that was not posted for the
  item, though it writes back an old copy. `DuplicateNeedsRaceOrCrash` and
  `OutcomeIsMarked` hold with exceptions: two requests with the same stale copy,
  a death at the wrong moment, or a form that makes an executed item approved
  again really do post a bill twice or leave it unmarked. The properties say that
  nothing else does.
- `AnnouncedBillsExist`: `bill.posted` events never outnumber postings.
- `ImplementsItemLifecycle`: items that no two requests held at once go
  pending → approved → executed, each step once. The abstract specification
  lets raced items be overwritten, but never back to pending, and a person
  correct any item, which goes on from the status it was given.
- `QueuedSettles`: once the broker has an event's task, the event settles, or a
  worker died on each of its deliveries. `ImplementsEventLifecycle` and
  `DispatchedWasRouted` say what "settled" is worth: every subscriber of the
  event's type was called, `dispatched` means that all have returned, and a settled
  row never goes back to the queue, which is where `update_fields` matters.
  `RerunNeedsDeath` is where `retry > timeout` matters.
- `ImplementsEntryLifecycle`: an entry is posted once, from draft, under a number its
  journal handed out to it, and keeps the number; one that two requests held may
  be overwritten, but only with numbers of its own. Where the journal's form has
  lowered the sequence, a number may have been handed out to two entries; each is
  still its own.
- `UniqueNames`: under any interleaving of requests, stale saves, moves between
  journals, deletions and deaths, except in a journal whose form lowered
  `next_sequence`. That exception is large: the form saves the whole row, so a page
  opened before other posts is enough, and nothing in the code or the database
  (there is no unique constraint on an entry's name) stops the second use.
- `PostedIsBalanced`: what `post()` posted, unless a person wrote its lines or its state
  after `post()` had looked: between that look and the save, or once it is posted, the
  admin's pages accept any line.
- `GapNeedsRaceOrCrash`: a number is missing only if the entry was raced for or deleted,
  its request died, or the journal's form moved the sequence forward.
  `PostedIsFinal`: unless the entry was raced for, or a human edited it in the change
  form or deleted it.
- `PostedIsBooked`: under any interleaving, although rows are saved whole from
  outdated copies. A race can undo a posting in the row and leave its entry in the
  ledger; it cannot leave a posted row without one.
- `FreshNumbers`: that two documents never carry one number is the database's
  constraint; what the code adds is that a post does not run into it, because the
  number it draws is on no other document, unless the journal's form lowered the
  sequence.
- `SettledInFull`: what is paid is what was booked. The exception, `repriced`,
  is real: the change form is offered for posted documents and recomputes their
  totals, and `record_payment` pays the new ones.
- `ImplementsDocumentLifecycle`: a document no two requests held at once is
  booked once, paid once, and cancelled only as a draft with nothing in the ledger.

- `MatchesAreTrue`: a ledger line explains one bank movement, for the amount and
  in the direction the file meant; two requests that want the same line at once
  do match it twice, a lone thousands comma or point does fool the parser, and a
  ledger form does change an entry line under its match, and an amount of zero is
  compared with nothing. The property says that nothing else makes a match untrue.
- `StateFollowsLines`: the statement's state goes wrong only when two
  requests count at once or a form changes lines behind it.
- `FullyMeansCovered`: outside its form an asset is written off only when its
  posted lines bring it to its salvage value and nothing due is left.
  `DiaryTellsTheState`: a stale lock is written over an unlock only when two
  requests held the period.
- `RegularDocumentsPost`: exactly which documents the roundings let through.
  `NoLookAhead`: a rate on a date does not depend on later fixings.
- `IntakeIsComplete`: an answered request took everything acceptable, each
  document and event lead to each other, and a half-done one has a dead request.
- `HandledIsQueued`: liveness of the pipeline, under the fairness below.
  `ItemTellsTheBill` and `ApprovedIsSound` are what the human reviewer relies on:
  results in order, accounts on their lines, nothing missing without an issue, an
  entry out of balance by half a cent per line at most (`OffByRounding`); an
  approved entry balances, although the proposer rounds its lines apart.
- `AutoOnlyWithinCap`: the agent acts alone only in a subscribed department and
  below the ceiling that counts, monotonically.
- `KnowledgeIsTrue`: at rest a procedure's status is the validator's verdict on
  the content beside it unless two requests or a death came between; a verified
  rule says what was signed off; retrieval returns the tenant's own and the best.
- `ReportIsTrue`: what the detector calls drift was changed by a person, what was
  changed before the run is found, and nothing an operation had succeeded with
  is listed as untracked, although sagas run between the three reads.
- `NothingIsSkipped`: an entry behind the watermark was reported, unless it
  shares its second with the end of a truncated answer or was committed late;
  the overlap recovers the late ones.
- `TenantIsRespected`: what a request reads through a filter, where the next one starts,
  and whom the approver page names, all belong to a tenant of its user. The admin's
  unfiltered pages and the approvers named in the admin are the exceptions it names;
  section 6 has what the documentation says of them.
- `ConnectionIsAsSaved`: the key is the last one entered, whatever health checks
  save meanwhile, unless two *forms* crossed; the health is this row's, `ok` only
  for Odoo with a URL, `unconfigured` for a manual connection, unless two requests
  held the row at once or it was saved untested. `AuditNamesTheErp`: both lookups
  of a post agree unless a connection was saved between them.

Why the bounds are enough. Two threads are what every race here takes: a race is
one stale copy and one writer. Two entries or items let one request be busy with
another while one is raced for; two operations let an item be posted twice. Six
moves are one for every attempt of both operations, so the ERP never runs out of
ids, which it hands out in order (`MovesInOrder`). Three events are a parent, its
child, and a second child of a redelivery (the side `family` of `MCEventBus`);
events that are not related meet only in the workers and the broker, and the side
`strangers` has two of them. Two deliveries are one redelivery, after which any
further one is like it; the proofs of the safety properties cover any number. Two
entries let one document be posted and paid, be posted twice, or two be posted;
two totals let a total change. `Ledger` keeps to one side of what people and
requests do together (`MCLedger`): every request with deaths; posts with deaths
beside the journal's form; posts and forms over two journals; every request beside
the pages of lines and deletions. `Billing` likewise (`MCBilling`). The theorems
allow all of it at once. `Billing` runs on one table (`Bills = {}`): tables share
no row and no journal, and the proofs cover both. In `ApQueue` a change form never
runs beside requests on the other item: the two items meet only in a bulk review,
whose saves are one per item, so `MCApQueue` takes a side first, requests on both
items without forms, or forms and requests on one (`Sides`); without it the run
does not end in time. The theorems have no such restriction. The saga has one
attempt, because what the queue sees of a retry is only its outcome; the retry
loop itself is explored in `ApAgent` and, for any number of attempts, by the
proofs, which cover the composition too. The components of `BackOffice`, `ApAgent`
and `Platform` share no row (but for the subscription, which changes while the
pipeline runs), so their MC modules keep them apart: a behaviour works at one
*desk* (or *side*) and leaves the others alone, which explores each component
completely without their product. Four components have several desks: the bank
(above), the knowledge base (two requests on one procedure; the procedures of two
tenants, one request at a time; rules alone), the session (two requests of one
person; the approver page of two people) and the connections (two threads on one
row; two rows and a post). Two bank lines and two entry lines of opposite sign let
one line be matched twice, the wrong way, or be swapped; forms write the second
bank line only, so that the first shows what is true without them. An amount of
1000.00 is the smallest that every notation can write, and the three misread ones
all make 1.00 of it; ledger forms write an entry line of that wrong amount, and
one on another account. Two periods let one request do half of its work. Half
cents (5 thousandths twice) are the smallest rounding difference, prices and rates
include negative, zero and rounding ones. Three entries with a limit of two and an
overlap of one second let a truncated answer end inside a second and a late commit
fall inside and outside the overlap. Safety runs use symmetry over threads and
keys that no expression orders; the liveness runs use none.

Fairness. `SagaFairSpec`, and `Spec` of `MCApAgent`: each thread inside the saga
goes on (a remote call returns or raises, a sleep ends). Threads that may die keep
the fairness while they live; the property speaks of those that do not. `FairSpec`
of the bus, and `SideSpec` of `MCEventBus`: live threads go on, and, for each
event, a task the broker may hand out is eventually taken by some idle worker,
which is what a running qcluster does. The pipeline: a process that began to
handle a bill runs the next specialist or enqueues the item (`Running`), because
`DepartmentManager.run` is one loop in one thread that catches what a specialist
raises. None of these assumes that a handler, a specialist or a remote call
succeeds, nor that a web request ever comes. Weak fairness of taking is enough: a
task stays available until it is taken.

## 5. The proofs

Each theorem holds for every value of the constants that meets the module's
ASSUMEs (any number of threads, operations, moves, items, entries, attempts).

| Module | Theorem | Argument |
|---|---|---|
| `ErpSagaProofs` | `SagaTypeCorrect`, `SagaSuccessIsPosted` | `SagaInv` |
| | `SagaImplementsLifecycle` | `SagaInv`, step by step |
| | `SagaOneMovePerAttempt` | `SagaInv` and `BudgetInv` |
| `ApQueueProofs` | `QueueTypeCorrect`, `QueueExecutedWasPosted`, `QueueNothingWithoutApproval` | `SagaInv` and `QueueInv` |
| | `QueueImplementsItemLifecycle` | and `CopyInv` |
| | `QueueOutcomeIsMarked` | and `MarkedInv` |
| | `QueueDuplicateNeedsRaceOrCrash` | and `PostedOnceInv` |
| | `QueueAnnouncedBillsExist` | and `AnnouncedInv` |
| | `QueueReviewedOnceUnlessRaced` | from the refinement of `ItemLifecycle` |
| | `QueueImplementsSaga`, `QueueKeepsSagaPromises` | `StepIsSagaStep`, then the saga's own theorems |
| `EventBusProofs` | `BusTypeCorrect` | `BusInv` |
| | `BusNeverRequeued` | and `RowMoves` |
| | `BusSettledAfterHandlers` | and `CallInv` |
| | `BusDispatchedWasRouted` | and `RouteInv` |
| | `BusRerunNeedsDeath`, from `Retry > Timeout` | `BusInv`, `EmitInv` and `OnceInv` |
| | `BusImplementsEventLifecycle` | `BusInv`, `CallInv`, `SubscribedInv` and `PatientInv` |
| | `BusQueuedHasTask`, from `Mortal = {}` and a broker that takes every task | `BusInv` and `HasTaskInv` |
| `LedgerProofs` | `LedgerTypeCorrect`, `LedgerUniqueNames` | `LedgerInv` |
| | `LedgerPostedIsBalanced` | and `BalancedInv` |
| | `LedgerPostedIsFinal` | and `HolderInv`, `FreshCopyInv` |
| | `LedgerGapNeedsRaceOrCrash` | and `GapInv` |
| | `LedgerImplementsEntryLifecycle` | `LifecycleInv`: `LedgerInv`, `HolderInv`, `FreshCopyInv` |
| `BillingProofs` | `BillingTypeCorrect`, `BillingPostedIsBooked` | `BillingInv` |
| | `BillingSettledInFull` | and `SettledInv` |
| | `BillingFreshNumbers` | and `NumberInv` |
| | `BillingImplementsDocumentLifecycle` | and `LifeInv` |
| `BackOfficeProofs` | `PeriodTypeCorrect`, `PeriodDiaryTellsTheState` | `PeriodInv` |
| | `BankTypeCorrect`, `BankMatchesAreTrue` | `MatchInv` |
| | `BankStateFollowsLines` | and `StatementInv` |
| | `AssetFullyMeansCovered` | `DepInv` |
| | `RatesDoNotLookAhead` | `LatestDate` |
| `ApPipelineProofs` | `IntakeTakesWhatItAnswers` | `IntakeInv` |
| | `AgentActsWithinCap` | `SwitchTypeOK` |
| | `KnowledgeBaseIsTrue` | `KbInv` |
| | `RegularDocumentsArePosted` | lemmas about sums (`SumIs`), rounding and the lines kept |
| | `PipelineApprovedIsSound`, `PipelineOffByRounding`, `PipelineItemTellsTheBill` | `PipeInv` |
| `PlatformProofs` | `DriftReportIsTrue` | `DriftInv` |
| | `SessionTenantIsRespected` | `SessInv` |
| | `PollerSkipsNothing` | `PollInv` and `LeftOutIsLater` |
| | `ConnectionsAreAsSaved`, `AuditRowNamesTheErp` | `ConInv` |

Why the invariants are needed:

- **`SagaInv`**. `SuccessIsPosted` is not inductive: `RecordSuccess` needs to know that
  the move a thread holds is posted and was made by its own operation
  (`RunnerInv`), that no other thread runs the same operation (`NotShared`), and
  that moves of rows already settled are not touched (`MadeInv`, `UnusedOps`).
- **`BudgetInv`** bounds the moves made so far by the attempts begun, the
  current one included only once it has created its move. It is about
  cardinalities, so `CreateMove` is the only interesting step.
- **`QueueInv`**. Because a request acts on a copy, the status in the row says nothing
  about what a posting request may do; what does is `ApprovedInv` (a request that posts
  holds an item approved at some time) and `PostingInv`/`ExecutionInv` (the phase of a
  request determines what its saga did, and `execution` is saved before
  `executed` is). What a change form would write back of `metadata` named a success of
  its item when it was read, and successes are final (`FormInv`). Every step of
  `ApQueue` is a step or a stutter of the saga
  (`StepIsSagaStep`), so `SagaInv` carries over unchanged.
- **`CopyInv`**: a copy that nobody raced for still agrees with its row.
  **`MarkedInv`**, **`PostedOnceInv`**: while an unraced, uninterrupted item is being
  posted, the row still says approved and nothing was posted before.
- **`AnnouncedInv`** is by counting. In the ERP, an announcement needs a success of
  the request's own operation that was not announced yet, so announcements are bounded
  by the successes no request is still executing; those only grow
  (`AnnouncedOpsStay`). Locally, announcements plus the requests between posting and
  announcing are bounded by the entries.
- **`BusInv`** of the bus ties a thread's place in `emit()` or `_dispatch` to its
  locals, and says that whatever a thread, the broker or a handler knows of has
  its row, so a row being inserted is nobody's. **`CallInv`**: a worker has called
  each handler it no longer has to call, and one that did not return cleanly left
  its error; at `Settle` nothing is left to call, and what a later delivery does
  only adds to what was called (`Kept`). **`RouteInv`**: the router returns cleanly
  only past `Enqueue`, so its child's task exists. **`OnceInv`**: an event none of
  whose workers died is handed out only while it waits (this is where
  `Retry > Timeout` is needed), is in one pair of hands, and what those have left
  to call has no repeats and was not called; **`EmitInv`** says that its task is
  queued once.
- **`PatientInv`** of the refinement: `OnceInv` if the broker is patient, and that
  an event that waits for a worker, or is in one's hands, is still queued (`QueuedInv`);
  **`SubscribedInv`** keeps what a worker has left within its event's subscribers.
  Most steps of the broker and of `emit` are stutters; a handler's
  call, a publication from a handler, its return, the settling save and a death are
  the abstract steps. **`HasTaskInv`** is for `BusQueuedHasTask`: without deaths and
  refusals each queued event is being emitted, waits, or is in a worker's hands. It
  is the promise that the run `BusOrphan` refutes in general, under what it needs.
- **`LedgerInv`**: a number held by a thread in the critical section is the
  journal's next one (`LockInv`; a journal's form waits for the row lock), and
  whoever carries a number, in a row or in a copy, is an entry it was reserved for
  (`OwnerInv`). In a journal that was never rewound the numbers from the next one on
  are nobody's, so `owner` has one entry per number, and uniqueness is that.
- **`HolderInv`**, **`FreshCopyInv`**: an entry not raced for has one holder,
  and that holder's copy is fresh. **`GapInv`** keeps, for each number handed
  out, where it is. In the refinement, who is about to
  post an entry nobody raced for finds it a draft, so its save is the abstract `Post`.
  **`BalancedInv`**: an entry that nobody wrote past the check is balanced from the
  check to the save.
- **`BillingInv`** of documents: not only rows but every copy in a request's hands is
  coherent (`CoherentInv`), since any copy may be saved; entries are never taken
  back, so coherence of an old copy lasts. **`SettledInv`** says the same of
  totals. **`NumberInv`**: a number is carried by one document of its table, in
  its row or in copies of it (`OwnInv`); only the holder of the journal's lock
  (`LockInv`) may carry the next one, and nobody a later one (`BoundInv`), as long
  as the journal is not rewound.
- **`LifeInv`**: an unraced document has one holder (`HolderInv`), who knows its
  state (`FreshInv`), and the ledger holds what that state says (`TallyInv`).
- **`PeriodInv`** adds to the diary's agreement that an unraced period has one
  copy and a true one (`CopyInv`): `start_close` writes no line, so it must not
  run on a stale copy of a closed period.
- **`MatchInv`** of bank lines: a request at work holds a line (`HeldInv`); an entry
  line nobody raced for is sought by one request at a time and taken by none from the
  test to the commit (`TargetInv`); it is as the request read it unless a ledger form
  wrote it (`SeenInv`), and the amount it was compared with is the file's, in the row
  and in the request's copy of it (`AmountInv`).
- **`StatementInv`** (`StatementOk`): a statement's one request has a true copy of
  its state, and what it counted is the lines as its commit leaves them.
  `update_state` compares numbers; `StateOfTells` turns these into the sets of
  lines by their cardinality, for which the lines must stay finite.
- **`DepInv`** of an asset: types, and a request nobody raced for is the only one on the asset
  and acts on a true copy (`AloneInv`), so the state it saves is what the lines say.
  **`LatestDate`** gives a fixing its value: among the dates up to a day there is a
  latest one, because dates are well founded.
- **`IntakeInv`** has a request's documents match the files it has passed, one each
  (`RequestOK`), which `Answer` turns into all files; in an event's life its document
  is in one pair of hands until it leads back to it (`EventTrue`), so `EventOf` finds
  the one event there is (`OneEventEach`).
- **`PipeInv`**: the types; what the stage says of the results so far
  (`StageFollows`), the results of the context the specialists pass on
  (`ContextFollows`: the lines classified are `MergeResults` of the answers, the entry
  is the proposer's of those), and what all items in the queue satisfy
  (`ItemsAreTrue`). The properties of an entry come from lemmas about `Build`,
  whose lines are sums and subsequences of the bill's. `SumSeq`, `UsableLines` and the
  loop of `_merge_results` are recursive functions; what they compute is proved
  from their defining equations by a smallest counterexample (`<` on the naturals is
  well founded), one use per fact, since an induction theorem would take the fact
  as an operator. The same lemmas prove `RegularDocumentsArePosted` for documents of
  any length.
- **`KbInv`**: a request that is alone on a procedure holds a true copy and has
  judged that text by the rules as they are (`HandsInv`). Retrieval returns as
  many documents as there are or as were asked for, which needs that rules and
  procedures are finitely many.
- **`DriftInv`** of the report cannot use `SagaInv`, since people undo what sagas
  posted. What survives is that an operation in flight has one runner and no
  recorded move (`FlightInv`), and that a move nobody touched is posted once its
  runner has posted it (`UntouchedInv`); `RunInv` keeps the first of the three reads
  for the other two.
- **`SessInv`**: what a request knows comes from its tenant, whose member its user
  was (`RequestInv`); after a switch one request at a time has, or will store, the
  tenant switched to (`SwitchInv`).
- **`PollInv`** needs a fact about the search: what a truncated answer leaves out
  comes, in its order, after all it holds (`LeftOutIsLater`, by the cardinality of
  what comes before; a last entry exists because dates are well founded), so
  the watermark it sets does not pass it.
- **`ConInv`**: whoever may write a row that was never contended is alone and has a
  true copy, and his answer is about that copy (`WriterInv`); a row whose health is
  of another configuration is being tested (`HealthInv`); a form's copy has
  the row's key until another form is saved (`KeyInv`). `BuiltInv` says that a
  connector built since the last save is the active connection's: the lookup reads
  three columns only (`SameActive`) and finds one (`ActiveIsAConnection`).

All of these are also invariants TLC found no counterexample to. Type
invariants are proved and not repeated in the runs. `SettledAfterHandlers` and
`NeverRequeued` follow from what the bus implements and `OffByRounding` is part of
`ItemTellsTheBill`; they have theorems of their own and no run. Only model-checked is
liveness (`InFlightSettles`, `QueuedSettles`, `HandledIsQueued`), because it rests on
fairness and ENABLED. Every other property of a passing run is a theorem. Of the
five that section 6 refutes, two have one that says where they hold:
`QueueReviewedOnceUnlessRaced` and `BusQueuedHasTask`.
No module uses RECURSIVE operators.

Each property of a passing run has a *mutant* in `PROJECT.json`: a one-line
plausible bug (a dropped guard, an off-by-one, a wrong status) defined next to
the operator it replaces, under which TLC finds the property violated. Operators
such as `ExhaustedOneLate`, `PostableUnchecked` or `SavedWhole` are those bugs and
are used by nothing else.

## 6. Where the code and its documentation disagree

| Run | Code | Documentation |
|---|---|---|
| `QueueStaleReview` | `is_pending` is tested on a stale copy (`accounting/views.py:929`): a second request re-reviews the item | `accounting/views.py:905-906`: a double submit is a safe no-op |
| `BusOrphan` | the row is inserted before the task exists (`agents/events.py:123-136`): a worker dying between leaves an event no task will run | `agents/events.py:17-19`: a crash mid-dispatch is covered by the broker's retry |
| `ClosedPeriod` | nothing that posts reads a period (`accounting/models.py:515-533`): an entry dated in a locked one is posted | `accounting/models.py:1771`: a closed period is immutable |
| `Regenerate` | the unposted lines are wiped (`accounting/models.py:683`) and the first INSERT of a new one lacks the tenant and raises (694): no schedule with a line is ever generated | `accounting/models.py:682`: "(Re)compute the depreciation schedule"; 601, 717 and `accounting/admin.py:432` likewise |
| `ZeroCap` | an `auto_action_cap` of 0 falls back to the plan's default (`agents/capacity.py:177-183`), below which the engine approves alone | `accounting/models.py:215-220`: "0 = never auto-act", "0 = always require approval." |

Read in the code while modelling, and part of the models without a run of their
own:

- `accounting/saga.py:11-13` promises a retry of transient failures; no connector
  raises `RetryableError` (`connectors/odoo/client.py:118`), so a network failure
  ends the operation at the first attempt. `accounting/views.py:643` writes
  `bill.received` as dispatched, which `accounting/models.py:2530` defines as "all
  handlers ran". `cancel()` saves a whole copy (`accounting/models.py:541`) and can
  undo a posting its own docstring protects (537-539); the change form offers
  `state` (`accounting/admin.py:294`) and can post an unbalanced entry.
- "Views and admin pages then filter their data by that tenant"
  (`accounting/middleware.py:4-5`): the admin's pages of tenants and memberships do not,
  nor do related filters (`QueryUnfiltered`). "Only users who are active members of
  the tenant may be assigned" as approvers (`accounting/views.py:260-261`) is true of that
  page; a subscription's page and the tenant's inline in the admin offer every user
  (`SaveSubscription`).
- The journal's form offers `next_sequence` (`accounting/admin.py:252-257`) and saves the
  row as the page was opened: numbers are used twice, or left out. The pages of the
  lines write lines of posted entries (361-373), which then no longer balance.
- The webhook's docstring says 400 for what the code answers with 200
  (`accounting/views.py:749`).
- A document with a line that rounds to zero cannot be posted although its total
  is positive; a negative tax and an equal negative withholding cancel and post.
- `parse_bank_csv` reads `1,234`, `1.234` and `1.234,56` a thousand times too small; a bank
  line of amount 0 matches any entry line.
- `post_depreciation` sets no tenant either, so its first INSERT raises as well.
- `agents/ap/proposer.py:228` calls its entry "always internally balanced"; the
  debits are rounded one by one and the credit from the exact sum, and the
  reviewer's form check is what stops the difference. A negative tax is ignored.
- A failing citation of a rule that was not retrieved is dropped
  (`agents/ap/reviewer.py:412-417`), and an approval needs no citation.
- Editing a procedure "resets it to pending" (`knowledge/views.py:247-248`), but the
  old status stays until the validator's save. The validator "blocks" a procedure
  that would violate the framework (`knowledge/models.py:183-184`), but retrieval
  reads neither its status nor a rule's review. Loading the fixtures takes an
  expert's sign-off back.
- `accounting/middleware.py:60-62` says the policies enforce isolation; the setting
  ends with its own statement, so a role the policies bind sees no row at all,
  the middleware's own lookup of the membership included: it fails closed.
- A vendor without a connector keeps the capabilities of the previous one.
- The drift report calls untracked entries "expected for human-posted entries";
  duplicates that a retried operation left are among them.
- Entries that share the second of a truncated answer's end are never polled.

## 7. What is not modelled, and why

- *Out of a model checker's reach or without state*: what the language model
  answers (the models choose among answers of every shape), OCR, templates and
  forms' layout, encryption (a library), the capability table, the chain
  timeline and the trial balance (read-only queries), the export of the
  knowledge base, the empty ingest app, one-off commands.
- *Abstracted in the modelled parts*: which account a ledger line is on, the
  choice of journal (one per table in `Billing`), users and notes, tenants where
  rows do not cross them, wall-clock time (only `retry > timeout`, the poller's
  seconds and the order of dates), synchronous dispatch (`Q_CLUSTER['sync']`,
  tests and development), the order of routing rules, how a query's terms become
  scores, which of two connections of one name the database returns first.
- *Left out although it changes state*: the sign-up (two requests may race for
  one slug; the column is unique and the loser's sign-up fails with an error), partner upserts
  while a bill is posted, deletion in the admin
  other than of bank lines and journal entries: of documents and their entries, which
  would leave the one without the other; of queue items; of connections, which the
  database refuses once an operation names them; and the choice of another journal
  in a document's form.
- `handle()`, `from_proposal()`, the gate and the capacity engine have no caller
  outside tests and the docstring of `agents/chain.py:43-50`; they are modelled
  as the public operations they are. `record_payment` likewise.

## 8. Plan

1. `OperationLifecycle`, `ErpSaga`. *Done, proved.*
2. `ItemLifecycle`, `ApQueue` over `ErpSaga`. *Done, proved.*
3. `EventLifecycle`, `EventBus`. *Done, proved except its liveness.*
4. `EntryLifecycle`, `Ledger`. *Done, proved.*
5. `DocumentLifecycle`, `Billing`. *Done, proved.*
6. The back office: `BankReconciliation`, `Depreciation`, `Periods` with
   `ClosedBooks`, `FxRates`, `DocumentAmounts`. *Done; proved but for
   `ClosedBooks`, whose run shows a disagreement.*
7. From a bill to the queue: `DocumentIntake`, `CandidateEntry`, `ApPipeline`,
   `AutoAction`, `KnowledgeBase`. *Done, proved except the pipeline's liveness.*
8. Around the departments: `ErpDrift`, `OdooPoller`, `TenantSession`,
   `Connections`. *Done, proved.*
9. Abstract specifications still worth stating: a bank line's life, and what the
   poller promises its caller.
10. Left to model: deletion in the admin of documents and queue items, and documents
    of one table on several journals.
