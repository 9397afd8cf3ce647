# Verisettle: specifications, model checks and proofs

Verisettle pays invoices with agents under governance: a graph of agents reads
an invoice, scores its risk, approves it or parks it for a human, and posts it
to a double-entry ledger. A policy decision point and a kill switch can stop it
on the way. This directory holds TLA+ modules of its core logic, the TLC
configurations that check them on small instances, and TLAPS proofs about them.
Paths below are relative to the repository.

## 1. Inventory

| Component | State it keeps | Operations | Talks to |
|---|---|---|---|
| ledger, accounts and transactions (`services/ledger/app`) | `accounts.balance`, `transactions`, `entries`, row locks of open sessions | dry run, post, read balance | backend calls it; it calls audit-log |
| ledger, vendor history (`ledger/app/main.py`) | `vendors`, `historical_payments` | lookup, record payment | backend (risk scoring, payment), data-loader |
| policy-service (`services/policy-service/app`) | `policy_decisions` log, policy set in memory | authorize, reload | backend and sandbox-runner call it; it calls control-plane and audit-log |
| Cedar policies and manifests (`policies/`, `capability-manifests/`) | none | decide | policy-service, backend |
| control-plane (`services/control-plane/app/main.py`) | kill switch in memory; `heartbeats`, `paused_threads` | trip, reset, heartbeat, pause, unpause, status; watchdog checks for silence, repeated denials, the canary vendor | everybody reads it; it reads the decision log |
| backend graph (`services/backend/app`) | LangGraph checkpoints per thread | start a run, resume a run, four agent nodes and a human review | all of the above |
| audit-log (`services/audit-log/app/main.py`) | hash chain in PostgreSQL, copies in MinIO, the set of known broken entries | append, verify, watchdog | everybody appends |
| sandbox-runner, sandbox-ocr | none between calls | OCR of one image in a container | backend, policy-service |
| data-loader | seeds vendors and invoices | batch load | ledger's tables |
| evaluation gate (`infra/deepeval`) | prompt version | score and promote | model gateway |
| console (`apps/console`) | none | pages and proxies | backend, control-plane, ledger, audit-log |
| model clients, guardrail, PII, tracing, identity (`services/backend/app`) | token caches | filters and clients | the graph's nodes |

What is hard in this code, and the properties that make it right:

* **Ledger.** Requests run in threads, each with a session. The key lookup, the
  row locks, the checks, the INSERT and the commit are separate statements;
  the process may die between any two. Right means: the cached balances equal
  the entries, debits balance credits over all accounts, no overdraft, one
  posting per key, no success and no refusal that is untrue, lock cycles only over
  contradicting orders.
* **policy-service.** An authorize call reads the log, then the kill switch,
  then writes the log, and nothing is locked in between. Right means: a halt
  wins, the log agrees with the answers, an Allow means what the policy files
  say, and the rate limit is not passed by much.
* **Backend graph.** Start and resume requests of one invoice overlap; each
  works on its own copy of the newest checkpoint, may die in any node, and may
  be sent again. Right means: what is paid was approved, a trip at any moment of
  the hold that stands at its end blocks, `settled` is said only of money that moved.
* **control-plane.** The watchdog tells silence from a review or an end only by
  best-effort pause posts; its query and its halts are two steps; its trips
  live in memory. Right means: ended runs are left alone, dead ones are halted.
  Two more checks read the decision log and act on it row by row. Right means:
  nobody is stopped without cause, repeated denials pause, the canary stops all.
* **audit-log.** Appends read the last hash and insert without a lock, the copy
  in MinIO comes before the row, the watchdog's known set is in memory. Right
  means: a row has its copy, no alarm without one of the stated causes, each break is
  written once.
* **Vendor history.** A summary is read, added to in Python and written, with
  nothing locked; the loader writes the same rows in other transactions. Right
  means: the summary counts the itemised payments but for those a later write went
  over, and nothing else; one row per vendor; awards that count are itemised.
* **Uploads.** A coroutine that blocks the event loop waits for a service that
  waits for a container, each with a timeout of its own. Right means: every
  upload returns, no container outlives its call that sandbox-runner could know
  of, a halt meanwhile is seen.

PROJECT.json lists every hazard at its line, with the properties aimed at it.

## 2. Modules

| Module | Models | Role |
|---|---|---|
| `DoubleEntry` | `ledger.py` arithmetic, `NUMERIC(18,2)` rounding | operators |
| `PaymentBook` | what the ledger promises | abstract specification |
| `Ledger` | `ledger.py`, `main.py` (transactions), `models.py`, PostgreSQL at READ COMMITTED | detailed specification, refines `PaymentBook` |
| `LedgerProofs` | | theorems about `Ledger` |
| `SumFacts` | | lemmas on sums over finite sets, for `LedgerProofs` and `VendorHistoryProofs` |
| `CedarPolicies` | the five `.cedar` files, the engine's rounding, the manifests | operators |
| `PolicyService` | `authorize` and what it calls | component |
| `PolicyServiceProofs` | | theorems about `PolicyService` |
| `ControlPlane` | kill switch, heartbeats, pauses, the heartbeat check | component, composed into `InvoiceRun` |
| `InvoiceRun` | `graph.py`, the nodes, `main.py` of the backend | composition with `ControlPlane`, `CedarPolicies` and the ledger's promise |
| `InvoiceRunProofs` | | theorems about `InvoiceRun` |
| `DenialWatch` | the watchdog's checks of the decision log | extends `PolicyService` by control-plane's loop |
| `DenialWatchProofs` | | theorems about `DenialWatch`, on those about `PolicyService` |
| `AuditLog` | `audit-log/app/main.py` | component |
| `AuditLogProofs` | | theorems about `AuditLog` |
| `VendorHistory` | `record_vendor_payment`, `load_vendors.py`, `db.py` of the loader | two writers of the same tables |
| `VendorHistoryProofs` | | theorems about `VendorHistory` |
| `ImageUpload` | `/runs/from-image` of the backend, `sandbox-runner`, `sandbox-ocr` | composition of three processes |
| `ImageUploadProofs` | | theorems about `ImageUpload` |
| `MCLedger`, `MCPolicyService`, `MCInvoiceRun`, `MCDenialWatch`, `MCAuditLog`, `MCVendorHistory`, `MCImageUpload` | | instances for TLC |

Each deviation operator (named after the definition before which it stands, its
comment begins with "Deviation") is a plausible mistake in that definition. It
is used by nothing; with it in place of the definition, one of the properties
fails. `PROJECT.json` pairs them up under `mutants`.

### Ledger

A session is one HTTP request from arrival to reply. Its program counter goes
`idle`, `check` (the SELECT by key), `validate` (one `SELECT ... FOR UPDATE` per
entry, `results` is the list the function builds), `flushed` (the INSERT of the
transaction has gone out), `committed`, `done`. A dry run has no `check` and ends at
`validate` with a rollback. `lock` is PostgreSQL's row lock table, a unique key in
an open transaction makes another INSERT wait (`KeyInFlight`), a cycle of waits is
broken by aborting one of them (`DeadlockAbort`), and a crash ends all open
sessions. `Fail` is any statement that raises, in an open transaction or after the
commit, where the refresh of the transaction and the lazy loads of the answer can
still give a 500 for a payment that is posted; `ReplyTruthful` therefore says
nothing of server errors and broken connections. Money is counted in half cents:
that is the coarsest unit in which an amount that PostgreSQL has to round differs
from one it does not.

`PaymentBook` has two variables and one action: a transaction enters whole, with
a fresh key, balanced, moving each account by its signed entries, leaving no
account overdrawn. `Ledger` implements it with the identity mapping on `balance`
and `txns`: `Commit` is `Post`, everything else stutters. That is a strong
statement, since `Commit` writes balances that were computed several steps
before, and it is true only because the row locks are held that long.

### PolicyService

`pc` follows `authorize`: Cedar on arrival, `rate`, `switch`, `record`, `answer`.
`log` is `policy_decisions`. The kill switch and the network are environment:
`Trip`, `Reset`, `Restart`, `Outage`. `clear` is a history variable: since the
call arrived there was a moment at which no halt for it was in force, or
control-plane did not answer (the code fails open then, by its own comment).
Cedar itself is `CedarPolicies!CedarAllows`: some permit matches and no forbid
does, and a clause that reads an attribute the request lacks does not match.

### InvoiceRun with ControlPlane

An execution is one `POST /runs` or `POST /runs/{id}/resume`. It takes the newest
checkpoint into `st`, runs nodes, and each node's end saves `st` and the next node
in `saved`, as LangGraph does. `human_review` runs from its start again when it is
resumed: `Park` posts the pause and either answers the caller (no decision yet) or
goes on with the decision; `Unpark` takes the pause back; `Decide` saves the
decision. The `task_state` that the routing function assigns after it is not
saved, since LangGraph gives routing functions a copy and only nodes' results are
channel writes. The payment node is five steps: authorize, dry run, hold, recheck
of the kill switch, commit, and then the vendor record and the result. The ledger
appears as its promise, a key posted once. policy-service appears as "may deny
anything, may allow what Cedar allows and no halt it sees forbids".

`approvals`, `payer` and `clear` are history: who approved which reading of the
invoice, whose commit posted it, and whether the execution had, since the end of its
hold, a moment at which it was not stopped. The hold ends with `EndHold`, which
leads to the place `rechecking`; only there is `clear` set, at once if no halt is in
force, or by a later step of control-plane. So a halt that came at any time of the
hold and stands at its end counts, and one that is first seen after control-plane's
answer does not.

### DenialWatch with PolicyService

A tick is `heartbeats` (the check that `ControlPlane` models), `denials` (the first
query), `pausing` (its loop), `canary` (the second query), `stopping` (its loop).
Workers go on logging decisions and operators resetting entries in between, so a
loop acts on rows that have aged. A query that raises ends the tick: a failing
heartbeat check leaves the tick at `heartbeats`, `QueryFails` takes it back there
from the other two. `watermark` is `_last_canary_check_id`; a restart empties the
switch and sets it to the newest id. `_seen_denial_trip_keys` is left out: its keys
carry the microsecond of the query and never repeat. `skipped` is a history
variable, the canary rows a restart went past.

### AuditLog

Every writer, service thread or watchdog, is at one step of `_append_internal`:
`Read` (the last hash), `StoreCopy`, `Insert` (takes an id from the sequence, which
no rollback gives back), `Commit`; `Abort` at any of them. The hash of an entry is
the number of its attempt; that two attempts never share one is the assumption on
SHA-256 and the timestamp. The payload is hashed as it was sent and checked as jsonb
returns it: an event is `inexact` if the two differ, as with the float 1e16, which
comes back as an integer. Whoever changes rows may change the `entry_hash` alone
(the row does not verify) or together with payload and copy (it does); either way
the stored hash is what the next row is compared with (`forged`, `StoredHash`). The
tick is `Query`, `Compare` and one append for each finding, breaks first in the
order of their ids and recoveries in any, and each may fail; `Compare` reads the
copies as they are then, not as they were at the query. `contended`, `touched`,
`falsified`, `dropped` and `forgotten` are history: hashes that were in flight
together, rows damaged, rows whose stored hash was ever changed, and findings lost
by a failed append or a restart.

### VendorHistory

A request is `Find` (the SELECT under the normalised name), then either `Flush` (the
INSERT under the unique index, which waits for one in flight) and `CommitNew`, or
`CommitUpdate` with the totals it read. The session has no autoflush, so the UPDATE
is sent with the commit. Errors end the request and nobody hears of them:
`payment_execution` swallows the exception. The loader is a sequence of two
transactions per award, killed anywhere and started again. Amounts are integers of
either sign: neither the extraction nor the request bounds them. History variables
say what overlapped: `overlapped` the payments committed while another request had
read the same summary and not yet written it, `overlaid` the loads that were,
`raced` the vendors of which two payments found no summary at once, `torn` the
awards whose last load was killed between its two transactions; `upserts` counts the
loads of each award.

### ImageUpload

`pc` is the backend's coroutine, `call` sandbox-runner's handler, `box` the
container, `volume` the scratch volumes that exist. Nothing else enters the event
loop while one handler blocks it (`LoopFree`). `GiveUp` is the timeout of 60 seconds
or a broken connection; sandbox-runner then goes on with a call nobody waits for.
Containers end and are removed at their own pace, the wait may fail at any moment. A
call to Docker whose answer is lost may have been carried out: `StartBox` may raise
with the container started, and the kill in `WaitFails` may raise with the container
running; `stray` are the uploads whose container was left so. The volume's removal
is tried once, and what it raises replaces the answer unless Docker merely refuses
(`Cleanup`). `clear` is history: an upload gets it when its text is back, or later
until the session is looked at again, at a moment at which it is not halted.

## 3. Runs

| Run | Bounds | What it shows |
|---|---|---|
| `ledger_mixed` | 3 sessions, 3 accounts, 6 requests, fairness | types, `BalanceMatchesEntries`, `TrialBalance`, `NoOverdraft`, `KeyPostedOnce`, `ReplyTruthful`, `NoLockCycle`, refinement of `PaymentBook`, `EveryRequestAnswered` |
| `policy_switch` | 2 workers, 11 requests, 3 entries to trip, 2 log rows | `HaltRespected`, `AnswerIsLogged`, `AllowsMeanPolicy` |
| `policy_rate` | 2 workers, 2 vendors, limit 2, window 1, clock to 2, 5 log rows | `ApprovalsBounded` |
| `denials` | 1 worker, 3 requests, 3 log rows, 2 denials pause, 1 restart, fairness | `HaltsJustified`, `RepeatedDenialsPaused`, `CanaryTrips` |
| `settle` | 1 invoice, 2 starts and 1 resume, one entry to trip, outages and restarts | `PaidAsApproved`, `HaltBlocksSettlement`, `OutcomeTruthful` |
| `watch` | 1 invoice, 1 start and 1 resume, silence, fairness | `TerminalRunPaused`, `EveryRequestReturns`, `AbandonedRunHalted` |
| `audit` | 2 services and the watchdog, 2 appends, 1 damage or inexact payload, 1 restart, fairness | `RowHasCopy`, `NoFalseAlarm`, `FindingsAlternate`, `BreakRecorded` |
| `vendor` | 4 payments, one negative, 2 vendors, 3 spellings, 2 awards, 2 loads | `SummaryAddsUp`, `OneRowPerVendor`, `AwardsBooked` |
| `upload` | 2 uploads, 1 crash, fairness | `NoBoxLeftRunning`, `HaltedNotRun`, `EveryUploadReturns` |
| `finished_run_suspected` (violation) | the same | a rejected run is taken as silent |
| `first_seen_single_approval` (violation) | a first-seen vendor | one human approval settles |
| `audit_fork` (violation) | 2 services, 2 appends, no damage | an untouched entry does not verify |

Why these bounds are enough. Three sessions give a holder, a waiter and one that
commits between two steps of either; the cash account pays for one of two payments,
so funds are contended. Two invoices and a repeated key give collisions of keys and
of rows independently. Two workers are an overlapping pair, and the theorem gives
the bound for any number. Limit 2 with window 1 and three hours lets approvals fall
out of the window. Eleven requests reach each policy file and both sides of each
threshold, one of them does not send the amount. Two starts and a resume give a
rerun during a review, a late resume, and a resume at a node another execution is
in. `MaxClock` and `MaxDecisions` bound the model in `PolicyService`, `MaxRestarts`
in `DenialWatch` and `AuditLog`, `MaxAppends` and `MaxDamage` in `AuditLog`,
`MaxLoads` in `VendorHistory`; nothing else grows without end. In `ledger_mixed` one
request lists the accounts the other way round, so lock cycles do form and are
broken. Two appends and the watchdog's own make chains of up to six rows with forks,
gaps in the ids and an entry that breaks, recovers and breaks again. Three payments
to one vendor, one in another spelling and one negative, and a loader with two
awards of that spelling are two writers and a third that comes after them; the
amounts are powers of two, so a total tells which payments and loads are in it.
`audit_fork` takes no damage, so that what it finds is the fork and nothing else. In
`settle` the workers of each kind and in the `policy_` runs the workers are
symmetric; runs with a liveness property use no symmetry. `vendor` has
`CHECK_DEADLOCK FALSE`: when every payment is recorded and the loads are used up
nothing is left to do.

In `settle` the watchdog is off (`Silence = FALSE`) and an operator trips the
payment agent; a session halt acts at the same two places of the code. In
`watch` outages are off: while control-plane cannot be reached pause posts are
lost, and the code promises nothing then.

`Quiet` in `Ledger` and `InvoiceRun` is a stuttering step when every request has
been answered, so deadlock checking stays on: any other stop is reported.

### Fairness

Weak fairness of every step of a request (a thread that can run does, every
call to another service has a timeout, PostgreSQL's deadlock detector breaks
cycles, the hold is a sleep of fixed length), of the watchdog's loop, and of time
(a heartbeat grows old). None for clients, operators, crashes, resets or
network failures: nobody has to send, trip or die. Weak fairness is enough for
`LockEntry` in `ledger_mixed`: once nobody can take the lock before, the
step stays enabled; sessions are finite, so no one overtakes for ever.

In `denials` the watchdog's loop is weakly fair, and the two queries of the decision
log strongly: each may fail, and the one in front keeps the other from being asked,
but a database that works again and again answers each of them some time. In `audit`
the same holds of `Compare`, which a read of MinIO may cut off; services are not
fair at all. In `upload` every handler of the backend is strongly fair, since the
event loop is free again and again and serves those that are ready; nothing is
assumed of sandbox-runner, Docker or the containers.

### What disagrees with its documentation

`findings` in `PROJECT.json` has each with the line it contradicts. Three are runs:
the rejected run that is halted, the single approval of a first-seen vendor, the
fork of an untouched chain. The others are met in the models and stated there by a
weaker property that is true: the 500 of a lost race for a key, where a refusal
would be in order (`ReplyTruthful`), the balance of an account named twice by one
payment (`BalanceMatchesEntries`, for requests that name each once), the rate limit
(`ApprovalsBounded`), the rounding of the 5,000 dollar threshold
(`AllowsMeanPolicy`), the finding that a failed append loses (`dropped`), the
untouched entries that do not verify, since jsonb changed them or the hash in front
of them was changed (`NoFalseAlarm`), the two spellings of a vendor
(`OneRowPerVendor`), the payment that a later write goes over and the loader that
counts its awards twice (`SummaryAddsUp`), the canary row that a restart skips
(`CanaryTrips`), the graph run on the empty text of a failed OCR (`Run`), and the
authority of the approver that nothing looks at.

## 4. Proofs

`tlapm` checks these for every value of the constants under the named `ASSUME`s;
TLC evaluates those assumptions in the runs.

**LedgerProofs.** The safety invariants are not inductive: `NoOverdraft` says
nothing of the balance a session is about to write. `LedgerInv` adds what is known
half-way. `LocksHeld`: only sessions that validate or have flushed hold locks.
`ResultsCurrent`: every result a session has computed is still the current balance
plus its entry, and its row is locked by that session. `FlushedReady`: a flushed
payment is validated and balanced, its key unposted and in no other session's hands.
`OwnersDone`: each transaction was left by the session it is named after, which did
not answer with a refusal. From it follow `TypeCorrect`, `NoOverdraftEver` and
`KeysPostedOnce`, without assumptions on requests; `RepliesTruthful` when no request
names an account twice on one side (then the entries' constraint fires and the code
reports a duplicate that is none); and `LedgerImplementsBook` when requests name an
account once and count whole cents, as the backend's do. The first of these is
needed: of two entries on one account the code keeps only the balance of the last.

Two more theorems rest on the same two conditions and on the refinement, since
they look at a commit as one `Post` of the book. `BooksBalance`: the balance of an
account is its opening plus the sum over its posted entries; a commit adds to
that set the one entry that names the account, or none (`PostedGrows`).
`TrialBalanceKept`: over all accounts debits and credits differ by what they
differed at the opening; a commit moves each of its accounts by one entry, the
moves add up to the debits less the credits of the request, and that is nothing
(`BalancedCancels`, `MovesCancel`).

`CyclesNeedDisorder` holds for all requests. `LocksListed` says that a lock is held
for an entry its session is through with, so whatever a session waits for comes
later in its request than all it holds. If the requests of a cycle followed one
order of the accounts, take the member that waits for the highest account: its
holder waits for one that is higher still.

**SumFacts.** The library's theorem about a fold over a set takes an operator as a
parameter, which the provers cannot instantiate. The facts about sums used here are
proved without it, by a smallest counterexample: a nonempty family of subsets of a
finite set has a member with no other inside it (`SmallestSubset`), and taking one
index out of a smallest set at which a sum goes wrong gives a smaller one. So: the
function that adds up exists and is unique (`AddsExists`, `AddsUnique`), a sum does
not depend on the order in which indices are picked (`SumRemove`), and it follows
what is added, changed, joined, negated or moved (`SumAdd`, `SumRaise`, `SumUnion`,
`SumNegate`, `SumMoves`).

**PolicyServiceProofs.** `AllowMeansPolicy` is a statement about the policy files
alone, for every request whatever. `PolicyInv` says that a decision still Allow
has passed Cedar (`CedarPassed`), that a call in flight and not halted is clear,
and one past the switch and still allowed has been (`ClearUnlessHalted`), and
that a call's row stays where it was written (`RowKept`).
`HaltsRespected`, `AnswersLogged` and `AllowsKeepPolicy` follow. For the rate
limit the invariant is `PendingBounded`: a vendor's logged approvals and the
calls that passed the count and are not logged yet are together fewer than limit
plus workers. It is kept because the last call to pass saw fewer than the limit
logged, and no more than all workers can be pending. `ApprovalsStayBounded` is the
sharpest true form of the documented limit, which overlapping calls do pass.

**InvoiceRunProofs.** `RunInv` follows an amount from its approval to the ledger. An
approval is given for a thread and an amount and never taken back; `CopiesBacked`
says that an execution at the payment node carries an amount that has one,
`CheckpointsBacked` the same of a checkpoint whose next node is the payment, so that
a rerun from it finds its approval, and `PostedBacked` of what was posted. An
agent's own approval is routine because `CedarAllows` says so
(`AgentApprovalIsRoutine`). `HoldsCleared`: whoever is past the recheck was not
stopped at some moment since its hold ended, and whoever is waiting for it is
stopped now or was not at some moment. `SettledIsPosted` and `PayerSettles`: nobody
is settled before the commit, and whoever committed can only answer settled or fail.
From it follow `PaymentsApproved`, `HoldsRespected` and `AnswersTruthful`, for any
executions of any threads. `EndedRunsPaused` assumes that control-plane can be
reached (`~Outages`): a lost pause post is never sent again. Its invariant
`EndsPaused` is that a thread whose newest checkpoint is a terminal end is paused,
or some execution in flight will pause it or write a newer checkpoint: whoever
unpauses a thread has still to write its own.

**DenialWatchProofs.** `DenialWatch` extends `PolicyService`, and the proof cites
the lemmas on `PolicyInv` for the service's steps. A loop acts on a query that has
aged, so `WatchInv` remembers why each row of it is there: `OffendersJustified` says
an agent still to be paused had its denials at some hour so far, which stays true as
the log only grows and its rows are dated (`LogDated`); the canary rows still to be
acted on are rows of the log. `HaltsHaveCause` and `WatchTypeCorrect` follow. The
assumption used is that the entries the watchdog trips, the global stop and a pause
of each agent, are among those that may be tripped.

**AuditLogProofs.** That an entry nobody damaged verifies is false with overlapping
appends, so `AuditInv` says how far it is true. `WritersMet`: two writers in flight
are both contended. `LoneWriterIsLast`: one that is not contended continues the
newest row and, once inserted, has the highest id. `OvertakenIsContended`: a row
whose id passed that of a writer still in flight is contended. So a commit leaves
each row linked to the one before it or contended (`Linked`), also in the watchdog's
snapshot, and whatever `Compare` finds is `Excused`: damaged, contended, inexact, or
behind a row whose stored hash was changed. Excuses are never withdrawn, which
carries them through the findings, the appends of the findings and the watchdog's
memory. That a finite set of ids has a largest one is `MaxOf`, from the
well-foundedness of strict subsets. `CopiesFirst`, `AlarmsExcused` and `TypeCorrect`
follow, for any number of services.

`TransitionsOnly`, that the findings on an entry alternate, counts them in the order
of their ids, so `FindingsInv` follows a finding from the comparison to its row:
`FindingsDue` says that one on its way agrees with what the watchdog knows and is
the next kind for its entry, `OneFindingPerRow` that no other one for that entry
waits, `NewestFinding` that once inserted its id is above those of all findings, and
`ComparedAlone` that nothing is compared while findings are on their way. The parity
of the number of findings is then what the watchdog knows (`Parity`,
`VerdictsCounted`).

**VendorHistoryProofs.** `VendorInv` says what a request in flight knows of its
vendor. `FoundExists`: the row it found is still there, for nothing deletes one.
`FirstsMet` and `StillFirst`: if it found none there is none, or two payments raced
(`raced`), or the loader brought one. `FlushedAlone`: nobody else has the name of
what is flushed. `Unrecorded`: its payment has no row yet; with that the types
include that no two rows share an id. `UpsertsCounted` bounds the loads of an award
by the runs of the loader. `VendorsStaySingle`, `LoadsBooked` and `TypeCorrect`
follow, for any payments, spellings and awards.

The summaries need `SummaryInv` besides. `AddsUp(n, summary)` says of a summary that
its count and its total are those of one set of the vendor's payment rows and of
some loads of its awards, and that nothing is missing from them but what was
committed while a request had read the row. A request writes what it read earlier
plus its payment, so `ReadAddsUp` says the same of what each request has read: when
something is committed in between it is by definition overlapped, and may be missing
from then on. The sums change by one payment or one load at a time (`SumFacts`).
`SummariesAddUp` follows, for amounts of either sign. With one payment at a time it
says that the summary is exact.

**ImageUploadProofs.** `UploadInv` says that an image is given to the sandbox once
(`CalledOnce`), that its volume is there before its container (`VolumeHeld`), that a
call ends with an answer, an error if it lost track of its container (`AnswerKept`),
and that an upload whose text is back was seen without a halt since or is halted now
(`ClearUnlessHalted`). `BoxesEnd` and `HaltsSeen` follow.

**Only model-checked.** Liveness (`EveryRequestAnswered`, `EveryRequestReturns`,
`AbandonedRunHalted`, `RepeatedDenialsPaused`, `CanaryTrips`, `BreakRecorded`,
`EveryUploadReturns`): fairness and `ENABLED` are beyond the prover. Every safety
property of a passing run has its theorem.

## 5. Not modelled

Components: the evaluation gate (one sequential batch that scores prompts and sets
an alias), the model clients, guardrail, PII filter and tracing (text in, text out,
nondeterministic inputs of `InvoiceRun`), identity and tokens, the console (pages
and proxies whose requests are the models' inputs), deployment scripts.

Within modelled components: HTTP keys and identities, audit calls (their failure is
swallowed and changes nothing in the caller), metrics, `/reload`, read-only
endpoints, contents of model answers, the websocket stream, and the loader's invoice
corpus, one upsert per record that no service reads. Session halts are not part of
`PolicyService`, since its code does not look at them. In `AuditLog` rows are
changed and put back, never removed or inserted, and a commit either happens or not;
one whose answer is lost looks to the caller like the first. In `DenialWatch` a
decision's id and its commit are one step, so a row that commits late, below the
watermark, does not occur. In `VendorHistory` a payment is recorded once, as the
idempotency key of the ledger has it.

## 6. Plan

Done: the ledger with its abstract book and proofs; the policies and the decision
point with proofs; the payment graph with the kill switch and the watchdog; the
checks of the decision log; the audit log; the vendor history with its loader;
uploads through the sandbox.

Also done: theorems about every one of these components, with the inductive
invariant of each.

Left, in this order:

1. `/reload` in `PolicyService`, with two policy sets: what an overlapping call is
   decided by is one of the two, which the decision log does not tell.
2. A decision's id and its commit as two steps in `DenialWatch`, so that a row that
   commits late falls below the watermark.
