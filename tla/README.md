# Seat booking, verified

TLA+ models, TLC runs and TLAPS proofs for the backend under `src/backend/app`
(paths below are relative to it): a FastAPI service over PostgreSQL that sells
numbered seats, with two background workers, a payment provider that calls back,
a waitlist, a waiting room and idempotent endpoints.

`PROJECT.json` maps every definition to the lines it models and lists runs,
mutants, findings, hazards and theorems; this file says how they hang together.

## 1. Inventory

Everything durable is a row of PostgreSQL; processes share nothing else (Redis
holds rate-limit buckets and carries realtime events). "Correct when" is what
the runs and theorems are about.

| component | state | operations | hard because | correct when |
|---|---|---|---|---|
| seat holds (`services/hold_service.py`) | `show_seats.status`, `held_by_booking_id`, `booking_seats` | `create_hold`, `free_held_seats`, `release_hold` | many users on one seat, several seats per hold, rollback half way | a HELD seat has exactly one live booking, which lists it |
| booking state machine (`services/booking_service.py`, `routers/bookings.py`) | `bookings.status` | `initiate_payment`, `record_payment_pending`, `cancel_booking`, `handle_webhook`, `expire_booking` | the endpoints read a booking without a lock, decide, and write later by primary key | statuses follow the coded edges, a seat is promised once |
| payments (`routers/payments.py`, `mock_payment_provider.py`) | `payments.status` | charge, webhook | webhooks come late, twice, in any order, and after cancel or expiry | kept money and tickets correspond one to one |
| waitlist (`services/waitlist_service.py`) | `waitlist_entries` | `join_waitlist`, `try_offer_freed_seats`, `mark_claimed_if_applicable`, `expire_stale_offers` | runs inside whichever transaction frees a seat; entries are found by seat | one offer per entry, a claimed entry was paid for, offers end, FIFO |
| expiry worker (`workers/expiry_worker.py`) | none of its own | `sweep_once` | races every endpoint; may die between its commits | no seat stays HELD for ever |
| idempotency keys (`services/idempotency_service.py`) | `idempotency_keys` | `run_idempotent` | retries overlap; the handler raises or its process dies | one result per key, same answer to all, every call ends |
| waiting room (`services/queue_service.py`) | `queue_tickets`, signed tokens | `join_queue`, `get_status`, `admit_next_batch`, `verify_admission_token` | a read, then an insert, with no unique key | one open ticket per user; batches admit in order |
| outbox (`services/outbox_service.py`, `workers/outbox_worker.py`) | `outbox_events` | `emit`, `drain_once` | commit order is not `created_at` order; republished after a crash | every committed event is published; views converge |
| realtime view (`routers/realtime.py`, `frontend/lib/useShowSocket.ts`, `frontend/app/shows/[id]/page.tsx`) | a browser's seat map | events applied to the map | late, repeated and missed events; overrides that outlive queries | a free seat is shown as FREE once events stop |
| rate limiter (`core/rate_limit.py`) | a Redis hash per user or address | a Lua token bucket | several API processes, each with its clock; keys expire, Redis may be flushed | at most the burst and the refill are let through, and who waits is served |
| AI agent (`services/ai`) | chat history, audit rows | `run_chat_turn`, tools | tools commit and roll back the session they share with the audit; texts of one transaction have one time | an effect has an audit row; history stays well formed, and is cut between turns |
| authentication, catalog, admin, pricing, frontend pages, metrics, deployment | | | no protocol | not modelled (section 7) |

How they interact. Endpoints call services inside one database session each.
Every service that frees a seat (`handle_webhook` on a failure, `cancel_booking`,
the sweep, `initiate_payment` on a booking past its time) calls
`try_offer_freed_seats` in its own transaction, so the waitlist's state changes
together with seats and bookings. `handle_webhook` calls
`mark_claimed_if_applicable` on a confirmation. `create_hold` and `pay` run under
`run_idempotent`; cancel and webhooks do not. The provider knows a booking by
`provider_ref` only, which exists once `record_payment_pending` has committed.
Each service writes outbox rows in its transaction; the outbox worker publishes
them to the sockets. The provider's charges are tasks of the API process itself: they
die with it, and post to the webhook whether or not the payments row is there. The rate
limiter stands before new holds (a bucket of the user and one of the address) and before the
assistant's turns (one of the user).

## 2. Modules

| module | models | status |
|---|---|---|
| `SeatBooking` | holds, bookings, payments, waitlist offers, sweep: all that touches seats and money | checked, proved, refines `SeatLedger` |
| `SeatBookingProofs` | its theorems | |
| `MCSeatBooking` | instances, and two documented claims the code does not keep | |
| `RowLocks`, `MCRowLocks` | the transactions of `SeatBooking` statement by statement, with row locks | checked, proved, refines `SeatBooking` |
| `PaymentDelivery`, `MCPaymentDelivery` | the charge behind a payment, composed with `SeatBooking` | checked, proved, refines `SeatBooking` |
| `RefinementProofs` | the theorems of `RowLocks` and `PaymentDelivery` | |
| `SeatLedger` | what the seats of a show promise their buyers | abstract |
| `OnceOnly` | what an idempotency key promises | abstract |
| `Idempotency` | `run_idempotent`, statement by statement | checked, proved, refines `OnceOnly` |
| `IdempotencyProofs` | its theorems, the refinement included | |
| `MCIdempotency` | instances | |
| `WaitlistLine` | who is offered a seat: positions, row locks, rollbacks | checked, proved |
| `WaitlistLineProofs`, `MCWaitlistLine` | its theorems; an instance | |
| `Delivery` | at-least-once delivery of committed events | abstract |
| `Outbox` | outbox rows, the outbox worker, and what a page shows of a seat | checked, proved, refines `Delivery` |
| `OutboxProofs`, `MCOutbox` | its theorems; an instance | |
| `AgentTurn` | the tool loop of the assistant over one shared database session | checked, proved |
| `ChatHistory` | what a turn reads of its conversation, and the cut; extends `AgentTurn` | checked, proved |
| `AgentTurnProofs`, `MCAgentTurn` | the theorems of both; an instance | |
| `RateLimit` | the token bucket | checked, proved |
| `RateLimitProofs`, `MCRateLimit` | its theorems; an instance | |
| `WaitingRoom` | `join_queue` and `admit_next_batch` | checked, proved |
| `WaitingRoomProofs`, `MCWaitingRoom` | its theorems; an instance | |

### SeatBooking

State. `seat[s]`, `heldBy[s]` are a row of `show_seats`; `status[b]`, `bseats[b]`
a booking and its `booking_seats`; `lapsed` the bookings whose `expires_at` has
passed; `pay[p]`, `payFor[p]` a payment; `entry[w]` a waitlist entry; `req[r]`
a pay or cancel request between its unlocked read and its commit (what it
decided, for which booking); `snapshot` the offers the worker has read as stale and not yet written.
`overwritten` is the one history variable, read by no guard: the bookings a request
wrote over after their status had changed under it.

A booking is either a walk-in (`Holds`) or the one an offer makes for a waiter
(`Waiters`), which identifies a waitlist entry with the booking of its offer.

Actions. A database transaction that starts with locking or conditional
statements is one action: the rows it decides on are the rows it changes.
Where the code decides on an earlier read, the read is a step of its own:
`get_booking` (`PayRead`, `CancelRead`) and the worker's select of stale offers
(`StaleRead`), followed by `PayCommit`, `CancelHeldCommit`,
`CancelSoldCommit`, `LatePayCommit` and `StaleCommit`. `RecordPayment` is apart from
`PayCommit` because the code commits in between and can die there (`Abort`).
Webhooks take any payment that exists, in any order, any number of times, with any outcome.
`EndBooking` is the one operator for the four ways a booking's
seats come back: it frees them and offers each to some waiting entry of the
seat's section, in the same step, as `try_offer_freed_seats` does in the same transaction.
Which waiter is left open here: `ORDER BY position` and `SKIP LOCKED`
are a matter of their own (see `WaitlistLine`). A cancel or a pay-time expiry frees the seats
its booking holds when the UPDATE runs (`FreedByRequest`): the seats of a booking that expired in
between may have been sold to it by a late payment.

### SeatLedger

What holds, payments, offers, sweeps and cancels amount to for somebody who wants a seat: a seat has
one owner at most, who got it while it was free (`Take`, or `Buy` when a late payment takes its
seats back) or by the step that ended its previous owner's booking (`GiveUp`, with the offers made of
the freed seats); an owner loses its seats all at once or not at all. `SeatBooking!ImplementsLedger`
maps `owner` to `heldBy`. Because of `double` no ledger can vouch for every seat: `spoiled` are the
seats that a booking overwritten by a stale request has ever listed, and `Spoil` says only that once lost
to the ledger they stay lost. A booking that is refunded half
way (`SoldIsExplained`) stays the owner of the seats it had taken: the ledger does not say who has a ticket.

### RowLocks

Why a transaction of `SeatBooking` may be one step. It EXTENDS `SeatBooking`, whose
variables are what is committed, and adds `tx[t]`, the transaction open in session `t`: what it does,
the rows it has locked and the seats its UPDATE has still to visit. `UpdateSeat` waits for the
lock and then evaluates the WHERE again, as READ COMMITTED does; `MissSeat` is a row that does not match;
`Commit` writes. `LockPayment`, `LockBookingOfPayment`, `LockBookingLast` and `BeginSweep` are
the locks on payments and bookings, in the order of each service. `RollBack` is a hold that
lost a seat, a deadlock that PostgreSQL ends, or a dead process. Every step maps to one step of
`SeatBooking` or none under the identity. Left out: the waitlist (its locks are `WaitlistLine`'s) and the share locks of
foreign keys: a hold's are on rows it has locked or inserted, that of a new `payments` row is on its
booking, by a transaction that has locked nothing else.

### PaymentDelivery

`SeatBooking` lets any webhook come at any time. Here it comes from the task of
its charge: `verdict[p]` is what the provider has decided, `due[p]` the posts to
come, `paying` the charges whose `payments` row is not there yet. A post is taken (`Taken` is the
webhook of `SeatBooking`), answered already_processed, or lost: there is no row
yet, the transaction fails, or the API is out of reach (`Post`, `GiveUp`); nothing is posted again.
`ApiDies` ends all tasks; the requests of the process have died before (`Abort`). `missed` is a
history of charges with a post that nobody took.

### Idempotency

`row`, `claimant`, `body` are the row of `idempotency_keys`; `pc[c]` is where
call `c` is in `run_idempotent`; `returned` is a history of handlers that
returned. Every statement is committed at once in the code, so each is a step.
A handler returns or raises (its own effect is `SeatBooking`'s subject); `Crash`
stops a call anywhere and leaves the row. Polling with a sleep is a step that counts up to
`MaxPolls`, the code's 10 s over 0.1 s.

### WaitlistLine

The choice `SeatBooking` leaves open. Here the transactions that free seats
(`Releases`) stay open between their statements: `Offer` locks and updates the
first waiting entry that nobody else has locked, `Commit` makes it OFFERED, `Abort`
gives it back. `Count` and `Insert` are the two statements of `join_waitlist`. The histories say who
was waiting and who had left when an entry joined, and who was passed over
because its row was locked.

### Outbox

One seat, the transactions that change it, and one browser. A transaction's
`created` is the time it began (PostgreSQL's `now()`), its row becomes
`pending` when it commits. The worker selects a batch (`Select`), publishes row by row
(`Publish`) and marks the whole batch in one commit (`Mark`); `Crash` may end it anywhere in
between. An event that is published reaches the page or is missed (its
socket is closed at that moment; Redis keeps nothing). `override` is the page's
`seatOverrides`, `fetched` the seat map it queried; `Load` starts a new page,
`Refetch` runs the query again and leaves the overrides. `Shows` is what the page makes of an
event: of those that matter here only releases name `show_seats` ids, so nothing but FREE is
ever shown by an event. `missed` is a history read by no guard.

Left out: a release by a booking that no longer has the seat (see `double`), whose event
tells FREE of a seat that is not.

### WaitingRoom

A call of `join_queue` looks for the user's ticket, counts and inserts in three
steps; the ticket it inserts has its name. `Look` raises if it finds two tickets
(`failed`). `Select` is the locking query of `admit_next_batch`, `Admit` its
commit, `Die` the end of a worker in between; several workers may run, as the
comments of `expiry_worker.py` provide for. `ahead[c]` is a history of who was waiting when `c` counted,
`passed[c]` of what other workers had locked when `c` was selected. The show is hot from the beginning.

### AgentTurn

A turn is one `POST /api/ai/chat`. `tx[t]` are the rows its session has added and not
committed, `db[t]` those committed; rows are known by kind and number. What a tool
reads and returns is left out: a call is one of seven things it can do to the session:
`Lookup` and `Refuse` leave it, `Act` and `ExpireAtPay` commit everything added so far
(the audit row of the call itself comes after), `PayUnrecorded` has committed and charged when the
commit of its `payments` row fails, `Rollback` undoes what is not committed, `Break`
leaves a session that takes no more statements. `session[t]` and `Usable` say which of them are still
possible. SQLAlchemy expires the objects it has loaded when it rolls back and forgets those it has
inserted, hence the two cases of `Rollback`: the audit row of a stored conversation cannot be written and
the request fails; a new conversation is `lost`, and the turn goes on. As only messages refer to the
conversation, the calls of the same answer still commit and roll back in a lost session, until the
message with their results is added (`agent_service.py:242`); the next flush fails.
A turn begins once the rate limit has let it through (`RateLimit`).

### ChatHistory

The history a turn sends to the model. A text is known by who wrote it, "user" or
"assistant"; `Loaded(c)` are the histories that may be read. They are read `ORDER BY created_at`, which
is the time their transaction began, so the texts of one turn tie and turns overlap: every
order is possible. `Truncated` is `_truncate_history`.

### RateLimit

One bucket; buckets are independent. The script in Redis is atomic, so a call is one
step, `Check(now)`, with a time that the caller read up to `Lag` ticks ago or from
a clock that is that much behind. `Expire` and `Flush` drop the key. Fractions of a token are
counted in units. `allowed`, `start`, `back` and `flushes` count since observation began
(`Observe`, at any time): the bound holds in every interval.
A hold that the bucket of its address refuses has taken a token of its user all the same
(`deps.py:38`); that is a call of the user's bucket like any other.

## 3. Runs

| run | instance | what it shows |
|---|---|---|
| `races` | 2 seats, 2 walk-ins, 2 requests, 2 payments | seats, money and statuses agree under every interleaving |
| `waitlist` | 2 seats, 1 walk-in, 2 waiters, 1 request, 1 payment | offers, their expiry and purchase, what the worker writes over late; holds and offers end; refinement of `SeatLedger` |
| `locks` | 2 seats, 2 walk-ins, 1 payment, 1 request, 3 sessions | which operations can deadlock; refinement of `SeatBooking` |
| `charge` | 1 seat, 2 walk-ins, 2 requests, 2 payments | a ticket was charged for; a customer whose deliveries all arrived paid once, for a ticket |
| `idem` | 4 calls, one with another payload, 2 polls, crashes | one handler at a time, why a key is stuck, refinement of `OnceOnly`, every call that is not killed ends |
| `line` | 4 entries, 2 transactions that free 2 seats each | entries are claimed once; what is left of the order of joining |
| `outbox` | 3 overlapping transactions, batches of 2, crashes, a page | nothing is lost, nothing uncommitted is sent, refinement of `Delivery`, a free seat is shown as FREE |
| `agent` | 3 requests of 2 users, one with up to 4 calls in 2 rounds, histories of 2 texts | audit rows, stored conversations, where a history is cut, every turn ends |
| `room` | 3 overlapping joins of one user, 1 other show, 2 workers, batches of 1 | tickets are admitted once, and all of them; in order but for those another worker has locked |
| `limit` | 2 tokens of 2 units, 1 unit a tick, clocks 2 ticks apart, 9 ticks, 1 flush | calls in every interval are bounded; who pauses is served |

Bounds. Two seats are the least for which a booking can lose one seat and keep the
other; two walk-ins the least that compete; two requests and two payments the least for a double
charge, a cancel that overtakes a payment or two cancels. Two waiters are needed
for a seat offered, lost and offered again. The histories are finite and nothing is
counted, so no state constraint cuts behaviours off. What is symmetric (bookings of one kind, payments,
requests) is declared so in runs that check safety only, never where there is a
liveness property. Four entries and two seats per transaction make a position that is counted twice,
an entry passed over and one left; three transactions are a hold, its release and
a late commit, or a batch and a row behind it (`Limit` 2 stands for 500); three
joins are two that overlap and one that finds both tickets (`Batch` 1 stands for 50);
four calls in two rounds are the least for a turn to lose its conversation, act, lose the audit row and act
again in one answer, and have rounds before and after a session is lost or broken; the two other requests
call no tools, for what tools do is a matter of one session: they share the conversation or must not see it
(`Rounds` 2 stands for 6, `MaxHistory` 2 for 12: three texts are already too many).
Three sessions are a cycle of two and one that waits, or three transactions on two
seats. A bucket of two tokens can be full, half full and empty; 9 ticks fill it, let the
key expire (`TTL` 6 stands for 120 s) and fill it again; `MaxBack` and `MaxTime` bound the only counters. Deadlock checking is off: every
instance stops once its bookings, payments and requests are used up.

Two claims of the repository's documents, comments and tests that do not hold
have a run that ends in a counterexample, and a finding with the quoted line.

| run | claim | what happens |
|---|---|---|
| `double` | no seat has two CONFIRMED bookings (`k6/check-double-bookings.sql:4`, `README.md:17`) | a pay request decides on a booking that is cancelled, and its seat sold, before it writes PAYMENT_PENDING |
| `twice` | of two charges for one booking the extra one is refunded (`booking_service.py:145-149`, `refund-and-payment-policy.md:14`) | a pay request that read HELD writes PAYMENT_PENDING over the ticket another charge has bought, and its own charge confirms the booking again: both are kept |

Two more do not hold either, and a property that does hold says exactly when.
"A SOLD seat has a confirmed booking" (`tests/property/test_invariants.py:127`): a late payment
re-acquires the first of two seats, finds the second gone, and commits the first as SOLD
(`booking_service.py:211`); `SoldIsExplained` allows that, a stale request, and nothing else. A waiter that
reclaims a key re-invokes the handler (`idempotency_service.py:127`): no caller does, and the key
stays in progress; `StuckKeyHasFailure`.

Consequences of the same code that have no run of their own: by a stale write
EXPIRED becomes PAYMENT_PENDING (as in `double`), and PAYMENT_PENDING becomes CANCELLED when a cancel that read HELD
overtakes a payment begun since (`StaleCancel`), though any unlisted transition is "rejected"
(`booking_service.py:12`, and :28 for the second); a lapsed entry may be marked CLAIMED when the next
holder of its seat pays before the worker has expired it; a seat stays
free while somebody waits if the only one waiting was locked by a transaction
that is then rolled back (`skipped`, `missed` in `WaitlistLine`); a waitlist position is a count
of those who wait, so after an offer a newcomer gets the position of somebody who joined earlier and
may be served first, against "FIFO per (show, section)" (`waitlist_service.py:1`): the exception
`gone[a] # gone[b]` of `FifoWhileNobodyLeaves`. That a state change and what clients are told never
diverge (`PLAN.md:22`, `docs/architecture.md:62`) holds of seats that become free only: the event of a hold names
ids of seats where the page looks for ids of `show_seats` (`hold_service.py:113`), those of a sale and of an offer
name none (`booking_service.py:187`, `waitlist_service.py:118`), so a seat that is taken stays as the page has
it until it is loaded again, and one that is freed and offered in the same transaction is shown as FREE while it
is HELD; an override outlives the query that is run again. "Every payment attempt is recorded" (`refund-and-payment-policy.md:10`): a charge has no
row, and no refund, if its request dies before `record_payment_pending`, and stays
PENDING if its only delivery is lost (`missed` in `CustomerIsSquare`); a booking whose charge timed out ends
EXPIRED, by the sweep, and its payment stays PENDING, where the same document has FAILED (`:33`). API clocks that differ let one
bucket refill the same seconds again with each pair of calls (`back` in `AllowedIsBounded`).
"Keeps whole conversation turns" (`agent_service.py:93`) holds of the order in which texts are read,
which may have an answer before its question (`created_at` is that of the transaction).

Of the assistant, two documented claims do not hold, and `AgentTurn`'s properties say exactly what does.
"Every irreversible tool call [...] is audit-logged" (`docs/ai-agent.md:49`): the row is
committed by whatever commits next, and is lost if the model's next answer is an
exception; of the holds, payments and cancellations of a turn in a stored conversation that is the last one at
most (`OlderEffectsAreAudited`), and none if the turn replies (`AnsweredIsAudited`). If a new conversation
has been lost it may be more: in one answer a hold loses its seat, a second is made, a third loses
its seat and rolls back the audit row of the second, a fourth is made. "A bad tool call should
let the model retry/explain, not 500 the whole chat request" (`tools.py:39`): a hold that
loses a seat rolls the shared session back; in a conversation that is already
stored the audit row then reads an expired object and the request fails, in a new one
the messages refer to a conversation that is gone and the final commit fails (`Rollback`,
`Close`). That failure is also what keeps `AnsweredIsAudited` true.

Because `double` and `twice` are real, the seat and money properties that do hold are
stated with the exact exception: `NoDoubleBooking` speaks of the seats of bookings no stale
request has overwritten, `MoneyHasTicket` and `PaidOnce` of such bookings. A request overwrites a booking if its
status has ended or been confirmed since the request read it; `StatusFollowsCode` excepts these, and names the one
other edge off the table, a cancel over a payment begun since (`StaleCancel`).
`HeldHasLiveBooking`, `ConfirmedIsPaid` and the waitlist's hold without exception but
the one stated in `BuyerIsClaimed`: an offer that had lapsed when it was bought.

## 4. Fairness

`SeatBooking!FairSpec` assumes that time passes (`Lapse`) and that the worker
keeps sweeping each booking (`SweepsAreFair`) and reading the stale offers (`OffersAreFair`), weakly fair:
`run_forever` catches every exception and goes on, and its container is restarted. `StaleCommit` is
strongly fair: the worker may be killed between the read and the commit of the stale offers
(`WorkerRestart`), any number of times, but not at that very point of every sweep for ever. Nothing is
assumed of users, requests in flight, the provider or webhooks: `HoldsEnd` and `OffersEnd` (run
`waitlist`) hold though requests die half way. Fairness asks for a step only while it is possible; that what is
due is possible follows from the guards, which the liveness runs evaluate.
`RowLocks`, `PaymentDelivery` and `RateLimit` are checked for safety and assume nothing.

`Outbox!FairSpec`: the worker drains again and again (`Select` weakly fair); it may crash
any number of times, but not at the same event of every batch for ever (`Publish(t)`,
`Mark` strongly fair). Nothing is assumed of transactions or pages.

`WaitingRoom!FairSpec`: some worker goes on selecting (weakly fair), and the workers do not, all of
them, die between selection and commit every time for ever (some worker's `Admit` strongly fair). One
worker may do so. Nothing is assumed of calls: one may stop half way.

`AgentTurn!FairSpec`: a turn that is not killed goes on: the client of the model answers or
gives up after its time-out, and a tool returns. Users need not send anything.

`Idempotency!FairSpec` assumes that a call that is not killed takes its next step:
a handler ends and a statement returns. A killed call takes none.

## 5. Proofs

All theorems are proved for every value of the constants; the assumptions are
that seats are numbered, that names of different kinds differ and, where a count or an order
needs it, that `MaxPolls` or `MaxHistory` is a natural number and that
the seats (`RowLocks`) or the turns (`ChatHistory`) are finitely many. `RateLimit` assumes
that a key lives long enough for its bucket to fill up (120 s against a minute).

`SeatBookingProofs`. `TypeCorrect` first. `SeatInv` is the inductive invariant about
seats: `HeldHasLiveBooking` (each HELD seat's `heldBy` is a live booking that lists it, and each
listed seat of a clean live booking is its own) is not inductive alone, for the late payment
and the cancel of a sold booking act on seats by `booking_seats` and not by
holder; it needs `RowsExist` (a booking that does not exist has no rows, an entry's
offer and its booking exist together) and `NoDoubleBooking` beside it. `EndBooking` is the one step that
changes many rows; lemma `OfferEffect` states once what it does to each seat, booking and
entry, and every case that frees seats cites it. `MoneyInv` links payments to
bookings: a SUCCEEDED payment's booking is CONFIRMED, CANCELLED or overwritten, and of each booking that is not
overwritten at most one is kept. The action properties `PaymentIsFinal` (theorem only) and `StatusFollowsCode`
(each edge from its own action; of the writes of requests, which of them can hit PAYMENT_PENDING) follow from the types
and `RowsExist`. `ClaimInv`: a booking has seats, and the entries the worker has read or written as stale have
lapsed; hence `BuyerIsClaimed`. `SoldInv`: a step that sells a seat is one of three, and only
the late payment that lost a seat leaves it with a booking without a ticket, whose refund (`Explained`) is
final. `LedgerRefinement`: a step that frees seats is `GiveUp`, of all the seats its booking owns, because a clean
live booking holds all it lists (`SeatInv`); the step that overwrites a booking is `Spoil`.

`HoldsEnd` and `OffersEnd` are proved too (`HoldsEndCorrect`, `OffersEndCorrect`), with one premise: that
the steps due are enabled, `[]WorkerNeverStuck`. The prover cannot reason about ENABLED, so the guards of these steps
are left to the reader, and to run `waitlist`, which checks the conclusions without the premise; the theorems say
that nothing else can go wrong: a lapsed booking stays
lapsed and an open offer stays open until it is over (`NextForward`), a sweep takes every seat of its
booking, whoever was offered them (`SweepTakesSeats`), and, however often a snapshot is dropped, each
new one has the lapsed offer in it.

`RefinementProofs`. For `RowLocks` the inductive `LockInv` says that no row is locked twice, that a
transaction has locked only rows it names, and what it knows of the rows it has
locked: nobody else can change them until it commits. Hence a commit finds what the step of
`SeatBooking` asks for (`StatementsImplementTransactions`), and what is proved of `SeatBooking`
holds of the statements (`StatementsNeverDoubleBook`,
`StatementsKeepMoney`, `StatementsKeepLedger`). `DeadlockNeedsSeatsFirst`: in a cycle
without cancels and expiries, a session that waits and is waited for waits for a seat, and the one it
waits for waits for a later seat (`MiddleGoesUp`): take the greatest seat waited for. How many sessions there are
does not matter. For `PaymentDelivery` every step is one of `SeatBooking` or none, so
`MoneyHasTicket` and `PaidOnce` are inherited; `TaskInv` adds that a settled payment has the
verdict of its charge, and that a charge whose deliveries are all made and taken is settled.

`RateLimitProofs`. `GrantInv` is a potential: units taken by the calls that were allowed and units
left are at most a full bucket per flush and the refill of `ts - start + back`; a key that expires
gives away no more than its bucket would have refilled by then. `PauseIsEnough` follows from the types.

`IdempotencyProofs`. `OneRunner` with `AtMostOnce` and `SameAnswer` (theorems only: the runs check the refinement) need to know what became of a
result: a handler that returned is the row's claimant and the row stays
(`ReturnedIsKept`), what is stored is the claimant's (`DoneIsReturned`), and an answer is what
is stored (`AnswerIsStored`). With these, `Save` maps to the abstract `Fix`, `Return` and
the last `Poll` to `Answer`, every other step to a stutter: `Refinement`.
`StuckKeyHasFailure` is inductive with one fact more (`StuckInv`): a call polls only because it has seen a row,
so that a row that has vanished under it was deleted by a handler that raised.

`WaitlistLineProofs`. `ClaimedOnce` rests on locks: what an open transaction has
claimed it has locked, locks are disjoint, and what a committed one claimed has left the line
(`ClaimsInv`). The order rests on the counts: between joins with the same `gone` the count only
grows, so positions do.

`OutboxProofs`. `RowsInv`: a batch is part of what is pending, and what of it is
not left to do was sent; hence `NoEventIsLost`, and every step maps to `Delivery`
(`SafeRefinement`). `FreeSeatIsShown` is not inductive; `FreeIsTold` is: while a
free seat is not shown as FREE, an event that says so is pending and not yet
sent with this batch.

`WaitingRoomProofs`. `NumbersInv`: the maximum is taken over all tickets, so who
waited when b counted has a smaller position (which fails for the count of
`WaitlistLine`); `BatchInv` carries the order from the selection to the commit: who is ahead of a ticket in a
batch is admitted, in the batch, or was locked by another worker when it was selected. `NobodyGetsAhead` is the
same from the side of the one who waits, step by step: the line before a ticket (calls that have counted
and will insert theirs included) never grows, because whoever counts later gets a higher position than
every ticket there is, and a worker that leaves a ticket it could have had takes only from that line.
What `get_status` tells a user who waits is the part of that line that has been inserted.

`AgentTurnProofs`. `AuditInv`: as long as the session is healthy, an audit row that is owed is
committed or in the open transaction; only the fact that a lost or broken session never becomes healthy
again, so that no turn replies from it (`EffectInv`), makes it inductive. `LostInv`: a conversation that was lost
is not stored, then or later. An effect commits what was owed before it unless a rollback has come between, and a
rollback that the turn outlives has lost its conversation: only such a turn has two effects without a row
(`OrderInv`). A step changes one turn, and `StepOfTurn` reduces each
action to the invariant of that turn; what all calls have in common is lemma `EndCallEnds`.
`ChatInv`: a turn adds to its own rows only, in order, and a commit adds all or nothing, so a
stored conversation has no hole (`ConversationIsWhole`); a history that is too long therefore has a
question, and the cut is at the first one that fits or at the last (`CutIsTurnStart`).

Progress. Liveness beyond `HoldsEnd` and `OffersEnd` needs an induction (over the steps a call or turn has
left, over those not yet admitted, over the rows of a batch), and temporal induction over data is out of the
prover's reach. Everything the induction needs is proved, in two parts.

- A measure. Every step of a call (`CallsRunDown`) and of a turn (`TurnsRunDown`) makes its own measure
  smaller, a natural number, and no other's larger. For a call that is at most `2 * MaxPolls + 5` steps: a
  takeover of a vanished row costs a poll. For a turn each round is an answer and at most `MaxCalls` calls.
  For the outbox (`DrainsRunDown`) every selection, publication and commit makes `WorkLeft` smaller, no
  transaction and no page changes it, and a death of the worker loses its batch only: a committed `Mark`
  outweighs the selection and publication of the next batch.
- The step of the induction, under fairness: a call (`CallsGoOn`) or turn (`TurnsGoOn`) with n steps left has
  fewer later; as long as somebody waits, the set of those not admitted becomes a smaller one
  (`AdmissionGoesOn`), though workers die and two of them share the line. The premise of each is that what is
  fair is enabled: `[]CallNeverStuck`, `[]TurnNeverStuck`, `[]AdmissionNeverStuck`, as for `HoldsEnd`.

`RunnersEnd` needs no induction: a call that runs its handler or records the outcome ends, whatever other calls do.

Neither proved nor checked by itself: the four premises `...NeverStuck` (ENABLED). Only model-checked: `CallsEnd`, `EveryTurnEnds`, `EveryoneIsAdmitted`, of
which only the induction itself is left; the liveness of `Delivery` (`DeliversAtLeastOnce`; its safety part is
`SafeRefinement`), of which the measure is proved and not that each batch is worked off; and the claims that fail.

## 6. Plan

Done, in this order: `SeatBooking`, `Idempotency`, `WaitlistLine`, `Outbox`, `WaitingRoom`, `AgentTurn`,
`RowLocks`, `RateLimit`, `PaymentDelivery`, `ChatHistory`, `SeatLedger`. What could still be added:

1. A composition of `RowLocks` with the locks of `WaitlistLine`: a transaction that frees
   seats locks a waiting entry after them.
2. The step of the induction for `DeliversAtLeastOnce`: a batch with rows left to publish gets fewer of them,
   or the worker has died.

## 7. Not modelled, and why

Password hashing and tokens, the catalog, pricing and the admin endpoints have no
protocol of their own: rows are created before the sale and then read. The retrieval part of the
agent scores text. Migrations and seeding run before the system does.
The frontend is presentation, apart from the seat map of section 1; of that page, which seats
are selected and when the hold dialog opens are presentation too (hence "partly").
The admission token is a signed statement that a ticket was admitted, good for 15
minutes; its check before a hold reads nothing that `WaitingRoom` changes. Chat titles, the
lists of conversations and the share locks of foreign keys (`RowLocks`) are left out. A COMMIT that takes effect
and whose acknowledgement is lost is not modelled: a transaction that reports a failure has changed nothing.
