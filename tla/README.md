# A verification of meowpayments

meowpayments takes crypto payments for a shop: an operator creates a payment,
the NEAR Intents 1-click API provides a deposit address, a poller follows the
swap, and subscribers (WebSocket clients, the shop's callback URL) hear of every
change. This directory models the parts of the Go service where concurrency,
failures and ordering decide whether that works, checks the models with TLC and
proves the central facts with TLAPS.

Paths below are relative to `src/internal/` unless they say otherwise.

## Inventory

| part | state | operations | talks to |
|---|---|---|---|
| Payment store (`store/postgres`) | tables `payments`, `payment_events` | Create, Update (whole row), AppendEvent, MarkExpired, ListActive, GetByID, List, GetEvents | everyone below calls it; no transaction spans two calls |
| Payment handlers (`api/handlers/payments.go`) | a row in memory per request | Create, Cancel, SubmitDeposit, reads | store, 1-click client |
| Poller (`worker/poller.go`) | the listed batch, the payment in hand | pollAll, pollOne, reapExpired | store, 1-click client, dispatcher |
| Dispatcher (`worker/dispatcher.go`) | none | OnStatusChange | hub (twice), callback sender |
| Callback sender (`worker/callbacksender.go`) | a queue of 256, a worker pool | Enqueue, Run, worker, deliver, post | the shop over HTTP |
| Hub (`hub`), handlers (`api/handlers/websocket.go`) | rooms, three control channels, a channel and a goroutine per connection | Register, Unregister, Broadcast, Run, writePump | browsers |
| 1-click client (`oneclick`, `http`) | none, the API has all of it | Quote, Status, SubmitDeposit, Tokens, retries | the 1-click API |
| Token cache (`oneclick/tokencache.go`) | the token list and its age | All, ByAssetID, refresh loop | 1-click client |
| Process (`cmd/server/main.go`) | the context | start, SIGTERM | all goroutines |

Server, authentication, CORS, configuration, DTOs, migrations runner, example
shop and Python tests keep no state that interleaves with anything; they are in
`PROJECT.json` as not modelled.

What is hard here, and what each part owes its users:

* **Whole-row writes of stale copies.** A cancel and the poller read a row, think,
  and write every column back. Which rows can still change afterwards, and what
  do events and announcements say of them?
* **Half-done sequences.** Update, AppendEvent and OnStatusChange are three steps;
  each can fail, succeed and report failure, or be cut off by a crash.
* **An external API with its own mind**: lost answers, blank answers, retries.
* **Fixed limits**: batches of 500, `POLLER_MAX_FAILURES`, channels of 64 and
  256, callback retries.
* **Channels between goroutines** with a `select` that chooses at random:
  subscriptions and unsubscriptions may cross.
* **A shop that is slow or silent**, with a request still on the wire when its
  retry is sent.
* **A cache many refresh at once**, without a lock while they ask.
* **Numbers at the ends of an int64**: deadlines in nanoseconds, amounts in units
  of 10^-18.
* **A SIGTERM that ends the workers and not the requests.**

`PROJECT.json` lists every such hazard at its line with the properties that would
catch it, or why none does yet.

## Modules

| module | models | instance |
|---|---|---|
| `PaymentStatus` | statuses, their mapping and the terminal test (`oneclick/models.go`) | used by the next ones |
| `PaymentLedger` | abstract: what may be recorded and told of a payment | |
| `PaymentLifecycle` | table, handlers, poller with reaper, 1-click API, crashes, the stop; implements `PaymentLedger` | `MCPaymentLifecycle` |
| `PaymentLifecycleProofs`, `PaymentLedgerProofs` | theorems about it, and the refinement | |
| `PaymentTrailProofs` | theorems that relate rows, events and notices | |
| `Hub` | hub, WebSocket handlers, the dispatcher's broadcasts | `MCHub` |
| `HubProofs` | theorems about it | |
| `CallbackDelivery` | abstract: the contract with the shop | |
| `CallbackSender` | queue, workers, retries, shop; implements `CallbackDelivery` | itself |
| `CallbackSenderProofs` | theorems about it, the refinement's safety among them | |
| `TokenCache` | the token list, its readers and the refresh loop | itself |
| `TokenCacheProofs` | theorems about it | |
| `Retrier` | the steps of the retry loop, for any calls | extended by the next one |
| `QuoteRequest` | the deadline and the quote of one POST /v1/payments | `MCQuoteRequest` |
| `RetrierProofs`, `QuoteRequestProofs` | lemmas about a retried call, theorems about a request | |

The modules meet at the dispatcher: `PollAnnounce` of `PaymentLifecycle` is one
call of `OnStatusChange`, of which `DispatchPayment` and `DispatchGlobal` of `Hub`
and `Enqueue` of `CallbackSender` are the two ends. Dispatching never blocks, so
each module can be checked with the others replaced by "a change is dispatched
at any time". `CreateQuote` of `PaymentLifecycle` is a whole behaviour of
`QuoteRequest`: it either fails and leaves no more than unused deposit addresses, or
comes back with one. The end of main's context is `Stop` in `PaymentLifecycle`,
`CallbackSender` and `TokenCache` and `HubStop` in `Hub`; nothing is shared by the parts
that it ends but the dispatcher, which ends nothing.

Definitions named as a `Faulty form of` something are the bugs the properties
were tried against: with the faulty definition in place the property named for
it fails.

### PaymentLifecycle

One action per stretch of code between two calls to store, API or dispatcher:

* `CreateQuote`, `CreateInsert`, `RequestLog` are `Create`; `CancelLoad`,
  `CancelUpdate`, `RequestLog` are `Cancel`. A request goroutine between them holds
  a `Job`: the row it will write and the status it read.
* `PollAll` lists a batch, `PollStatus` asks the API, `PollUpdate` writes the row,
  `PollLog` appends the event, `PollAnnounce` is OnStatusChange; `PollDone` ends the
  batch. `WillAnnounce` is the difference between the two branches of `pollOne`: the
  ordinary change goes on only if its Update succeeded, giving up always does.
* `Reap` is MarkExpired, one SQL statement.
* `UpstreamStep`, `Deadline` and `SubmitDeposit` are the API, the clock and the
  customer; `Crash` loses everything in memory.
* `Stop` is SIGTERM: main's context ends and the poller's with it, while the server
  goes on serving. The poller drops its batch but for the payment it has in hand. A
  status call that was under way fails (`PollInterrupted`), an Update under way fails
  with or without effect (`PollerFault`), no event is appended any more, and an
  announcement that is due is still made.

A row is abstracted to status, failure count and kind of failure reason;
`last_polled_at` to the order it gives (`fresher`). `PollUpdate` writes all of them
at once, as the SQL does. Faults are counted (`MaxFaults`) and remembered by kind
(`suffered`), so that a property can say "as long as no store call was lost" in the
middle of a run with every fault enabled: `"store"` (no effect, error),
`"ambiguous"` (effect, error), `"upstream"`, `"blank"` (2xx without a body, which
the transport accepts), `"crash"` and `"stop"`.

### PaymentLedger

The ledger knows of a payment its recorded status, whether some writer holds it,
what was last told of it, where its swap is and whether it is overdue. A writer takes
up only active payments, may record something at any later time, and records
COMPLETED or REFUNDED only of a swap that ended so. `PaymentLifecycle` implements it
(`KeepsLedger`) under the mapping

| ledger | lifecycle |
|---|---|
| `status[p]` | the row's status, or `ABSENT` without a row |
| `held` | payments in the batch, in the poller's hands, or in a request's that loaded them |
| `told[p]` | `announced[p]` |
| `swap`, `overdue` | `upstream`, `due` |

so that every race of the detailed module (a cancel over a completion, an expiry
under a poll, a stale row after a crash) is one of the steps the ledger names: what
the system promises in spite of them is what the ledger promises.
`OutcomesAreReal` is the sentence of it that matters most to a customer.

### Hub

`subscribe`, `unsubscribe` and `broadcast` are the three channels; `hub` is the
goroutine of Run, whose `select` is the disjunction of `HubStep`. A full channel
disables `Register` and `Unregister` and makes `Broadcast` and `SendTo` drop. A send on
or a close of a closed channel sets `hub` to `"panicked"` and ends the behaviour.
A request's context may end at any time after `Register`, as in the code, and so
while the subscription is still queued. `select` may then take the connection's
Unregister before its Register; the history variable `crossed` remembers of which
connections it did, and the properties say what holds of all the others.

### CallbackSender and CallbackDelivery

A change is in the queue, in a worker's hands or over; `wire` holds requests the
shop may still see, also after their worker timed out. The refinement maps `fate`,
`receipts`, `accepted` and `stopped` to themselves: the contract is what remains of the
module when queue, workers, attempts and wire are forgotten.

### TokenCache

`All` and `LoopRefresh` begin a refresh, each for itself and with no lock held; `Answer`
is the API reading its list, `Retry` an attempt whose answer was lost, `Fail` and `Store`
the two ways `client.Tokens` comes back. `Store` replaces list, map and time stamp
together, as the code does under its lock, whatever another refresh stored meanwhile.
Time is measured in ages that `Tick` increases all at once, up to the bounds they are
compared with; `MaxFetch` is the longest a call takes (in the code three attempts of
30 s and 1.5 s of back-off). A blank 2xx answer makes an empty list, which is stored
like any other.

### Retrier and QuoteRequest

`Attempt`, `Answer`, `BackoffOver`, `LoopEnds` and `GiveUp` are the loop of `run`; `Execute`
is the API carrying the attempt out, with or without the answer arriving, and
`ExecuteLate` an attempt given up that reaches the API later. `QuoteRequest` runs the loop
twice, for the token list (`Begin`, `TokensBack`) and for the quote (`PostBack`), both
under the request's one context (`RequestEnds`).

Integers have the width `MaxInt` gives them: `Wrap` is int64 multiplication, `ToInt64`
the conversion of a float64, which out of range gives the smallest or the largest
int64 depending on the processor. Sums and prices are whole numbers, or `Infinity` for
a sum out of the range of a float64, whose parsing error the code ignores. What the
code computes of them, five roundings to a float64 and `math.Ceil`, is any whole number
the exact product may round to (`Units`): rounding is off by at most one part in
`Precision`, about 2^50 in the code and at least 201 in the assumption, which is as
coarse as the 0.5% of line 83 can bear.

## Runs

States are distinct states; times are for two workers.

| run | instance | shows |
|---|---|---|
| `lifecycle_race` | 1 payment, 2 requests, 2 faults of any kind, 1 failure allowed; 816k states, 70 s | `SettledIsFinal`, `NoticesAreFinal`, `AuditTrailExplains`, `AnnouncedMatchesRow`, `ReasonMatchesStatus`, `NoExpiryAfterDetection`, `OutcomesAreReal`, `KeepsLedger` |
| `lifecycle_live` | 2 payments, batches of 1, a crash or a blank answer; 206k states, 80 s | `EventuallySettled`, `UnpaidExpires` |
| `hub_feeds` | 2 connections, 2 payments, 2 messages, channels of 1 and 2; 856k states, 35 s | `FeedTellsTheRoom`, `PanicNeedsGhost`, `UnregisteredIsOut` |
| `hub_live` | 2 connections, 2 messages, channels that just suffice; 41k states, 90 s | `HandlersProceed`, `PumpEnds`, `EventuallyDelivered` |
| `callback_contract` | 3 changes, queue of 2, 2 workers, 2 attempts, a stop; 20 s | `EachInOnePlace`, `TakenInOrder`, `QuietOnceDone`, `KeepsContract` |
| `token_cache` | 2 readers and the loop, TTL 1, calls of up to 2; 199k states, 25 s | `FreshEnough`, `Converges` |
| `quote_request` | 3 attempts, 15-bit integers, 3 prices; 1.18M states, 60 s | `AsksNoMoreThanNeeded`, `TellsTheOutcome`, `DeadlineAhead`, `NoQuoteWithoutList`, `OrphansWereUnanswered`, `WorthTheSum`, `QuoteReturns` |

Five runs end in a violation: each checks what a comment of the repository says
and the code does not do (`findings` in `PROJECT.json` quotes the lines).

| run | the comment | the code |
|---|---|---|
| `lifecycle_revived` | a terminal status has no further transitions | stale whole-row writes change terminal rows |
| `lifecycle_reversed` | OnStatusChange follows a transition | giving up announces FAILED although its Update failed |
| `lifecycle_silent` | the callback URL hears of a terminal state | cancel and expiry tell nobody |
| `hub_ghost` | Unregister removes a connection from all rooms | an Unregister taken before its Register leaves a ghost, whose next message panics |
| `quote_amount` | the amount is the ceiling of the quotient | beyond 2^63 - 1 it is whatever the conversion gives |

`hub_ghost` and `hub_feeds` check the same behaviours: the first what the comment says
of every connection, the second what is true of those whose Unregister came second.
`quote_amount` allows for the rounding: its trace has an amount an int64 cannot hold.

Two more comments are not kept, without a run of their own. `oneclick/retry.go`:31 says
that client errors are not retried, and line 33 exempts only 400 and 401 (`Refused`):
a 404 is asked for three times. And the amount is the ceiling `oneclick/client.go`:77
defines only up to rounding: for one unit of a token of 18 decimals at a price of one
the code asks for a little less than 1.005 * 10^18. `WorthTheSum` is what remains of it.

### Why the bounds are enough

* Rows do not influence each other except through ListActive's limit and the
  UNIQUE address: safety needs one payment, `lifecycle_live` has two and a batch of
  one, the smallest instance in which one payment can starve another.
* Two requests are needed for two cancels to overwrite each other, and a third
  writer is the poller; the proofs cover any number of each.
* Two faults suffice for the pairs that interact: a failed status call and a
  failed Update, a lost commit and a crash. With `MaxPollFailures = 1` one failed
  status call gives up; `lifecycle_live` has 2, so that the count itself is carried
  from poll to poll.
* `lifecycle_race` uses the raw statuses PENDING_DEPOSIT, KNOWN_DEPOSIT_TX, SUCCESS
  and REFUNDED: one before detection, one after, and the two ends a ledger may not
  make up. PROCESSING and INCOMPLETE_DEPOSIT lead to statuses the code treats as
  DETECTED, and FAILED is reached by cancels and by giving up; the theorems cover all
  of them.
* In the hub two messages and channels of one make every overflow happen; two
  connections are needed for one handler to block behind another's entry.
* Three changes overflow a queue of two before a worker takes any, and two workers
  with two attempts can overtake each other.
* A refresh can overtake one other, and the loop is a third party; with `MaxFetch`
  above `TTL` a list is stale before it is stored. The proofs cover the rest.
* 15-bit integers with 4 nanoseconds to the second keep the proportions that decide:
  an hour fits (14,400 of 16,383), and the numbers of `MCRequests` lie on both sides of every overflow, of
  the deadline and of the amount. Three attempts are the code's. `Precision` is 500, so that
  the amount at the price of 37 has three values, and without the 0.5% the smallest of
  them would not be worth the sum.

### Fairness

* Poller: `WF(PollerStep)`, the fast ticker fires for ever, the HTTP client of the
  status call has a timeout and its back-offs end. The statements run under main's
  context, which has no deadline: that the database answers each of them some day, if
  only with an error, is assumed and not the code's doing. `SF(Reap)`: the expiry tick waits in its channel and
  `select` chooses at random among ready cases, so it is taken if it is ready again
  and again, although between two looks the poller is busy. Handlers, the API and
  the customer owe nothing.
* Hub: `WF` of each `select` case and of the write pumps (writes have a timeout of
  ten seconds), `SF` of `Register` and `Unregister`, because Go serves blocked senders
  in their order.
* Callback sender: `WF` of each worker, whose HTTP client has a timeout. The shop
  owes nothing.
* Token cache: `WF` of the loop's ticker and of the API's reading of each call, `SF` of
  each call's return, because attempts are limited and each has a timeout: losing
  answers again and again does not keep a call from coming back.
* Quote: `WF` of the handler's goroutine, whose HTTP calls have a timeout and whose
  back-offs end; the API owes nothing.

Deadlock is checked in `lifecycle_live`, in `token_cache` and in the lifecycle runs that end in a
violation. In the others the system may stop: main's context ended and no request
comes, a bounded number of changes was dispatched, a panic ended it, or a call
returned.

## Proofs

`PaymentLifecycleProofs`, for any payments, requests, limits and faults:

* `TypeCorrect` (`TypeOK`) and `RowsAreCoherent` (`ReasonMatchesStatus`). Neither is
  inductive: a row is written from memory, so what must hold of the table must hold
  of every copy. `IInv` says of the table, of the batch, of the poller's job and of
  each request's job that a row still active has failures left and a row with a
  reason is FAILED (`Sound`), and of the batch that it was active when listed. The
  failure count stays below its limit only because of the last part: a FAILED row is
  not counted further.
* `SettledStaysFinal` (`SettledIsFinal`), action by action from `IInv`: whoever writes a
  row holds it.
* `TerminalNoticesAreFinal` (`NoticesAreFinal`). Under the condition that no store call
  was lost so far, `NoticeInv` is inductive: the poller holds a payment at most once
  (`PolledOnce`), cancels only write FAILED (`CancelsFail`), an end about to be announced
  is in the table (`EndRecorded`) and an announced end is in the table and out of the
  poller's hands (`NoticeBacked`). The condition is monotone, which turns it into a
  theorem of the specification without an assumption on the constants.

`PaymentLedgerProofs`, under the same assumptions:

* `LedgerImplemented` (`KeepsLedger`): initial states map to initial states, each
  action of `PaymentLifecycle` to one of the ledger or to a stutter. What `IInv` lacks
  for it is that whatever a writer is about to record or announce is reportable;
  this holds of every job because raw ends are never taken back. The second instance of
  `PaymentStatus` inside the ledger is shown to be the same vocabulary once, in
  `SameVocabulary`.
* `OutcomesAlwaysReal` (`OutcomesAreReal`), which follows.

`PaymentTrailProofs`, under the same assumptions, has the properties that relate the
table to what was written or said of it elsewhere. None is inductive, because a
row can be overwritten by a copy read before; each needs the property of every
copy, of the batch, of the poller's job and of each request's job, too:

* `TrailAlwaysExplains` (`AuditTrailExplains`). `TrailInv` says of the status of the row
  and of every copy, and of the status each event says was left, that it is
  `Explained`: an event names it, or a goroutine is about to append one that does.
  Expiry is the exception throughout.
* `NoticesMatchRows` (`AnnouncedMatchesRow`). `BeliefInv` says that every copy the poller
  lists, and the status it compares an answer with, is what subscribers were last told
  (`Believed`): rows nobody told them of were cancelled or expired, and those are not
  listed. It needs that a cancel leaves its reason (`CancelsSayWhy`) and that the poller
  holds a payment once (`PolledOnceAlways`).
* `DetectedNeverExpires` (`NoExpiryAfterDetection`). The swap of a payment recorded as
  detected is past `AWAITING_DEPOSIT` for good (`Seen`, `SeenStays`, `DetectionsReal`), and
  requests never record a detection (`RequestsDetectNothing`), so no later poll and
  no stale copy leads back to a status the reaper takes.

The first two hold as long as no store call is lost and the process lives, the
third as long as no answer is blank. Those conditions are about `suffered`, which
only grows, so each invariant is an implication whose premise, once false, stays
false: they are no assumptions on the constants.

`HubProofs`, for any connections, rooms and capacities:

* `TypeCorrect` (`TypeOK`).
* `OnlyGhostsPanic` (`PanicNeedsGhost`) and `UnregisteredStaysOut` (`UnregisteredIsOut`),
  whenever contexts end. The invariant `HInv` follows each connection through its
  `Stage`s: in each queue at most once, unregistered at most once, and once its channel is
  closed in no room and not waiting for one, unless it is in `crossed`. Hence no
  channel is closed twice, and whoever is sent to with a closed channel is a ghost
  (`ClosedMembers`). Whether there are ghosts is up to `select` and the contexts;
  `hub_ghost` shows that there can be.
* `FeedsTellTheRoom` (`FeedTellsTheRoom`). The messages that
  wait for the hub are in order for each room (`WaitingInv`), a change on its way to
  the operators is the last one made and not queued for them yet (`HalfwayInv`), a
  connection is a member of its own room only (`RoomsInv`), and all it has heard of
  comes before all that still waits for its room (`HeardInv`). `FeedStep` shows that
  write pumps move messages along a feed without changing it and that the hub alone
  adds to it, at its end.

`CallbackSenderProofs`, for any workers, queue capacity, attempts and shop. `SInv` has
three parts that need each other. The queue is sorted and holds what was announced
(`QueueInv`); what is queued or held is pending, in one place (`PlaceInv`), and what is
pending is somewhere until a stop (`FoundInv`); and the requests for a change, those
the shop has handled and those on the wire together (`Requested`), are no more than the
attempts of the worker that holds it and at most `MaxRetries` after it let go
(`RequestInv`). The last is what bounds late arrivals, which no worker waits for any more.

* `TypeCorrect` (`TypeOK`), `NoneForgotten` (`EachInOnePlace`), `OrderKept` (`TakenInOrder`,
  inductive together with `SInv`) and `LastWord` (`QuietOnceDone`).
* `ContractKept`: `Spec => Delivery!Spec`, the safety half of `KeepsContract`. An attempt that
  reaches the shop is a `Receive`, however late; the end of `deliver` is a `Finish` unless
  it forgets; queue, workers and wire are stutters.
* `LogIsTrue`, proved of `CallbackDelivery` alone and carried over by `ContractKept`:
  "delivered" only if the shop took it, "dropped" only if the shop never heard of it.

`TokenCacheProofs`, for any readers, TTL and length of a call: `CacheTypeAlways`
(`TypeOK`) and `FreshEnoughAlways` (`FreshEnough`). The invariant adds that an answer in
flight is no older than its call (`AnswersAreYoung`) and that a list is
at most `MaxFetch` older than its time stamp says (`AgeFromStoring`).

`RetrierProofs` has the lemmas about one retried call among any number: `RInv` says
that only the last answer can be a final one and is then what run returned, that
attempts stay below the limit, and that the API has carried out no more than the
attempts that were not turned down and the current one. `QuoteRequestProofs` has, for
any width of integers, scale, prices and requests, the theorems `QuoteTypeAlways`,
`SettledCallsStaySettled`, `OutcomeTold`, `DeadlineAlwaysAhead`, `ListBeforeQuote`,
`OrphansOnlyUnanswered` and `AmountAlwaysWorthTheSum`, one for each invariant of the run
`quote_request`. Its `QInv` adds to `RInv` that a body was computed from the request
asked (`Made`) and that nothing was asked of the quote endpoint before the list came
(`QuoteUntouched`). The numbers rest on lemmas about wrapping (`WrapGivesInts`,
`WrapKeepsInts`), rounding up (`CeilRoundsUp`) and rounding to a float64
(`UnitsNearQuotient`, from `Within201st`: one part in 201 either way of 1.005 stays between
1 and 1.01).

Assumptions on the constants are the modules' own (`LimitsAssumption`,
`HubAssumption`, `SenderAssumption`, `CacheAssumption`, `RetrierAssumption`,
`QuoteAssumption`): limits (but for `MaxRetries` of the sender, which may be zero),
capacities and units are positive, and an hour of nanoseconds fits an int64.

Only model-checked: the liveness properties `EventuallySettled`, `UnpaidExpires`,
`HandlersProceed`, `PumpEnds`, `EventuallyDelivered`, `Converges` and `QuoteReturns`, and the
liveness half of `KeepsContract` (every pending callback ends while the service runs).
They rest on fairness, hence on ENABLED, which is out of the provers' reach. Every
invariant and every safety action property of the passing runs is a theorem.

## Not modelled

Slippage and addresses; message wording, payloads and signatures; authentication;
the reads (Get, List with its filters and pages, GetEvents); the WebSocket handshake;
the bits of a float64 (its rounding is a bound on the error, numbers below its normal
range are left out); real time, except as order and as ages. PostgreSQL is taken
to execute each statement atomically; the 1-click API is taken never to take back a
final status nor to repeat a deposit address.

Configuration is parsed and not checked: it accepts a `POLLER_MAX_FAILURES`, an
`ONECLICK_TIMEOUT` (none, for Go's client) or an `ONECLICK_TOKEN_CACHE_TTL` (a ticker
that panics) of zero, which the modules' assumptions exclude.

Hub, callback sender and poller under one dispatcher and one context are not
composed in one module: they share no state, what crosses between them is one
non-blocking call, and the product of their state spaces is out of TLC's reach. The
hazards that would need it are listed with the part they bite in.

## Plan

Done, in the order of importance: lifecycle, hub, callback sender, retry loop; then
the abstract ledger with its refinement, the stop, the token cache and the quote;
then the proofs above, of every safety property the runs check. Next:

1. What the violations leave standing: which stale writes of `lifecycle_revived` are the
   only ones that can change a terminal row, as a theorem.
2. An abstract specification of the retry loop (asked at most n times, answered at
   most once), with `Retrier` shown to implement it.
3. An abstract specification of a subscriber's feed, with `Hub` shown to implement it.
