------------------------- MODULE PaymentLifecycle --------------------------
(***************************************************************************)
(* The life of payments in meowpayments: the payments table, the operator  *)
(* requests that create and cancel payments, the background poller with    *)
(* its expiry reaper, the 1-click API they all follow, and the process     *)
(* stopping or crashing between any two store calls.                       *)
(*                                                                         *)
(* The store has no transaction spanning a read and a write: every handler *)
(* and the poller read a whole row, change it in memory and later write    *)
(* the whole row back by its id, whatever happened to it in between.       *)
(***************************************************************************)
EXTENDS Naturals, FiniteSets, PaymentStatus

CONSTANTS
  Payments,         \* payment ids; each comes with the deposit address quoted for it
  Requests,         \* goroutines serving operator requests
  MaxPollFailures,  \* POLLER_MAX_FAILURES
  BatchLimit,       \* the LIMIT of ListActive (500 in the code)
  ApiStatuses,      \* the raw statuses the 1-click API goes through
  FaultKinds,       \* the faults this instance may suffer, see Fault
  MaxFaults,        \* bound: how many faults a behaviour may suffer
  NoJob             \* what a goroutine with no payment in hand holds

ASSUME LimitsAssumption ==
  /\ MaxPollFailures \in Nat \ {0}
  /\ BatchLimit \in Nat \ {0}
  /\ MaxFaults \in Nat
  /\ ApiStatuses \subseteq RawStatuses

VARIABLES
  inserted,   \* ids that have a row in the payments table
  row,        \* row[p]: the columns of p's row that decide its life
  logged,     \* logged[p]: the payment_events of p
  fresher,    \* <<p, q>>: p's last_polled_at is later than q's (NULL is earliest)
  upstream,   \* upstream[p]: what the 1-click API knows of p's deposit
  due,        \* ids whose expires_at has passed
  pollPc,     \* where the poller goroutine is
  batch,      \* snapshots pollAll has listed and not polled yet
  job,        \* the payment pollOne has in hand
  reqPc,      \* reqPc[r]: where request goroutine r is
  req,        \* req[r]: the payment request r has in hand
  announced,  \* announced[p]: last status given to Dispatcher.OnStatusChange
  stopped,    \* SIGTERM has ended the context of main, whose poller it is
  faults,     \* how many faults were suffered so far
  suffered    \* and of which kinds

storeVars == <<inserted, row, logged, fresher>>
worldVars == <<upstream, due>>
pollVars  == <<pollPc, batch, job>>
reqVars   == <<reqPc, req>>
vars == <<storeVars, worldVars, pollVars, reqVars, announced, stopped, faults, suffered>>

-----------------------------------------------------------------------------
(* Rows, events and the payments goroutines hold in memory. *)

NoReason  == ""
Cancelled == "cancelled by operator"
TooManyPollFailures == "too many poll failures"

Row == [status   : PaymentStatuses,
        failures : 0..MaxPollFailures,
        reason   : {NoReason, Cancelled, TooManyPollFailures}]

\* OldStatus of the creation event and announced[p] before any announcement.
NoStatus == ""

\* *domain.Payment as a goroutine holds it: the row it will write and the
\* status it read.
Job == [p : Payments, row : Row, old : PaymentStatuses \cup {NoStatus}]

Event == [type : {"status_change", "error"},
          old  : PaymentStatuses \cup {NoStatus},
          new  : PaymentStatuses]

NewRow == [status |-> "AWAITING_DEPOSIT", failures |-> 0, reason |-> NoReason]

\* An id nobody has asked a quote for, and one whose quote carried no deposit
\* address (the row then stores the empty string, not NULL).
Unquoted  == "UNQUOTED"
NoDeposit == "NO_DEPOSIT"

\* Faulty form of ActiveRows: 'FAILED' left out of the NOT IN list.
ActiveRowsOrFailed ==
  {p \in inserted : row[p].status \notin {"COMPLETED", "EXPIRED", "REFUNDED"}}

\* Rows ListActive selects: deposit_address IS NOT NULL holds of every row,
\* because the Go string is written even when it is empty.
ActiveRows == {p \in inserted : ~IsTerminal(row[p].status)}

TypeOK ==
  /\ inserted \in SUBSET Payments
  /\ row \in [Payments -> Row]
  /\ logged \in [Payments -> SUBSET Event]
  /\ fresher \in SUBSET (Payments \X Payments)
  /\ upstream \in [Payments -> RawStatuses \cup {Unquoted, NoDeposit}]
  /\ due \in SUBSET Payments
  /\ pollPc \in {"idle", "iterate", "update", "log", "announce"}
  /\ DOMAIN batch \subseteq Payments
  /\ batch \in [DOMAIN batch -> Row]
  /\ job \in Job \cup {NoJob}
  /\ pollPc \in {"update", "log", "announce"} => job \in Job
  /\ reqPc \in [Requests -> {"idle", "insert", "update", "log"}]
  /\ req \in [Requests -> Job \cup {NoJob}]
  /\ \A r \in Requests : reqPc[r] # "idle" => req[r] \in Job
  /\ announced \in [Payments -> PaymentStatuses \cup {NoStatus}]
  /\ stopped \in BOOLEAN
  /\ faults \in 0..MaxFaults
  /\ suffered \in SUBSET FaultKinds

Init ==
  /\ inserted = {}
  /\ row = [p \in Payments |-> NewRow]
  /\ logged = [p \in Payments |-> {}]
  /\ fresher = {}
  /\ upstream = [p \in Payments |-> Unquoted]
  /\ due = {}
  /\ pollPc = "idle"
  /\ batch = [p \in {} |-> NewRow]
  /\ job = NoJob
  /\ reqPc = [r \in Requests |-> "idle"]
  /\ req = [r \in Requests |-> NoJob]
  /\ announced = [p \in Payments |-> NoStatus]
  /\ stopped = FALSE
  /\ faults = 0
  /\ suffered = {}

-----------------------------------------------------------------------------
(* Faults:                                                                 *)
(*   "store"      a store call fails and changes nothing                   *)
(*   "ambiguous"  a store call takes effect but reports an error (the      *)
(*                connection or the request's context died after the       *)
(*                commit)                                                  *)
(*   "upstream"   a status call fails after the client's own retries       *)
(*   "blank"      the 1-click API answers 2xx with an empty body           *)
(*   "stop"       SIGTERM: the poller's calls fail from then on, while the *)
(*                HTTP server goes on serving                              *)
(*   "crash"      the process dies and is started again                    *)

Fault(kind) ==
  /\ kind \in FaultKinds
  /\ faults < MaxFaults
  /\ faults' = faults + 1
  /\ suffered' = suffered \cup {kind}

NoFault == UNCHANGED <<faults, suffered>>

\* A call the poller makes with its context fails.
PollerFault(kind) == IF stopped THEN NoFault ELSE Fault(kind)

-----------------------------------------------------------------------------
(* The store, one statement at a time. *)

\* Faulty form of Update: an empty failure_reason leaves the stored one.
UpdateKeepingReason(j) ==
  row' = [row EXCEPT ![j.p] =
            IF j.row.reason = NoReason THEN [j.row EXCEPT !.reason = row[j.p].reason] ELSE j.row]

\* UPDATE payments SET <every column> WHERE id = j.p.  LastPolledAt is the
\* poller's; a request writes back the one it read, and only on a row it
\* makes terminal, which is never listed again.
Update(j) == row' = [row EXCEPT ![j.p] = j.row]

\* Faulty form of MarkPolled: last_polled_at missing from the column list.
MarkPolledNever(p) == UNCHANGED fresher

\* last_polled_at = now(): p is now the most recently polled payment.
MarkPolled(p) ==
  fresher' = {pq \in fresher : pq[2] # p} \cup {<<p, q>> : q \in Payments \ {p}}

\* Faulty form of AppendEvent: old and new swapped.
AppendEventSwapped(j, type) ==
  logged' = [logged EXCEPT
               ![j.p] = @ \cup {[type |-> type, old |-> j.row.status, new |-> j.old]}]

AppendEvent(j, type) ==
  logged' = [logged EXCEPT
               ![j.p] = @ \cup {[type |-> type, old |-> j.old, new |-> j.row.status]}]

\* id is the PRIMARY KEY and deposit_address is UNIQUE.  The 1-click API never
\* repeats an address, so only a second empty one can collide.
NoConflict(p) ==
  /\ p \notin inserted
  /\ upstream[p] = NoDeposit => \A q \in inserted : upstream[q] # NoDeposit

\* SELECT ... ORDER BY last_polled_at NULLS FIRST LIMIT BatchLimit.
ListActive ==
  {S \in SUBSET ActiveRows :
     /\ Cardinality(S) <= BatchLimit
     /\ Cardinality(S) < BatchLimit => S = ActiveRows
     /\ \A p \in S, q \in ActiveRows \ S : <<p, q>> \notin fresher}

-----------------------------------------------------------------------------
(* Operator and customer requests. *)

RequestDone(r) ==
  /\ reqPc' = [reqPc EXCEPT ![r] = "idle"]
  /\ req' = [req EXCEPT ![r] = NoJob]

RequestAt(r, pc, j) ==
  /\ reqPc' = [reqPc EXCEPT ![r] = pc]
  /\ req' = [req EXCEPT ![r] = j]

\* POST /v1/payments, first half: the quote.  An upstream fault is a quote
\* that was granted and whose answer was lost: its deposit address exists,
\* no payment will ever follow it.
CreateQuote(r, p) ==
  /\ reqPc[r] = "idle"
  /\ upstream[p] = Unquoted
  /\ \/ /\ NoFault
        /\ upstream' = [upstream EXCEPT ![p] = "PENDING_DEPOSIT"]
        /\ RequestAt(r, "insert", [p |-> p, row |-> NewRow, old |-> NoStatus])
     \/ /\ Fault("blank")
        /\ upstream' = [upstream EXCEPT ![p] = NoDeposit]
        /\ RequestAt(r, "insert", [p |-> p, row |-> NewRow, old |-> NoStatus])
     \/ /\ Fault("upstream")
        /\ upstream' = [upstream EXCEPT ![p] = "PENDING_DEPOSIT"]
        /\ UNCHANGED reqVars
  /\ UNCHANGED <<storeVars, due, pollVars, announced, stopped>>

\* POST /v1/payments, second half: INSERT INTO payments.
CreateInsert(r) ==
  /\ reqPc[r] = "insert"
  /\ \/ /\ NoConflict(req[r].p)
        /\ inserted' = inserted \cup {req[r].p}
        /\ row' = [row EXCEPT ![req[r].p] = req[r].row]
        /\ \/ NoFault /\ RequestAt(r, "log", req[r])
           \/ Fault("ambiguous") /\ RequestDone(r)
     \/ /\ \/ ~NoConflict(req[r].p) /\ NoFault
           \/ Fault("store")
        /\ RequestDone(r)
        /\ UNCHANGED <<inserted, row>>
  /\ UNCHANGED <<logged, fresher, worldVars, pollVars, announced, stopped>>

\* Create and Cancel end by appending an event and ignoring its error.
RequestLog(r) ==
  /\ reqPc[r] = "log"
  /\ \/ NoFault /\ AppendEvent(req[r], "status_change")
     \/ Fault("store") /\ UNCHANGED logged
  /\ RequestDone(r)
  /\ UNCHANGED <<inserted, row, fresher, worldVars, pollVars, announced, stopped>>

\* DELETE /v1/payments/:id reads the row; a terminal one is a 409.
CancelLoad(r, p) ==
  /\ reqPc[r] = "idle"
  /\ p \in inserted
  /\ ~IsTerminal(row[p].status)
  /\ RequestAt(r, "update",
       [p   |-> p,
        row |-> [row[p] EXCEPT !.status = "FAILED", !.reason = Cancelled],
        old |-> row[p].status])
  /\ NoFault
  /\ UNCHANGED <<storeVars, worldVars, pollVars, announced, stopped>>

\* ... and writes it back.  Nothing is announced.
CancelUpdate(r) ==
  /\ reqPc[r] = "update"
  /\ \/ NoFault /\ Update(req[r]) /\ RequestAt(r, "log", req[r])
     \/ Fault("ambiguous") /\ Update(req[r]) /\ RequestDone(r)
     \/ Fault("store") /\ UNCHANGED row /\ RequestDone(r)
  /\ UNCHANGED <<inserted, logged, fresher, worldVars, pollVars, announced, stopped>>

\* POST /v1/pay/:id/submit tells the 1-click API of the customer's deposit.
\* It answers ok whatever the API says, so a refusal changes nothing.
SubmitDeposit(p) ==
  /\ p \in inserted
  /\ upstream[p] = "PENDING_DEPOSIT"
  /\ "KNOWN_DEPOSIT_TX" \in ApiStatuses
  /\ upstream' = [upstream EXCEPT ![p] = "KNOWN_DEPOSIT_TX"]
  /\ NoFault
  /\ UNCHANGED <<storeVars, due, pollVars, reqVars, announced, stopped>>

-----------------------------------------------------------------------------
(* The poller goroutine. *)

GaveUp(j)  == j.row.reason = TooManyPollFailures
Changed(j) == j.row.status # j.old

PollerTo(pc, j) == pollPc' = pc /\ job' = j

NoBatch == [p \in {} |-> NewRow]

PollAll ==
  /\ pollPc = "idle"
  /\ ~stopped
  /\ \E S \in ListActive : batch' = [p \in S |-> row[p]]
  /\ PollerTo("iterate", NoJob)
  /\ NoFault
  /\ UNCHANGED <<storeVars, worldVars, reqVars, announced, stopped>>

PollDone ==
  /\ pollPc = "iterate"
  /\ DOMAIN batch = {}
  /\ PollerTo("idle", NoJob)
  /\ NoFault
  /\ UNCHANGED <<storeVars, worldVars, batch, reqVars, announced, stopped>>

\* The listed order: least recently polled first.
NextInBatch(p) ==
  /\ p \in DOMAIN batch
  /\ \A q \in DOMAIN batch : <<p, q>> \notin fresher

\* The row pollOne means to write once the status call answered raw.
Answered(old, raw) ==
  [old EXCEPT !.status = MapOneclickStatus(raw), !.failures = 0]

\* ... and once it failed: the payment is given up after too many failures.
Unanswered(old) ==
  IF old.failures + 1 >= MaxPollFailures
  THEN [status   |-> "FAILED",
        failures |-> old.failures + 1,
        reason   |-> TooManyPollFailures]
  ELSE [old EXCEPT !.failures = @ + 1]

Polled(p, new) == [p |-> p, row |-> new, old |-> batch[p].status]

HoldForUpdate(p, new) == PollerTo("update", Polled(p, new))

\* The status call.  The 1-click API refuses an empty deposit address.
PollStatus(p) ==
  /\ pollPc = "iterate"
  /\ ~stopped
  /\ NextInBatch(p)
  /\ batch' = [q \in DOMAIN batch \ {p} |-> batch[q]]
  /\ \/ /\ upstream[p] \in RawStatuses
        /\ NoFault
        /\ HoldForUpdate(p, Answered(batch[p], upstream[p]))
     \/ Fault("blank") /\ HoldForUpdate(p, Answered(batch[p], BlankStatus))
     \/ /\ \/ upstream[p] = NoDeposit /\ NoFault
           \/ Fault("upstream")
        /\ HoldForUpdate(p, Unanswered(batch[p]))
  /\ UNCHANGED <<storeVars, worldVars, reqVars, announced, stopped>>

\* Faulty form of WillAnnounce: only terminal changes are announced.
WillAnnounceTerminal(j, ok) == GaveUp(j) \/ (ok /\ Changed(j) /\ IsTerminal(j.row.status))

\* Whether pollOne goes on to record and announce a change after its Update:
\* always when it gives up, whose Update error it ignores.
WillAnnounce(j, ok) == GaveUp(j) \/ (ok /\ Changed(j))

\* The status call was under way when the service stopped: it fails, and the
\* Update and the AppendEvent after it do nothing.  pollAll then returns.
PollInterrupted(p) ==
  /\ pollPc = "iterate"
  /\ stopped
  /\ p \in DOMAIN batch
  /\ batch' = NoBatch
  /\ IF GaveUp(Polled(p, Unanswered(batch[p])))
     THEN PollerTo("announce", Polled(p, Unanswered(batch[p])))
     ELSE PollerTo("iterate", NoJob)
  /\ NoFault
  /\ UNCHANGED <<storeVars, worldVars, reqVars, announced, stopped>>

\* With the context ended AppendEvent does nothing and is as good as skipped.
AfterPollUpdate(ok) ==
  IF WillAnnounce(job, ok)
  THEN PollerTo(IF stopped THEN "announce" ELSE "log", job)
  ELSE PollerTo("iterate", NoJob)

\* An Update under way when the service stopped fails, with or without effect.
PollUpdate ==
  /\ pollPc = "update"
  /\ \/ ~stopped /\ NoFault /\ Update(job) /\ MarkPolled(job.p) /\ AfterPollUpdate(TRUE)
     \/ PollerFault("ambiguous") /\ Update(job) /\ MarkPolled(job.p) /\ AfterPollUpdate(FALSE)
     \/ PollerFault("store") /\ UNCHANGED <<row, fresher>> /\ AfterPollUpdate(FALSE)
  /\ UNCHANGED <<inserted, logged, worldVars, batch, reqVars, announced, stopped>>

PollLog ==
  /\ pollPc = "log"
  /\ \/ NoFault /\ AppendEvent(job, IF GaveUp(job) THEN "error" ELSE "status_change")
     \/ PollerFault("store") /\ UNCHANGED logged
  /\ PollerTo("announce", job)
  /\ UNCHANGED <<inserted, row, fresher, worldVars, batch, reqVars, announced, stopped>>

\* Dispatcher.OnStatusChange.
PollAnnounce ==
  /\ pollPc = "announce"
  /\ announced' = [announced EXCEPT ![job.p] = job.row.status]
  /\ PollerTo("iterate", NoJob)
  /\ NoFault
  /\ UNCHANGED <<storeVars, worldVars, batch, reqVars, stopped>>

\* Faulty forms of Reapable: every active status, and 'AWAITING_DEPOSIT' left
\* out.
ReapableActive(p) == p \in inserted \cap due /\ ~IsTerminal(row[p].status)
ReapablePending(p) == p \in inserted \cap due /\ row[p].status = "PENDING"

\* UPDATE ... SET status = 'EXPIRED' WHERE expires_at < now AND status IN
\* ('PENDING', 'AWAITING_DEPOSIT').
Reapable(p) ==
  /\ p \in inserted \cap due
  /\ row[p].status \in {"PENDING", "AWAITING_DEPOSIT"}

\* The expiry ticker, served by the poller's own goroutine: one statement,
\* no event, no announcement.
Reap ==
  /\ pollPc = "idle"
  /\ ~stopped
  /\ \E p \in Payments : Reapable(p)
  /\ row' = [p \in Payments |->
               IF Reapable(p) THEN [row[p] EXCEPT !.status = "EXPIRED"] ELSE row[p]]
  /\ NoFault
  /\ UNCHANGED <<inserted, logged, fresher, worldVars, pollVars, reqVars, announced, stopped>>

-----------------------------------------------------------------------------
(* The world. *)

\* The 1-click API: a deposit once seen is not unseen, a final status stays.
UpstreamStep(p) ==
  /\ upstream[p] \in RawStatuses \ FinalRawStatuses
  /\ \E raw \in ApiStatuses \ {"PENDING_DEPOSIT", upstream[p]} :
       upstream' = [upstream EXCEPT ![p] = raw]
  /\ NoFault
  /\ UNCHANGED <<storeVars, due, pollVars, reqVars, announced, stopped>>

\* expires_at goes by.
Deadline(p) ==
  /\ p \in inserted \ due
  /\ due' = due \cup {p}
  /\ NoFault
  /\ UNCHANGED <<storeVars, upstream, pollVars, reqVars, announced, stopped>>

\* Everything in memory is gone; the table, the 1-click API and what was
\* already announced remain.
Crash ==
  /\ Fault("crash")
  /\ pollPc' = "idle"
  /\ batch' = NoBatch
  /\ job' = NoJob
  /\ reqPc' = [r \in Requests |-> "idle"]
  /\ req' = [r \in Requests |-> NoJob]
  /\ stopped' = FALSE
  /\ UNCHANGED <<storeVars, worldVars, announced>>

\* SIGTERM or an interrupt: main's context ends, and nothing tells the HTTP
\* server, so that requests are served until the process is killed.  pollAll
\* polls nobody after the payment it has in hand, which may be the one whose
\* status call is under way.
Stop ==
  /\ ~stopped
  /\ Fault("stop")
  /\ stopped' = TRUE
  /\ \/ batch' = NoBatch
     \/ /\ pollPc = "iterate"
        /\ \E p \in Payments : NextInBatch(p) /\ batch' = [q \in {p} |-> batch[q]]
  /\ UNCHANGED <<storeVars, worldVars, pollPc, job, reqVars, announced>>

-----------------------------------------------------------------------------

RequestStep(r) ==
  \/ \E p \in Payments : CreateQuote(r, p) \/ CancelLoad(r, p)
  \/ CreateInsert(r)
  \/ CancelUpdate(r)
  \/ RequestLog(r)

PollerStep ==
  \/ PollAll
  \/ PollDone
  \/ \E p \in Payments : PollStatus(p) \/ PollInterrupted(p)
  \/ PollUpdate
  \/ PollLog
  \/ PollAnnounce

Next ==
  \/ \E r \in Requests : RequestStep(r)
  \/ PollerStep
  \/ Reap
  \/ \E p \in Payments : SubmitDeposit(p) \/ UpstreamStep(p) \/ Deadline(p)
  \/ Crash
  \/ Stop

\* The ticker keeps firing, so the poller goroutine never rests for ever.  An
\* expiry tick waits in its channel until select takes it, and select chooses
\* at random among the ready channels: it is taken if it is ready often enough.
Fairness == WF_vars(PollerStep) /\ SF_vars(Reap)

Spec == Init /\ [][Next]_vars
FairSpec == Spec /\ Fairness

-----------------------------------------------------------------------------
(* What the table promises. *)

\* A goroutine has read p's row and has yet to write it back.
Held(p) ==
  \/ p \in DOMAIN batch
  \/ pollPc = "update" /\ job.p = p
  \/ \E r \in Requests : reqPc[r] = "update" /\ req[r].p = p

Settled(p) == p \in inserted /\ IsTerminal(row[p].status) /\ ~Held(p)

\* A terminal row nobody holds an older copy of never changes again: no
\* interleaving of cancels, polls, reaps, faults and restarts revives it or
\* turns one outcome into another.  (While a copy is held it may: see
\* TerminalIsFinal.)
SettledIsFinal ==
  [][\A p \in Payments : Settled(p) => Settled(p)' /\ row'[p] = row[p]]_vars

\* Rows are written whole: although two writers overwrite each other, a row
\* never pairs one writer's failure reason with the other's status.
ReasonMatchesStatus ==
  \A p \in inserted : row[p].reason # NoReason => row[p].status = "FAILED"

\* Somebody has written p's row and has yet to append the event.
Logging(p) ==
  \/ pollPc = "log" /\ job.p = p
  \/ \E r \in Requests : reqPc[r] = "log" /\ req[r].p = p

StoreReliable == suffered \cap {"store", "ambiguous", "stop", "crash"} = {}

\* As long as store calls succeed and the process lives, the audit trail of a
\* payment explains the status its row shows and the status every event says
\* it left, whatever order the writers' events arrive in.  Expiry is the one
\* transition that leaves no event.
AuditTrailExplains ==
  StoreReliable =>
    \A p \in inserted : ~Logging(p) =>
      /\ row[p].status # "EXPIRED" => \E e \in logged[p] : e.new = row[p].status
      /\ \A e \in logged[p] :
           e.old = NoStatus \/ \E f \in logged[p] : f.new = e.old

\* p is in pollOne's hands.
Polling(p) == pollPc \in {"update", "log", "announce"} /\ job.p = p

\* As long as store calls succeed and the process lives, what subscribers and
\* callbacks were last told of a payment is what its row says, except for the
\* two transitions nobody announces: a cancel and an expiry.
AnnouncedMatchesRow ==
  StoreReliable =>
    \A p \in inserted : ~Polling(p) =>
      \/ announced[p] = row[p].status
      \/ announced[p] = NoStatus /\ row[p].status = "AWAITING_DEPOSIT"
      \/ row[p].status = "EXPIRED"
      \/ row[p].reason = Cancelled

\* As long as no store call was lost, subscribers who were told that a payment
\* ended are told nothing else: a shop that ships on "COMPLETED" is never told
\* "FAILED", nor the reverse, through cancels, crashes, polls that fail and
\* updates whose success went unnoticed.  A stop loses the poller's calls: a
\* payment it gives up then is announced as failed and polled again later.
NoCallLost == suffered \cap {"store", "stop"} = {}

NoticesAreFinal ==
  [][NoCallLost =>
       \A p \in Payments : IsTerminal(announced[p]) => announced'[p] = announced[p]]_vars

\* A payment whose deposit was recorded as seen does not expire, unless the
\* 1-click API answers with no status at all.
NoExpiryAfterDetection ==
  "blank" \notin suffered =>
    \A p \in inserted :
      (\E e \in logged[p] : e.new \in {"DETECTED", "PROCESSING", "INCOMPLETE"})
        => row[p].status # "EXPIRED"

-----------------------------------------------------------------------------
(* The payment as its operator may think of it. *)

LedgerStatus == [p \in Payments |-> IF p \in inserted THEN row[p].status ELSE "ABSENT"]
LedgerHeld == {p \in Payments : Held(p)}

Ledger == INSTANCE PaymentLedger WITH
  status  <- LedgerStatus,
  held    <- LedgerHeld,
  told    <- announced,
  swap    <- upstream,
  overdue <- due

\* Rows, copies of rows, events, failures and restarts come to no more than
\* the ledger allows: only what was active when it was read is written over,
\* and only with what is true of the swap.
KeepsLedger == Ledger!Spec

\* Neither the table nor a notice ever calls a payment completed or refunded
\* whose swap is not, however old the answer a writer still holds.
OutcomesAreReal == Ledger!OutcomesAreReal

-----------------------------------------------------------------------------
(* What the poller promises. *)

\* The 1-click API has nothing more to say about p.
Over(p) == upstream[p] \in FinalRawStatuses \cup {NoDeposit}

\* Once the 1-click API is done with a payment, or never gave it an address,
\* the payment's row becomes terminal and stays so, even if other payments
\* never end and ListActive's limit is smaller than their number.
EventuallySettled ==
  \A p \in Payments : (p \in inserted /\ Over(p)) ~> []IsTerminal(row[p].status)

\* A payment whose deposit never arrives ends once its deadline is past.
UnpaidExpires ==
  \A p \in Payments :
    <>[](p \in inserted \cap due /\ upstream[p] = "PENDING_DEPOSIT")
      => <>[]IsTerminal(row[p].status)

-----------------------------------------------------------------------------
(* What the repository's comments say and the code does not keep. *)

\* models.go: a terminal status means "no further status transitions are
\* expected".
TerminalIsFinal ==
  [][\A p \in inserted : IsTerminal(row[p].status) => row'[p].status = row[p].status]_vars

\* dispatcher.go: OnStatusChange is called "whenever a payment transitions to a
\* new status", so a payment that was announced as ended has no other status
\* to be announced with.
TerminalNoticeIsFinal ==
  [][\A p \in Payments : IsTerminal(announced[p]) => announced'[p] = announced[p]]_vars

\* dto/payment.go: CallbackURL is called "when the payment reaches a terminal
\* state".
SettledIsAnnounced ==
  \A p \in Payments : Settled(p) /\ ~Polling(p) => announced[p] = row[p].status
=============================================================================
