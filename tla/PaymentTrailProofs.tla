------------------------- MODULE PaymentTrailProofs -------------------------
(***************************************************************************)
(* What the payments table says against what its audit trail and its       *)
(* subscribers were told, for any payments, requests and limits.  Rows are *)
(* read, changed and written back by goroutines that overwrite each other  *)
(* and append their events and notices later, so each proof follows the    *)
(* copies of rows as well as the rows.                                     *)
(***************************************************************************)
EXTENDS PaymentLedgerProofs

-----------------------------------------------------------------------------
(* The poller has a payment in its batch or in its hands, never in both.   *)

LEMMA PolledOnceStep ==
  ASSUME IInv, Known, PolledOnce, [Next]_vars
  PROVE  PolledOnce'
<1>1. DOMAIN batch' \subseteq inserted' /\ (InHand' => job'.p \in inserted')
  BY KnownStep DEF Known, BatchKnown, JobKnown
<1>2. SUFFICES InHand' => job'.p \notin DOMAIN batch'
  BY <1>1 DEF PolledOnce
<1>3. ASSUME NEW p \in Payments, PollStatus(p) \/ PollInterrupted(p)
      PROVE  InHand' => job'.p \notin DOMAIN batch'
  BY <1>3 DEF PollStatus, PollInterrupted, HoldForUpdate, Polled, PollerTo, NoBatch, InHand
<1>4. CASE PollAll \/ PollDone \/ PollAnnounce \/ Crash
  BY <1>4 DEF PollAll, PollDone, PollAnnounce, Crash, PollerTo, InHand
<1>5. CASE PollUpdate \/ PollLog
  BY <1>5 DEF PollUpdate, PollLog, AfterPollUpdate, PollerTo, PolledOnce, InHand
<1>6. CASE Stop
  BY <1>6 DEF Stop, NoBatch, PolledOnce, InHand
<1>7. CASE UNCHANGED pollVars
  BY <1>7 DEF pollVars, PolledOnce, InHand
<1>8. ASSUME NEW r \in Requests, RequestStep(r)
      PROVE  UNCHANGED pollVars
  BY <1>8 DEF RequestStep, CreateQuote, CreateInsert, RequestLog, CancelLoad, CancelUpdate
<1> QED
  BY <1>3, <1>4, <1>5, <1>6, <1>7, <1>8
     DEF Next, PollerStep, Reap, SubmitDeposit, UpstreamStep, Deadline, vars

LEMMA PolledOnceAlways == Spec => []PolledOnce
<1>1. Init => PolledOnce
  BY DEF Init, PolledOnce, InHand
<1> QED
  BY <1>1, PolledOnceStep, Invariance, KnownAlways, PTL DEF Spec

-----------------------------------------------------------------------------
(* Steps of a service whose store calls succeed.                           *)

LEMMA Reliable ==
  ASSUME IInv, [Next]_vars, StoreReliable'
  PROVE  /\ StoreReliable /\ ~stopped /\ ~Stop /\ ~Crash
         /\ \A kind \in {"store", "ambiguous"} : ~Fault(kind) /\ ~PollerFault(kind)
<1>1. StoreReliable
  BY SufferedGrows DEF StoreReliable
<1>2. ~stopped
  BY <1>1, Zenon DEF StoreReliable, IInv, FaultsTyped
<1>3. \A kind \in {"store", "ambiguous", "stop", "crash"} : ~Fault(kind)
  BY DEF Fault, StoreReliable
<1> QED
  BY <1>1, <1>2, <1>3, Zenon DEF PollerFault, Stop, Crash

\* The audit trail is append-only.
LEMMA TrailGrows ==
  ASSUME IInv, [Next]_vars, NEW p \in Payments
  PROVE  logged[p] \subseteq logged'[p]
<1>1. ASSUME NEW j, NEW type, AppendEvent(j, type) \/ UNCHANGED logged
      PROVE  logged[p] \subseteq logged'[p]
  BY <1>1 DEF AppendEvent, IInv, StoreInv
<1>2. ASSUME NEW r \in Requests, RequestStep(r)
      PROVE  logged[p] \subseteq logged'[p]
  BY <1>1, <1>2 DEF RequestStep, CreateQuote, CreateInsert, RequestLog, CancelLoad,
                    CancelUpdate, storeVars
<1>3. CASE PollerStep
  BY <1>1, <1>3 DEF PollerStep, PollAll, PollDone, PollStatus, PollInterrupted, PollUpdate,
                    PollLog, PollAnnounce, storeVars
<1>4. CASE Reap \/ Crash \/ Stop \/ UNCHANGED vars
  BY <1>4 DEF Reap, Crash, Stop, vars, storeVars
<1>5. ASSUME NEW q \in Payments, SubmitDeposit(q) \/ UpstreamStep(q) \/ Deadline(q)
      PROVE  logged[p] \subseteq logged'[p]
  BY <1>5 DEF SubmitDeposit, UpstreamStep, Deadline, storeVars
<1> QED
  BY <1>2, <1>3, <1>4, <1>5 DEF Next

\* The event names the status that was read and the one that was written.
LEMMA AppendedEvent ==
  ASSUME StoreInv, NEW j, j.p \in Payments, NEW type, AppendEvent(j, type)
  PROVE  /\ logged'[j.p] = logged[j.p] \cup {[type |-> type, old |-> j.old, new |-> j.row.status]}
         /\ \A q \in Payments \ {j.p} : logged'[q] = logged[q]
         /\ \E e \in logged'[j.p] : e.new = j.row.status
<1>1. /\ logged'[j.p] = logged[j.p] \cup {[type |-> type, old |-> j.old, new |-> j.row.status]}
      /\ \A q \in Payments \ {j.p} : logged'[q] = logged[q]
  BY DEF AppendEvent, StoreInv
<1>2. [type |-> type, old |-> j.old, new |-> j.row.status].new = j.row.status
  OBVIOUS
<1> QED
  BY <1>1, <1>2

\* Of a payment in its hands the poller's next step keeps the job or lets go.
LEMMA LoggerStays ==
  ASSUME [Next]_vars, pollPc = "log", ~PollLog, ~Crash
  PROVE  UNCHANGED <<pollPc, job>>
<1>1. ASSUME NEW r \in Requests, RequestStep(r)
      PROVE  UNCHANGED <<pollPc, job>>
  BY <1>1 DEF RequestStep, CreateQuote, CreateInsert, RequestLog, CancelLoad, CancelUpdate,
              pollVars
<1>2. ~PollerStep
  BY DEF PollerStep, PollAll, PollDone, PollStatus, PollInterrupted, PollUpdate, PollAnnounce
<1> QED
  BY <1>1, <1>2 DEF Next, Reap, Stop, SubmitDeposit, UpstreamStep, Deadline, vars, pollVars

LEMMA RequestLoggerStays ==
  ASSUME IInv, [Next]_vars, NEW r \in Requests, reqPc[r] = "log", ~RequestLog(r), ~Crash
  PROVE  reqPc'[r] = reqPc[r] /\ req'[r] = req[r]
<1>1. ASSUME NEW s \in Requests, RequestStep(s)
      PROVE  reqPc'[r] = reqPc[r] /\ req'[r] = req[r]
  <2>1. s # r
    BY <1>1 DEF RequestStep, CreateQuote, CreateInsert, CancelLoad, CancelUpdate
  <2>2. \/ UNCHANGED reqVars \/ RequestDone(s)
        \/ \E pc, j : RequestAt(s, pc, j)
    BY <1>1 DEF RequestStep, CreateQuote, CreateInsert, RequestLog, CancelLoad, CancelUpdate
  <2> QED
    BY <2>1, <2>2 DEF RequestDone, RequestAt, reqVars, IInv, ReqInv
<1>2. CASE PollerStep
  BY <1>2 DEF PollerStep, PollAll, PollDone, PollStatus, PollInterrupted, PollUpdate, PollLog,
              PollAnnounce, reqVars
<1> QED
  BY <1>1, <1>2 DEF Next, Reap, Stop, SubmitDeposit, UpstreamStep, Deadline, vars, reqVars

-----------------------------------------------------------------------------
(* The audit trail.                                                        *)

\* Somebody has recorded status s of p and has yet to append the event.
ToBeLogged(p, s) ==
  \/ pollPc = "log" /\ job.p = p /\ job.row.status = s
  \/ \E r \in Requests : reqPc[r] = "log" /\ req[r].p = p /\ req[r].row.status = s

\* The statuses p's audit trail accounts for, or is about to.
Explained(p) ==
  {e.new : e \in logged[p]} \cup {s \in PaymentStatuses : ToBeLogged(p, s)}

RowsExplained ==
  \A p \in inserted : row[p].status # "EXPIRED" => row[p].status \in Explained(p)

\* A copy may be written back long after it was read: the status it was read
\* with is the OldStatus of the event that follows.
BatchExplained == \A p \in DOMAIN batch : batch[p].status \in Explained(p)
JobExplained == InHand => \A p \in Payments : job.p = p => job.old \in Explained(p)
ReqExplained ==
  \A r \in Requests, p \in Payments :
    reqPc[r] # "idle" /\ req[r].p = p => req[r].old \in Explained(p) \cup {NoStatus}

EventsExplained ==
  \A p \in Payments : \A e \in logged[p] : e.old \in Explained(p) \cup {NoStatus}

TrailInv ==
  RowsExplained /\ BatchExplained /\ JobExplained /\ ReqExplained /\ EventsExplained

\* While store calls succeed nothing that was accounted for is lost.
LEMMA ExplainedGrows ==
  ASSUME IInv, [Next]_vars, StoreReliable', NEW p \in Payments
  PROVE  Explained(p) \subseteq Explained(p)'
<1> SUFFICES ASSUME NEW s \in Explained(p) PROVE s \in Explained(p)'
  OBVIOUS
<1>1. CASE \E e \in logged[p] : e.new = s
  BY <1>1, TrailGrows DEF Explained
<1>2. CASE pollPc = "log" /\ job.p = p /\ job.row.status = s
  <2>1. job \in Job /\ s \in PaymentStatuses
    BY <1>2 DEF IInv, JobInv, Job, Row
  <2>2. CASE PollLog
    <3>1. \E type : AppendEvent(job, type)
      BY <2>2, Reliable DEF PollLog
    <3>2. \E e \in logged'[p] : e.new = s
      BY <1>2, <3>1, AppendedEvent DEF IInv
    <3> QED
      BY <3>2 DEF Explained
  <2>3. CASE ~PollLog
    BY <1>2, <2>1, <2>3, Reliable, LoggerStays DEF Explained, ToBeLogged
  <2> QED
    BY <2>2, <2>3
<1>3. ASSUME NEW r \in Requests, reqPc[r] = "log" /\ req[r].p = p /\ req[r].row.status = s
      PROVE  s \in Explained(p)'
  <2>1. req[r] \in Job /\ s \in PaymentStatuses
    BY <1>3 DEF IInv, ReqInv, Job, Row
  <2>2. CASE RequestLog(r)
    <3>1. AppendEvent(req[r], "status_change")
      BY <2>2, Reliable DEF RequestLog
    <3>2. \E e \in logged'[p] : e.new = s
      BY <1>3, <3>1, AppendedEvent DEF IInv
    <3> QED
      BY <3>2 DEF Explained
  <2>3. CASE ~RequestLog(r)
    BY <1>3, <2>1, <2>3, Reliable, RequestLoggerStays DEF Explained, ToBeLogged
  <2> QED
    BY <2>2, <2>3
<1> QED
  BY <1>1, <1>2, <1>3 DEF Explained, ToBeLogged

\* A row somebody has just written and is about to log is accounted for.
LEMMA RequestExplains ==
  ASSUME IInv, NEW r \in Requests, NEW j \in Job, RequestAt(r, "log", j)
  PROVE  \A p \in Payments : j.p = p => j.row.status \in Explained(p)'
<1>1. reqPc'[r] = "log" /\ req'[r] = j
  BY DEF RequestAt, IInv, ReqInv
<1>2. j.row.status \in PaymentStatuses
  BY DEF Job, Row
<1> QED
  BY <1>1, <1>2 DEF Explained, ToBeLogged

LEMMA PollerExplains ==
  ASSUME NEW j \in Job, PollerTo("log", j)
  PROVE  \A p \in Payments : j.p = p => j.row.status \in Explained(p)'
<1>1. j.row.status \in PaymentStatuses
  BY DEF Job, Row
<1> QED
  BY <1>1 DEF PollerTo, Explained, ToBeLogged

LEMMA RequestTrail ==
  ASSUME IInv, Known, TrailInv, StoreReliable', NEW r \in Requests, RequestStep(r)
  PROVE  TrailInv'
<1> USE DEF IInv
<1>0. [Next]_vars
  BY DEF Next
<1>1. \A p \in Payments : Explained(p) \subseteq Explained(p)'
  BY <1>0, ExplainedGrows
<1>2. UNCHANGED pollVars
  BY DEF RequestStep, CreateQuote, CreateInsert, RequestLog, CancelLoad, CancelUpdate
<1>3. BatchExplained' /\ JobExplained'
  BY <1>1, <1>2 DEF TrailInv, BatchExplained, JobExplained, BatchInv, InHand, pollVars
<1>4. RowsExplained'
  <2>1. CASE UNCHANGED <<inserted, row>>
    BY <1>1, <2>1 DEF TrailInv, RowsExplained, StoreInv
  <2>2. CASE CreateInsert(r) /\ ~UNCHANGED <<inserted, row>>
    <3>1. /\ req[r] \in Job /\ req[r].p \in Payments
          /\ inserted' = inserted \cup {req[r].p}
          /\ row' = [row EXCEPT ![req[r].p] = req[r].row]
          /\ RequestAt(r, "log", req[r])
      BY <1>0, <2>2, Reliable DEF CreateInsert, ReqInv, Job
    <3>2. \A p \in Payments : req[r].p = p => req[r].row.status \in Explained(p)'
      BY <3>1, RequestExplains
    <3>3. ASSUME NEW p \in inserted', row'[p].status # "EXPIRED"
          PROVE  row'[p].status \in Explained(p)'
      BY <1>1, <3>1, <3>2, <3>3 DEF TrailInv, RowsExplained, StoreInv
    <3> QED
      BY <3>3 DEF RowsExplained
  <2>3. CASE CancelUpdate(r)
    <3>1. /\ req[r] \in Job /\ req[r].p \in Payments
          /\ Update(req[r])
          /\ RequestAt(r, "log", req[r])
          /\ inserted' = inserted
      BY <1>0, <2>3, Reliable DEF CancelUpdate, ReqInv, Job
    <3>2. \A p \in Payments : req[r].p = p => req[r].row.status \in Explained(p)'
      BY <3>1, RequestExplains
    <3>3. ASSUME NEW p \in inserted', row'[p].status # "EXPIRED"
          PROVE  row'[p].status \in Explained(p)'
      BY <1>1, <3>1, <3>2, <3>3 DEF Update, TrailInv, RowsExplained, StoreInv
    <3> QED
      BY <3>3 DEF RowsExplained
  <2> QED
    BY <2>1, <2>2, <2>3 DEF RequestStep, CreateQuote, RequestLog, CancelLoad, storeVars
<1>5. ReqExplained'
  <2>1. ASSUME NEW p \in Payments, CancelLoad(r, p)
        PROVE  ReqExplained'
    <3>1. row[p].status \in Explained(p)
      BY <2>1 DEF CancelLoad, TrailInv, RowsExplained, IsTerminal
    <3>2. row[p].status \in Explained(p)'
      BY <1>1, <3>1
    <3>3. /\ req'[r].p = p /\ req'[r].old = row[p].status
          /\ \A s \in Requests \ {r} : reqPc'[s] = reqPc[s] /\ req'[s] = req[s]
      BY <2>1 DEF CancelLoad, RequestAt, ReqInv
    <3> QED
      BY <1>1, <3>2, <3>3 DEF TrailInv, ReqExplained
  <2>2. ASSUME NEW p \in Payments, CreateQuote(r, p)
        PROVE  ReqExplained'
    BY <1>1, <2>2 DEF CreateQuote, RequestAt, TrailInv, ReqExplained, ReqInv, reqVars
  <2>3. CASE RequestDone(r) \/ (reqPc[r] # "idle" /\ RequestAt(r, "log", req[r]))
    BY <1>1, <2>3 DEF RequestAt, RequestDone, TrailInv, ReqExplained, ReqInv
  <2> QED
    BY <2>1, <2>2, <2>3 DEF RequestStep, CreateInsert, RequestLog, CancelUpdate
<1>6. EventsExplained'
  <2>1. CASE RequestLog(r)
    <3>1. /\ req[r].p \in Payments /\ AppendEvent(req[r], "status_change")
          /\ req[r].old \in Explained(req[r].p) \cup {NoStatus}
      BY <1>0, <2>1, Reliable DEF RequestLog, TrailInv, ReqExplained, ReqInv, Job
    <3> QED
      BY <1>1, <3>1, AppendedEvent DEF TrailInv, EventsExplained
  <2>2. CASE UNCHANGED logged
    BY <1>1, <2>2 DEF TrailInv, EventsExplained
  <2> QED
    BY <2>1, <2>2 DEF RequestStep, CreateQuote, CreateInsert, CancelLoad, CancelUpdate,
                      storeVars
<1> QED
  BY <1>3, <1>4, <1>5, <1>6 DEF TrailInv

LEMMA PollerTrail ==
  ASSUME IInv, Known, TrailInv, StoreReliable', PollerStep
  PROVE  TrailInv'
<1> USE DEF IInv
<1>0. [Next]_vars
  BY DEF Next
<1>1. \A p \in Payments : Explained(p) \subseteq Explained(p)'
  BY <1>0, ExplainedGrows
<1>2. UNCHANGED <<inserted, reqVars>>
  BY DEF PollerStep, PollAll, PollDone, PollStatus, PollInterrupted, PollUpdate, PollLog,
         PollAnnounce, storeVars
<1>3. ReqExplained'
  BY <1>1, <1>2 DEF TrailInv, ReqExplained, reqVars
<1>4. RowsExplained'
  <2>1. CASE PollUpdate
    <3>1. /\ job \in Job /\ job.p \in Payments /\ Update(job) /\ AfterPollUpdate(TRUE)
      BY <1>0, <2>1, Reliable DEF PollUpdate, JobInv, Job
    <3>2. \A p \in Payments : job.p = p => job.row.status \in Explained(p)'
      <4>1. CASE GaveUp(job) \/ Changed(job)
        <5>1. PollerTo("log", job)
          BY <1>0, <3>1, <4>1, Reliable, Zenon DEF AfterPollUpdate, WillAnnounce
        <5> QED
          BY <3>1, <5>1, PollerExplains
      <4>2. CASE ~Changed(job)
        BY <1>1, <2>1, <3>1, <4>2 DEF PollUpdate, Changed, TrailInv, JobExplained, InHand
      <4> QED
        BY <4>1, <4>2
    <3>3. ASSUME NEW p \in inserted', row'[p].status # "EXPIRED"
          PROVE  row'[p].status \in Explained(p)'
      BY <1>1, <1>2, <3>1, <3>2, <3>3 DEF Update, TrailInv, RowsExplained, StoreInv
    <3> QED
      BY <3>3 DEF RowsExplained
  <2>2. CASE UNCHANGED row
    BY <1>1, <1>2, <2>2 DEF TrailInv, RowsExplained, StoreInv
  <2> QED
    BY <2>1, <2>2 DEF PollerStep, PollAll, PollDone, PollStatus, PollInterrupted, PollLog,
                      PollAnnounce, storeVars
<1>5. BatchExplained'
  <2>1. CASE PollAll
    <3>1. PICK S \in ListActive : batch' = [p \in S |-> row[p]]
      BY <2>1 DEF PollAll
    <3>2. \A p \in S : p \in Payments /\ row[p].status \in Explained(p)
      BY DEF ListActive, ActiveRows, IsTerminal, TrailInv, RowsExplained, StoreInv
    <3> QED
      BY <1>1, <3>1, <3>2 DEF BatchExplained
  <2>2. CASE ~PollAll
    <3>1. DOMAIN batch' \subseteq DOMAIN batch /\ \A p \in DOMAIN batch' : batch'[p] = batch[p]
      BY <2>2 DEF PollerStep, PollDone, PollStatus, PollInterrupted, PollUpdate, PollLog,
                  PollAnnounce, NoBatch
    <3> QED
      BY <1>1, <3>1 DEF TrailInv, BatchExplained, BatchInv
  <2> QED
    BY <2>1, <2>2
<1>6. JobExplained'
  <2>1. ASSUME NEW p \in Payments, PollStatus(p) \/ PollInterrupted(p)
        PROVE  JobExplained'
    <3>1. batch[p].status \in Explained(p)'
      BY <1>1, <2>1 DEF PollStatus, PollInterrupted, NextInBatch, TrailInv, BatchExplained
    <3>2. InHand' => job'.p = p /\ job'.old = batch[p].status
      BY <2>1 DEF PollStatus, PollInterrupted, HoldForUpdate, Polled, PollerTo, InHand
    <3> QED
      BY <3>1, <3>2 DEF JobExplained
  <2>2. CASE PollAll \/ PollDone \/ PollAnnounce
    BY <2>2 DEF PollAll, PollDone, PollAnnounce, PollerTo, InHand, JobExplained
  <2>3. CASE PollUpdate \/ PollLog
    <3>1. InHand /\ (InHand' => job' = job)
      BY <2>3 DEF PollUpdate, PollLog, AfterPollUpdate, PollerTo, InHand
    <3> QED
      BY <1>1, <3>1 DEF TrailInv, JobExplained
  <2> QED
    BY <2>1, <2>2, <2>3 DEF PollerStep
<1>7. EventsExplained'
  <2>1. CASE PollLog
    <3>1. /\ job.p \in Payments /\ \E type : AppendEvent(job, type)
          /\ job.old \in Explained(job.p)
      BY <1>0, <2>1, Reliable DEF PollLog, TrailInv, JobExplained, JobInv, Job, InHand
    <3> QED
      BY <1>1, <3>1, AppendedEvent DEF TrailInv, EventsExplained
  <2>2. CASE UNCHANGED logged
    BY <1>1, <2>2 DEF TrailInv, EventsExplained
  <2> QED
    BY <2>1, <2>2 DEF PollerStep, PollAll, PollDone, PollStatus, PollInterrupted, PollUpdate,
                      PollAnnounce, storeVars
<1> QED
  BY <1>3, <1>4, <1>5, <1>6, <1>7 DEF TrailInv

LEMMA TrailStep ==
  ASSUME IInv, Known, TrailInv, StoreReliable', [Next]_vars
  PROVE  TrailInv'
<1>1. \A p \in Payments : Explained(p) \subseteq Explained(p)'
  BY ExplainedGrows
<1>2. ASSUME NEW r \in Requests, RequestStep(r)
      PROVE  TrailInv'
  BY <1>2, RequestTrail
<1>3. CASE PollerStep
  BY <1>3, PollerTrail
<1>4. CASE UNCHANGED <<inserted, logged, pollVars, reqVars>>
           /\ \A p \in inserted : row'[p].status \in {row[p].status, "EXPIRED"}
  <2>1. RowsExplained'
    BY <1>1, <1>4 DEF TrailInv, RowsExplained, IInv, StoreInv
  <2>2. BatchExplained' /\ JobExplained' /\ ReqExplained'
    BY <1>1, <1>4 DEF TrailInv, BatchExplained, JobExplained, ReqExplained, IInv, BatchInv,
                      InHand, pollVars, reqVars
  <2>3. EventsExplained'
    BY <1>1, <1>4 DEF TrailInv, EventsExplained
  <2> QED
    BY <2>1, <2>2, <2>3 DEF TrailInv
<1>5. CASE Reap
  BY <1>4, <1>5 DEF Reap, IInv, StoreInv, Row
<1>6. CASE UNCHANGED <<storeVars, pollVars, reqVars>>
  BY <1>4, <1>6 DEF storeVars
<1> QED
  BY <1>2, <1>3, <1>5, <1>6, Reliable
     DEF Next, SubmitDeposit, UpstreamStep, Deadline, vars

\* As long as store calls succeed and the process lives, the audit trail of a
\* payment nobody is about to log accounts for the status its row shows, expiry
\* aside, and for the status every event says it left.
THEOREM TrailAlwaysExplains == Spec => []AuditTrailExplains
<1> DEFINE CondInv == StoreReliable => TrailInv
<1>1. Init => CondInv
  BY DEF Init, TrailInv, RowsExplained, BatchExplained, JobExplained, ReqExplained,
         EventsExplained, InHand
<1>2. IInv /\ Known /\ CondInv /\ [Next]_vars => CondInv'
  BY TrailStep, Reliable
<1>3. IInv /\ CondInv => AuditTrailExplains
  <2> SUFFICES ASSUME IInv, TrailInv, NEW p \in inserted, ~Logging(p)
               PROVE  /\ row[p].status # "EXPIRED" => \E e \in logged[p] : e.new = row[p].status
                      /\ \A e \in logged[p] :
                           e.old = NoStatus \/ \E f \in logged[p] : f.new = e.old
    BY DEF AuditTrailExplains
  <2>1. p \in Payments
    BY DEF IInv, StoreInv
  <2>2. \A s \in Explained(p) : \E e \in logged[p] : e.new = s
    BY DEF Explained, ToBeLogged, Logging
  <2> QED
    BY <2>1, <2>2 DEF TrailInv, RowsExplained, EventsExplained
<1> QED
  BY <1>1, <1>2, <1>3, Invariance, KnownAlways, PTL DEF Spec

-----------------------------------------------------------------------------
(* Notices.  Cancels are the only requests that overwrite a row, and they  *)
(* leave their reason in it.                                               *)

CancelsSayWhy == \A r \in Requests : reqPc[r] = "update" => req[r].row.reason = Cancelled
AbsentUnannounced == \A p \in Payments \ inserted : announced[p] = NoStatus

NamedInv == CancelsSayWhy /\ AbsentUnannounced

LEMMA NamedStep ==
  ASSUME IInv, Known, NamedInv, [Next]_vars
  PROVE  NamedInv'
<1> USE DEF NamedInv, IInv
<1>1. ASSUME NEW r \in Requests, RequestStep(r)
      PROVE  NamedInv'
  <2>1. UNCHANGED announced /\ inserted \subseteq inserted'
    BY <1>1, InsertedGrows
       DEF Next, RequestStep, CreateQuote, CreateInsert, RequestLog, CancelLoad, CancelUpdate
  <2>2. CASE \E p \in Payments : CancelLoad(r, p)
    BY <2>1, <2>2 DEF CancelLoad, RequestAt, CancelsSayWhy, AbsentUnannounced, ReqInv, StoreInv, Row
  <2>3. CASE UNCHANGED reqVars \/ RequestDone(r)
             \/ \E pc \in {"insert", "log"} : \E j : RequestAt(r, pc, j)
    BY <2>1, <2>3 DEF RequestAt, RequestDone, CancelsSayWhy, AbsentUnannounced, ReqInv, reqVars
  <2> QED
    BY <1>1, <2>2, <2>3 DEF RequestStep, CreateQuote, CreateInsert, RequestLog, CancelUpdate
<1>2. CASE PollAnnounce
  <2>1. job.p \in inserted
    BY <1>2 DEF PollAnnounce, Known, JobKnown, InHand
  <2> QED
    BY <1>2, <2>1 DEF PollAnnounce, CancelsSayWhy, AbsentUnannounced, NoticeTyped,
                      storeVars, reqVars
<1>3. CASE Crash
  BY <1>3 DEF Crash, CancelsSayWhy, AbsentUnannounced, storeVars
<1>4. CASE UNCHANGED <<inserted, reqVars, announced>>
  BY <1>4 DEF CancelsSayWhy, AbsentUnannounced, reqVars
<1>5. CASE PollerStep /\ ~PollAnnounce
  BY <1>4, <1>5 DEF PollerStep, PollAll, PollDone, PollStatus, PollInterrupted, PollUpdate,
                    PollLog, storeVars
<1> QED
  BY <1>1, <1>2, <1>3, <1>4, <1>5
     DEF Next, Reap, Stop, SubmitDeposit, UpstreamStep, Deadline, vars, storeVars

LEMMA NamedAlways == Spec => []NamedInv
<1>1. Init => NamedInv
  BY DEF Init, NamedInv, CancelsSayWhy, AbsentUnannounced
<1> QED
  BY <1>1, NamedStep, Invariance, KnownAlways, PTL DEF Spec

\* The statuses subscribers believe p to have: the one they were told or, as
\* nobody announces a creation, the one p was created with.
Believed(p) ==
  {announced[p]} \cup (IF announced[p] = NoStatus THEN {"AWAITING_DEPOSIT"} ELSE {})

\* The rows the poller may find although nobody told of their status.
Untold(rw) == rw.status = "EXPIRED" \/ rw.reason = Cancelled

RowsBelieved ==
  \A p \in inserted : ~Polling(p) => row[p].status \in Believed(p) \/ Untold(row[p])

\* What the poller compares its answer with is what subscribers were told, so
\* that an answer it finds unchanged needs no notice.
BatchBelieved == \A p \in DOMAIN batch : batch[p].status \in Believed(p)
JobBelieved ==
  \A p \in Payments : job.p = p =>
    /\ pollPc = "update" => job.old \in Believed(p)
    /\ pollPc \in {"log", "announce"} =>
         row[p].status = job.row.status \/ row[p].reason = Cancelled

BeliefInv == RowsBelieved /\ BatchBelieved /\ JobBelieved

LEMMA RequestBelief ==
  ASSUME IInv, Known, NamedInv, BeliefInv, NEW r \in Requests, RequestStep(r)
  PROVE  BeliefInv'
<1> USE DEF IInv
<1>1. UNCHANGED pollVars /\ UNCHANGED announced
  BY DEF RequestStep, CreateQuote, CreateInsert, RequestLog, CancelLoad, CancelUpdate
<1>2. \A p \in Payments : Believed(p)' = Believed(p) /\ Polling(p)' = Polling(p)
  BY <1>1 DEF Believed, Polling, pollVars
<1>3. BatchBelieved'
  BY <1>1, <1>2 DEF BeliefInv, BatchBelieved, BatchInv, pollVars
<1>4. \A p \in inserted : row'[p] = row[p] \/ row'[p].reason = Cancelled
  <2>1. CASE CreateInsert(r)
    BY <2>1 DEF CreateInsert, NoConflict, StoreInv
  <2>2. CASE CancelUpdate(r)
    BY <2>2 DEF CancelUpdate, Update, NamedInv, CancelsSayWhy, StoreInv
  <2> QED
    BY <2>1, <2>2 DEF RequestStep, CreateQuote, RequestLog, CancelLoad, storeVars
<1>5. JobBelieved'
  <2>1. InHand => job.p \in inserted
    BY DEF Known, JobKnown
  <2> QED
    BY <1>1, <1>2, <1>4, <2>1 DEF BeliefInv, JobBelieved, InHand, pollVars
<1>6. RowsBelieved'
  <2>1. ASSUME NEW p \in inserted' \ inserted
        PROVE  p \in Payments /\ row'[p].status \in Believed(p)
    <3>1. CreateInsert(r) /\ p = req[r].p
      BY <2>1 DEF RequestStep, CreateQuote, CreateInsert, RequestLog, CancelLoad, CancelUpdate,
                  storeVars
    <3>2. p \in Payments /\ row'[p].status = "AWAITING_DEPOSIT"
      BY <2>1, <3>1 DEF CreateInsert, Known, ReqKnown, StoreInv, ReqInv, Job
    <3> QED
      BY <2>1, <3>2 DEF NamedInv, AbsentUnannounced, Believed
  <2> QED
    BY <1>2, <1>4, <2>1 DEF BeliefInv, RowsBelieved, Untold, StoreInv
<1> QED
  BY <1>3, <1>5, <1>6 DEF BeliefInv

LEMMA PollerBelief ==
  ASSUME IInv, Known, PolledOnce, BeliefInv, StoreReliable', PollerStep
  PROVE  BeliefInv'
<1> USE DEF IInv
<1>0. [Next]_vars
  BY DEF Next
<1>1. CASE PollAll
  <2>1. PICK S \in ListActive : batch' = [p \in S |-> row[p]]
    BY <1>1 DEF PollAll
  <2>2. /\ pollPc = "idle" /\ pollPc' = "iterate"
        /\ UNCHANGED <<inserted, row, announced>>
    BY <1>1 DEF PollAll, PollerTo, storeVars
  <2>3. ASSUME NEW p \in S
        PROVE  row[p].status \in Believed(p)
    <3>1. p \in inserted /\ p \in Payments /\ ~IsTerminal(row[p].status)
      BY DEF ListActive, ActiveRows, StoreInv
    <3>2. ~Polling(p) /\ ~Untold(row[p])
      BY <2>2, <3>1 DEF Polling, Untold, StoreInv, Sound, IsTerminal, NoReason, Cancelled
    <3> QED
      BY <3>1, <3>2 DEF BeliefInv, RowsBelieved
  <2> QED
    BY <2>1, <2>2, <2>3
       DEF BeliefInv, RowsBelieved, BatchBelieved, JobBelieved, Polling, Believed
<1>2. CASE PollDone
  BY <1>2 DEF PollDone, PollerTo, BeliefInv, RowsBelieved, BatchBelieved, JobBelieved, Polling,
              Believed, storeVars
<1>3. ASSUME NEW q \in Payments, PollStatus(q)
      PROVE  BeliefInv'
  <2>1. /\ q \in DOMAIN batch /\ batch' = [p \in DOMAIN batch \ {q} |-> batch[p]]
        /\ pollPc = "iterate" /\ pollPc' = "update"
        /\ job'.p = q /\ job'.old = batch[q].status
        /\ UNCHANGED <<inserted, row, announced>>
    BY <1>3 DEF PollStatus, NextInBatch, HoldForUpdate, Polled, PollerTo, storeVars
  <2>2. RowsBelieved' /\ BatchBelieved'
    BY <2>1 DEF BeliefInv, RowsBelieved, BatchBelieved, Polling, Believed
  <2>3. JobBelieved'
    BY <2>1 DEF BeliefInv, BatchBelieved, JobBelieved, Believed
  <2> QED
    BY <2>2, <2>3 DEF BeliefInv
<1>4. CASE PollUpdate
  <2>1. /\ job \in Job /\ job.p \in Payments /\ pollPc = "update"
        /\ Update(job) /\ AfterPollUpdate(TRUE)
        /\ UNCHANGED <<inserted, batch, announced>>
    BY <1>0, <1>4, Reliable DEF PollUpdate, JobInv, Job
  <2>2. row'[job.p] = job.row /\ \A p \in Payments \ {job.p} : row'[p] = row[p]
    BY <2>1 DEF Update, StoreInv
  <2>3. \A p \in Payments : Believed(p)' = Believed(p)
    BY <2>1 DEF Believed
  <2>4. BatchBelieved'
    BY <2>1, <2>3 DEF BeliefInv, BatchBelieved, BatchInv
  <2>5. CASE GaveUp(job) \/ Changed(job)
    <3>1. pollPc' = "log" /\ job' = job
      BY <1>0, <2>1, <2>5, Reliable, Zenon DEF AfterPollUpdate, WillAnnounce, PollerTo
    <3>2. RowsBelieved' /\ JobBelieved'
      BY <2>1, <2>2, <2>3, <3>1 DEF BeliefInv, RowsBelieved, JobBelieved, Polling, StoreInv
    <3> QED
      BY <2>4, <3>2 DEF BeliefInv
  <2>6. CASE ~(GaveUp(job) \/ Changed(job))
    <3>1. pollPc' = "iterate" /\ job.row.status = job.old
      BY <2>1, <2>6, Zenon DEF AfterPollUpdate, WillAnnounce, PollerTo, Changed
    <3>2. job.old \in Believed(job.p)
      BY <2>1 DEF BeliefInv, JobBelieved
    <3>3. RowsBelieved' /\ JobBelieved'
      BY <2>1, <2>2, <2>3, <3>1, <3>2 DEF BeliefInv, RowsBelieved, JobBelieved, Polling, StoreInv
    <3> QED
      BY <2>4, <3>3 DEF BeliefInv
  <2> QED
    BY <2>5, <2>6
<1>5. CASE PollLog
  <2>1. /\ pollPc = "log" /\ pollPc' = "announce" /\ job' = job
        /\ UNCHANGED <<inserted, row, batch, announced>>
    BY <1>5 DEF PollLog, PollerTo
  <2> QED
    BY <2>1 DEF BeliefInv, RowsBelieved, BatchBelieved, JobBelieved, Polling, Believed
<1>6. CASE PollAnnounce
  <2>1. /\ job.p \in Payments /\ pollPc = "announce" /\ pollPc' = "iterate"
        /\ announced' = [announced EXCEPT ![job.p] = job.row.status]
        /\ UNCHANGED <<inserted, row, batch>>
    BY <1>6 DEF PollAnnounce, PollerTo, JobInv, Job, storeVars
  <2>2. /\ announced'[job.p] = job.row.status
        /\ \A p \in Payments \ {job.p} : announced'[p] = announced[p]
    BY <2>1 DEF NoticeTyped
  <2>3. job.p \notin DOMAIN batch
    BY <2>1 DEF PolledOnce, InHand
  <2>4. BatchBelieved'
    BY <2>1, <2>2, <2>3 DEF BeliefInv, BatchBelieved, Believed, BatchInv
  <2>5. RowsBelieved'
    BY <2>1, <2>2 DEF BeliefInv, RowsBelieved, JobBelieved, Polling, Untold, Believed, StoreInv
  <2>6. JobBelieved'
    BY <2>1 DEF JobBelieved
  <2> QED
    BY <2>4, <2>5, <2>6 DEF BeliefInv
<1>7. ASSUME NEW q \in Payments, PollInterrupted(q)
      PROVE  BeliefInv'
  BY <1>0, <1>7, Reliable DEF PollInterrupted
<1> QED
  BY <1>1, <1>2, <1>3, <1>4, <1>5, <1>6, <1>7 DEF PollerStep

LEMMA BeliefStep ==
  ASSUME IInv, Known, PolledOnce, NamedInv, BeliefInv, StoreReliable', [Next]_vars
  PROVE  BeliefInv'
<1>1. ASSUME NEW r \in Requests, RequestStep(r)
      PROVE  BeliefInv'
  BY <1>1, RequestBelief
<1>2. CASE PollerStep
  BY <1>2, PollerBelief
<1>3. CASE Reap
  <2>1. /\ pollPc = "idle" /\ UNCHANGED <<inserted, pollVars, announced>>
        /\ \A p \in inserted : p \in Payments /\ (row'[p] = row[p] \/ row'[p].status = "EXPIRED")
    BY <1>3 DEF Reap, IInv, StoreInv, Row
  <2> QED
    BY <2>1 DEF BeliefInv, RowsBelieved, BatchBelieved, JobBelieved, Polling, Untold, Believed,
                pollVars
<1>4. CASE UNCHANGED <<inserted, row, pollVars, announced>>
  BY <1>4 DEF BeliefInv, RowsBelieved, BatchBelieved, JobBelieved, Polling, Untold, Believed,
              pollVars
<1> QED
  BY <1>1, <1>2, <1>3, <1>4, Reliable
     DEF Next, SubmitDeposit, UpstreamStep, Deadline, vars, storeVars

\* As long as store calls succeed and the process lives, subscribers and
\* callbacks were last told the status a row shows, unless the poller has the
\* payment in hand or the row was cancelled or expired, which nobody announces.
THEOREM NoticesMatchRows == Spec => []AnnouncedMatchesRow
<1> DEFINE CondInv == StoreReliable => BeliefInv
<1>1. Init => CondInv
  BY DEF Init, BeliefInv, RowsBelieved, BatchBelieved, JobBelieved
<1>2. IInv /\ Known /\ PolledOnce /\ NamedInv /\ CondInv /\ [Next]_vars => CondInv'
  BY BeliefStep, Reliable
<1>3. CondInv => AnnouncedMatchesRow
  BY DEF BeliefInv, RowsBelieved, Believed, Untold, AnnouncedMatchesRow
<1> QED
  BY <1>1, <1>2, <1>3, Invariance, KnownAlways, PolledOnceAlways, NamedAlways, PTL DEF Spec

-----------------------------------------------------------------------------
(* Detections, through any fault but a blank answer.                       *)

Detections == {"DETECTED", "PROCESSING", "INCOMPLETE"}

\* Statuses of a payment whose deposit nobody has seen.
Unseen == {"PENDING", "AWAITING_DEPOSIT", "EXPIRED"}

\* The 1-click API has seen p's deposit.
Paid(p) == upstream[p] \in RawStatuses \ {"PENDING_DEPOSIT"}

\* A row, or a copy of one, that shows a detection tells of a real one.
DetectionsReal ==
  /\ \A p \in Payments : row[p].status \in Detections => Paid(p)
  /\ \A p \in DOMAIN batch : batch[p].status \in Detections => Paid(p)
  /\ InHand => \A p \in Payments : job.p = p /\ job.row.status \in Detections => Paid(p)

LEMMA PaidStays ==
  ASSUME IInv, [Next]_vars, NEW p \in Payments, Paid(p)
  PROVE  Paid(p)'
<1>1. upstream[p] \in RawStatuses /\ upstream[p] # "PENDING_DEPOSIT" /\ upstream[p] # Unquoted
  BY DEF Paid, RawStatuses, Unquoted
<1>2. ASSUME NEW r \in Requests, RequestStep(r)
      PROVE  upstream'[p] = upstream[p]
  BY <1>1, <1>2 DEF RequestStep, CreateQuote, CreateInsert, RequestLog, CancelLoad, CancelUpdate,
                    worldVars, IInv, WorldInv
<1>3. CASE PollerStep
  BY <1>3 DEF Paid, PollerStep, PollAll, PollDone, PollStatus, PollInterrupted, PollUpdate,
              PollLog, PollAnnounce, worldVars
<1>4. CASE Reap \/ Crash \/ Stop \/ UNCHANGED vars
  BY <1>4 DEF Paid, Reap, Crash, Stop, vars, worldVars
<1>5. ASSUME NEW q \in Payments, SubmitDeposit(q) \/ Deadline(q)
      PROVE  Paid(p)'
  BY <1>1, <1>5 DEF Paid, SubmitDeposit, Deadline, IInv, WorldInv
<1>6. ASSUME NEW q \in Payments, UpstreamStep(q)
      PROVE  Paid(p)'
  BY <1>1, <1>6, LimitsAssumption DEF Paid, UpstreamStep, IInv, WorldInv
<1> QED
  BY <1>2, <1>3, <1>4, <1>5, <1>6 DEF Next, Paid

\* Only an answer that tells of a deposit maps to a detection, and no answer
\* about a paid one maps to an unseen status.
LEMMA AnsweredDetection ==
  ASSUME NEW p \in Payments, NEW rw \in Row, NEW raw
  PROVE  /\ raw = upstream[p] \/ raw = BlankStatus =>
              (Answered(rw, raw).status \in Detections => Paid(p))
         /\ raw = upstream[p] /\ Paid(p) => Answered(rw, raw).status \notin Unseen
<1>1. Answered(rw, raw).status = MapOneclickStatus(raw)
  BY DEF Answered, Row
<1> QED
  BY <1>1 DEF MapOneclickStatus, BlankStatus, Detections, Unseen, Paid, RawStatuses

LEMMA UnansweredDetection ==
  ASSUME NEW rw \in Row
  PROVE  Unanswered(rw).status \in {"FAILED", rw.status}
BY DEF Unanswered, Row

\* Every store call reads or writes whole rows.
LEMMA RowWrites ==
  ASSUME IInv, Known, [Next]_vars, NEW p \in Payments
  PROVE  \/ row'[p] = row[p]
         \/ p \notin inserted /\ row'[p].status = "AWAITING_DEPOSIT"
         \/ p \in inserted /\ row'[p].status = "FAILED"
         \/ p \in inserted /\ row[p].status \in Unseen /\ row'[p].status = "EXPIRED"
         \/ PollUpdate /\ job.p = p /\ row'[p] = job.row
<1> USE DEF IInv
<1>1. ASSUME NEW r \in Requests, CreateInsert(r) \/ CancelUpdate(r)
      PROVE  \/ row'[p] = row[p]
             \/ p \notin inserted /\ row'[p].status = "AWAITING_DEPOSIT"
             \/ p \in inserted /\ row'[p].status = "FAILED"
  BY <1>1 DEF CreateInsert, CancelUpdate, NoConflict, Update, StoreInv, ReqInv, Job, Known,
              ReqKnown
<1>2. CASE PollUpdate
  BY <1>2 DEF PollUpdate, Update, StoreInv
<1>3. CASE Reap
  BY <1>3 DEF Reap, Reapable, Unseen, StoreInv, Row
<1>4. CASE UNCHANGED row
  BY <1>4
<1>5. ASSUME NEW r \in Requests, RequestStep(r), ~CreateInsert(r), ~CancelUpdate(r)
      PROVE  UNCHANGED row
  BY <1>5 DEF RequestStep, CreateQuote, RequestLog, CancelLoad, storeVars
<1>6. CASE PollerStep /\ ~PollUpdate
  BY <1>6 DEF PollerStep, PollAll, PollDone, PollStatus, PollInterrupted, PollLog, PollAnnounce,
              storeVars
<1> QED
  BY <1>1, <1>2, <1>3, <1>4, <1>5, <1>6
     DEF Next, Crash, Stop, SubmitDeposit, UpstreamStep, Deadline, vars, storeVars

LEMMA CopiesTaken ==
  ASSUME IInv, [Next]_vars, NEW p \in DOMAIN batch'
  PROVE  \/ p \in DOMAIN batch /\ batch'[p] = batch[p]
         \/ /\ pollPc = "idle" /\ p \in inserted
            /\ ~IsTerminal(row[p].status) /\ batch'[p] = row[p]
<1>1. CASE PollAll
  BY <1>1 DEF PollAll, ListActive, ActiveRows
<1>2. CASE UNCHANGED batch
  BY <1>2
<1>3. CASE Crash \/ Stop
  <2>1. CASE batch' = NoBatch
    BY <2>1 DEF NoBatch
  <2>2. ASSUME NEW q \in DOMAIN batch, batch' = [x \in {q} |-> batch[x]]
        PROVE  p \in DOMAIN batch /\ batch'[p] = batch[p]
    BY <2>2
  <2> QED
    BY <1>3, <2>1, <2>2 DEF Crash, Stop, NextInBatch
<1>4. ASSUME NEW q \in Payments, PollStatus(q) \/ PollInterrupted(q)
      PROVE  p \in DOMAIN batch /\ batch'[p] = batch[p]
  BY <1>4 DEF PollStatus, PollInterrupted, NoBatch
<1>5. ASSUME NEW r \in Requests, RequestStep(r)
      PROVE  UNCHANGED batch
  BY <1>5 DEF RequestStep, CreateQuote, CreateInsert, RequestLog, CancelLoad, CancelUpdate,
              pollVars
<1> QED
  BY <1>1, <1>2, <1>3, <1>4, <1>5
     DEF Next, PollerStep, PollDone, PollUpdate, PollLog, PollAnnounce, Reap, SubmitDeposit,
         UpstreamStep, Deadline, vars, pollVars

\* The row a poll of p computes from the listed one.
Computes(p, rw) ==
  \/ rw = Answered(batch[p], upstream[p])
  \/ "blank" \in suffered' /\ rw = Answered(batch[p], BlankStatus)
  \/ rw = Unanswered(batch[p])

\* A job is the poller's old one or computed from a listed row.
LEMMA JobTaken ==
  ASSUME IInv, [Next]_vars, InHand'
  PROVE  \/ InHand /\ job' = job
         \/ \E p \in DOMAIN batch :
              /\ Computes(p, job'.row) /\ job'.p = p
              /\ pollPc' # "log"
              /\ UNCHANGED <<row, logged, inserted>>
<1>1. ASSUME NEW p \in Payments, PollStatus(p)
      PROVE  /\ p \in DOMAIN batch /\ Computes(p, job'.row) /\ job'.p = p
             /\ pollPc' # "log"
             /\ UNCHANGED <<row, logged, inserted>>
  BY <1>1 DEF PollStatus, NextInBatch, HoldForUpdate, Polled, PollerTo, Computes, Fault, storeVars
<1>2. ASSUME NEW p \in Payments, PollInterrupted(p)
      PROVE  /\ p \in DOMAIN batch /\ Computes(p, job'.row) /\ job'.p = p
             /\ pollPc' # "log"
             /\ UNCHANGED <<row, logged, inserted>>
  BY <1>2 DEF PollInterrupted, Polled, PollerTo, Computes, InHand, storeVars
<1>3. CASE PollUpdate \/ PollLog
  BY <1>3 DEF PollUpdate, PollLog, AfterPollUpdate, PollerTo, InHand
<1>4. CASE PollAll \/ PollDone \/ PollAnnounce \/ Crash
  BY <1>4 DEF PollAll, PollDone, PollAnnounce, Crash, PollerTo, InHand
<1>5. CASE UNCHANGED pollVars
  BY <1>5 DEF pollVars, InHand
<1>6. CASE Stop
  BY <1>6 DEF Stop, InHand
<1>7. ASSUME NEW r \in Requests, RequestStep(r)
      PROVE  UNCHANGED pollVars
  BY <1>7 DEF RequestStep, CreateQuote, CreateInsert, RequestLog, CancelLoad, CancelUpdate
<1> QED
  BY <1>1, <1>2, <1>3, <1>4, <1>5, <1>6, <1>7
     DEF Next, PollerStep, Reap, SubmitDeposit, UpstreamStep, Deadline, vars

LEMMA DetectionsStep ==
  ASSUME IInv, Known, DetectionsReal, [Next]_vars
  PROVE  DetectionsReal'
<1> USE DEF IInv
<1>1. \A p \in Payments : Paid(p) => Paid(p)'
  BY PaidStays
<1>2. ASSUME NEW p \in Payments, row'[p].status \in Detections
      PROVE  Paid(p)'
  <2>1. CASE PollUpdate /\ job.p = p /\ row'[p] = job.row
    BY <1>1, <1>2, <2>1 DEF DetectionsReal, PollUpdate, InHand
  <2>2. CASE row'[p] = row[p]
    BY <1>1, <1>2, <2>2 DEF DetectionsReal
  <2> QED
    BY <1>2, <2>1, <2>2, RowWrites DEF Detections
<1>3. ASSUME NEW p \in DOMAIN batch', batch'[p].status \in Detections
      PROVE  Paid(p)'
  BY <1>1, <1>3, CopiesTaken DEF DetectionsReal, StoreInv, BatchInv
<1>4. ASSUME InHand', NEW p \in Payments, job'.p = p, job'.row.status \in Detections
      PROVE  Paid(p)'
  <2>1. CASE InHand /\ job' = job
    BY <1>1, <1>4, <2>1 DEF DetectionsReal
  <2>2. CASE p \in DOMAIN batch /\ Computes(p, job'.row)
    <3>1. batch[p] \in Row
      BY <2>2 DEF BatchInv
    <3>2. Unanswered(batch[p]).status \in {"FAILED", batch[p].status}
      BY <3>1, UnansweredDetection
    <3>3. CASE job'.row = Unanswered(batch[p])
      BY <1>1, <1>4, <2>2, <3>2, <3>3 DEF DetectionsReal, Detections
    <3>4. CASE job'.row = Answered(batch[p], upstream[p]) \/ job'.row = Answered(batch[p], BlankStatus)
      BY <1>1, <1>4, <3>1, <3>4, AnsweredDetection
    <3> QED
      BY <2>2, <3>3, <3>4 DEF Computes
  <2> QED
    BY <1>4, <2>1, <2>2, JobTaken
<1> QED
  BY <1>2, <1>3, <1>4 DEF DetectionsReal

LEMMA DetectionsAlways == Spec => []DetectionsReal
<1>1. Init => DetectionsReal
  BY DEF Init, DetectionsReal, InHand, NewRow, Detections
<1> QED
  BY <1>1, DetectionsStep, Invariance, KnownAlways, PTL DEF Spec

\* The trail records a detection of p, or is about to.
Seen(p) ==
  \/ \E e \in logged[p] : e.new \in Detections
  \/ pollPc = "log" /\ job.p = p /\ job.row.status \in Detections

\* From then on neither p's row nor a copy of it shows an unseen status.
SeenStays ==
  \A p \in Payments : Seen(p) =>
    /\ p \in inserted /\ Paid(p)
    /\ row[p].status \notin Unseen
    /\ p \in DOMAIN batch => batch[p].status \notin Unseen
    /\ InHand /\ job.p = p => job.row.status \notin Unseen

\* Requests record no detection.
RequestsDetectNothing ==
  \A r \in Requests : reqPc[r] # "idle" => req[r].row.status \in {"AWAITING_DEPOSIT", "FAILED"}

LEMMA RequestsDetectNothingStep ==
  ASSUME IInv, RequestsDetectNothing, [Next]_vars
  PROVE  RequestsDetectNothing'
<1> USE DEF IInv
<1>1. ASSUME NEW r \in Requests, RequestStep(r)
      PROVE  RequestsDetectNothing'
  <2>1. ASSUME NEW p \in Payments, CancelLoad(r, p)
        PROVE  RequestsDetectNothing'
    BY <2>1 DEF CancelLoad, RequestAt, RequestsDetectNothing, ReqInv, StoreInv, Row
  <2>2. ASSUME NEW p \in Payments, CreateQuote(r, p)
        PROVE  RequestsDetectNothing'
    BY <2>2 DEF CreateQuote, RequestAt, RequestsDetectNothing, ReqInv, NewRow, reqVars
  <2>3. CASE RequestDone(r) \/ (reqPc[r] # "idle" /\ RequestAt(r, "log", req[r]))
    BY <2>3 DEF RequestAt, RequestDone, RequestsDetectNothing, ReqInv
  <2> QED
    BY <1>1, <2>1, <2>2, <2>3 DEF RequestStep, CreateInsert, RequestLog, CancelUpdate
<1>2. CASE UNCHANGED reqVars
  BY <1>2 DEF RequestsDetectNothing, reqVars
<1>3. CASE Crash
  BY <1>3 DEF Crash, RequestsDetectNothing
<1>4. CASE PollerStep
  BY <1>2, <1>4 DEF PollerStep, PollAll, PollDone, PollStatus, PollInterrupted, PollUpdate,
                    PollLog, PollAnnounce
<1> QED
  BY <1>1, <1>2, <1>3, <1>4 DEF Next, Reap, Stop, SubmitDeposit, UpstreamStep, Deadline, vars

LEMMA RequestsDetectNothingAlways == Spec => []RequestsDetectNothing
<1>1. Init => RequestsDetectNothing
  BY DEF Init, RequestsDetectNothing
<1> QED
  BY <1>1, RequestsDetectNothingStep, Invariance, PTL DEF Spec

\* A detection is logged after the update that records it, by the poller alone.
LEMMA SeenBefore ==
  ASSUME IInv, RequestsDetectNothing, [Next]_vars, NEW p \in Payments, Seen(p)'
  PROVE  \/ Seen(p)
         \/ /\ pollPc = "update" /\ job.p = p /\ job.row.status \in Detections
            /\ row'[p] = job.row /\ job' = job
<1> USE DEF IInv
<1>1. ASSUME NEW r \in Requests, RequestStep(r)
      PROVE  Seen(p)
  <2>1. CASE RequestLog(r)
    <3>1. req[r] \in Job /\ req[r].row.status \notin Detections
      BY <2>1 DEF RequestLog, ReqInv, RequestsDetectNothing, Detections
    <3>2. req[r].p \in Payments
      BY <3>1 DEF Job
    <3>3. \A e \in logged'[p] : e.new \in Detections => e \in logged[p]
      BY <2>1, <3>1, <3>2, AppendedEvent DEF RequestLog
    <3> QED
      BY <2>1, <3>3 DEF RequestLog, Seen, pollVars
  <2>2. CASE UNCHANGED <<logged, pollVars>>
    BY <2>2 DEF Seen, pollVars
  <2> QED
    BY <1>1, <2>1, <2>2
       DEF RequestStep, CreateQuote, CreateInsert, CancelLoad, CancelUpdate, storeVars
<1>2. CASE PollUpdate
  <2>1. job.p \in Payments /\ Sound(job.row)
    BY <1>2 DEF PollUpdate, JobInv, Job
  <2>2. GaveUp(job) => job.row.status = "FAILED"
    BY <2>1 DEF GaveUp, Sound, NoReason, TooManyPollFailures
  <2>3. CASE Update(job)
    BY <1>2, <2>1, <2>3 DEF PollUpdate, Update, AfterPollUpdate, PollerTo, Seen, StoreInv
  <2>4. CASE AfterPollUpdate(FALSE)
    <3>1. pollPc' = "log" => job' = job /\ GaveUp(job)
      BY <2>4, Zenon DEF AfterPollUpdate, WillAnnounce, PollerTo
    <3> QED
      BY <1>2, <2>2, <3>1 DEF PollUpdate, Seen, Detections
  <2> QED
    BY <1>2, <2>3, <2>4 DEF PollUpdate
<1>3. CASE PollLog
  <2>1. job.p \in Payments
    BY <1>3 DEF PollLog, JobInv, Job
  <2>2. pollPc = "log" /\ pollPc' = "announce"
    BY <1>3 DEF PollLog, PollerTo
  <2>3. CASE UNCHANGED logged
    BY <2>2, <2>3 DEF Seen
  <2>4. ASSUME NEW type, AppendEvent(job, type)
        PROVE  Seen(p)
    <3>1. \A e \in logged'[p] : e \in logged[p] \/ (job.p = p /\ e.new = job.row.status)
      <4>1. CASE job.p = p
        BY <2>1, <2>4, <4>1, AppendedEvent
      <4>2. CASE job.p # p
        BY <2>1, <2>4, <4>2, AppendedEvent
      <4> QED
        BY <4>1, <4>2
    <3> QED
      BY <2>2, <3>1 DEF Seen
  <2> QED
    BY <1>3, <2>3, <2>4 DEF PollLog
<1>4. CASE PollerStep /\ ~PollUpdate /\ ~PollLog
  BY <1>4 DEF PollerStep, PollAll, PollDone, PollStatus, PollInterrupted, PollAnnounce,
              HoldForUpdate, PollerTo, Seen, storeVars
<1>5. CASE Crash
  BY <1>5 DEF Crash, Seen, storeVars
<1>6. CASE UNCHANGED <<logged, pollPc, job>>
  BY <1>6 DEF Seen
<1> QED
  BY <1>1, <1>2, <1>3, <1>4, <1>5, <1>6
     DEF Next, Reap, Stop, SubmitDeposit, UpstreamStep, Deadline, vars, storeVars, pollVars

LEMMA SeenStep ==
  ASSUME IInv, Known, PolledOnce, DetectionsReal, RequestsDetectNothing, SeenStays, [Next]_vars,
         "blank" \notin suffered'
  PROVE  SeenStays'
<1> USE DEF IInv
<1> SUFFICES ASSUME NEW p \in Payments, Seen(p)'
             PROVE  /\ p \in inserted' /\ Paid(p)'
                    /\ row'[p].status \notin Unseen
                    /\ p \in DOMAIN batch' => batch'[p].status \notin Unseen
                    /\ InHand' /\ job'.p = p => job'.row.status \notin Unseen
  BY DEF SeenStays
<1>1. CASE /\ pollPc = "update" /\ job.p = p /\ job.row.status \in Detections
           /\ row'[p] = job.row /\ job' = job
  <2>1. p \in inserted \ DOMAIN batch /\ Paid(p)
    BY <1>1 DEF PolledOnce, DetectionsReal, InHand
  <2>2. p \notin DOMAIN batch'
    BY <1>1, <2>1, CopiesTaken
  <2> QED
    BY <1>1, <2>1, <2>2, InsertedGrows, PaidStays DEF Unseen, Detections
<1>2. CASE Seen(p)
  <2>1. /\ p \in inserted /\ Paid(p)
        /\ row[p].status \notin Unseen
        /\ p \in DOMAIN batch => batch[p].status \notin Unseen
        /\ InHand /\ job.p = p => job.row.status \notin Unseen
    BY <1>2 DEF SeenStays
  <2>2. p \in inserted' /\ Paid(p)'
    BY <2>1, InsertedGrows, PaidStays
  <2>3. row'[p].status \notin Unseen
    <3>1. CASE PollUpdate /\ job.p = p /\ row'[p] = job.row
      BY <2>1, <3>1 DEF PollUpdate, InHand
    <3> QED
      BY <2>1, <3>1, RowWrites DEF Unseen
  <2>4. p \in DOMAIN batch' => batch'[p].status \notin Unseen
    BY <2>1, CopiesTaken
  <2>5. ASSUME InHand', job'.p = p
        PROVE  job'.row.status \notin Unseen
    <3>1. CASE p \in DOMAIN batch /\ Computes(p, job'.row)
      <4>1. batch[p] \in Row
        BY <3>1 DEF BatchInv
      <4>2. Unanswered(batch[p]).status \in {"FAILED", batch[p].status}
        BY <4>1, UnansweredDetection
      <4> QED
        BY <2>1, <3>1, <4>1, <4>2, AnsweredDetection DEF Computes, Unseen
    <3> QED
      BY <2>1, <2>5, <3>1, JobTaken
  <2> QED
    BY <2>2, <2>3, <2>4, <2>5
<1> QED
  BY <1>1, <1>2, SeenBefore

\* A payment whose deposit was recorded as seen does not expire, whatever fails
\* or restarts meanwhile, unless the 1-click API answers with no status at all.
THEOREM DetectedNeverExpires == Spec => []NoExpiryAfterDetection
<1> DEFINE CondInv == "blank" \notin suffered => SeenStays
<1>1. Init => CondInv
  BY DEF Init, SeenStays, Seen
<1>2. IInv /\ Known /\ PolledOnce /\ DetectionsReal /\ RequestsDetectNothing /\ CondInv
        /\ [Next]_vars => CondInv'
  BY SeenStep, SufferedGrows
<1>3. IInv /\ CondInv => NoExpiryAfterDetection
  BY DEF SeenStays, Seen, Unseen, Detections, NoExpiryAfterDetection, IInv, StoreInv
<1> QED
  BY <1>1, <1>2, <1>3, Invariance, KnownAlways, PolledOnceAlways, DetectionsAlways,
     RequestsDetectNothingAlways, PTL DEF Spec
=============================================================================
