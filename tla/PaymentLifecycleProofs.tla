----------------------- MODULE PaymentLifecycleProofs -----------------------
(***************************************************************************)
(* Proofs about PaymentLifecycle for any payments, any number of           *)
(* concurrent requests, any limits and any mixture of faults.              *)
(***************************************************************************)
EXTENDS PaymentLifecycle, TLAPS

-----------------------------------------------------------------------------
(* The inductive invariant. *)

\* A row that is still polled has failures left before it is given up, and a
\* row with a failure reason has failed.
Sound(rw) ==
  /\ ~IsTerminal(rw.status) => rw.failures < MaxPollFailures
  /\ rw.reason # NoReason => rw.status = "FAILED"

\* The table: whole rows are read, changed and written, so what holds of every
\* row here must hold of every row in memory as well.
StoreInv ==
  /\ inserted \in SUBSET Payments
  /\ row \in [Payments -> Row]
  /\ logged \in [Payments -> SUBSET Event]
  /\ fresher \in SUBSET (Payments \X Payments)
  /\ \A p \in Payments : Sound(row[p])

WorldInv ==
  /\ upstream \in [Payments -> RawStatuses \cup {Unquoted, NoDeposit}]
  /\ due \in SUBSET Payments

\* What pollAll listed was active when it was listed.
BatchInv ==
  /\ DOMAIN batch \subseteq Payments
  /\ batch \in [DOMAIN batch -> Row]
  /\ \A p \in DOMAIN batch : Sound(batch[p]) /\ ~IsTerminal(batch[p].status)

JobInv ==
  /\ pollPc \in {"idle", "iterate", "update", "log", "announce"}
  /\ job \in Job \cup {NoJob}
  /\ pollPc \in {"update", "log", "announce"} => job \in Job /\ Sound(job.row)

ReqInv ==
  /\ reqPc \in [Requests -> {"idle", "insert", "update", "log"}]
  /\ req \in [Requests -> Job \cup {NoJob}]
  /\ \A r \in Requests : reqPc[r] # "idle" => req[r] \in Job /\ Sound(req[r].row)

NoticeTyped == announced \in [Payments -> PaymentStatuses \cup {NoStatus}]
FaultsTyped ==
  /\ stopped \in BOOLEAN
  /\ faults \in 0..MaxFaults
  /\ suffered \in SUBSET FaultKinds
  /\ stopped => "stop" \in suffered

IInv ==
  /\ StoreInv
  /\ WorldInv
  /\ BatchInv
  /\ JobInv
  /\ ReqInv
  /\ NoticeTyped
  /\ FaultsTyped

LEMMA InvTypeOK == IInv => TypeOK
BY DEF IInv, TypeOK, StoreInv, WorldInv, BatchInv, JobInv, ReqInv, NoticeTyped, FaultsTyped

-----------------------------------------------------------------------------
(* The rows the actions compute. *)

\* Every answer of the 1-click API, even a blank one, maps to a status.
LEMMA MappedStatus ==
  ASSUME NEW raw
  PROVE  MapOneclickStatus(raw) \in PaymentStatuses
BY DEF MapOneclickStatus, PaymentStatuses

\* A successful poll of an active row computes a sound row.
LEMMA AnsweredSound ==
  ASSUME NEW rw \in Row, Sound(rw), ~IsTerminal(rw.status), NEW raw
  PROVE  Answered(rw, raw) \in Row /\ Sound(Answered(rw, raw))
<1>1. rw.reason = NoReason
  BY DEF Sound, IsTerminal
<1>2. MapOneclickStatus(raw) \in PaymentStatuses
  BY MappedStatus
<1>3. 0 \in 0..MaxPollFailures
  BY LimitsAssumption
<1>4. Answered(rw, raw) \in Row
  BY <1>2, <1>3 DEF Answered, Row
<1>5. /\ Answered(rw, raw).failures = 0
      /\ Answered(rw, raw).reason = NoReason
  BY <1>1 DEF Answered, Row
<1> QED
  BY <1>4, <1>5, LimitsAssumption DEF Sound

\* So does a failed one, and the count never passes the limit.
LEMMA UnansweredSound ==
  ASSUME NEW rw \in Row, Sound(rw), ~IsTerminal(rw.status)
  PROVE  Unanswered(rw) \in Row /\ Sound(Unanswered(rw))
<1>1. rw.failures \in Nat /\ rw.failures + 1 <= MaxPollFailures
  BY LimitsAssumption DEF Sound, Row
<1>2. rw.reason = NoReason
  BY DEF Sound, IsTerminal
<1>3. rw.failures + 1 \in 0..MaxPollFailures
  BY <1>1, LimitsAssumption
<1>4. "FAILED" \in PaymentStatuses /\ IsTerminal("FAILED")
  BY DEF PaymentStatuses, IsTerminal
<1>5. CASE rw.failures + 1 >= MaxPollFailures
  BY <1>3, <1>4, <1>5 DEF Unanswered, Row, Sound
<1>6. CASE ~(rw.failures + 1 >= MaxPollFailures)
  <2>1. Unanswered(rw) = [rw EXCEPT !.failures = rw.failures + 1]
    BY <1>6 DEF Unanswered
  <2>2. Unanswered(rw) \in Row
    BY <1>3, <2>1 DEF Row
  <2>3. /\ Unanswered(rw).failures < MaxPollFailures
        /\ Unanswered(rw).reason = NoReason
    BY <1>1, <1>2, <1>6, <2>1, LimitsAssumption DEF Row
  <2> QED
    BY <2>2, <2>3 DEF Sound
<1> QED
  BY <1>5, <1>6

LEMMA NewRowSound == NewRow \in Row /\ Sound(NewRow)
BY LimitsAssumption DEF NewRow, Row, Sound, PaymentStatuses, IsTerminal, NoReason

\* A cancelled row is sound.
LEMMA CancelSound ==
  ASSUME NEW rw \in Row
  PROVE  LET c == [rw EXCEPT !.status = "FAILED", !.reason = Cancelled]
         IN  c \in Row /\ Sound(c)
BY DEF Row, Sound, PaymentStatuses, IsTerminal, NoReason, Cancelled

\* So is one the reaper expires.
LEMMA ReapSound ==
  ASSUME NEW rw \in Row, Sound(rw), rw.status \in {"PENDING", "AWAITING_DEPOSIT"}
  PROVE  LET e == [rw EXCEPT !.status = "EXPIRED"]
         IN  e \in Row /\ Sound(e)
BY DEF Row, Sound, PaymentStatuses, IsTerminal, NoReason

LEMMA FaultTyped ==
  ASSUME FaultsTyped, NEW kind, Fault(kind) \/ PollerFault(kind) \/ NoFault,
         \/ stopped' = stopped
         \/ stopped' = FALSE
         \/ stopped' = TRUE /\ kind = "stop" /\ Fault(kind)
  PROVE  FaultsTyped'
<1>1. CASE NoFault /\ stopped' = stopped
  BY <1>1, Zenon DEF NoFault, FaultsTyped
<1>2. CASE NoFault /\ stopped' = FALSE
  BY <1>2, Zenon DEF NoFault, FaultsTyped
<1>3. CASE Fault(kind)
  <2>1. faults' \in 0..MaxFaults
    BY <1>3, LimitsAssumption DEF Fault, FaultsTyped
  <2>2. /\ suffered' \in SUBSET FaultKinds
        /\ suffered \subseteq suffered'
        /\ kind \in suffered'
    BY <1>3 DEF Fault, FaultsTyped
  <2>3. CASE stopped' = stopped
    BY <2>1, <2>2, <2>3, Zenon DEF FaultsTyped
  <2>4. CASE stopped' = FALSE
    BY <2>1, <2>2, <2>4, Zenon DEF FaultsTyped
  <2>5. CASE stopped' = TRUE /\ kind = "stop"
    BY <2>1, <2>2, <2>5, Zenon DEF FaultsTyped
  <2> QED
    BY <2>3, <2>4, <2>5
<1> QED
  BY <1>1, <1>2, <1>3, Zenon DEF PollerFault

-----------------------------------------------------------------------------
(* What the actions leave alone stays as it is. *)

LEMMA StoreFrame == ASSUME StoreInv, UNCHANGED storeVars PROVE StoreInv'
BY DEF StoreInv, storeVars
LEMMA WorldFrame == ASSUME WorldInv, UNCHANGED worldVars PROVE WorldInv'
BY DEF WorldInv, worldVars
LEMMA BatchFrame == ASSUME BatchInv, UNCHANGED batch PROVE BatchInv'
BY DEF BatchInv
LEMMA JobFrame == ASSUME JobInv, UNCHANGED <<pollPc, job>> PROVE JobInv'
BY DEF JobInv
LEMMA ReqFrame == ASSUME ReqInv, UNCHANGED reqVars PROVE ReqInv'
BY DEF ReqInv, reqVars
LEMMA NoticeFrame == ASSUME NoticeTyped, UNCHANGED announced PROVE NoticeTyped'
BY DEF NoticeTyped

-----------------------------------------------------------------------------
(* What the actions share. *)

\* A request takes hold of a payment, or lets go of it.
LEMMA RequestAtInv ==
  ASSUME ReqInv, NEW r \in Requests, NEW pc \in {"insert", "update", "log"},
         NEW j \in Job, Sound(j.row), RequestAt(r, pc, j)
  PROVE  ReqInv'
BY DEF ReqInv, RequestAt

LEMMA RequestDoneInv ==
  ASSUME ReqInv, NEW r \in Requests, RequestDone(r)
  PROVE  ReqInv'
BY DEF ReqInv, RequestDone

\* The poller takes hold of a payment, keeps it or lets go of it.
LEMMA PollerToInv ==
  ASSUME NEW pc \in {"update", "log", "announce"}, NEW j \in Job, Sound(j.row),
         PollerTo(pc, j)
  PROVE  JobInv'
BY DEF JobInv, PollerTo

LEMMA PollerRestInv ==
  ASSUME NEW pc \in {"idle", "iterate"}, PollerTo(pc, NoJob)
  PROVE  JobInv'
BY DEF JobInv, PollerTo

\* A whole-row write of a sound row.
LEMMA UpdateInv ==
  ASSUME StoreInv, NEW j \in Job, Sound(j.row), Update(j),
         UNCHANGED <<inserted, logged>>,
         MarkPolled(j.p) \/ UNCHANGED fresher
  PROVE  StoreInv'
<1>1. j.p \in Payments /\ j.row \in Row
  BY DEF Job
<1>2. row' \in [Payments -> Row] /\ \A p \in Payments : Sound(row'[p])
  BY <1>1 DEF StoreInv, Update
<1>3. fresher' \in SUBSET (Payments \X Payments)
  BY <1>1 DEF StoreInv, MarkPolled
<1> QED
  BY <1>2, <1>3 DEF StoreInv

\* An event appended, or not.
LEMMA AppendInv ==
  ASSUME StoreInv, NEW j \in Job, NEW type \in {"status_change", "error"},
         AppendEvent(j, type) \/ UNCHANGED logged,
         UNCHANGED <<inserted, row, fresher>>
  PROVE  StoreInv'
<1>1. j.p \in Payments /\ [type |-> type, old |-> j.old, new |-> j.row.status] \in Event
  BY DEF Job, Row, Event
<1>2. logged' \in [Payments -> SUBSET Event]
  BY <1>1 DEF StoreInv, AppendEvent
<1> QED
  BY <1>2 DEF StoreInv

-----------------------------------------------------------------------------
(* Every step preserves the invariant: one lemma per kind of step. *)

LEMMA InitInv == Init => IInv
<1> SUFFICES ASSUME Init PROVE IInv
  OBVIOUS
<1>1. StoreInv
  BY NewRowSound DEF Init, StoreInv
<1>2. WorldInv /\ BatchInv /\ JobInv /\ ReqInv
  BY DEF Init, WorldInv, BatchInv, JobInv, ReqInv
<1>3. NoticeTyped /\ faults \in 0..MaxFaults
  BY LimitsAssumption DEF Init, NoticeTyped
<1>4. FaultsTyped
  BY <1>3, Zenon DEF Init, FaultsTyped
<1> QED
  BY <1>1, <1>2, <1>3, <1>4 DEF IInv

LEMMA RequestStepInv ==
  ASSUME IInv, NEW r \in Requests, RequestStep(r)
  PROVE  IInv'
<1> USE DEF IInv
<1>1. ASSUME NEW p \in Payments, CreateQuote(r, p)
      PROVE  IInv'
  <2>1. [p |-> p, row |-> NewRow, old |-> NoStatus] \in Job
    BY NewRowSound DEF Job
  <2>2. ReqInv'
    <3>1. CASE RequestAt(r, "insert", [p |-> p, row |-> NewRow, old |-> NoStatus])
      BY <2>1, <3>1, NewRowSound, RequestAtInv
    <3>2. CASE UNCHANGED reqVars
      BY <3>2, ReqFrame
    <3> QED
      BY <1>1, <3>1, <3>2 DEF CreateQuote
  <2>3. WorldInv'
    BY <1>1 DEF CreateQuote, WorldInv, RawStatuses
  <2>4. StoreInv' /\ BatchInv' /\ JobInv' /\ NoticeTyped'
    BY <1>1, StoreFrame, BatchFrame, JobFrame, NoticeFrame DEF CreateQuote, pollVars
  <2>5. FaultsTyped'
    BY <1>1, FaultTyped DEF CreateQuote
  <2> QED
    BY <2>2, <2>3, <2>4, <2>5
<1>2. ASSUME CreateInsert(r)
      PROVE  IInv'
  <2>1. req[r] \in Job /\ Sound(req[r].row)
    BY <1>2 DEF CreateInsert, ReqInv
  <2>2. StoreInv'
    <3>1. CASE UNCHANGED <<inserted, row>>
      BY <1>2, <3>1 DEF CreateInsert, StoreInv
    <3>2. CASE /\ inserted' = inserted \cup {req[r].p}
               /\ row' = [row EXCEPT ![req[r].p] = req[r].row]
      BY <1>2, <2>1, <3>2 DEF CreateInsert, StoreInv, Job
    <3> QED
      BY <1>2, <3>1, <3>2 DEF CreateInsert
  <2>3. ReqInv'
    BY <1>2, <2>1, RequestAtInv, RequestDoneInv DEF CreateInsert
  <2>4. WorldInv' /\ BatchInv' /\ JobInv' /\ NoticeTyped'
    BY <1>2, WorldFrame, BatchFrame, JobFrame, NoticeFrame DEF CreateInsert, pollVars
  <2>5. FaultsTyped'
    BY <1>2, FaultTyped DEF CreateInsert
  <2> QED
    BY <2>2, <2>3, <2>4, <2>5
<1>3. ASSUME RequestLog(r)
      PROVE  IInv'
  <2>1. req[r] \in Job
    BY <1>3 DEF RequestLog, ReqInv
  <2>2. StoreInv'
    BY <1>3, <2>1, AppendInv DEF RequestLog
  <2>3. ReqInv'
    BY <1>3, RequestDoneInv DEF RequestLog
  <2>4. WorldInv' /\ BatchInv' /\ JobInv' /\ NoticeTyped'
    BY <1>3, WorldFrame, BatchFrame, JobFrame, NoticeFrame DEF RequestLog, pollVars
  <2>5. FaultsTyped'
    BY <1>3, FaultTyped DEF RequestLog
  <2> QED
    BY <2>2, <2>3, <2>4, <2>5
<1>4. ASSUME NEW p \in Payments, CancelLoad(r, p)
      PROVE  IInv'
  <2> DEFINE c == [row[p] EXCEPT !.status = "FAILED", !.reason = Cancelled]
  <2>1. c \in Row /\ Sound(c)
    BY CancelSound DEF StoreInv
  <2>2. row[p].status \in PaymentStatuses
    BY DEF StoreInv, Row
  <2>3. [p |-> p, row |-> c, old |-> row[p].status] \in Job
    BY <2>1, <2>2 DEF Job
  <2>4. ReqInv'
    BY <1>4, <2>1, <2>3, RequestAtInv DEF CancelLoad
  <2>5. StoreInv' /\ WorldInv' /\ BatchInv' /\ JobInv' /\ NoticeTyped'
    BY <1>4, StoreFrame, WorldFrame, BatchFrame, JobFrame, NoticeFrame
       DEF CancelLoad, pollVars
  <2>6. FaultsTyped'
    BY <1>4, FaultTyped DEF CancelLoad
  <2> QED
    BY <2>4, <2>5, <2>6
<1>5. ASSUME CancelUpdate(r)
      PROVE  IInv'
  <2>1. req[r] \in Job /\ Sound(req[r].row)
    BY <1>5 DEF CancelUpdate, ReqInv
  <2>2. StoreInv'
    <3>1. CASE Update(req[r])
      BY <1>5, <2>1, <3>1, UpdateInv DEF CancelUpdate
    <3>2. CASE UNCHANGED row
      BY <1>5, <3>2, StoreFrame DEF CancelUpdate, storeVars
    <3> QED
      BY <1>5, <3>1, <3>2 DEF CancelUpdate
  <2>3. ReqInv'
    BY <1>5, <2>1, RequestAtInv, RequestDoneInv DEF CancelUpdate
  <2>4. WorldInv' /\ BatchInv' /\ JobInv' /\ NoticeTyped'
    BY <1>5, WorldFrame, BatchFrame, JobFrame, NoticeFrame DEF CancelUpdate, pollVars
  <2>5. FaultsTyped'
    BY <1>5, FaultTyped DEF CancelUpdate
  <2> QED
    BY <2>2, <2>3, <2>4, <2>5
<1> QED
  BY <1>1, <1>2, <1>3, <1>4, <1>5 DEF RequestStep

LEMMA PollStatusInv ==
  ASSUME IInv, NEW p \in Payments, PollStatus(p)
  PROVE  IInv'
<1> USE DEF IInv
<1>1. p \in DOMAIN batch
  BY DEF PollStatus, NextInBatch
<1>2. /\ batch[p] \in Row
      /\ Sound(batch[p])
      /\ ~IsTerminal(batch[p].status)
      /\ batch[p].status \in PaymentStatuses
  BY <1>1 DEF BatchInv, Row
<1>3. BatchInv'
  BY DEF PollStatus, BatchInv
<1>4. ASSUME NEW new \in Row, Sound(new), HoldForUpdate(p, new)
      PROVE  JobInv'
  <2>1. [p |-> p, row |-> new, old |-> batch[p].status] \in Job
    BY <1>2, <1>4 DEF Job
  <2> QED
    BY <1>4, <2>1, PollerToInv DEF HoldForUpdate, Polled
<1>5. JobInv'
  <2>1. CASE HoldForUpdate(p, Answered(batch[p], upstream[p]))
    BY <1>2, <1>4, <2>1, AnsweredSound
  <2>2. CASE HoldForUpdate(p, Answered(batch[p], BlankStatus))
    BY <1>2, <1>4, <2>2, AnsweredSound
  <2>3. CASE HoldForUpdate(p, Unanswered(batch[p]))
    BY <1>2, <1>4, <2>3, UnansweredSound
  <2> QED
    BY <2>1, <2>2, <2>3 DEF PollStatus
<1>6. StoreInv' /\ WorldInv' /\ ReqInv' /\ NoticeTyped'
  BY StoreFrame, WorldFrame, ReqFrame, NoticeFrame DEF PollStatus
<1>7. FaultsTyped'
  BY FaultTyped DEF PollStatus
<1> QED
  BY <1>3, <1>5, <1>6, <1>7

LEMMA PollInterruptedInv ==
  ASSUME IInv, NEW p \in Payments, PollInterrupted(p)
  PROVE  IInv'
<1> USE DEF IInv
<1> DEFINE j == Polled(p, Unanswered(batch[p]))
<1>1. /\ batch[p] \in Row
      /\ Sound(batch[p])
      /\ ~IsTerminal(batch[p].status)
      /\ batch[p].status \in PaymentStatuses
  BY DEF PollInterrupted, BatchInv, Row
<1>2. Unanswered(batch[p]) \in Row /\ Sound(Unanswered(batch[p]))
  BY <1>1, UnansweredSound
<1>3. j \in Job /\ Sound(j.row)
  BY <1>1, <1>2 DEF Polled, Job
<1>4. PollerTo("announce", j) \/ PollerTo("iterate", NoJob)
  BY DEF PollInterrupted
<1>5. JobInv'
  BY <1>3, <1>4, PollerToInv, PollerRestInv
<1>6. BatchInv'
  BY DEF PollInterrupted, BatchInv, NoBatch
<1>7. StoreInv' /\ WorldInv' /\ ReqInv' /\ NoticeTyped' /\ FaultsTyped'
  BY StoreFrame, WorldFrame, ReqFrame, NoticeFrame
     DEF PollInterrupted, NoFault, FaultsTyped
<1> QED
  BY <1>5, <1>6, <1>7

LEMMA PollerStepInv ==
  ASSUME IInv, PollerStep
  PROVE  IInv'
<1> USE DEF IInv
<1>1. ASSUME PollAll PROVE IInv'
  <2>1. PICK S \in ListActive : batch' = [p \in S |-> row[p]]
    BY <1>1 DEF PollAll
  <2>2. S \subseteq ActiveRows
    BY DEF ListActive
  <2>3. BatchInv'
    BY <2>1, <2>2 DEF BatchInv, ActiveRows, StoreInv
  <2>4. JobInv'
    BY <1>1, PollerRestInv DEF PollAll
  <2>5. StoreInv' /\ WorldInv' /\ ReqInv' /\ NoticeTyped' /\ FaultsTyped'
    BY <1>1, StoreFrame, WorldFrame, ReqFrame, NoticeFrame
       DEF PollAll, NoFault, FaultsTyped
  <2> QED
    BY <2>3, <2>4, <2>5
<1>2. ASSUME PollDone PROVE IInv'
  <2>1. JobInv'
    BY <1>2, PollerRestInv DEF PollDone
  <2>2. StoreInv' /\ WorldInv' /\ BatchInv' /\ ReqInv' /\ NoticeTyped' /\ FaultsTyped'
    BY <1>2, StoreFrame, WorldFrame, BatchFrame, ReqFrame, NoticeFrame
       DEF PollDone, NoFault, FaultsTyped
  <2> QED
    BY <2>1, <2>2
<1>3. ASSUME NEW p \in Payments, PollStatus(p) PROVE IInv'
  BY <1>3, PollStatusInv
<1>4. ASSUME PollUpdate PROVE IInv'
  <2>1. job \in Job /\ Sound(job.row)
    BY <1>4 DEF PollUpdate, JobInv
  <2>2. StoreInv'
    <3>1. CASE Update(job) /\ MarkPolled(job.p)
      BY <1>4, <2>1, <3>1, UpdateInv DEF PollUpdate
    <3>2. CASE UNCHANGED <<row, fresher>>
      BY <1>4, <3>2, StoreFrame DEF PollUpdate, storeVars
    <3> QED
      BY <1>4, <3>1, <3>2 DEF PollUpdate
  <2>3. PollerTo("log", job) \/ PollerTo("announce", job) \/ PollerTo("iterate", NoJob)
    BY <1>4 DEF PollUpdate, AfterPollUpdate
  <2>4. JobInv'
    BY <2>1, <2>3, PollerToInv, PollerRestInv
  <2>5. WorldInv' /\ BatchInv' /\ ReqInv' /\ NoticeTyped'
    BY <1>4, WorldFrame, BatchFrame, ReqFrame, NoticeFrame DEF PollUpdate
  <2>6. FaultsTyped'
    BY <1>4, FaultTyped DEF PollUpdate
  <2> QED
    BY <2>2, <2>4, <2>5, <2>6
<1>5. ASSUME PollLog PROVE IInv'
  <2>1. job \in Job /\ Sound(job.row)
    BY <1>5 DEF PollLog, JobInv
  <2>2. StoreInv'
    <3> DEFINE type == IF GaveUp(job) THEN "error" ELSE "status_change"
    <3>1. type \in {"status_change", "error"}
      OBVIOUS
    <3> HIDE DEF type
    <3>2. AppendEvent(job, type) \/ UNCHANGED logged
      BY <1>5 DEF PollLog, type
    <3> QED
      BY <1>5, <2>1, <3>1, <3>2, AppendInv DEF PollLog
  <2>3. JobInv'
    BY <1>5, <2>1, PollerToInv DEF PollLog
  <2>4. WorldInv' /\ BatchInv' /\ ReqInv' /\ NoticeTyped'
    BY <1>5, WorldFrame, BatchFrame, ReqFrame, NoticeFrame DEF PollLog
  <2>5. FaultsTyped'
    BY <1>5, FaultTyped DEF PollLog
  <2> QED
    BY <2>2, <2>3, <2>4, <2>5
<1>6. ASSUME PollAnnounce PROVE IInv'
  <2>1. NoticeTyped'
    <3>1. job \in Job
      BY <1>6 DEF PollAnnounce, JobInv
    <3> QED
      BY <1>6, <3>1 DEF PollAnnounce, NoticeTyped, Job, Row
  <2>2. JobInv'
    BY <1>6, PollerRestInv DEF PollAnnounce
  <2>3. StoreInv' /\ WorldInv' /\ BatchInv' /\ ReqInv' /\ FaultsTyped'
    BY <1>6, StoreFrame, WorldFrame, BatchFrame, ReqFrame
       DEF PollAnnounce, NoFault, FaultsTyped
  <2> QED
    BY <2>1, <2>2, <2>3
<1>7. ASSUME NEW p \in Payments, PollInterrupted(p) PROVE IInv'
  BY <1>7, PollInterruptedInv
<1> QED
  BY <1>1, <1>2, <1>3, <1>4, <1>5, <1>6, <1>7 DEF PollerStep

LEMMA ReapInv ==
  ASSUME IInv, Reap
  PROVE  IInv'
<1> USE DEF IInv
<1>1. ASSUME NEW p \in Payments
      PROVE  row'[p] \in Row /\ Sound(row'[p])
  <2>1. row[p] \in Row /\ Sound(row[p])
    BY DEF StoreInv
  <2>2. CASE Reapable(p)
    BY <2>1, <2>2, ReapSound DEF Reap, Reapable
  <2>3. CASE ~Reapable(p)
    BY <2>1, <2>3 DEF Reap
  <2> QED
    BY <2>2, <2>3
<1>2. StoreInv'
  BY <1>1 DEF Reap, StoreInv
<1>3. WorldInv' /\ BatchInv' /\ JobInv' /\ ReqInv' /\ NoticeTyped' /\ FaultsTyped'
  BY WorldFrame, BatchFrame, JobFrame, ReqFrame, NoticeFrame
     DEF Reap, pollVars, NoFault, FaultsTyped
<1> QED
  BY <1>2, <1>3

LEMMA WorldStepInv ==
  ASSUME IInv, NEW p \in Payments, SubmitDeposit(p) \/ UpstreamStep(p) \/ Deadline(p)
  PROVE  IInv'
<1> USE DEF IInv
<1>1. WorldInv'
  BY LimitsAssumption DEF SubmitDeposit, UpstreamStep, Deadline, WorldInv, RawStatuses
<1>2. StoreInv' /\ BatchInv' /\ JobInv' /\ ReqInv' /\ NoticeTyped' /\ FaultsTyped'
  BY StoreFrame, BatchFrame, JobFrame, ReqFrame, NoticeFrame
     DEF SubmitDeposit, UpstreamStep, Deadline, pollVars, NoFault, FaultsTyped
<1> QED
  BY <1>1, <1>2

LEMMA CrashInv ==
  ASSUME IInv, Crash
  PROVE  IInv'
<1> USE DEF IInv
<1>1. BatchInv' /\ JobInv' /\ ReqInv'
  BY DEF Crash, NoBatch, BatchInv, JobInv, ReqInv
<1>2. StoreInv' /\ WorldInv' /\ NoticeTyped'
  BY StoreFrame, WorldFrame, NoticeFrame DEF Crash
<1>3. FaultsTyped'
  BY FaultTyped DEF Crash
<1> QED
  BY <1>1, <1>2, <1>3

LEMMA StopInv ==
  ASSUME IInv, Stop
  PROVE  IInv'
<1> USE DEF IInv
<1>1. BatchInv'
  <2>1. CASE batch' = NoBatch
    BY <2>1 DEF BatchInv, NoBatch
  <2>2. CASE \E p \in Payments : NextInBatch(p) /\ batch' = [q \in {p} |-> batch[q]]
    BY <2>2 DEF BatchInv, NextInBatch
  <2> QED
    BY <2>1, <2>2 DEF Stop
<1>2. StoreInv' /\ WorldInv' /\ JobInv' /\ ReqInv' /\ NoticeTyped'
  BY StoreFrame, WorldFrame, JobFrame, ReqFrame, NoticeFrame DEF Stop
<1>3. FaultsTyped'
  BY FaultTyped DEF Stop
<1> QED
  BY <1>1, <1>2, <1>3

LEMMA StutterInv ==
  ASSUME IInv, UNCHANGED vars
  PROVE  IInv'
BY StoreFrame, WorldFrame, BatchFrame, JobFrame, ReqFrame, NoticeFrame
   DEF IInv, vars, pollVars, FaultsTyped

LEMMA NextInv == IInv /\ [Next]_vars => IInv'
BY RequestStepInv, PollerStepInv, ReapInv, WorldStepInv, CrashInv, StopInv, StutterInv DEF Next

-----------------------------------------------------------------------------
(* Settled payments. *)

\* A request that moves without touching p leaves p unheld by requests.
LEMMA RequestsStayOff ==
  ASSUME ReqInv, NEW p \in Payments, NEW r \in Requests,
         \A q \in Requests : reqPc[q] = "update" => req[q].p # p,
         \/ RequestDone(r)
         \/ \E pc \in {"insert", "log"}, j \in Job : RequestAt(r, pc, j)
         \/ \E j \in Job : RequestAt(r, "update", j) /\ j.p # p
         \/ UNCHANGED reqVars
  PROVE  \A q \in Requests : (reqPc[q] = "update" => req[q].p # p)'
BY DEF ReqInv, RequestDone, RequestAt, reqVars

LEMMA SettledRequestStep ==
  ASSUME IInv, NEW p \in Payments, Settled(p), NEW r \in Requests, RequestStep(r)
  PROVE  Settled(p)' /\ row'[p] = row[p]
<1> USE DEF IInv
<1>1. /\ p \in inserted
      /\ IsTerminal(row[p].status)
      /\ p \notin DOMAIN batch
      /\ ~(pollPc = "update" /\ job.p = p)
      /\ \A q \in Requests : reqPc[q] = "update" => req[q].p # p
  BY DEF Settled, Held
<1>2. SUFFICES /\ p \in inserted'
               /\ row'[p] = row[p]
               /\ UNCHANGED pollVars
               /\ \A q \in Requests : (reqPc[q] = "update" => req[q].p # p)'
  BY <1>1 DEF Settled, Held, pollVars
<1>3. ASSUME NEW q \in Payments, CreateQuote(r, q)
      PROVE  <1>2!1
  <2>1. [p |-> q, row |-> NewRow, old |-> NoStatus] \in Job
    BY NewRowSound DEF Job
  <2>2. \A o \in Requests : (reqPc[o] = "update" => req[o].p # p)'
    BY <1>1, <1>3, <2>1, RequestsStayOff DEF CreateQuote
  <2> QED
    BY <1>1, <1>3, <2>2 DEF CreateQuote, storeVars
<1>4. ASSUME NEW q \in Payments, CancelLoad(r, q)
      PROVE  <1>2!1
  <2> DEFINE c == [row[q] EXCEPT !.status = "FAILED", !.reason = Cancelled]
  <2>1. q # p
    BY <1>1, <1>4 DEF CancelLoad
  <2>2. c \in Row /\ row[q].status \in PaymentStatuses
    BY CancelSound DEF StoreInv, Row
  <2>3. [p |-> q, row |-> c, old |-> row[q].status] \in Job
    BY <2>2 DEF Job
  <2>4. \A o \in Requests : (reqPc[o] = "update" => req[o].p # p)'
    BY <1>1, <1>4, <2>1, <2>3, RequestsStayOff DEF CancelLoad
  <2> QED
    BY <1>1, <1>4, <2>4 DEF CancelLoad, storeVars
<1>5. ASSUME CreateInsert(r)
      PROVE  <1>2!1
  <2>1. req[r] \in Job
    BY <1>5 DEF CreateInsert, ReqInv
  <2>2. \A o \in Requests : (reqPc[o] = "update" => req[o].p # p)'
    BY <1>1, <1>5, <2>1, RequestsStayOff DEF CreateInsert
  <2>3. p \in inserted' /\ row'[p] = row[p]
    <3>1. CASE UNCHANGED <<inserted, row>>
      BY <1>1, <3>1
    <3>2. CASE /\ NoConflict(req[r].p)
               /\ inserted' = inserted \cup {req[r].p}
               /\ row' = [row EXCEPT ![req[r].p] = req[r].row]
      BY <1>1, <3>2 DEF NoConflict, StoreInv
    <3> QED
      BY <1>5, <3>1, <3>2 DEF CreateInsert
  <2> QED
    BY <1>5, <2>2, <2>3 DEF CreateInsert
<1>6. ASSUME CancelUpdate(r)
      PROVE  <1>2!1
  <2>1. req[r] \in Job /\ req[r].p # p
    BY <1>1, <1>6 DEF CancelUpdate, ReqInv
  <2>2. \A o \in Requests : (reqPc[o] = "update" => req[o].p # p)'
    BY <1>1, <1>6, <2>1, RequestsStayOff DEF CancelUpdate
  <2>3. row'[p] = row[p]
    BY <1>6, <2>1 DEF CancelUpdate, Update, StoreInv
  <2> QED
    BY <1>1, <1>6, <2>2, <2>3 DEF CancelUpdate
<1>7. ASSUME RequestLog(r)
      PROVE  <1>2!1
  <2>1. \A o \in Requests : (reqPc[o] = "update" => req[o].p # p)'
    BY <1>1, <1>7, RequestsStayOff DEF RequestLog
  <2> QED
    BY <1>1, <1>7, <2>1 DEF RequestLog
<1> QED
  BY <1>3, <1>4, <1>5, <1>6, <1>7 DEF RequestStep

LEMMA SettledPollerStep ==
  ASSUME IInv, NEW p \in Payments, Settled(p), PollerStep
  PROVE  Settled(p)' /\ row'[p] = row[p]
<1> USE DEF IInv
<1>1. /\ p \in inserted
      /\ IsTerminal(row[p].status)
      /\ p \notin DOMAIN batch
      /\ ~(pollPc = "update" /\ job.p = p)
      /\ \A q \in Requests : ~(reqPc[q] = "update" /\ req[q].p = p)
  BY DEF Settled, Held
<1>2. UNCHANGED <<inserted, reqVars>>
  BY DEF PollerStep, PollAll, PollDone, PollStatus, PollInterrupted, PollUpdate,
         PollLog, PollAnnounce,
         storeVars, worldVars
<1>3. SUFFICES /\ row'[p] = row[p]
               /\ p \notin DOMAIN batch'
               /\ ~(pollPc' = "update" /\ job'.p = p)
  BY <1>1, <1>2 DEF Settled, Held, reqVars
<1>4. CASE PollAll
  <2>1. PICK S \in ListActive : batch' = [q \in S |-> row[q]]
    BY <1>4 DEF PollAll
  <2>2. p \notin S
    BY <1>1 DEF ListActive, ActiveRows
  <2> QED
    BY <1>4, <2>1, <2>2 DEF PollAll, PollerTo, storeVars
<1>5. CASE PollDone
  BY <1>1, <1>5 DEF PollDone, PollerTo, storeVars
<1>6. ASSUME NEW q \in Payments, PollStatus(q)
      PROVE  <1>3!1
  <2>1. q # p
    BY <1>1, <1>6 DEF PollStatus, NextInBatch
  <2>2. job'.p = q
    BY <1>6 DEF PollStatus, HoldForUpdate, Polled, PollerTo
  <2>3. p \notin DOMAIN batch'
    BY <1>1, <1>6 DEF PollStatus
  <2> QED
    BY <1>6, <2>1, <2>2, <2>3 DEF PollStatus, storeVars
<1>7. CASE PollUpdate
  <2>1. job \in Job /\ job.p # p
    BY <1>1, <1>7 DEF PollUpdate, JobInv
  <2>2. row'[p] = row[p]
    BY <1>7, <2>1 DEF PollUpdate, Update, StoreInv
  <2> QED
    BY <1>1, <1>7, <2>2 DEF PollUpdate, AfterPollUpdate, PollerTo
<1>8. CASE PollLog
  BY <1>1, <1>8 DEF PollLog, PollerTo
<1>9. CASE PollAnnounce
  BY <1>1, <1>9 DEF PollAnnounce, PollerTo, storeVars
<1>10. ASSUME NEW q \in Payments, PollInterrupted(q)
       PROVE  <1>3!1
  BY <1>10 DEF PollInterrupted, PollerTo, NoBatch, storeVars
<1> QED
  BY <1>4, <1>5, <1>6, <1>7, <1>8, <1>9, <1>10 DEF PollerStep

LEMMA SettledStep ==
  ASSUME IInv, [Next]_vars
  PROVE  \A p \in Payments : Settled(p) => Settled(p)' /\ row'[p] = row[p]
<1> TAKE p \in Payments
<1> HAVE Settled(p)
<1> USE DEF IInv
<1>1. ASSUME NEW r \in Requests, RequestStep(r)
      PROVE  Settled(p)' /\ row'[p] = row[p]
  BY <1>1, SettledRequestStep
<1>2. CASE PollerStep
  BY <1>2, SettledPollerStep
<1>3. CASE Reap
  <2>1. ~Reapable(p)
    BY DEF Settled, Reapable, IsTerminal
  <2>2. row'[p] = row[p]
    BY <1>3, <2>1 DEF Reap
  <2> QED
    BY <1>3, <2>2 DEF Reap, Settled, Held, pollVars, reqVars
<1>4. ASSUME NEW q \in Payments, SubmitDeposit(q) \/ UpstreamStep(q) \/ Deadline(q)
      PROVE  Settled(p)' /\ row'[p] = row[p]
  BY <1>4 DEF SubmitDeposit, UpstreamStep, Deadline, Settled, Held,
              storeVars, pollVars, reqVars
<1>5. CASE Crash
  <2>1. /\ p \notin DOMAIN batch'
        /\ pollPc' # "update"
        /\ \A q \in Requests : reqPc'[q] # "update"
    BY <1>5 DEF Crash, NoBatch
  <2> QED
    BY <1>5, <2>1 DEF Crash, Settled, Held, storeVars
<1>6. CASE UNCHANGED vars
  BY <1>6 DEF vars, Settled, Held, storeVars, pollVars, reqVars
<1>7. CASE Stop
  <2>1. DOMAIN batch' \subseteq DOMAIN batch
    BY <1>7 DEF Stop, NoBatch, NextInBatch
  <2> QED
    BY <1>7, <2>1 DEF Stop, Settled, Held, storeVars, reqVars
<1> QED
  BY <1>1, <1>2, <1>3, <1>4, <1>5, <1>6, <1>7 DEF Next

-----------------------------------------------------------------------------
(* Notices.  As long as no call was lost, a payment announced as               *)
(* ended is ended in the table and out of the poller's sight for good.         *)

InHand == pollPc \in {"update", "log", "announce"}

\* The poller polls existing payments, each at most once in a batch.
PolledOnce ==
  /\ DOMAIN batch \subseteq inserted
  /\ InHand => job.p \in inserted \ DOMAIN batch

CancelsFail == \A r \in Requests : reqPc[r] = "update" => req[r].row.status = "FAILED"

\* An end about to be announced is in the table already.
EndRecorded ==
  pollPc \in {"log", "announce"} /\ IsTerminal(job.row.status)
    => IsTerminal(row[job.p].status)

NoticeBacked ==
  \A p \in Payments : IsTerminal(announced[p]) =>
    /\ p \in inserted \ DOMAIN batch
    /\ IsTerminal(row[p].status)
    /\ ~(InHand /\ job.p = p)

NoticeInv == PolledOnce /\ CancelsFail /\ EndRecorded /\ NoticeBacked

LEMMA InitNotice == Init => NoticeInv
BY DEF Init, NoticeInv, PolledOnce, CancelsFail, EndRecorded, NoticeBacked, InHand,
       IsTerminal, NoStatus

\* Only the poller's own update takes a terminal row back.
LEMMA RequestKeepsTerminal ==
  ASSUME IInv, CancelsFail, NEW r \in Requests, RequestStep(r),
         NEW p \in inserted, IsTerminal(row[p].status)
  PROVE  IsTerminal(row'[p].status)
<1> USE DEF IInv
<1>1. p \in Payments
  BY DEF StoreInv
<1>2. CASE CreateInsert(r)
  BY <1>1, <1>2 DEF CreateInsert, NoConflict, StoreInv
<1>3. CASE CancelUpdate(r)
  <2>1. req[r] \in Job /\ req[r].row.status = "FAILED"
    BY <1>3 DEF CancelUpdate, CancelsFail, ReqInv
  <2> QED
    BY <1>1, <1>3, <2>1 DEF CancelUpdate, Update, StoreInv, IsTerminal
<1>4. CASE RequestLog(r) \/ \E q \in Payments : CreateQuote(r, q) \/ CancelLoad(r, q)
  BY <1>4 DEF RequestLog, CreateQuote, CancelLoad, storeVars
<1> QED
  BY <1>2, <1>3, <1>4 DEF RequestStep

LEMMA RequestNotice ==
  ASSUME IInv, NoticeInv, NEW r \in Requests, RequestStep(r)
  PROVE  NoticeInv' /\ UNCHANGED announced
<1> USE DEF IInv, NoticeInv
<1>1. UNCHANGED <<pollVars, announced>> /\ inserted \subseteq inserted'
  BY DEF RequestStep, CreateQuote, CreateInsert, RequestLog, CancelLoad, CancelUpdate,
         storeVars
<1>2. CancelsFail'
  <2>1. CASE \E p \in Payments : CancelLoad(r, p)
    BY <2>1 DEF CancelLoad, RequestAt, CancelsFail, ReqInv, StoreInv, Row
  <2>2. CASE RequestDone(r) \/ UNCHANGED reqVars
              \/ \E pc \in {"insert", "log"}, j \in Job \cup {req[r]} : RequestAt(r, pc, j)
    BY <2>2 DEF RequestAt, RequestDone, CancelsFail, ReqInv, reqVars
  <2>3. CASE \E p \in Payments : CreateQuote(r, p)
    BY <2>3 DEF CreateQuote, RequestAt, CancelsFail, ReqInv, reqVars
  <2>4. CASE CreateInsert(r) \/ RequestLog(r) \/ CancelUpdate(r)
    BY <2>2, <2>4 DEF CreateInsert, RequestLog, CancelUpdate
  <2> QED
    BY <2>1, <2>3, <2>4 DEF RequestStep
<1>3. PolledOnce'
  BY <1>1 DEF PolledOnce, InHand, pollVars
<1>4. EndRecorded'
  <2>1. InHand => job.p \in inserted
    BY DEF PolledOnce
  <2> QED
    BY <1>1, <2>1, RequestKeepsTerminal DEF EndRecorded, InHand, pollVars
<1>5. NoticeBacked'
  BY <1>1, RequestKeepsTerminal DEF NoticeBacked, InHand, pollVars
<1> QED
  BY <1>1, <1>2, <1>3, <1>4, <1>5

\* A fault once suffered stays suffered.
LEMMA SufferedGrows == [Next]_vars => suffered \subseteq suffered'
<1> SUFFICES ASSUME [Next]_vars PROVE suffered \subseteq suffered'
  OBVIOUS
<1>1. NoFault \/ (\E kind : Fault(kind)) \/ UNCHANGED vars
  BY DEF PollerFault, Next, RequestStep, PollerStep, CreateQuote, CreateInsert, RequestLog,
         CancelLoad, CancelUpdate, PollAll, PollDone, PollStatus, PollInterrupted, PollUpdate,
         PollLog, PollAnnounce, Reap, SubmitDeposit, UpstreamStep, Deadline, Crash, Stop
<1> QED
  BY <1>1 DEF NoFault, Fault, vars

LEMMA PollerNotice ==
  ASSUME IInv, NoticeInv, NoCallLost', PollerStep
  PROVE  /\ NoticeInv'
         /\ \A p \in Payments : IsTerminal(announced[p]) => announced'[p] = announced[p]
<1> USE DEF IInv, NoticeInv
<1>1. CancelsFail' /\ inserted' = inserted
  BY DEF PollerStep, PollAll, PollDone, PollStatus, PollInterrupted, PollUpdate,
         PollLog, PollAnnounce,
         storeVars, reqVars, CancelsFail
<1>11. ~stopped
  BY SufferedGrows DEF FaultsTyped, NoCallLost, Next
<1>2. SUFFICES /\ PolledOnce' /\ EndRecorded' /\ NoticeBacked'
               /\ \A p \in Payments :
                    IsTerminal(announced[p]) => announced'[p] = announced[p]
  BY <1>1
<1>3. CASE PollAll
  <2>1. PICK S \in ListActive : batch' = [p \in S |-> row[p]]
    BY <1>3 DEF PollAll
  <2>2. S \subseteq inserted /\ \A p \in S : ~IsTerminal(row[p].status)
    BY DEF ListActive, ActiveRows
  <2>3. pollPc' = "iterate" /\ UNCHANGED <<inserted, row, announced>>
    BY <1>3 DEF PollAll, PollerTo, storeVars
  <2> QED
    BY <2>1, <2>2, <2>3 DEF PolledOnce, EndRecorded, NoticeBacked, InHand
<1>4. CASE PollDone
  <2>1. pollPc' = "idle" /\ UNCHANGED <<inserted, row, batch, announced>>
    BY <1>4 DEF PollDone, PollerTo, storeVars
  <2> QED
    BY <2>1 DEF PolledOnce, EndRecorded, NoticeBacked, InHand
<1>5. ASSUME NEW q \in Payments, PollStatus(q)
      PROVE  <1>2!1
  <2>1. q \in DOMAIN batch
    BY <1>5 DEF PollStatus, NextInBatch
  <2>2. pollPc' = "update" /\ job'.p = q
    BY <1>5 DEF PollStatus, HoldForUpdate, Polled, PollerTo
  <2>3. DOMAIN batch' = DOMAIN batch \ {q}
    BY <1>5 DEF PollStatus
  <2>4. UNCHANGED <<inserted, row, announced>>
    BY <1>5 DEF PollStatus, storeVars
  <2> QED
    BY <2>1, <2>2, <2>3, <2>4 DEF PolledOnce, EndRecorded, NoticeBacked, InHand
<1>6. CASE PollUpdate
  <2>1. /\ job \in Job /\ job.p \in Payments
        /\ InHand
    BY <1>6 DEF PollUpdate, JobInv, Job, InHand
  <2>2. ~stopped /\ Update(job)
    BY <1>6, <1>11 DEF PollUpdate, PollerFault, Fault, NoCallLost
  <2>3. row'[job.p] = job.row /\ \A p \in Payments \ {job.p} : row'[p] = row[p]
    BY <2>1, <2>2 DEF Update, StoreInv
  <2>4. \/ pollPc' = "log" /\ job' = job
        \/ pollPc' = "iterate"
    BY <1>6, <2>2 DEF PollUpdate, AfterPollUpdate, PollerTo
  <2>5. UNCHANGED <<inserted, batch, announced>>
    BY <1>6 DEF PollUpdate
  <2>6. PolledOnce' /\ EndRecorded'
    BY <2>1, <2>3, <2>4, <2>5 DEF PolledOnce, EndRecorded, InHand
  <2>7. NoticeBacked'
    BY <2>1, <2>3, <2>4, <2>5 DEF NoticeBacked, InHand
  <2> QED
    BY <2>5, <2>6, <2>7
<1>7. CASE PollLog
  <2>1. /\ pollPc = "log" /\ pollPc' = "announce" /\ job' = job
        /\ UNCHANGED <<inserted, row, batch, announced>>
    BY <1>7 DEF PollLog, PollerTo
  <2> QED
    BY <2>1 DEF PolledOnce, EndRecorded, NoticeBacked, InHand
<1>8. CASE PollAnnounce
  <2>1. /\ pollPc = "announce" /\ pollPc' = "iterate"
        /\ announced' = [announced EXCEPT ![job.p] = job.row.status]
        /\ UNCHANGED <<inserted, row, batch>>
    BY <1>8 DEF PollAnnounce, PollerTo, storeVars
  <2>2. job.p \in Payments
    BY <2>1 DEF JobInv, Job
  <2>3. PolledOnce' /\ EndRecorded'
    BY <2>1 DEF PolledOnce, EndRecorded, InHand
  <2>4. ASSUME NEW p \in Payments
        PROVE  /\ IsTerminal(announced[p]) => announced'[p] = announced[p]
               /\ IsTerminal(announced'[p]) => /\ p \in inserted \ DOMAIN batch
                                               /\ IsTerminal(row[p].status)
    <3>1. CASE p = job.p
      BY <2>1, <2>2, <3>1 DEF NoticeBacked, EndRecorded, PolledOnce, InHand, NoticeTyped
    <3>2. CASE p # job.p
      BY <2>1, <3>2 DEF NoticeBacked, NoticeTyped
    <3> QED
      BY <3>1, <3>2
  <2>5. NoticeBacked'
    BY <2>1, <2>4 DEF NoticeBacked, InHand
  <2> QED
    BY <2>3, <2>4, <2>5
<1>9. ASSUME NEW q \in Payments, PollInterrupted(q)
      PROVE  <1>2!1
  BY <1>9, <1>11 DEF PollInterrupted
<1> QED
  BY <1>3, <1>4, <1>5, <1>6, <1>7, <1>8, <1>9 DEF PollerStep

LEMMA NoticeStep ==
  ASSUME IInv, NoticeInv, NoCallLost', [Next]_vars
  PROVE  /\ NoticeInv'
         /\ \A p \in Payments : IsTerminal(announced[p]) => announced'[p] = announced[p]
<1> USE DEF IInv, NoticeInv
<1>1. ASSUME NEW r \in Requests, RequestStep(r)
      PROVE  /\ NoticeInv'
             /\ UNCHANGED announced
  BY <1>1, RequestNotice
<1>2. CASE PollerStep
  BY <1>2, PollerNotice
<1>3. CASE Reap
  <2>1. \A p \in Payments : IsTerminal(row[p].status) => IsTerminal(row'[p].status)
    BY <1>3 DEF Reap, Reapable, IsTerminal
  <2>2. pollPc = "idle" /\ UNCHANGED <<inserted, pollVars, reqVars, announced>>
    BY <1>3 DEF Reap
  <2> QED
    BY <2>1, <2>2 DEF PolledOnce, CancelsFail, EndRecorded, NoticeBacked, InHand,
                      pollVars, reqVars
<1>4. ASSUME NEW q \in Payments, SubmitDeposit(q) \/ UpstreamStep(q) \/ Deadline(q)
      PROVE  NoticeInv' /\ UNCHANGED announced
  BY <1>4 DEF SubmitDeposit, UpstreamStep, Deadline, storeVars, pollVars, reqVars,
              PolledOnce, CancelsFail, EndRecorded, NoticeBacked, InHand
<1>7. CASE Stop
  BY <1>7 DEF Stop, Fault, NoCallLost
<1>5. CASE Crash
  BY <1>5 DEF Crash, NoBatch, storeVars, PolledOnce, CancelsFail, EndRecorded, NoticeBacked, InHand
<1>6. CASE UNCHANGED vars
  BY <1>6 DEF vars, storeVars, pollVars, reqVars,
              PolledOnce, CancelsFail, EndRecorded, NoticeBacked, InHand
<1> QED
  BY <1>1, <1>2, <1>3, <1>4, <1>5, <1>6, <1>7 DEF Next

\* The step that announces suffers no fault.
LEMMA FaultsAnnounceNothing == [Next]_vars => UNCHANGED announced \/ UNCHANGED suffered
<1> SUFFICES ASSUME [Next]_vars PROVE UNCHANGED announced \/ UNCHANGED suffered
  OBVIOUS
<1>1. CASE PollerStep
  BY <1>1 DEF PollerStep, PollAll, PollDone, PollStatus, PollInterrupted, PollUpdate,
              PollLog, PollAnnounce, NoFault
<1>2. ASSUME NEW r \in Requests, RequestStep(r) PROVE UNCHANGED announced
  BY <1>2 DEF RequestStep, CreateQuote, CreateInsert, RequestLog, CancelLoad, CancelUpdate
<1>3. CASE Reap \/ Crash \/ Stop \/ UNCHANGED vars
  BY <1>3 DEF Reap, Crash, Stop, vars
<1>4. ASSUME NEW p \in Payments, SubmitDeposit(p) \/ UpstreamStep(p) \/ Deadline(p)
      PROVE  UNCHANGED announced
  BY <1>4 DEF SubmitDeposit, UpstreamStep, Deadline
<1> QED
  BY <1>1, <1>2, <1>3, <1>4 DEF Next

LEMMA NoticesKept ==
  ASSUME IInv, NoticeInv, NoCallLost, [Next]_vars
  PROVE  \A p \in Payments : IsTerminal(announced[p]) => announced'[p] = announced[p]
<1>1. CASE UNCHANGED announced
  BY <1>1
<1>2. CASE UNCHANGED suffered
  <2>1. NoCallLost'
    BY <1>2 DEF NoCallLost
  <2> QED
    BY <2>1, NoticeStep
<1> QED
  BY <1>1, <1>2, FaultsAnnounceNothing

-----------------------------------------------------------------------------
(* The theorems. *)

\* In every reachable state IInv holds: no step of a request, of the poller, of
\* the world or a crash breaks it.
THEOREM Invariance == Spec => []IInv
<1> QED
  BY InitInv, NextInv, PTL DEF Spec

\* Every variable keeps its type, and no row ever counts more failures than
\* POLLER_MAX_FAILURES.
THEOREM TypeCorrect == Spec => []TypeOK
BY Invariance, InvTypeOK, PTL

\* Whatever writers interleave and whatever fails, a row with a failure reason
\* has the status FAILED.
THEOREM RowsAreCoherent == Spec => []ReasonMatchesStatus
<1>1. IInv => ReasonMatchesStatus
  BY DEF IInv, StoreInv, Sound, ReasonMatchesStatus
<1> QED
  BY <1>1, Invariance, PTL

\* A terminal row nobody holds an older copy of never changes again.
THEOREM SettledStaysFinal == Spec => SettledIsFinal
<1>1. IInv /\ [Next]_vars
        => [\A p \in Payments : Settled(p) => Settled(p)' /\ row'[p] = row[p]]_vars
  BY SettledStep
<1> QED
  BY <1>1, Invariance, PTL DEF Spec, SettledIsFinal

\* As long as no call was lost, nobody is told anything more of a payment
\* once told that it ended, however the process crashes and whatever the
\* operators cancel meanwhile.
THEOREM TerminalNoticesAreFinal == Spec => NoticesAreFinal
<1> DEFINE CondInv == NoCallLost => NoticeInv
<1>1. Init => CondInv
  BY InitNotice
<1>2. IInv /\ CondInv /\ [Next]_vars => CondInv'
  BY NoticeStep, SufferedGrows DEF NoCallLost
<1>3. Spec => []CondInv
  BY <1>1, <1>2, Invariance, PTL DEF Spec
<1>4. IInv /\ CondInv /\ [Next]_vars
        => [NoCallLost =>
              \A p \in Payments :
                IsTerminal(announced[p]) => announced'[p] = announced[p]]_vars
  BY NoticesKept
<1> QED
  BY <1>3, <1>4, Invariance, PTL DEF Spec, NoticesAreFinal
=============================================================================
