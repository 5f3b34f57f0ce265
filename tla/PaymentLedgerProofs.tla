------------------------ MODULE PaymentLedgerProofs -------------------------
(***************************************************************************)
(* PaymentLifecycle implements PaymentLedger, and what the ledger promises *)
(* therefore holds of the service: for any payments, requests and limits,  *)
(* and whatever fails.                                                     *)
(***************************************************************************)
EXTENDS PaymentLifecycleProofs

-----------------------------------------------------------------------------
(* What the poller and the requests know of the payments in their hands. *)

BatchKnown ==
  /\ DOMAIN batch \subseteq inserted
  /\ pollPc = "idle" => DOMAIN batch = {}

JobKnown ==
  InHand => job.p \in inserted /\ Ledger!Reportable(job.p, job.row.status)

ReqKnown ==
  \A r \in Requests :
    /\ reqPc[r] = "update" => req[r].p \in inserted /\ req[r].row.status = "FAILED"
    /\ reqPc[r] = "insert" => req[r].row.status = "AWAITING_DEPOSIT"

Known == BatchKnown /\ JobKnown /\ ReqKnown

LEMMA InitKnown == Init => Known
BY DEF Init, Known, BatchKnown, JobKnown, ReqKnown, InHand

\* An answer of the API that maps to an end tells of that end.
LEMMA AnsweredReportable ==
  ASSUME NEW p \in Payments, NEW rw \in Row, NEW raw, raw = upstream[p] \/ raw = BlankStatus
  PROVE  Ledger!Reportable(p, Answered(rw, raw).status)
<1>1. Answered(rw, raw).status = MapOneclickStatus(raw)
  BY DEF Answered, Row
<1> QED
  BY <1>1 DEF MapOneclickStatus, BlankStatus, Ledger!Reportable

LEMMA UnansweredReportable ==
  ASSUME NEW p \in Payments, NEW rw \in Row, ~IsTerminal(rw.status)
  PROVE  Ledger!Reportable(p, Unanswered(rw).status)
<1>1. Unanswered(rw).status \in {"FAILED", rw.status}
  BY DEF Unanswered, Row
<1> QED
  BY <1>1 DEF Ledger!Reportable, IsTerminal

\* What was reportable stays so: no swap leaves its end.
LEMMA ReportableStays ==
  ASSUME NEW p \in Payments, NEW s, Ledger!Reportable(p, s),
         upstream[p] \in FinalRawStatuses => upstream'[p] = upstream[p]
  PROVE  Ledger!Reportable(p, s)'
BY DEF Ledger!Reportable, FinalRawStatuses

LEMMA UpstreamEnds ==
  ASSUME [Next]_vars, IInv, NEW p \in Payments, upstream[p] \in FinalRawStatuses
  PROVE  upstream'[p] = upstream[p]
<1>1. ASSUME NEW r \in Requests, RequestStep(r)
      PROVE  upstream'[p] = upstream[p]
  BY <1>1 DEF RequestStep, CreateQuote, CreateInsert, RequestLog, CancelLoad, CancelUpdate,
              worldVars, FinalRawStatuses, Unquoted, IInv, WorldInv
<1>2. CASE PollerStep
  BY <1>2 DEF PollerStep, PollAll, PollDone, PollStatus, PollInterrupted, PollUpdate,
              PollLog, PollAnnounce, worldVars
<1>3. CASE Reap \/ Crash \/ Stop \/ UNCHANGED vars
  BY <1>3 DEF Reap, Crash, Stop, vars, worldVars
<1>4. ASSUME NEW q \in Payments, SubmitDeposit(q) \/ UpstreamStep(q) \/ Deadline(q)
      PROVE  upstream'[p] = upstream[p]
  BY <1>4 DEF SubmitDeposit, UpstreamStep, Deadline, FinalRawStatuses, IInv, WorldInv
<1> QED
  BY <1>1, <1>2, <1>3, <1>4 DEF Next

LEMMA InsertedGrows ==
  ASSUME [Next]_vars
  PROVE  inserted \subseteq inserted'
<1>1. ASSUME NEW r \in Requests, RequestStep(r)
      PROVE  inserted \subseteq inserted'
  BY <1>1 DEF RequestStep, CreateQuote, CreateInsert, RequestLog, CancelLoad, CancelUpdate,
              storeVars
<1>2. CASE PollerStep
  BY <1>2 DEF PollerStep, PollAll, PollDone, PollStatus, PollInterrupted, PollUpdate,
              PollLog, PollAnnounce, storeVars
<1>3. CASE Reap \/ Crash \/ Stop \/ UNCHANGED vars
  BY <1>3 DEF Reap, Crash, Stop, vars, storeVars
<1>4. ASSUME NEW q \in Payments, SubmitDeposit(q) \/ UpstreamStep(q) \/ Deadline(q)
      PROVE  inserted \subseteq inserted'
  BY <1>4 DEF SubmitDeposit, UpstreamStep, Deadline, storeVars
<1> QED
  BY <1>1, <1>2, <1>3, <1>4 DEF Next

\* The poller's job is known as long as the poller keeps it.
LEMMA JobStaysKnown ==
  ASSUME IInv, JobKnown, [Next]_vars, pollPc' \in {"update", "log", "announce"} => InHand,
         job' = job \/ pollPc' \notin {"update", "log", "announce"}
  PROVE  JobKnown'
<1> SUFFICES ASSUME InHand, InHand', job' = job
             PROVE  job.p \in inserted' /\ Ledger!Reportable(job.p, job.row.status)'
  BY DEF JobKnown, InHand
<1>1. job.p \in Payments
  BY DEF InHand, IInv, JobInv, Job
<1> QED
  BY <1>1, InsertedGrows, UpstreamEnds, ReportableStays DEF JobKnown

-----------------------------------------------------------------------------
(* It stays known. *)

LEMMA RequestKnown ==
  ASSUME IInv, Known, NEW r \in Requests, RequestStep(r)
  PROVE  Known'
<1> USE DEF Known, IInv
<1>1. UNCHANGED pollVars
  BY DEF RequestStep, CreateQuote, CreateInsert, RequestLog, CancelLoad, CancelUpdate
<1>2. [Next]_vars
  BY DEF Next
<1>3. BatchKnown'
  BY <1>1, <1>2, InsertedGrows DEF BatchKnown, pollVars
<1>4. JobKnown'
  BY <1>1, <1>2, JobStaysKnown DEF pollVars, InHand
<1>5. ReqKnown'
  <2>1. CASE \E p \in Payments : CancelLoad(r, p)
    BY <2>1 DEF CancelLoad, RequestAt, ReqKnown, ReqInv, StoreInv, Row, storeVars
  <2>2. CASE \/ RequestDone(r) \/ UNCHANGED reqVars
             \/ \E j : RequestAt(r, "log", j)
    BY <1>2, <2>2, InsertedGrows DEF RequestAt, RequestDone, ReqKnown, ReqInv, reqVars
  <2>3. CASE \E p \in Payments :
               RequestAt(r, "insert", [p |-> p, row |-> NewRow, old |-> NoStatus])
    BY <1>2, <2>3, InsertedGrows DEF RequestAt, NewRow, ReqKnown, ReqInv
  <2>4. CASE CreateInsert(r) \/ RequestLog(r) \/ CancelUpdate(r)
    BY <2>2, <2>4 DEF CreateInsert, RequestLog, CancelUpdate
  <2>5. CASE \E p \in Payments : CreateQuote(r, p)
    BY <2>2, <2>3, <2>5 DEF CreateQuote
  <2> QED
    BY <2>1, <2>4, <2>5 DEF RequestStep
<1> QED
  BY <1>3, <1>4, <1>5

LEMMA PollerKnown ==
  ASSUME IInv, Known, PollerStep
  PROVE  Known'
<1> USE DEF Known, IInv
<1>1. UNCHANGED <<inserted, upstream, reqVars>>
  BY DEF PollerStep, PollAll, PollDone, PollStatus, PollInterrupted, PollUpdate,
         PollLog, PollAnnounce, storeVars, worldVars
<1>2. [Next]_vars
  BY DEF Next
<1>3. ReqKnown'
  BY <1>1 DEF ReqKnown, reqVars
<1>4. CASE PollAll
  <2>1. PICK S \in ListActive : batch' = [p \in S |-> row[p]]
    BY <1>4 DEF PollAll
  <2>2. S \subseteq inserted
    BY DEF ListActive, ActiveRows
  <2> QED
    BY <1>1, <1>3, <1>4, <2>1, <2>2 DEF PollAll, PollerTo, BatchKnown, JobKnown, InHand
<1>5. ASSUME NEW p \in Payments, PollStatus(p)
      PROVE  Known'
  <2>1. p \in DOMAIN batch /\ batch[p] \in Row /\ ~IsTerminal(batch[p].status)
    BY <1>5 DEF PollStatus, NextInBatch, BatchInv
  <2>2. BatchKnown'
    BY <1>1, <1>5 DEF PollStatus, HoldForUpdate, PollerTo, BatchKnown
  <2>3. PICK new : /\ Ledger!Reportable(p, new.status)
                   /\ HoldForUpdate(p, new)
    BY <1>5, <2>1, AnsweredReportable, UnansweredReportable DEF PollStatus
  <2>4. job'.p = p /\ job'.row = new
    BY <2>3 DEF HoldForUpdate, Polled, PollerTo
  <2>5. Ledger!Reportable(p, new.status)'
    BY <1>1, <2>3, <2>4 DEF Ledger!Reportable
  <2>6. JobKnown'
    BY <1>1, <2>1, <2>4, <2>5 DEF JobKnown, BatchKnown, Ledger!Reportable
  <2> QED
    BY <1>3, <2>2, <2>6
<1>6. ASSUME NEW p \in Payments, PollInterrupted(p)
      PROVE  Known'
  <2> DEFINE new == Unanswered(batch[p])
  <2>1. p \in DOMAIN batch /\ batch[p] \in Row /\ ~IsTerminal(batch[p].status)
    BY <1>6 DEF PollInterrupted, BatchInv
  <2>2. BatchKnown'
    BY <1>6 DEF PollInterrupted, PollerTo, BatchKnown, NoBatch
  <2>3. Ledger!Reportable(p, new.status)
    BY <2>1, UnansweredReportable
  <2> HIDE DEF new
  <2>4. \/ pollPc' = "iterate"
        \/ job'.p = p /\ job'.row = new
    BY <1>6 DEF PollInterrupted, Polled, PollerTo, new
  <2>5. JobKnown'
    BY <1>1, <2>1, <2>3, <2>4 DEF JobKnown, BatchKnown, Ledger!Reportable, InHand
  <2> QED
    BY <1>3, <2>2, <2>5
<1>7. CASE PollDone \/ PollUpdate \/ PollLog \/ PollAnnounce
  <2>1. BatchKnown'
    BY <1>1, <1>7 DEF PollDone, PollUpdate, PollLog, PollAnnounce, AfterPollUpdate,
                      PollerTo, BatchKnown
  <2>2. /\ pollPc' \in {"update", "log", "announce"} => InHand
        /\ job' = job \/ pollPc' \notin {"update", "log", "announce"}
    BY <1>7 DEF PollDone, PollUpdate, PollLog, PollAnnounce, AfterPollUpdate,
                PollerTo, InHand
  <2> QED
    BY <1>2, <1>3, <2>1, <2>2, JobStaysKnown
<1> QED
  BY <1>4, <1>5, <1>6, <1>7 DEF PollerStep

LEMMA KnownStep ==
  ASSUME IInv, Known, [Next]_vars
  PROVE  Known'
<1> USE DEF Known
<1>1. ASSUME NEW r \in Requests, RequestStep(r) PROVE Known'
  BY <1>1, RequestKnown
<1>2. CASE PollerStep
  BY <1>2, PollerKnown
<1>3. CASE UNCHANGED <<pollVars, reqVars>>
  <2>1. BatchKnown' /\ ReqKnown'
    BY <1>3, InsertedGrows DEF BatchKnown, ReqKnown, pollVars, reqVars
  <2>2. JobKnown'
    BY <1>3, JobStaysKnown DEF pollVars, InHand
  <2> QED
    BY <2>1, <2>2
<1>4. CASE Crash
  BY <1>4 DEF Crash, NoBatch, BatchKnown, JobKnown, ReqKnown, InHand
<1>5. CASE Stop
  <2>1. BatchKnown'
    <3>1. CASE batch' = NoBatch
      BY <1>5, <3>1 DEF Stop, NoBatch, BatchKnown
    <3>2. CASE pollPc = "iterate" /\ \E p \in Payments :
                 NextInBatch(p) /\ batch' = [q \in {p} |-> batch[q]]
      BY <1>5, <3>2 DEF Stop, NextInBatch, BatchKnown, storeVars
    <3> QED
      BY <1>5, <3>1, <3>2 DEF Stop
  <2>2. ReqKnown'
    BY <1>5 DEF Stop, ReqKnown, reqVars, storeVars
  <2>3. JobKnown'
    BY <1>5, JobStaysKnown DEF Stop, InHand
  <2> QED
    BY <2>1, <2>2, <2>3
<1> QED
  BY <1>1, <1>2, <1>3, <1>4, <1>5
     DEF Next, Reap, SubmitDeposit, UpstreamStep, Deadline, vars

-----------------------------------------------------------------------------
(* Every step is a step of the ledger, or none that it sees. *)

\* The ledger speaks of the same statuses.
LEMMA SameVocabulary ==
  /\ Ledger!PaymentStatuses = PaymentStatuses
  /\ Ledger!FinalRawStatuses = FinalRawStatuses
  /\ \A s : Ledger!IsTerminal(s) <=> IsTerminal(s)
BY DEF Ledger!PaymentStatuses, PaymentStatuses, Ledger!FinalRawStatuses, FinalRawStatuses,
       Ledger!IsTerminal, IsTerminal

LedgerStep == [Ledger!Next]_(Ledger!ledgerVars)

LEMMA LedgerInit == Init => Ledger!Init
<1> SUFFICES ASSUME Init PROVE Ledger!Init
  OBVIOUS
<1>1. LedgerStatus = [p \in Payments |-> "ABSENT"]
  BY DEF Init, LedgerStatus
<1>2. LedgerHeld = {}
  BY DEF Init, LedgerHeld, Held
<1> QED
  BY <1>1, <1>2 DEF Init, Ledger!Init, Ledger!Absent, Ledger!Nothing, NoStatus, Unquoted

LEMMA LedgerStutters ==
  ASSUME UNCHANGED <<LedgerStatus, LedgerHeld, announced, upstream, due>>
  PROVE  LedgerStep
BY DEF LedgerStep, Ledger!ledgerVars

LEMMA LedgerReleases ==
  ASSUME UNCHANGED <<LedgerStatus, announced, upstream, due>>, LedgerHeld' \subseteq LedgerHeld
  PROVE  LedgerStep
<1> DEFINE S == LedgerHeld \ LedgerHeld'
<1>1. S \in SUBSET Payments /\ LedgerHeld' = LedgerHeld \ S
  BY DEF LedgerHeld
<1>2. Ledger!Release(S)
  BY <1>1 DEF Ledger!Release
<1> QED
  BY <1>1, <1>2 DEF LedgerStep, Ledger!Next

\* What a whole-row write does to the status of the ledger.
LEMMA UpdateStatus ==
  ASSUME StoreInv, NEW j, j.p \in inserted, Update(j), UNCHANGED inserted
  PROVE  LedgerStatus' = [LedgerStatus EXCEPT ![j.p] = j.row.status]
BY DEF StoreInv, Update, LedgerStatus

LEMMA LedgerRecords ==
  ASSUME StoreInv, NEW j, j.p \in inserted, Update(j), UNCHANGED <<inserted, announced, worldVars>>,
         j.row.status \in PaymentStatuses, Ledger!Reportable(j.p, j.row.status),
         j.p \in LedgerHeld, LedgerHeld' \in {LedgerHeld, LedgerHeld \ {j.p}}
  PROVE  LedgerStep
<1>1. j.p \in Payments
  BY DEF StoreInv
<1>2. Ledger!Record(j.p, j.row.status)
  BY UpdateStatus DEF Ledger!Record, worldVars
<1> QED
  BY <1>1, <1>2, SameVocabulary DEF LedgerStep, Ledger!Next

\* A step that leaves the rows alone leaves the statuses alone.
LEMMA SameStatus ==
  ASSUME UNCHANGED <<inserted, row>>
  PROVE  LedgerStatus' = LedgerStatus
BY DEF LedgerStatus

LEMMA SameHeld ==
  ASSUME UNCHANGED <<pollVars, reqVars>>
  PROVE  LedgerHeld' = LedgerHeld
BY DEF LedgerHeld, Held, pollVars, reqVars

LEMMA RequestRefines ==
  ASSUME IInv, Known, NEW r \in Requests, RequestStep(r)
  PROVE  LedgerStep
<1> USE DEF IInv, Known
<1>1. ASSUME NEW p \in Payments, CreateQuote(r, p)
      PROVE  LedgerStep
  <2>1. LedgerStatus' = LedgerStatus
    BY <1>1, SameStatus DEF CreateQuote, storeVars
  <2>2. LedgerHeld' = LedgerHeld
    BY <1>1 DEF CreateQuote, RequestAt, LedgerHeld, Held, ReqInv, pollVars, reqVars
  <2>3. \A q \in Payments : upstream[q] \in FinalRawStatuses => upstream'[q] = upstream[q]
    BY <1>1 DEF CreateQuote, WorldInv, Unquoted, FinalRawStatuses
  <2>4. Ledger!World
    BY <1>1, <2>1, <2>2, <2>3, SameVocabulary DEF CreateQuote, Ledger!World
  <2> QED
    BY <2>4 DEF LedgerStep, Ledger!Next
<1>2. ASSUME CreateInsert(r)
      PROVE  LedgerStep
  <2>1. LedgerHeld' = LedgerHeld
    BY <1>2 DEF CreateInsert, RequestAt, RequestDone, LedgerHeld, Held, ReqInv, pollVars
  <2>2. CASE UNCHANGED <<inserted, row>>
    BY <1>2, <2>1, <2>2, SameStatus, LedgerStutters DEF CreateInsert, worldVars
  <2>3. CASE /\ NoConflict(req[r].p)
             /\ inserted' = inserted \cup {req[r].p}
             /\ row' = [row EXCEPT ![req[r].p] = req[r].row]
    <3>1. req[r].p \in Payments /\ req[r].p \notin inserted
      BY <1>2, <2>3 DEF CreateInsert, NoConflict, ReqInv, Job
    <3>2. LedgerStatus[req[r].p] = "ABSENT"
      BY <3>1 DEF LedgerStatus
    <3>3. LedgerStatus' = [LedgerStatus EXCEPT ![req[r].p] = "AWAITING_DEPOSIT"]
      BY <1>2, <2>3, <3>1 DEF CreateInsert, LedgerStatus, StoreInv, ReqKnown
    <3>4. Ledger!Create(req[r].p)
      BY <1>2, <2>1, <3>2, <3>3 DEF CreateInsert, Ledger!Create, Ledger!Absent, worldVars
    <3> QED
      BY <3>1, <3>4 DEF LedgerStep, Ledger!Next
  <2> QED
    BY <1>2, <2>2, <2>3 DEF CreateInsert
<1>3. ASSUME RequestLog(r)
      PROVE  LedgerStep
  <2>1. LedgerHeld' = LedgerHeld
    BY <1>3 DEF RequestLog, RequestDone, LedgerHeld, Held, ReqInv, pollVars
  <2> QED
    BY <1>3, <2>1, SameStatus, LedgerStutters DEF RequestLog, worldVars
<1>4. ASSUME NEW p \in Payments, CancelLoad(r, p)
      PROVE  LedgerStep
  <2>1. LedgerStatus' = LedgerStatus
    BY <1>4, SameStatus DEF CancelLoad, storeVars
  <2>2. LedgerHeld' = LedgerHeld \cup {p}
    BY <1>4 DEF CancelLoad, RequestAt, LedgerHeld, Held, ReqInv, pollVars
  <2>3. {p} \subseteq Ledger!Active
    BY <1>4, SameVocabulary DEF CancelLoad, Ledger!Active, Ledger!Absent, LedgerStatus, StoreInv, Row,
                PaymentStatuses
  <2>4. Ledger!TakeUp({p})
    BY <1>4, <2>1, <2>2, <2>3 DEF CancelLoad, Ledger!TakeUp, worldVars
  <2> QED
    BY <2>4 DEF LedgerStep, Ledger!Next
<1>5. ASSUME CancelUpdate(r)
      PROVE  LedgerStep
  <2>1. req[r].p \in inserted /\ req[r].row.status = "FAILED" /\ req[r].p \in Payments
    BY <1>5 DEF CancelUpdate, ReqKnown, StoreInv
  <2>2. req[r].p \in LedgerHeld
    BY <1>5, <2>1 DEF CancelUpdate, LedgerHeld, Held
  <2>3. LedgerHeld' \in {LedgerHeld, LedgerHeld \ {req[r].p}}
    <3>1. ASSUME NEW q \in Payments \ {req[r].p}
          PROVE  Held(q)' <=> Held(q)
      BY <1>5 DEF CancelUpdate, RequestAt, RequestDone, Held, ReqInv, pollVars
    <3> QED
      BY <2>2, <3>1 DEF LedgerHeld
  <2>4. CASE UNCHANGED row
    BY <1>5, <2>3, <2>4, SameStatus, LedgerReleases DEF CancelUpdate, worldVars
  <2>5. CASE Update(req[r])
    <3>1. Ledger!Reportable(req[r].p, "FAILED") /\ "FAILED" \in PaymentStatuses
      BY DEF Ledger!Reportable, PaymentStatuses
    <3> QED
      BY <1>5, <2>1, <2>2, <2>3, <2>5, <3>1, LedgerRecords DEF CancelUpdate
  <2> QED
    BY <1>5, <2>4, <2>5 DEF CancelUpdate
<1> QED
  BY <1>1, <1>2, <1>3, <1>4, <1>5 DEF RequestStep

LEMMA PollUpdateRefines ==
  ASSUME IInv, Known, PollUpdate
  PROVE  LedgerStep
<1> USE DEF IInv, Known
<1>1. /\ job.p \in inserted /\ job.p \in Payments
      /\ Ledger!Reportable(job.p, job.row.status)
      /\ job.row.status \in PaymentStatuses
  BY DEF PollUpdate, JobKnown, JobInv, Job, Row, InHand
<1>2. job.p \in LedgerHeld
  BY <1>1 DEF PollUpdate, LedgerHeld, Held
<1>3. LedgerHeld' \in {LedgerHeld, LedgerHeld \ {job.p}}
  <2>1. ASSUME NEW q \in Payments \ {job.p}
        PROVE  Held(q)' <=> Held(q)
    BY DEF PollUpdate, AfterPollUpdate, PollerTo, Held, reqVars
  <2> QED
    BY <1>2, <2>1 DEF LedgerHeld
<1>4. CASE Update(job)
  BY <1>1, <1>2, <1>3, <1>4, LedgerRecords DEF PollUpdate
<1>5. CASE UNCHANGED row
  BY <1>3, <1>5, SameStatus, LedgerReleases DEF PollUpdate, worldVars
<1> QED
  BY <1>4, <1>5 DEF PollUpdate

LEMMA PollerRefines ==
  ASSUME IInv, Known, PollerStep
  PROVE  LedgerStep
<1> USE DEF IInv, Known
<1>1. CASE PollAll
  <2>1. PICK S \in ListActive : batch' = [p \in S |-> row[p]]
    BY <1>1 DEF PollAll
  <2>2. S \subseteq ActiveRows /\ S \subseteq Payments
    BY DEF ListActive, ActiveRows, StoreInv
  <2>3. LedgerStatus' = LedgerStatus
    BY <1>1, SameStatus DEF PollAll, storeVars
  <2>4. LedgerHeld' = LedgerHeld \cup S
    BY <1>1, <2>1, <2>2 DEF PollAll, PollerTo, LedgerHeld, Held, BatchKnown, reqVars
  <2>5. S \subseteq Ledger!Active
    BY <2>2, SameVocabulary DEF ActiveRows, Ledger!Active, Ledger!Absent, LedgerStatus, StoreInv, Row,
                PaymentStatuses
  <2>6. Ledger!TakeUp(S)
    BY <1>1, <2>3, <2>4, <2>5 DEF PollAll, Ledger!TakeUp, worldVars
  <2> QED
    BY <2>2, <2>6 DEF LedgerStep, Ledger!Next
<1>2. ASSUME NEW p \in Payments, PollStatus(p)
      PROVE  LedgerStep
  <2>1. /\ p \in DOMAIN batch /\ DOMAIN batch' = DOMAIN batch \ {p}
        /\ pollPc = "iterate" /\ pollPc' = "update" /\ job'.p = p
    BY <1>2 DEF PollStatus, NextInBatch, HoldForUpdate, Polled, PollerTo
  <2>2. LedgerHeld' = LedgerHeld
    BY <1>2, <2>1 DEF PollStatus, LedgerHeld, Held, reqVars
  <2> QED
    BY <1>2, <2>2, SameStatus, LedgerStutters DEF PollStatus, storeVars, worldVars
<1>3. ASSUME NEW p \in Payments, PollInterrupted(p)
      PROVE  LedgerStep
  <2>1. LedgerHeld' \subseteq LedgerHeld
    BY <1>3 DEF PollInterrupted, NoBatch, PollerTo, LedgerHeld, Held, reqVars
  <2> QED
    BY <1>3, <2>1, SameStatus, LedgerReleases DEF PollInterrupted, storeVars, worldVars
<1>4. CASE PollUpdate
  BY <1>4, PollUpdateRefines
<1>5. CASE PollDone \/ PollLog
  <2>1. LedgerHeld' = LedgerHeld
    BY <1>5 DEF PollDone, PollLog, PollerTo, LedgerHeld, Held, reqVars
  <2> QED
    BY <1>5, <2>1, SameStatus, LedgerStutters DEF PollDone, PollLog, storeVars, worldVars
<1>6. CASE PollAnnounce
  <2>1. LedgerHeld' = LedgerHeld
    BY <1>6 DEF PollAnnounce, PollerTo, LedgerHeld, Held, reqVars
  <2>2. /\ job.p \in Payments
        /\ Ledger!Reportable(job.p, job.row.status)
        /\ job.row.status \in PaymentStatuses
    BY <1>6 DEF PollAnnounce, JobKnown, JobInv, Job, Row, InHand
  <2>3. Ledger!Tell(job.p, job.row.status)
    BY <1>6, <2>1, <2>2, SameStatus DEF PollAnnounce, Ledger!Tell, storeVars, worldVars
  <2> QED
    BY <2>2, <2>3, SameVocabulary DEF LedgerStep, Ledger!Next
<1> QED
  BY <1>1, <1>2, <1>3, <1>4, <1>5, <1>6 DEF PollerStep

LEMMA LedgerRefines ==
  ASSUME IInv, Known, [Next]_vars
  PROVE  LedgerStep
<1> USE DEF IInv, Known
<1>1. ASSUME NEW r \in Requests, RequestStep(r) PROVE LedgerStep
  BY <1>1, RequestRefines
<1>2. CASE PollerStep
  BY <1>2, PollerRefines
<1>3. CASE Reap
  <2> DEFINE S == {p \in Payments : Reapable(p)}
  <2>1. LedgerHeld' = LedgerHeld
    BY <1>3, SameHeld DEF Reap
  <2>2. S \subseteq {p \in due : LedgerStatus[p] \in Ledger!Unpaid}
    BY DEF Reapable, LedgerStatus, Ledger!Unpaid
  <2>3. LedgerStatus' = [p \in Payments |-> IF p \in S THEN "EXPIRED" ELSE LedgerStatus[p]]
    BY <1>3 DEF Reap, Reapable, LedgerStatus, StoreInv
  <2>4. Ledger!Expire(S)
    BY <1>3, <2>1, <2>2, <2>3 DEF Reap, Ledger!Expire, worldVars
  <2> QED
    BY <2>4 DEF LedgerStep, Ledger!Next
<1>4. ASSUME NEW q \in Payments, SubmitDeposit(q) \/ UpstreamStep(q) \/ Deadline(q)
      PROVE  LedgerStep
  <2>1. LedgerStatus' = LedgerStatus /\ LedgerHeld' = LedgerHeld
    BY <1>4, SameStatus, SameHeld DEF SubmitDeposit, UpstreamStep, Deadline, storeVars
  <2>2. \A p \in Payments : upstream[p] \in FinalRawStatuses => upstream'[p] = upstream[p]
    BY UpstreamEnds
  <2>3. Ledger!World
    BY <1>4, <2>1, <2>2, SameVocabulary
       DEF SubmitDeposit, UpstreamStep, Deadline, Ledger!World
  <2> QED
    BY <2>3 DEF LedgerStep, Ledger!Next
<1>5. CASE Crash \/ Stop
  <2>1. DOMAIN batch' \subseteq DOMAIN batch
    BY <1>5 DEF Crash, Stop, NoBatch, NextInBatch
  <2>2. LedgerHeld' \subseteq LedgerHeld
    BY <1>5, <2>1 DEF Crash, Stop, LedgerHeld, Held, reqVars
  <2> QED
    BY <1>5, <2>2, SameStatus, LedgerReleases DEF Crash, Stop, storeVars, worldVars
<1>6. CASE UNCHANGED vars
  BY <1>6, SameStatus, SameHeld, LedgerStutters DEF vars, storeVars, worldVars
<1> QED
  BY <1>1, <1>2, <1>3, <1>4, <1>5, <1>6 DEF Next

-----------------------------------------------------------------------------
(* The theorems. *)

THEOREM KnownAlways == Spec => []Known
<1> QED
  BY InitKnown, KnownStep, Invariance, PTL DEF Spec

\* Rows copied, changed and written back by interleaved requests and polls,
\* with any failure, stop or restart in between, never do more to a payment
\* than the ledger allows.
THEOREM LedgerImplemented == Spec => KeepsLedger
<1>1. IInv /\ Known /\ [Next]_vars => [Ledger!Next]_(Ledger!ledgerVars)
  BY LedgerRefines DEF LedgerStep
<1> QED
  BY LedgerInit, <1>1, Invariance, KnownAlways, PTL DEF Spec, KeepsLedger, Ledger!Spec

\* No payment is ever recorded or announced as completed or refunded whose swap
\* is not.
THEOREM OutcomesAlwaysReal == Spec => []OutcomesAreReal
<1>1. Ledger!Init => Ledger!OutcomesAreReal
  BY DEF Ledger!Init, Ledger!OutcomesAreReal, Ledger!Absent, Ledger!Nothing
<1>2. NoticeTyped /\ Ledger!OutcomesAreReal /\ [Ledger!Next]_(Ledger!ledgerVars)
        => Ledger!OutcomesAreReal'
  <2> SUFFICES ASSUME NoticeTyped, Ledger!OutcomesAreReal, [Ledger!Next]_(Ledger!ledgerVars),
                      NEW p \in Payments,
                      NEW s \in {LedgerStatus'[p], announced'[p]}
               PROVE  /\ s = "COMPLETED" => upstream'[p] = "SUCCESS"
                      /\ s = "REFUNDED" => upstream'[p] = "REFUNDED"
    BY DEF Ledger!OutcomesAreReal
  <2>1. DOMAIN LedgerStatus = Payments /\ DOMAIN announced = Payments
    BY DEF LedgerStatus, NoticeTyped
  <2>2. ASSUME NEW q \in Payments, NEW t, Ledger!Record(q, t) \/ Ledger!Tell(q, t)
        PROVE  /\ s = "COMPLETED" => upstream'[p] = "SUCCESS"
               /\ s = "REFUNDED" => upstream'[p] = "REFUNDED"
    BY <2>1, <2>2 DEF Ledger!Record, Ledger!Tell, Ledger!Reportable, Ledger!OutcomesAreReal
  <2>3. CASE \E q \in Payments : Ledger!Create(q)
    BY <2>1, <2>3 DEF Ledger!Create, Ledger!OutcomesAreReal
  <2>4. ASSUME NEW S, Ledger!TakeUp(S) \/ Ledger!Release(S) \/ Ledger!Expire(S)
        PROVE  /\ s = "COMPLETED" => upstream'[p] = "SUCCESS"
               /\ s = "REFUNDED" => upstream'[p] = "REFUNDED"
    BY <2>1, <2>4 DEF Ledger!TakeUp, Ledger!Release, Ledger!Expire, Ledger!OutcomesAreReal
  <2>5. CASE Ledger!World
    BY <2>5, SameVocabulary DEF Ledger!World, Ledger!OutcomesAreReal, FinalRawStatuses
  <2>6. CASE UNCHANGED Ledger!ledgerVars
    BY <2>6 DEF Ledger!ledgerVars, Ledger!OutcomesAreReal
  <2> QED
    BY <2>2, <2>3, <2>4, <2>5, <2>6 DEF Ledger!Next
<1>3. IInv => NoticeTyped
  BY DEF IInv
<1> QED
  BY <1>1, <1>2, <1>3, LedgerImplemented, Invariance, PTL
     DEF KeepsLedger, Ledger!Spec, OutcomesAreReal
=============================================================================
