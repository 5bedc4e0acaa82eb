--------------------------- MODULE PrintJobProofs ---------------------------
(***************************************************************************)
(* Proofs about one print job (PrintJob): its types, what a completed job   *)
(* guarantees, the data pump as a pipe between the last filter and the      *)
(* backend, and that a canceled job says by whom.                           *)
(*                                                                         *)
(* The inductive invariant has three parts: about the job and its processes *)
(* (JobInv), about the pump (PumpInv), and about the reasons of a job that  *)
(* has not ended (Explained).                                               *)
(***************************************************************************)
EXTENDS PrintJob, JobOpsProofs

Has(j, r) == HasReason(j.state_reasons, r)

\* What the reasons of a job tell while its own handler is still connected.
\* It has not ended; only a job with a backend is being stopped; by the user or
\* by the system only if it is being stopped; the state it will have for having
\* been canceled by the user goes with the reason that says so; and the reason
\* of a data error never comes before that one, so that adding it again, which
\* cuts the list, cannot lose it.
Explained(j) ==
    /\ j.state \notin Terminal
    /\ j.state # "processing" => j.started = {}
    /\ j.started # {} \/ Has(j, StopPoint) => BackendStarted(j)
    /\ ~Has(j, CanceledBySystem)
    /\ Has(j, CanceledByUser) \/ Has(j, AbortedBySystem) => Has(j, StopPoint)
    /\ j.pending_job_state = "canceled" => Has(j, CanceledByUser)
    /\ Before(j.state_reasons, CanceledByUser, AbortedBySystem)

\* The job ends with this change, and says why if it is canceled.
EndExplained(j) ==
    /\ j.state \in Terminal /\ "state" \in j.queued
    /\ j.state = "canceled" => Has(j, CanceledByUser) \/ Has(j, CanceledBySystem)

\* The reasons that matter here, apart from each other and from the rest.
LEMMA Reasons ==
    /\ {Incoming, Transforming, Outgoing, StopPoint, CanceledByUser,
        CanceledBySystem, AbortedBySystem} \subseteq JobReasons
    /\ \A r \in {Incoming, Transforming, Outgoing} :
        r \notin {StopPoint, CanceledByUser, CanceledBySystem, AbortedBySystem}
    /\ StopPoint \notin {CanceledByUser, CanceledBySystem, AbortedBySystem}
    /\ CanceledByUser \notin {CanceledBySystem, AbortedBySystem}
    /\ CanceledBySystem # AbortedBySystem
    /\ Transforming # Outgoing
BY DEF JobReasons, Incoming, Transforming, Outgoing, StopPoint, CanceledByUser,
       CanceledBySystem, AbortedBySystem

\* k has the reasons of j, but for reasons that do not matter here.
SameEnds(j, k) ==
    /\ \A r \in {StopPoint, CanceledByUser, CanceledBySystem, AbortedBySystem} :
        Has(k, r) <=> Has(j, r)
    /\ Before(j.state_reasons, CanceledByUser, AbortedBySystem)
        => Before(k.state_reasons, CanceledByUser, AbortedBySystem)

\* Removing one of those.
LEMMA RemovalSameEnds ==
    ASSUME NEW j \in GoodJob, NEW r \in {Incoming, Transforming, Outgoing}
    PROVE  /\ SameEnds(j, RemoveStateReason(j, r))
           /\ SameEnds(j, CheckJobTransforming(j))
<1>1. ASSUME NEW q \in {Incoming, Transforming, Outgoing}
      PROVE  SameEnds(j, RemoveStateReason(j, q))
  <2>1. /\ j.state_reasons \in Seq(JobReasons)
        /\ RemoveStateReason(j, q).state_reasons = RemoveReason(j.state_reasons, q)
    BY DEF GoodJob, Job, RemoveStateReason
  <2>2. q \in JobReasons /\ q \notin
            {StopPoint, CanceledByUser, CanceledBySystem, AbortedBySystem}
    BY Reasons
  <2>3. \A p \in {StopPoint, CanceledByUser, CanceledBySystem, AbortedBySystem} :
            Has(RemoveStateReason(j, q), p) <=> Has(j, p)
    BY <2>1, <2>2, Reasons, OtherReasons DEF Has
  <2>4. Before(j.state_reasons, CanceledByUser, AbortedBySystem)
        => Before(RemoveReason(j.state_reasons, q), CanceledByUser, AbortedBySystem)
    BY <2>1, <2>2, Reasons, OrderKept
  <2> QED
    BY <2>1, <2>3, <2>4 DEF SameEnds
<1>2. SameEnds(j, j)
  BY DEF SameEnds
<1> QED
  BY <1>1, <1>2 DEF CheckJobTransforming

\* Nothing about the reasons depends on the others.
LEMMA SameEndsExplained ==
    ASSUME NEW j, NEW k, Explained(j), SameEnds(j, k), SameButReasons(j, k)
    PROVE  Explained(k)
BY DEF Explained, SameEnds, SameButReasons, SameRun, BackendStarted

\* pd_job_impl_do_cancel_with_reason, by the user for a job that is not being
\* stopped yet, or for a data error at any time.
LEMMA DoCancelExplained ==
    ASSUME NEW j \in GoodJob, Explained(j), NEW s, NEW r,
           \/ s = "canceled" /\ r = CanceledByUser /\ ~Has(j, StopPoint)
           \/ s = "aborted" /\ r = AbortedBySystem
    PROVE  \/ Explained(DoCancelWithReason(j, s, r))
           \/ EndExplained(DoCancelWithReason(j, s, r))
<1> DEFINE a == AddStateReason(j, r)
           c == CheckJobTransforming(a)
           k == DoCancelWithReason(j, s, r)
           Mid(x) == /\ ~Has(x, CanceledBySystem)
                     /\ x.pending_job_state = "canceled" \/ s = "canceled"
                            => Has(x, CanceledByUser)
                     /\ Before(x.state_reasons, CanceledByUser, AbortedBySystem)
<1>0. s \in JobStates /\ s \in Terminal /\ r \in JobReasons
  BY Reasons DEF JobStates, Terminal
<1>1. a \in GoodJob /\ SameButReasons(j, a)
  BY <1>0, AddStateReasonGood, ReasonsOnly
<1>2. Mid(a)
  <2>1. /\ j.state_reasons \in Seq(JobReasons)
        /\ a.state_reasons = AddReason(j.state_reasons, r)
    BY <1>0, AddStateReasonGood DEF GoodJob, Job
  <2>2. ~Has(a, CanceledBySystem)
    BY <1>0, <2>1, Reasons, OtherReasons DEF Explained, Has
  <2>3. CASE s = "canceled" /\ r = CanceledByUser /\ ~Has(j, StopPoint)
    <3>1. ~Has(j, CanceledByUser) /\ ~Has(j, AbortedBySystem)
      BY <2>3 DEF Explained
    <3>2. Has(a, CanceledByUser)
      BY <1>0, <2>1, <2>3, <3>1, AddUnlisted DEF Has
    <3>3. Before(a.state_reasons, CanceledByUser, AbortedBySystem)
      BY <1>0, <2>1, <3>1, Reasons, OrderKept DEF Explained, Has
    <3> QED
      BY <2>2, <3>2, <3>3
  <2>4. CASE s = "aborted" /\ r = AbortedBySystem
    <3>1. Before(a.state_reasons, CanceledByUser, AbortedBySystem)
      BY <1>0, <2>1, <2>4, Reasons, OrderKept DEF Explained
    <3>2. Has(j, CanceledByUser) => Has(a, CanceledByUser)
      BY <1>0, <2>1, <2>4, Reasons, OrderKept DEF Explained, Has
    <3> QED
      BY <1>1, <2>2, <2>4, <3>1, <3>2 DEF Explained, SameButReasons
  <2> QED
    BY <2>3, <2>4
<1>3. c \in GoodJob /\ SameButReasons(a, c) /\ Mid(c)
  <2> HIDE DEF a
  <2>1. c \in GoodJob /\ SameButReasons(a, c) /\ SameEnds(a, c)
    BY <1>1, Reasons, CheckJobTransformingQuiet, ReasonsOnly, RemovalSameEnds
       DEF Quiet
  <2> HIDE DEF c
  <2> QED
    BY <1>2, <2>1 DEF SameEnds, SameButReasons
<1>4. j.state \notin Terminal
  BY DEF Explained
<1>5. \/ k = SetState(a, s)
      \/ k = SetState(c, s)
      \/ /\ j.state = "processing"
         /\ FiltersRunning(a) \/ BackendStarted(a)
         /\ \/ k = c /\ Has(c, StopPoint)
            \/ k = ToStopPoint(c, s) /\ ~Has(c, StopPoint)
  BY <1>4, DoCancelCases DEF Has
<1> SUFFICES Explained(k) \/ EndExplained(k)
  OBVIOUS
<1> HIDE DEF a, c, k
<1>6. CASE k = SetState(a, s)
  BY <1>0, <1>1, <1>2, <1>6, StatesOnly DEF EndExplained, Has
<1>7. CASE k = SetState(c, s)
  BY <1>0, <1>3, <1>7, StatesOnly DEF EndExplained, Has
<1>8. ASSUME j.state = "processing", FiltersRunning(a) \/ BackendStarted(a)
      PROVE  BackendStarted(c) /\ c.state = "processing"
  BY <1>1, <1>3, <1>8 DEF Explained, FiltersRunning, Running, BackendStarted,
                          SameButReasons, SameRun
<1>9. CASE k = c /\ Has(c, StopPoint) /\ BackendStarted(c)
             /\ c.state = "processing"
  BY <1>3, <1>9 DEF Explained, Terminal
<1>10. CASE k = ToStopPoint(c, s) /\ ~Has(c, StopPoint) /\ BackendStarted(c)
              /\ c.state = "processing"
  <2>1. /\ c.state_reasons \in Seq(JobReasons)
        /\ k.state_reasons = AddReason(c.state_reasons, StopPoint)
        /\ SameRun(c, k) /\ k.state = c.state /\ k.pending_job_state = s
    BY <1>0, <1>3, <1>10, StatesOnly DEF GoodJob, Job
  <2>2. Has(k, StopPoint) /\ (Has(c, CanceledByUser) => Has(k, CanceledByUser))
    BY <1>10, <2>1, Reasons, AddUnlisted DEF Has
  <2>3. ~Has(k, CanceledBySystem)
    BY <1>3, <2>1, Reasons, OtherReasons DEF Has
  <2>4. Before(k.state_reasons, CanceledByUser, AbortedBySystem)
    BY <1>3, <2>1, Reasons, OrderKept
  <2>5. BackendStarted(k) /\ k.state = "processing"
    BY <1>10, <2>1 DEF SameRun, BackendStarted
  <2> QED
    BY <1>3, <2>1, <2>2, <2>3, <2>4, <2>5 DEF Explained, Terminal
<1> QED
  BY <1>5, <1>6, <1>7, <1>8, <1>9, <1>10

\* pd_job_impl_cancel
LEMMA CancelExplained ==
    ASSUME NEW j \in GoodJob, Explained(j)
    PROVE  Explained(Cancel(j)) \/ EndExplained(Cancel(j))
<1> DEFINE c == CheckJobTransforming(j)
<1>1. c \in GoodJob /\ SameButReasons(j, c) /\ SameEnds(j, c)
  BY Reasons, CheckJobTransformingQuiet, ReasonsOnly, RemovalSameEnds DEF Quiet
<1>2. Explained(c)
  BY <1>1, SameEndsExplained
<1>3. CASE j.state \in {"pending", "pending-held"}
  <2>1. Cancel(j) = DoCancelWithReason(j, "canceled", CanceledByUser)
    BY <1>3 DEF Cancel, Terminal
  <2>2. ~Has(j, StopPoint)
    BY <1>3 DEF Explained, BackendStarted
  <2> QED
    BY <2>1, <2>2, DoCancelExplained
<1>4. CASE j.state = "processing"
  <2>1. Cancel(j) = IF \/ ~FiltersRunning(j) /\ ~BackendStarted(j)
                       \/ ~HasReason(c.state_reasons, StopPoint)
                    THEN DoCancelWithReason(c, "canceled", CanceledByUser)
                    ELSE c
    BY <1>4 DEF Cancel, Terminal
  <2>2. ~BackendStarted(j) => ~Has(c, StopPoint)
    BY <1>1 DEF Explained, SameEnds
  <2> HIDE DEF c
  <2>3. ~Has(c, StopPoint) =>
            \/ Explained(DoCancelWithReason(c, "canceled", CanceledByUser))
            \/ EndExplained(DoCancelWithReason(c, "canceled", CanceledByUser))
    BY <1>1, <1>2, DoCancelExplained
  <2> QED
    BY <1>2, <2>1, <2>2, <2>3 DEF Has
<1> QED
  BY <1>3, <1>4 DEF Explained, GoodJob, Job, JobStates

\* pd_job_impl_data_io_cb and pd_job_impl_message_io_cb, on errors
LEMMA ErrorsExplained ==
    ASSUME NEW j \in GoodJob, Explained(j)
    PROVE  /\ Explained(DataError(j)) \/ EndExplained(DataError(j))
           /\ EndExplained(MessageError(j))
<1>1. Explained(DataError(j)) \/ EndExplained(DataError(j))
  BY DoCancelExplained DEF DataError
<1>2. EndExplained(MessageError(j))
  <2>1. j.state_reasons \in Seq(JobReasons)
    BY DEF GoodJob, Job
  <2>2. Has(MessageError(j), CanceledBySystem)
    BY <2>1, Reasons, MessageErrorFields, AddUnlisted DEF Explained, Has
  <2> QED
    BY <2>2, MessageErrorFields DEF EndExplained, Terminal
<1> QED
  BY <1>1, <1>2


\* pd_job_impl_process_watch_cb
LEMMA ProcessFinishedExplained ==
    ASSUME NEW j \in GoodJob, Explained(j), NEW p \in j.watched, NEW status,
           j.pending_job_state \notin {"pending", "pending-held"},
           NEW k, k = ProcessFinished(j, p, status)
    PROVE  Explained(k) \/ EndExplained(k)
<1> DEFINE f == [j EXCEPT !.finished = @ \cup {p}, !.watched = @ \ {p}]
           r == IF p = Backend THEN RemoveStateReason(f, Outgoing)
                ELSE CheckJobTransforming(f)
           e == IF ExitedNonZero(status)
                THEN [r EXCEPT !.pending_job_state = "aborted"] ELSE r
<1>0. p \in Procs /\ j.pending_job_state \in JobStates /\ "aborted" \in JobStates
  BY DEF GoodJob, Job, JobStates, Terminal
<1>1. SameEnds(j, k)
  <2>1. f \in GoodJob /\ f.state_reasons = j.state_reasons
    BY <1>0 DEF GoodJob, Job
  <2>2. SameEnds(f, r) /\ r \in GoodJob
    <3> HIDE DEF f
    <3> QED
      BY <2>1, Reasons, RemovalSameEnds, RemoveStateReasonQuiet,
         CheckJobTransformingQuiet DEF Quiet
  <2>3. e.state_reasons = r.state_reasons
    <3> HIDE DEF r
    <3> QED
      BY <2>2 DEF GoodJob, Job
  <2>4. k = IF AllFinished(e) THEN SetState(e, e.pending_job_state) ELSE e
    BY DEF ProcessFinished
  <2>5. e \in Job
    <3> HIDE DEF r
    <3> QED
      BY <1>0, <2>2 DEF GoodJob, Job
  <2> HIDE DEF f, r, e
  <2>6. k.state_reasons = e.state_reasons
    BY <2>4, <2>5 DEF SetState, Job
  <2> QED
    BY <2>1, <2>2, <2>3, <2>6 DEF SameEnds, Has
<1> HIDE DEF f, r, e
<1>2. /\ k.started = j.started
      /\ k.pending_job_state =
            IF status = "failed" THEN "aborted" ELSE j.pending_job_state
      /\ k.state = IF AllFinished(k) THEN k.pending_job_state ELSE j.state
      /\ AllFinished(k) => "state" \in k.queued
  BY ProcessFinishedFields
<1>3. k.pending_job_state \in {"processing"} \cup Terminal
  BY <1>0, <1>2 DEF JobStates, Terminal
<1>4. CASE k.state \in Terminal
  <2>1. AllFinished(k)
    BY <1>2, <1>4 DEF Explained
  <2>2. k.state = "canceled" => Has(j, CanceledByUser)
    BY <1>2, <2>1 DEF Explained
  <2> QED
    BY <1>1, <1>2, <1>4, <2>1, <2>2 DEF EndExplained, SameEnds
<1>5. CASE k.state \notin Terminal
  <2>1. k.state # "processing" => k.started = {}
    BY <1>2, <1>3, <1>5 DEF Explained
  <2>2. k.pending_job_state = "canceled" => Has(k, CanceledByUser)
    BY <1>1, <1>2 DEF Explained, SameEnds
  <2> QED
    BY <1>1, <1>2, <1>5, <2>1, <2>2 DEF Explained, SameEnds, BackendStarted
<1> QED
  BY <1>4, <1>5

\* pd_job_impl_start_sending adds none of the reasons that matter here.
LEMMA StartSendingReasons ==
    ASSUME NEW j \in GoodJob, NEW k \in StartSending(j),
           NEW r \in {StopPoint, CanceledByUser, CanceledBySystem,
                      AbortedBySystem},
           Has(k, r)
    PROVE  Has(j, r)
<1> DEFINE a == AddStateReason(j, Outgoing)
<1>1. /\ a \in GoodJob /\ Tells(a, a.state)
      /\ a.state_reasons = AddReason(j.state_reasons, Outgoing)
      /\ j.state_reasons \in Seq(JobReasons)
  BY Reasons, AddStateReasonGood DEF GoodJob, Job, Tells
<1>2. Has(a, r) => Has(j, r)
  BY <1>1, Reasons, OtherReasons DEF Has
<1> DEFINE chains == IF a.chain = 0 THEN StartProcessing(a) ELSE {a}
<1>3. \E q \in chains : k \in {q, BackendRun(q), BackendFailed(q)}
  BY DEF StartSending
<1> HIDE DEF a
<1>4. PICK q \in chains : k \in {q, BackendRun(q), BackendFailed(q)}
  BY <1>3
<1>5. /\ q \in GoodJob
      /\ q.state_reasons \in
            {a.state_reasons, AddReason(a.state_reasons, Transforming)}
  BY <1>1, StartProcessingTells, StartProcessingReasons DEF Tells
<1>6. k.state_reasons = q.state_reasons
  <2> HIDE DEF chains
  <2>1. q \in Job
    BY <1>5 DEF GoodJob
  <2>2. BackendRun(q).state_reasons = q.state_reasons
    BY <2>1 DEF BackendRun, Job
  <2>3. BackendFailed(q).state_reasons = q.state_reasons
    BY <2>1 DEF BackendFailed, SetState, Job
  <2> QED
    BY <1>4, <2>2, <2>3
<1>7. Has(q, r) => Has(a, r)
  <2>1. a.state_reasons \in Seq(JobReasons)
    BY <1>1 DEF GoodJob, Job
  <2> QED
    BY <1>5, <2>1, Reasons, OtherReasons DEF Has
<1> QED
  BY <1>2, <1>6, <1>7 DEF Has

\* Starting to send a job that has no processes yet.
LEMMA StartSendingExplained ==
    ASSUME NEW j \in GoodJob, Explained(j),
           j.chain = 0, j.started = {}, j.finished = {}, j.watched = {},
           j.state = "processing", NEW k \in StartSending(j)
    PROVE  Explained(k) \/ EndExplained(k)
<1>1. \A r \in {StopPoint, CanceledByUser, CanceledBySystem, AbortedBySystem} :
        ~Has(k, r)
  <2>1. \A r \in {StopPoint, CanceledByUser, CanceledBySystem, AbortedBySystem} :
            ~Has(j, r)
    BY DEF Explained, BackendStarted
  <2> QED
    BY <2>1, StartSendingReasons
<1>2. Before(k.state_reasons, CanceledByUser, AbortedBySystem)
  BY <1>1 DEF Before, Has, HasReason
<1>3. k.state # "processing" => "state" \in k.queued
  BY StartSendingTells DEF Tells
<1>4. \/ k.state = "aborted"
      \/ /\ k.state = "processing" /\ BackendStarted(k)
         /\ k.pending_job_state = "completed"
  BY StartSendingFields
<1> QED
  BY <1>1, <1>2, <1>3, <1>4 DEF Explained, EndExplained, Terminal

\* The methods and callbacks that stop nothing: AddDocument, Start, the
\* engine's change of the state, the end of the filters' output.
LEMMA OthersExplained ==
    ASSUME NEW j \in GoodJob, Explained(j)
    PROVE  /\ Explained(AddDocument(j))
           /\ j.started = {} => \A k \in Start(j) : Explained(k) \/ EndExplained(k)
           /\ Explained(SetState(j, "processing"))
           /\ Explained(CheckJobTransforming(j))
<1>0. j \in Job
  BY DEF GoodJob
<1>1. Explained(AddDocument(j))
  BY <1>0 DEF AddDocument, Job, Explained, Has, BackendStarted
<1>2. Explained(SetState(j, "processing"))
  BY <1>0 DEF SetState, Job, Explained, Has, BackendStarted, Terminal
<1>3. Explained(CheckJobTransforming(j))
  BY Reasons, ReasonsOnly, RemovalSameEnds, SameEndsExplained
<1>4. ASSUME j.started = {}, NEW k \in Start(j)
      PROVE  Explained(k) \/ EndExplained(k)
  <2> DEFINE s == Spooled(j)
             i == RemoveStateReason(s, Incoming)
  <2>1. s \in GoodJob /\ Explained(s) /\ s.started = {}
    <3>1. s \in GoodJob
      BY SpoolingQuiet DEF Quiet, Start
    <3>2. Explained(s) /\ s.started = {}
      BY <1>0, <1>4 DEF Spooled, Job, Explained, Has, BackendStarted
    <3> QED
      BY <3>1, <3>2
  <2>2. k \in {j, s, DoCancelWithReason(s, "aborted", AbortedBySystem),
               SetState(i, "pending")}
    BY <1>4 DEF Start
  <2> HIDE DEF s
  <2>3. /\ Explained(DoCancelWithReason(s, "aborted", AbortedBySystem))
           \/ EndExplained(DoCancelWithReason(s, "aborted", AbortedBySystem))
    BY <2>1, DoCancelExplained
  <2>4. i \in Job /\ Explained(i) /\ i.started = {}
    <3>1. i \in GoodJob /\ SameEnds(s, i) /\ SameButReasons(s, i)
      BY <2>1, Reasons, ReasonsOnly, RemovalSameEnds, RemoveStateReasonQuiet
         DEF Quiet
    <3> HIDE DEF i
    <3> QED
      BY <2>1, <3>1, SameEndsExplained DEF SameButReasons, SameRun, GoodJob
  <2> HIDE DEF i
  <2>5. Explained(SetState(i, "pending"))
    BY <2>4 DEF SetState, Job, Explained, Has, BackendStarted, Terminal
  <2> QED
    BY <2>1, <2>2, <2>3, <2>5
<1> QED
  BY <1>1, <1>2, <1>3, <1>4

-----------------------------------------------------------------------------
(* The invariant                                                            *)

\* Nothing was run for the job.
NothingRun ==
    /\ job.chain = 0 /\ job.started = {} /\ job.finished = {}
    /\ job.watched = {} /\ killed = {} /\ ends = {}
    /\ ~io.stdin /\ io.sources = {} /\ ~io.buffer /\ messages = 0
    /\ left = 0 /\ pipe = 0 /\ ~open
    /\ produced = 0 /\ delivered = 0 /\ ~drained

\* A job is sent once: before it is spooled, while it is pending, and as long as
\* the engine is starting it, nothing was run for it; it never becomes pending
\* by the end of its processes, nor again once the engine has set its state.
SentOnce ==
    /\ job.state \in {"pending", "pending-held"} => NothingRun
    /\ ~job.document_filename \/ engine # "away" => NothingRun
    /\ job.state = "pending" \/ engine # "away" => job.document_filename
    /\ engine = "processing" => job.state \notin {"pending", "pending-held"}
    /\ job.pending_job_state \notin {"pending", "pending-held"}

\* A job that was stopped, or had a process that failed, is not to be completed.
Doomed ==
    "failed" \in ends \/ killed # {} => job.pending_job_state # "completed"

JobInv ==
    /\ job \in GoodJob /\ job.queued = {} /\ own \in BOOLEAN
    /\ engine \in {"away", "found", "processing"} /\ overtaken \in BOOLEAN
    /\ killed \subseteq Procs /\ ends \subseteq Statuses
    /\ SpoolsOnce /\ SentOnce /\ Doomed
    /\ job.watched \subseteq Running(job)
    /\ CompletedIsClean /\ StoppedNeverCompletes

PumpTypes ==
    /\ io \in IO /\ messages \in 0..MaxMessageErrors
    /\ left \in 0..MaxChunks /\ pipe \in 0..PipeCap /\ open \in BOOLEAN
    /\ produced \in Nat /\ delivered \in Nat /\ drained \in BOOLEAN

\* Every chunk is in one place; the input of the backend is open only while
\* nobody has shut it; and the pump writes nothing only when it has seen the end
\* of the filter's output.
PumpInv ==
    /\ PumpTypes /\ OneBufferPump
    /\ produced = delivered + pipe + (IF io.buffer THEN 1 ELSE 0)
    /\ produced + left <= MaxChunks
    /\ "write" \in io.sources => io.stdin
    /\ io.stdin => killed = {} /\ ~drained
    /\ "write" \in io.sources /\ ~io.buffer => pipe = 0 /\ ~open
    /\ drained => ~open

\* The job's handler has seen every end of the job, and is still connected.
Seen == own /\ ~overtaken

Inv == JobInv /\ PumpInv /\ (Seen => Explained(job))

\* What the engine has to do with a job.
LEMMA InvFacts ==
    ASSUME Inv
    PROVE  /\ job \in GoodJob /\ job \in Job /\ own \in BOOLEAN
           /\ overtaken \in BOOLEAN /\ messages \in Nat
           /\ ~job.document_filename => engine = "away" /\ NothingRun
           /\ job.state = "pending" \/ engine # "away" =>
                NothingRun /\ job.document_filename /\ ~job.document_fd
           /\ ~NothingRun => /\ engine = "away" /\ job.document_filename
                             /\ job.state \notin {"pending", "pending-held"}
           /\ job.pending_job_state \notin {"pending", "pending-held"}
<1>1. /\ job \in GoodJob /\ own \in BOOLEAN /\ overtaken \in BOOLEAN
      /\ SentOnce /\ SpoolsOnce /\ messages \in 0..MaxMessageErrors
  BY DEF Inv, JobInv, PumpInv, PumpTypes
<1>2. job \in Job /\ messages \in Nat
  BY <1>1, MessagesAssumption DEF GoodJob
<1>3. ~job.document_filename => engine = "away" /\ NothingRun
  BY <1>1 DEF SentOnce
<1>4. job.state = "pending" \/ engine # "away" =>
        NothingRun /\ job.document_filename /\ ~job.document_fd
  BY <1>1 DEF SentOnce, SpoolsOnce
<1>5. ~NothingRun => /\ engine = "away" /\ job.document_filename
                     /\ job.state \notin {"pending", "pending-held"}
  BY <1>1 DEF SentOnce
<1>6. job.pending_job_state \notin {"pending", "pending-held"}
  BY <1>1 DEF SentOnce
<1> QED
  BY <1>1, <1>2, <1>3, <1>4, <1>5, <1>6

\* A canceled job says by whom, if this step is what ended it.
EndSaid ==
    Seen /\ job.state # "canceled" /\ job'.state = "canceled" =>
        Has(job', CanceledByUser) \/ Has(job', CanceledBySystem)

\* Leaving a method or callback: the job's handler may tidy up two reasons.
LEMMA LeaveFields ==
    ASSUME NEW k \in GoodJob, own \in BOOLEAN, Leave(k)
    PROVE  /\ job' \in GoodJob /\ job'.queued = {} /\ own' \in BOOLEAN
           /\ SameRun(k, job') /\ job'.state = k.state
           /\ job'.pending_job_state = k.pending_job_state
<1> DEFINE ended == own /\ "state" \in k.queued /\ k.state \in Terminal
           t == IF ended THEN TidyReasons(k) ELSE k
<1>1. job' = Thawed(t) /\ own' = (own /\ ~ended)
  BY DEF Leave
<1>2. t \in GoodJob /\ SameButReasons(k, t)
  BY TidyReasonsQuiet, TidyReasonsOnly DEF Quiet, SameButReasons, SameRun
<1> HIDE DEF t
<1>3. /\ job' \in GoodJob /\ job'.queued = {} /\ SameButReasons(t, job')
  BY <1>1, <1>2, Reasons, ThawedGood, ReasonsOnly
<1> QED
  BY <1>1, <1>2, <1>3 DEF SameButReasons, SameRun

\* A step that keeps the reasons explained, or ends the job and says why, does
\* so after the handler has tidied up.
LEMMA LeaveExplained ==
    ASSUME NEW k \in GoodJob, own \in BOOLEAN, Leave(k),
           overtaken => overtaken',
           overtaken' => overtaken \/ k.state = "processing",
           own /\ ~overtaken' => Explained(k) \/ EndExplained(k)
    PROVE  /\ Seen' => Explained(job')
           /\ EndSaid
<1> DEFINE ended == own /\ "state" \in k.queued /\ k.state \in Terminal
           t == IF ended THEN TidyReasons(k) ELSE k
<1>1. job' = Thawed(t) /\ own' = (own /\ ~ended)
  BY DEF Leave
<1>2. t \in GoodJob /\ SameButReasons(k, t)
  BY TidyReasonsQuiet, TidyReasonsOnly DEF Quiet, SameButReasons, SameRun
<1>3. own /\ ~overtaken' /\ ~ended => Explained(k) /\ t = k
  BY DEF EndExplained
<1>4. Seen /\ k.state = "canceled" =>
        Has(k, CanceledByUser) \/ Has(k, CanceledBySystem)
  BY DEF Seen, Explained, EndExplained, Terminal
<1>5. \A r \in {CanceledByUser, CanceledBySystem} : Has(k, r) => Has(t, r)
  <2>1. {CanceledByUser, CanceledBySystem} \subseteq JobReasons \ {Incoming, StopPoint}
    BY Reasons
  <2>2. \A r \in {CanceledByUser, CanceledBySystem} :
            Has(k, r) => Has(TidyReasons(k), r)
    BY <2>1, TidyReasonsOnly DEF Has
  <2> QED
    BY <2>2
<1> HIDE DEF t, ended
<1>6. job'.state_reasons = t.state_reasons /\ SameButReasons(t, job')
  BY <1>1, <1>2, Reasons, ThawedGood, ReasonsOnly
<1>7. Seen' => Explained(job')
  <2>1. SameEnds(t, job')
    BY <1>6 DEF SameEnds, Has
  <2> QED
    BY <1>1, <1>3, <1>6, <2>1, SameEndsExplained DEF Seen
<1>8. EndSaid
  BY <1>2, <1>4, <1>5, <1>6 DEF EndSaid, Has, SameButReasons
<1> QED
  BY <1>7, <1>8


-----------------------------------------------------------------------------
(* The steps                                                                *)

\* Leaving after a cancellation, for whatever it does to the pump: what it
\* stops, it stops with a state kept for later that is not "completed".
LEMMA CanceledStep ==
    ASSUME Inv, NEW k \in GoodJob, NEW s \in {"canceled", "aborted"},
           CanceledTo(job, k, s), Seen => Explained(k) \/ EndExplained(k),
           NEW x \in IO, x.buffer = io.buffer, x.stdin = io.stdin,
           x.sources \subseteq io.sources,
           LeaveCanceled(k, x),
           UNCHANGED <<starts, messages, children, delivered, drained>>
    PROVE  Inv' /\ EndSaid
<1> DEFINE stops == /\ HasReason(k.state_reasons, StopPoint)
                    /\ ~HasReason(job.state_reasons, StopPoint)
<1>1. /\ Leave(k)
      /\ io' = IF stops THEN StopSending(x) ELSE x
      /\ killed' = IF stops THEN killed \cup Running(job) ELSE killed
  BY DEF LeaveCanceled, KillProcesses
<1>2. own \in BOOLEAN /\ job \in GoodJob
  BY DEF Inv, JobInv
<1>3. /\ job' \in GoodJob /\ job'.queued = {} /\ own' \in BOOLEAN
      /\ SameRun(k, job') /\ job'.state = k.state
      /\ job'.pending_job_state = k.pending_job_state
  BY <1>1, <1>2, LeaveFields
<1>4. (Seen' => Explained(job')) /\ EndSaid
  <2>1. overtaken' = overtaken
    BY DEF starts
  <2>2. own /\ ~overtaken' => Explained(k) \/ EndExplained(k)
    BY <2>1 DEF Seen
  <2> QED
    BY <1>1, <1>2, <2>1, <2>2, LeaveExplained
<1>5. /\ SameRun(job, job') /\ job'.state \in {job.state, s}
      /\ job.state \in Terminal => job'.state = job.state
      /\ job'.pending_job_state \in {job.pending_job_state, s}
      /\ stops => job'.pending_job_state = s
  BY <1>3 DEF CanceledTo, SameRun
<1>6. /\ io' \in IO /\ io'.buffer = io.buffer /\ io'.sources \subseteq io.sources
      /\ io'.stdin => io.stdin
      /\ stops => ~io'.stdin
      /\ "write" \in io'.sources /\ ~stops => io'.stdin = io.stdin
      /\ "write" \in io'.sources => ~stops
  <2>1. /\ StopSending(x) \in IO /\ StopSending(x).buffer = x.buffer
        /\ StopSending(x).stdin = FALSE
        /\ StopSending(x).sources = x.sources \ {"write"}
    BY DEF StopSending, IO
  <2> HIDE DEF stops
  <2> QED
    BY <1>1, <2>1
<1>7. /\ messages' = messages /\ left' = left /\ pipe' = pipe /\ open' = open
      /\ produced' = produced /\ ends' = ends /\ delivered' = delivered
      /\ drained' = drained /\ engine' = engine /\ overtaken' = overtaken
  BY DEF children, starts
<1> HIDE DEF stops
<1>8. job.started \subseteq Procs
  BY <1>2 DEF GoodJob, Job
<1>9. SentOnce'
  <2>1. NothingRun => NothingRun'
    BY <1>1, <1>5, <1>6, <1>7 DEF NothingRun, SameRun, Running
  <2>2. SentOnce
    BY DEF Inv, JobInv
  <2>3. job'.document_filename = job.document_filename
    BY <1>5 DEF SameRun
  <2>4. job'.state \in {"pending", "pending-held"}
            => job.state = job'.state
    BY <1>5
  <2>5. job'.pending_job_state \notin {"pending", "pending-held"}
    BY <1>5, <2>2 DEF SentOnce
  <2> QED
    BY <1>7, <2>1, <2>2, <2>3, <2>4, <2>5 DEF SentOnce
<1>10. SpoolsOnce' /\ (job.watched \subseteq Running(job))'
  BY <1>5 DEF Inv, JobInv, SpoolsOnce, Running, SameRun
<1>11. Doomed'
  BY <1>1, <1>5, <1>7 DEF Inv, JobInv, Doomed
<1>12. CompletedIsClean' /\ StoppedNeverCompletes'
  <2>1. job'.state = "completed" => job.state = "completed"
    BY <1>5
  <2>2. job.state = "completed" => Running(job) = {}
    BY DEF Inv, JobInv, CompletedIsClean
  <2> QED
    BY <1>1, <1>5, <1>7, <2>1, <2>2
       DEF Inv, JobInv, CompletedIsClean, StoppedNeverCompletes, Running, SameRun
<1>13. JobInv'
  BY <1>1, <1>3, <1>7, <1>8, <1>9, <1>10, <1>11, <1>12
     DEF Inv, JobInv, Running
<1>14. PumpInv'
  <2>1. (io.stdin => killed = {} /\ ~drained)'
    BY <1>1, <1>6, <1>7 DEF Inv, PumpInv
  <2>2. PumpTypes' /\ OneBufferPump'
    BY <1>6, <1>7 DEF Inv, PumpInv, PumpTypes, OneBufferPump, IO
  <2>3. ("write" \in io.sources => io.stdin)'
    BY <1>6 DEF Inv, PumpInv
  <2> QED
    BY <1>6, <1>7, <2>1, <2>2, <2>3 DEF Inv, PumpInv
<1> QED
  BY <1>4, <1>13, <1>14 DEF Inv

\* Leaving after a step that runs, stops and pumps nothing, and changes the
\* state at most as allowed.
LEMMA QuietStep ==
    ASSUME Inv, NEW k \in GoodJob, Leave(k),
           k.chain = job.chain, k.started = job.started,
           k.finished = job.finished, k.watched = job.watched,
           k.document_fd => ~k.document_filename,
           k.pending_job_state \in
                {job.pending_job_state, "aborted", "canceled"},
           k.state = "completed" => job.state = "completed",
           k.state \in {"pending", "pending-held"} => NothingRun,
           ~k.document_filename \/ engine' # "away" => NothingRun,
           k.state = "pending" \/ engine' # "away" => k.document_filename,
           engine' = "processing" => k.state \notin {"pending", "pending-held"},
           engine' \in {"away", "found", "processing"}, overtaken' \in BOOLEAN,
           overtaken => overtaken',
           overtaken' => overtaken \/ k.state = "processing",
           own /\ ~overtaken' => Explained(k) \/ EndExplained(k),
           messages' \in 0..messages,
           UNCHANGED <<killed, io, children, delivered, drained>>
    PROVE  Inv' /\ EndSaid
<1>1. own \in BOOLEAN /\ job \in GoodJob
  BY DEF Inv, JobInv
<1>2. /\ job' \in GoodJob /\ job'.queued = {} /\ own' \in BOOLEAN
      /\ SameRun(k, job') /\ job'.state = k.state
      /\ job'.pending_job_state = k.pending_job_state
  BY <1>1, LeaveFields
<1>3. (Seen' => Explained(job')) /\ EndSaid
  BY <1>1, LeaveExplained
<1>4. /\ left' = left /\ pipe' = pipe /\ open' = open /\ io' = io
      /\ produced' = produced /\ ends' = ends /\ delivered' = delivered
      /\ drained' = drained /\ killed' = killed
  BY DEF children
<1>5. SentOnce'
  <2>1. messages = 0 => messages' = 0
    BY DEF Inv, PumpInv, PumpTypes
  <2>2. NothingRun => NothingRun'
    BY <1>2, <1>4, <2>1 DEF NothingRun, SameRun
  <2> QED
    BY <1>2, <2>2 DEF SentOnce, SameRun, Inv, JobInv
<1>6. JobInv'
  BY <1>2, <1>4, <1>5 DEF Inv, JobInv, SpoolsOnce, Doomed, CompletedIsClean,
                          StoppedNeverCompletes, Running, SameRun
<1>7. PumpInv'
  <2>1. messages' \in 0..MaxMessageErrors
    BY MessagesAssumption DEF Inv, PumpInv, PumpTypes
  <2> QED
    BY <1>4, <2>1 DEF Inv, PumpInv, PumpTypes, OneBufferPump
<1> QED
  BY <1>3, <1>6, <1>7 DEF Inv


\* AddDocument
LEMMA AddDocumentStep ==
    ASSUME Inv, AddDocumentCall
    PROVE  Inv' /\ EndSaid
<1> DEFINE k == AddDocument(job)
<1>1. /\ job \in GoodJob /\ job \in Job /\ ~job.document_filename
      /\ NothingRun /\ messages \in Nat /\ engine = "away"
      /\ overtaken \in BOOLEAN
  BY InvFacts DEF AddDocumentCall, CanAddDocument
<1>2. /\ k.chain = job.chain /\ k.started = job.started
      /\ k.finished = job.finished /\ k.watched = job.watched
      /\ k.document_filename = job.document_filename
      /\ k.pending_job_state = job.pending_job_state /\ k.state = job.state
  BY <1>1 DEF AddDocument, Job
<1>3. k \in GoodJob /\ (Seen => Explained(k))
  BY <1>1, SpoolingQuiet, OthersExplained DEF Quiet, Inv
<1>4. /\ Leave(k) /\ messages' \in 0..messages
      /\ engine' = "away" /\ overtaken' = overtaken
      /\ UNCHANGED <<killed, io, children, delivered, drained>>
  BY <1>1 DEF AddDocumentCall, starts
<1> HIDE DEF k
<1> QED
  BY <1>1, <1>2, <1>3, <1>4, QuietStep DEF Inv, JobInv, SentOnce, Seen

\* Start, which only a job without processes can see succeed.
LEMMA StartStep ==
    ASSUME Inv, StartCall
    PROVE  Inv' /\ EndSaid
<1>1. PICK k \in Start(job) : LeaveCanceled(k, io)
  BY DEF StartCall
<1>2. /\ job \in GoodJob /\ job \in Job /\ job.document_fd
      /\ ~job.document_filename /\ NothingRun /\ io \in IO
      /\ job.pending_job_state \notin {"pending", "pending-held"}
      /\ messages \in Nat /\ engine = "away" /\ overtaken \in BOOLEAN
  <2>1. job.document_fd /\ ~job.document_filename
    BY DEF Inv, JobInv, SpoolsOnce, StartCall
  <2>2. io \in IO
    BY DEF Inv, PumpInv, PumpTypes
  <2> QED
    BY <2>1, <2>2, InvFacts
<1>3. Leave(k) /\ io' = io /\ killed' = killed
  <2>1. StopSending(io) = io
    BY <1>2 DEF StopSending, IO, NothingRun
  <2>2. killed \cup Running(job) = killed
    BY <1>2 DEF NothingRun, Running
  <2> QED
    BY <1>1, <2>1, <2>2 DEF LeaveCanceled, KillProcesses
<1>4. k \in GoodJob /\ (Seen => Explained(k) \/ EndExplained(k))
  BY <1>2, SpoolingQuiet, OthersExplained DEF Quiet, Inv, NothingRun
<1>5. /\ messages' \in 0..messages
      /\ engine' = "away" /\ overtaken' = overtaken
      /\ UNCHANGED <<killed, io, children, delivered, drained>>
  BY <1>2, <1>3 DEF StartCall, starts
<1> DEFINE s == Spooled(job)
<1>6. /\ s.chain = job.chain /\ s.started = job.started
      /\ s.finished = job.finished /\ s.watched = job.watched
      /\ s.document_filename /\ ~s.document_fd
      /\ s.pending_job_state = job.pending_job_state /\ s.state = job.state
  BY <1>2 DEF Spooled, Job
<1>7. \/ k = job
      \/ k = s
      \/ CanceledTo(s, k, "aborted")
      \/ /\ SameRun(s, k) /\ k.state = "pending"
         /\ k.pending_job_state = job.pending_job_state
  BY <1>2, StartFields
<1> HIDE DEF s
<1>8. /\ k.chain = job.chain /\ k.started = job.started
      /\ k.finished = job.finished /\ k.watched = job.watched
      /\ k.document_fd => ~k.document_filename
      /\ k.pending_job_state \in {job.pending_job_state, "aborted"}
      /\ k.state = "completed" => job.state = "completed"
      /\ k.state = "pending" => k.document_filename
  BY <1>2, <1>6, <1>7 DEF SameRun, CanceledTo, Inv, JobInv, SentOnce
<1> QED
  BY <1>2, <1>3, <1>4, <1>5, <1>8, QuietStep DEF Seen

\* Cancel, and the pump's read and write errors.
LEMMA CancelSteps ==
    ASSUME Inv, CancelCall \/ PumpReadFails \/ PumpWriteFails
    PROVE  Inv' /\ EndSaid
<1>1. job \in GoodJob /\ io \in IO
  BY DEF Inv, JobInv, PumpInv, PumpTypes
<1>2. CASE CancelCall
  <2>1. /\ Cancel(job) \in GoodJob /\ CanceledTo(job, Cancel(job), "canceled")
        /\ Seen => Explained(Cancel(job)) \/ EndExplained(Cancel(job))
    BY <1>1, CancelQuiet, CancelFields, CancelExplained DEF Quiet, Inv
  <2> QED
    BY <1>1, <1>2, <2>1, CanceledStep DEF CancelCall
<1>3. /\ DataError(job) \in GoodJob /\ CanceledTo(job, DataError(job), "aborted")
      /\ Seen => Explained(DataError(job)) \/ EndExplained(DataError(job))
  <2>1. DataError(job) \in GoodJob
        /\ (Seen => Explained(DataError(job)) \/ EndExplained(DataError(job)))
    BY <1>1, ErrorsQuiet, ErrorsExplained DEF Quiet, Inv
  <2>2. "aborted" \in JobStates /\ AbortedBySystem \notin {Outgoing, StopPoint}
    BY Reasons DEF JobStates, Terminal
  <2> QED
    BY <1>1, <2>1, <2>2, Reasons, DoCancelFields DEF DataError
<1>4. CASE PumpReadFails
  <2> DEFINE x == [io EXCEPT !.sources = @ \ {"read"}]
  <2>1. /\ x \in IO /\ x.buffer = io.buffer /\ x.stdin = io.stdin
        /\ x.sources \subseteq io.sources
    BY <1>1 DEF IO
  <2>2. /\ LeaveCanceled(DataError(job), x)
        /\ UNCHANGED <<starts, messages, children, delivered, drained>>
    BY <1>4 DEF PumpReadFails
  <2> HIDE DEF x
  <2> QED
    BY <1>3, <2>1, <2>2, CanceledStep
<1>5. CASE PumpWriteFails
  BY <1>1, <1>3, <1>5, CanceledStep DEF PumpWriteFails
<1> QED
  BY <1>2, <1>4, <1>5

\* A message channel that fails.
LEMMA MessagesStep ==
    ASSUME Inv, MessagesFail
    PROVE  Inv' /\ EndSaid
<1> DEFINE k == MessageError(job)
<1>1. /\ job \in GoodJob /\ messages \in Nat /\ messages > 0
      /\ engine = "away" /\ overtaken \in BOOLEAN
  <2>1. messages > 0
    BY DEF MessagesFail
  <2>2. ~NothingRun
    BY <2>1 DEF NothingRun
  <2> QED
    BY <2>1, <2>2, InvFacts
<1>2. /\ k \in GoodJob /\ (Seen => EndExplained(k)) /\ SameRun(job, k)
      /\ k.state = "canceled" /\ k.pending_job_state = job.pending_job_state
  BY <1>1, ErrorsQuiet, ErrorsExplained, MessageErrorFields DEF Quiet, Inv
<1>3. /\ Leave(k) /\ messages' \in 0..messages
      /\ engine' = "away" /\ overtaken' = overtaken
      /\ UNCHANGED <<killed, io, children, delivered, drained>>
  BY <1>1 DEF MessagesFail, starts
<1> HIDE DEF k
<1>4. /\ ~k.document_filename => NothingRun
      /\ k.document_fd => ~k.document_filename
  <2>1. SpoolsOnce
    BY DEF Inv, JobInv
  <2> QED
    BY <1>2, <2>1, InvFacts DEF SpoolsOnce, SameRun
<1>5. /\ k.chain = job.chain /\ k.started = job.started
      /\ k.finished = job.finished /\ k.watched = job.watched
      /\ engine' \in {"away", "found", "processing"} /\ overtaken' \in BOOLEAN
      /\ engine' # "processing" /\ ~(engine' # "away")
  BY <1>1, <1>2, <1>3 DEF SameRun
<1>6. /\ overtaken => overtaken'
      /\ overtaken' => overtaken
      /\ own /\ ~overtaken' => Explained(k) \/ EndExplained(k)
  BY <1>2, <1>3 DEF Seen
<1> QED
  BY <1>2, <1>3, <1>4, <1>5, <1>6, QuietStep

\* The engine finds the job, or leaves it processing for another one.
LEMMA EngineLooks ==
    ASSUME Inv, EngineFinds \/ EngineHolds
    PROVE  Inv' /\ EndSaid
<1>1. /\ UNCHANGED <<job, own, overtaken, killed, io, messages, children, delivered,
                     drained>>
      /\ engine' \in {"away", "found"}
      /\ engine' = "found" => job.state = "pending"
  BY DEF EngineFinds, EngineHolds
<1>2. SentOnce'
  <2>1. NothingRun => NothingRun'
    BY <1>1 DEF NothingRun, children
  <2>2. SentOnce
    BY DEF Inv, JobInv
  <2> QED
    BY <1>1, <2>1, <2>2 DEF SentOnce
<1>3. JobInv'
  BY <1>1, <1>2 DEF Inv, JobInv, SpoolsOnce, Doomed, CompletedIsClean,
                    StoppedNeverCompletes, children
<1>4. PumpInv'
  BY <1>1 DEF Inv, PumpInv, PumpTypes, OneBufferPump, children
<1>5. (Seen' => Explained(job')) /\ EndSaid
  BY <1>1 DEF Inv, Seen, EndSaid
<1> QED
  BY <1>3, <1>4, <1>5 DEF Inv

\* The engine sets the state of the job it found.
LEMMA EngineProcessesStep ==
    ASSUME Inv, EngineProcesses
    PROVE  Inv' /\ EndSaid
<1> DEFINE k == SetState(job, "processing")
<1>1. /\ job \in GoodJob /\ messages \in Nat /\ "processing" \in JobStates
      /\ NothingRun /\ job.document_filename /\ ~job.document_fd
      /\ overtaken \in BOOLEAN
  BY InvFacts DEF JobStates, EngineProcesses
<1>2. /\ k \in GoodJob /\ (Seen => Explained(k)) /\ SameRun(job, k)
      /\ k.state = "processing" /\ k.pending_job_state = job.pending_job_state
  BY <1>1, SetStateQuiet, StatesOnly, OthersExplained DEF Quiet, Inv
<1>3. /\ Leave(k) /\ messages' \in 0..messages
      /\ engine' = "processing" /\ overtaken' = overtaken
      /\ UNCHANGED <<killed, io, children, delivered, drained>>
  BY <1>1 DEF EngineProcesses
<1> HIDE DEF k
<1>4. /\ k.chain = job.chain /\ k.started = job.started
      /\ k.finished = job.finished /\ k.watched = job.watched
      /\ k.document_filename /\ ~k.document_fd
      /\ engine' \in {"away", "found", "processing"} /\ overtaken' \in BOOLEAN
  BY <1>1, <1>2, <1>3 DEF SameRun
<1>5. /\ overtaken => overtaken'
      /\ overtaken' => overtaken
      /\ own /\ ~overtaken' => Explained(k) \/ EndExplained(k)
  BY <1>2, <1>3 DEF Seen
<1> QED
  BY <1>1, <1>2, <1>3, <1>4, <1>5, QuietStep

\* It does so during a Cancel.
LEMMA EngineOvertakesStep ==
    ASSUME Inv, EngineOvertakes
    PROVE  Inv' /\ EndSaid
<1> DEFINE c == Cancel(job)
           k == SetState(c, "processing")
<1>1. /\ job \in GoodJob /\ messages \in Nat /\ "processing" \in JobStates
      /\ NothingRun /\ job.document_filename /\ ~job.document_fd
  BY InvFacts DEF JobStates, EngineOvertakes
<1>2. c \in GoodJob /\ CanceledTo(job, c, "canceled")
  BY <1>1, CancelQuiet, CancelFields DEF Quiet
<1>3. /\ Leave(k) /\ messages' \in 0..messages
      /\ engine' = "processing" /\ overtaken' = TRUE
      /\ UNCHANGED <<killed, io, children, delivered, drained>>
  BY <1>1 DEF EngineOvertakes
<1> HIDE DEF c
<1>4. /\ k \in GoodJob /\ SameRun(c, k) /\ k.state = "processing"
      /\ k.pending_job_state = c.pending_job_state
  BY <1>1, <1>2, SetStateQuiet, StatesOnly DEF Quiet
<1> HIDE DEF k
<1>5. /\ SameRun(job, k)
      /\ k.pending_job_state \in {job.pending_job_state, "canceled"}
  BY <1>2, <1>4 DEF CanceledTo, SameRun
<1>6. /\ k.chain = job.chain /\ k.started = job.started
      /\ k.finished = job.finished /\ k.watched = job.watched
      /\ k.document_filename /\ ~k.document_fd
  BY <1>1, <1>5 DEF SameRun
<1>7. /\ engine' \in {"away", "found", "processing"} /\ overtaken' \in BOOLEAN
      /\ overtaken => overtaken'
      /\ ~(own /\ ~overtaken')
  BY <1>3
<1> QED
  BY <1>1, <1>3, <1>4, <1>5, <1>6, <1>7, QuietStep

\* The engine starts to send the job.
LEMMA EngineStep ==
    ASSUME Inv, EngineStarts
    PROVE  Inv' /\ EndSaid
<1>1. PICK k \in StartSending(job) :
        /\ Leave(k)
        /\ IF FiltersStarted(k)
           THEN /\ messages' = MaxMessageErrors
                /\ left' = MaxChunks /\ open' = TRUE
           ELSE UNCHANGED <<messages, left, open>>
        /\ io' = IF BackendStarted(k)
                 THEN [stdin |-> TRUE, stdout |-> TRUE,
                       sources |-> {"read"}, buffer |-> FALSE]
                 ELSE io
  BY DEF EngineStarts
<1>2. /\ job \in GoodJob /\ NothingRun /\ own \in BOOLEAN
      /\ job.document_filename /\ ~job.document_fd
      /\ job.pending_job_state \notin {"pending", "pending-held"}
      /\ job.state \notin {"pending", "pending-held"}
  BY DEF Inv, JobInv, SentOnce, SpoolsOnce, EngineStarts
<1>3. job.state # "completed" /\ (Seen => job.state = "processing")
  <2>1. job.state \in JobStates
    BY <1>2 DEF GoodJob, Job
  <2> QED
    BY <1>2, <2>1 DEF Inv, JobInv, CompletedIsClean, NothingRun, Explained,
                      JobStates
<1>4. /\ job.chain = 0 /\ job.started = {} /\ job.finished = {}
      /\ job.watched = {}
  BY <1>2 DEF NothingRun
<1>5. /\ ~k.document_fd /\ k.document_filename
      /\ k.finished = {} /\ k.watched \subseteq k.started
      /\ k.pending_job_state \notin {"pending", "pending-held"}
      /\ k.state \in {"aborted", job.state}
  BY <1>2, <1>4, StartSendingFields
<1>6. k \in GoodJob /\ (Seen => Explained(k) \/ EndExplained(k))
  <2>1. k \in GoodJob
    BY <1>2, StartSendingTells DEF Tells
  <2>2. Seen => Explained(k) \/ EndExplained(k)
    BY <1>2, <1>3, <1>4, StartSendingExplained DEF Inv
  <2> QED
    BY <2>1, <2>2
<1>7. /\ job' \in GoodJob /\ job'.queued = {} /\ own' \in BOOLEAN
      /\ SameRun(k, job') /\ job'.state = k.state
      /\ job'.pending_job_state = k.pending_job_state
      /\ (Seen' => Explained(job')) /\ EndSaid
  <2>1. overtaken' = overtaken
    BY DEF EngineStarts
  <2>2. own /\ ~overtaken' => Explained(k) \/ EndExplained(k)
    BY <1>6, <2>1 DEF Seen
  <2> QED
    BY <1>1, <1>2, <1>6, <2>1, <2>2, LeaveFields, LeaveExplained
<1>8. /\ killed' = killed /\ pipe' = pipe /\ produced' = produced
      /\ delivered' = delivered /\ drained' = drained /\ ends' = ends
      /\ engine' = "away" /\ overtaken' = overtaken
  BY DEF EngineStarts
<1>9. JobInv'
  <2>1. SentOnce'
    BY <1>2, <1>5, <1>7, <1>8 DEF SentOnce, SameRun
  <2>2. SpoolsOnce' /\ Doomed' /\ CompletedIsClean' /\ StoppedNeverCompletes'
    BY <1>2, <1>3, <1>5, <1>7, <1>8 DEF NothingRun, SpoolsOnce, Doomed,
       CompletedIsClean, StoppedNeverCompletes, SameRun
  <2>3. (job.watched \subseteq Running(job))'
    BY <1>5, <1>7 DEF Running, SameRun
  <2> QED
    BY <1>7, <1>8, <2>1, <2>2, <2>3 DEF Inv, JobInv
<1>10. PumpInv'
  <2>1. PumpInv /\ MaxChunks \in Nat /\ MaxMessageErrors \in 0..MaxMessageErrors
    BY PumpAssumption, MessagesAssumption DEF Inv
  <2>2. /\ messages' \in 0..MaxMessageErrors /\ left' \in 0..MaxChunks
        /\ open' \in BOOLEAN
    <3>1. MaxChunks \in 0..MaxChunks
      BY <2>1
    <3>2. CASE FiltersStarted(k)
      BY <1>1, <2>1, <3>1, <3>2
    <3>3. CASE ~FiltersStarted(k)
      BY <1>1, <2>1, <3>3 DEF PumpInv, PumpTypes
    <3> QED
      BY <3>2, <3>3
  <2>3. [stdin |-> TRUE, stdout |-> TRUE, sources |-> {"read"},
         buffer |-> FALSE] \in IO
    BY DEF IO
  <2>4. /\ io' \in IO /\ ~io'.buffer /\ "write" \notin io'.sources
    BY <1>1, <1>2, <2>1, <2>3 DEF PumpInv, PumpTypes, NothingRun
  <2>5. PumpTypes'
    BY <1>8, <2>1, <2>2, <2>4 DEF PumpInv, PumpTypes
  <2>6. OneBufferPump'
    BY <2>4 DEF OneBufferPump
  <2>7. /\ produced' = 0 /\ delivered' = 0 /\ pipe' = 0 /\ ~drained'
        /\ killed' = {}
    BY <1>2, <1>8 DEF NothingRun
  <2>8. produced' + left' <= MaxChunks
    <3>1. \A n \in 0..MaxChunks : 0 + n <= MaxChunks
      BY <2>1
    <3> QED
      BY <2>2, <2>7, <3>1
  <2> QED
    BY <2>4, <2>5, <2>6, <2>7, <2>8 DEF PumpInv
<1> QED
  BY <1>7, <1>9, <1>10 DEF Inv

\* A process ends.
LEMMA ExitStep ==
    ASSUME Inv, NEW p \in Procs, NEW st \in Statuses, ProcessExits(p, st)
    PROVE  Inv' /\ EndSaid
<1> DEFINE k == ProcessFinished(job, p, st)
<1>1. /\ job \in GoodJob /\ own \in BOOLEAN /\ p \in job.watched
      /\ job.pending_job_state \notin {"pending", "pending-held"}
      /\ job.watched \subseteq Running(job)
  BY DEF Inv, JobInv, SentOnce, ProcessExits
<1>2. k \in GoodJob /\ (Seen => Explained(k) \/ EndExplained(k))
  BY <1>1, ProcessFinishedQuiet, ProcessFinishedExplained DEF Quiet, Inv
<1>3. /\ k.document_fd = job.document_fd
      /\ k.document_filename = job.document_filename
      /\ k.chain = job.chain /\ k.started = job.started
      /\ k.finished = job.finished \cup {p} /\ k.watched = job.watched \ {p}
      /\ k.pending_job_state =
            IF st = "failed" THEN "aborted" ELSE job.pending_job_state
      /\ k.state = IF AllFinished(k) THEN k.pending_job_state ELSE job.state
  BY <1>1, ProcessFinishedFields
<1>4. Leave(k)
  BY DEF ProcessExits
<1> HIDE DEF k
<1>5. /\ job' \in GoodJob /\ job'.queued = {} /\ own' \in BOOLEAN
      /\ SameRun(k, job') /\ job'.state = k.state
      /\ job'.pending_job_state = k.pending_job_state
      /\ (Seen' => Explained(job')) /\ EndSaid
  <2>1. overtaken' = overtaken
    BY DEF ProcessExits, starts
  <2>2. own /\ ~overtaken' => Explained(k) \/ EndExplained(k)
    BY <1>2, <2>1 DEF Seen
  <2> QED
    BY <1>1, <1>2, <1>4, <2>1, <2>2, LeaveFields, LeaveExplained
<1>6. /\ killed' = killed /\ messages' = messages /\ pipe' = pipe
      /\ produced' = produced /\ delivered' = delivered /\ drained' = drained
      /\ ends' = ends \cup {st}
      /\ engine' = engine /\ overtaken' = overtaken
      /\ \/ left' = left /\ open' = open
         \/ left' = 0 /\ open' = FALSE
      /\ io' = IF p = Backend THEN StopSending(io) ELSE io
  BY DEF ProcessExits, starts
<1>7. ~NothingRun /\ job.document_filename /\ engine = "away"
        /\ job.state \notin {"pending", "pending-held"}
  <2>1. ~NothingRun
    BY <1>1 DEF NothingRun
  <2> QED
    BY <2>1, InvFacts
<1>8. JobInv'
  <2>1. SentOnce'
    BY <1>1, <1>3, <1>5, <1>6, <1>7 DEF SentOnce, SameRun
  <2>2. SpoolsOnce' /\ Doomed'
    BY <1>3, <1>5, <1>6 DEF Inv, JobInv, SpoolsOnce, Doomed, SameRun
  <2>3. (job.watched \subseteq Running(job))'
    BY <1>1, <1>3, <1>5 DEF Running, SameRun
  <2>4. Running(job) # {}
    BY <1>1
  <2>5. job'.state = "completed" => AllFinished(job') /\ job'.pending_job_state = "completed"
    <3>1. AllFinished(k) <=> AllFinished(job')
      BY <1>5 DEF AllFinished, FiltersRunning, Running, SameRun
    <3>2. job.state # "completed"
      BY <2>4 DEF Inv, JobInv, CompletedIsClean
    <3> QED
      BY <1>3, <1>5, <3>1, <3>2
  <2>6. CompletedIsClean' /\ StoppedNeverCompletes'
    <3>1. Doomed' => (job'.pending_job_state = "completed" =>
                        "failed" \notin ends' /\ killed' = {})
      BY DEF Doomed
    <3> QED
      BY <2>2, <2>5, <3>1 DEF CompletedIsClean, StoppedNeverCompletes,
         AllFinished, FiltersRunning, Running
  <2>7. /\ killed' \subseteq Procs /\ ends' \subseteq Statuses
        /\ engine' \in {"away", "found", "processing"}
        /\ overtaken' \in BOOLEAN
    BY <1>6 DEF Inv, JobInv
  <2> QED
    BY <1>5, <2>1, <2>2, <2>3, <2>6, <2>7 DEF JobInv
<1>9. PumpInv'
  <2>1. PumpInv /\ io \in IO
    BY DEF Inv, PumpInv, PumpTypes
  <2>2. /\ io' \in IO /\ io'.buffer = io.buffer /\ io'.sources \subseteq io.sources
        /\ io'.stdin => io.stdin
        /\ "write" \in io'.sources => io' = io
    BY <1>6, <2>1 DEF StopSending, IO
  <2>3. /\ left' \in 0..MaxChunks /\ left' <= left
        /\ produced' + left' <= MaxChunks
    <3>1. /\ left \in 0..MaxChunks /\ MaxChunks \in Nat
          /\ produced + left <= MaxChunks /\ produced \in Nat
      BY <2>1, PumpAssumption DEF PumpInv, PumpTypes
    <3>2. produced' = produced /\ (left' = left \/ left' = 0)
      BY <1>6
    <3> QED
      BY <3>1, <3>2
  <2>5. open' \in BOOLEAN /\ (open' => open)
    <3>1. open \in BOOLEAN
      BY <2>1 DEF PumpInv, PumpTypes
    <3>2. open' = open \/ open' = FALSE
      BY <1>6
    <3>3. open' \in BOOLEAN
      BY <3>1, <3>2
    <3>4. open' => open
      BY <3>1, <3>2
    <3> QED
      BY <3>3, <3>4
  <2>4. PumpTypes' /\ OneBufferPump'
    BY <1>6, <2>1, <2>2, <2>3, <2>5 DEF PumpInv, PumpTypes, OneBufferPump, IO
  <2> QED
    BY <1>6, <2>1, <2>2, <2>3, <2>4, <2>5 DEF PumpInv
<1> QED
  BY <1>5, <1>8, <1>9 DEF Inv


\* Steps that move data leave the job alone.
LEMMA DataStep ==
    ASSUME Inv, ~NothingRun, UNCHANGED <<job, own, starts, killed, ends>>, PumpInv'
    PROVE  Inv' /\ EndSaid
<1>1. /\ job' = job /\ own' = own /\ killed' = killed /\ ends' = ends
      /\ engine' = engine /\ overtaken' = overtaken
  BY DEF starts
<1>2. SentOnce'
  BY <1>1 DEF Inv, JobInv, SentOnce
<1>3. JobInv'
  BY <1>1, <1>2 DEF Inv, JobInv, SpoolsOnce, Doomed, CompletedIsClean,
                    StoppedNeverCompletes
<1>4. Seen' => Explained(job')
  BY <1>1 DEF Inv, Seen
<1>5. EndSaid
  BY <1>1 DEF EndSaid
<1> QED
  BY <1>3, <1>4, <1>5 DEF Inv

\* The last filter writes, or closes its output.
LEMMA FilterSteps ==
    ASSUME Inv, FilterWrites \/ FilterCloses
    PROVE  Inv' /\ EndSaid
<1>1. /\ PumpInv /\ PumpTypes /\ open /\ ~NothingRun
      /\ MaxChunks \in Nat /\ PipeCap \in Nat
  BY PumpAssumption DEF Inv, PumpInv, FilterWrites, FilterCloses, NothingRun
<1>2. /\ UNCHANGED <<job, own, starts, killed, ends>> /\ io' = io
      /\ messages' = messages /\ delivered' = delivered /\ drained' = drained
  BY DEF FilterWrites, FilterCloses
<1>3. /\ left \in Nat /\ pipe \in Nat /\ produced \in Nat /\ delivered \in Nat
      /\ left <= MaxChunks /\ pipe <= PipeCap /\ produced + left <= MaxChunks
      /\ io.buffer \in BOOLEAN
  BY <1>1 DEF PumpInv, PumpTypes, IO
<1>4. CASE FilterWrites
  <2>1. /\ left > 0 /\ pipe < PipeCap /\ open' = open
        /\ left' = left - 1 /\ pipe' = pipe + 1 /\ produced' = produced + 1
    BY <1>4 DEF FilterWrites
  <2>2. /\ left - 1 \in 0..MaxChunks /\ pipe + 1 \in 0..PipeCap
        /\ produced + 1 \in Nat /\ (produced + 1) + (left - 1) <= MaxChunks
    BY <1>1, <1>3, <2>1
  <2>3. produced + 1 = delivered + (pipe + 1) + (IF io.buffer THEN 1 ELSE 0)
    <3>1. produced = delivered + pipe + (IF io.buffer THEN 1 ELSE 0)
      BY <1>1 DEF PumpInv
    <3> QED
      BY <1>3, <3>1
  <2>4. PumpTypes' /\ OneBufferPump'
    BY <1>1, <1>2, <2>1, <2>2 DEF PumpInv, PumpTypes, OneBufferPump
  <2>5. PumpInv'
    BY <1>1, <1>2, <2>1, <2>2, <2>3, <2>4 DEF PumpInv
  <2> QED
    BY <1>1, <1>2, <2>5, DataStep
<1>5. CASE FilterCloses
  <2>1. /\ left' = 0 /\ open' = FALSE /\ pipe' = pipe /\ produced' = produced
    BY <1>5 DEF FilterCloses
  <2>2. 0 \in 0..MaxChunks /\ produced + 0 <= MaxChunks
    BY <1>1, <1>3
  <2>3. PumpTypes' /\ OneBufferPump'
    BY <1>1, <1>2, <2>1, <2>2 DEF PumpInv, PumpTypes, OneBufferPump
  <2>4. PumpInv'
    BY <1>1, <1>2, <2>1, <2>2, <2>3 DEF PumpInv
  <2> QED
    BY <1>1, <1>2, <2>4, DataStep
<1> QED
  BY <1>4, <1>5

\* The pump reads, sees the end of its input, or writes.
LEMMA PumpSteps ==
    ASSUME Inv, PumpReads \/ PumpSeesEOF \/ PumpWrites
    PROVE  Inv' /\ EndSaid
<1>1. /\ PumpInv /\ PumpTypes /\ OneBufferPump /\ io \in IO
      /\ PipeCap \in Nat
  BY PumpAssumption DEF Inv, PumpInv, PumpTypes
<1>2. ~NothingRun
  BY DEF PumpReads, PumpSeesEOF, PumpWrites, NothingRun
<1>3. /\ UNCHANGED <<job, own, starts, killed, ends>>
      /\ messages' = messages /\ drained' = drained /\ open' = open
      /\ left' = left /\ produced' = produced
  BY DEF PumpReads, PumpSeesEOF, PumpWrites, children
<1>4. /\ pipe \in 0..PipeCap /\ produced \in Nat /\ delivered \in Nat
      /\ produced = delivered + pipe + (IF io.buffer THEN 1 ELSE 0)
  BY <1>1 DEF PumpInv, PumpTypes
<1>5. CASE PumpReads
  <2>1. /\ "read" \in io.sources /\ pipe > 0 /\ pipe' = pipe - 1
        /\ delivered' = delivered
        /\ io' = [io EXCEPT !.buffer = TRUE,
                            !.sources = (@ \ {"read"}) \cup ArmWrite]
    BY <1>5 DEF PumpReads
  <2>2. "write" \notin io.sources /\ ~io.buffer
    BY <1>1, <2>1 DEF OneBufferPump, IO
  <2>3. /\ io' \in IO /\ io'.buffer = TRUE /\ io'.stdin = io.stdin
        /\ io'.sources = IF io.stdin THEN {"write"} ELSE {}
    <3>1. (io.sources \ {"read"}) \cup ArmWrite
            = IF io.stdin THEN {"write"} ELSE {}
      BY <1>1, <2>2 DEF ArmWrite, IO
    <3> QED
      BY <1>1, <2>1, <3>1 DEF IO
  <2>4. pipe - 1 \in 0..PipeCap /\ produced = delivered + (pipe - 1) + 1
    BY <1>1, <1>4, <2>1, <2>2
  <2>5. PumpTypes' /\ OneBufferPump'
    BY <1>1, <1>3, <2>1, <2>3, <2>4 DEF PumpTypes, OneBufferPump
  <2>6. PumpInv'
    BY <1>1, <1>3, <2>1, <2>3, <2>4, <2>5 DEF PumpInv
  <2> QED
    BY <1>2, <1>3, <2>6, DataStep
<1>6. CASE PumpSeesEOF
  <2>1. /\ "read" \in io.sources /\ pipe = 0 /\ ~open /\ pipe' = pipe
        /\ delivered' = delivered
        /\ io' = [io EXCEPT !.stdout = FALSE,
                            !.sources = (@ \ {"read"}) \cup ArmWrite]
    BY <1>6 DEF PumpSeesEOF, children
  <2>2. "write" \notin io.sources /\ ~io.buffer
    BY <1>1, <2>1 DEF OneBufferPump, IO
  <2>3. /\ io' \in IO /\ io'.buffer = io.buffer /\ io'.stdin = io.stdin
        /\ io'.sources = IF io.stdin THEN {"write"} ELSE {}
    <3>1. (io.sources \ {"read"}) \cup ArmWrite
            = IF io.stdin THEN {"write"} ELSE {}
      BY <1>1, <2>2 DEF ArmWrite, IO
    <3> QED
      BY <1>1, <2>1, <3>1 DEF IO
  <2>4. PumpTypes' /\ OneBufferPump'
    BY <1>1, <1>3, <2>1, <2>3 DEF PumpTypes, OneBufferPump
  <2>5. PumpInv'
    BY <1>1, <1>3, <2>1, <2>3, <2>4 DEF PumpInv
  <2> QED
    BY <1>2, <1>3, <2>5, DataStep
<1>7. CASE PumpWrites
  <2>1. /\ "write" \in io.sources /\ io.buffer /\ pipe' = pipe
        /\ delivered' = delivered + 1
        /\ io' = [io EXCEPT !.buffer = FALSE,
                            !.sources = (@ \ {"write"}) \cup ArmRead]
    BY <1>7 DEF PumpWrites, children
  <2>2. "read" \notin io.sources
    BY <1>1, <2>1 DEF OneBufferPump, IO
  <2>3. /\ io' \in IO /\ io'.buffer = FALSE /\ io'.stdin = io.stdin
        /\ "write" \notin io'.sources
    BY <1>1, <2>1 DEF IO, ArmRead
  <2>4. /\ delivered + 1 \in Nat /\ produced = (delivered + 1) + pipe + 0
    BY <1>1, <1>4, <2>1
  <2>5. PumpTypes' /\ OneBufferPump'
    BY <1>1, <1>3, <2>1, <2>3, <2>4 DEF PumpTypes, OneBufferPump
  <2>6. PumpInv'
    BY <1>1, <1>3, <2>1, <2>3, <2>4, <2>5 DEF PumpInv
  <2> QED
    BY <1>2, <1>3, <2>6, DataStep
<1> QED
  BY <1>5, <1>6, <1>7

\* The pump shuts the backend's input.
LEMMA CloseStep ==
    ASSUME Inv, PumpClosesInput
    PROVE  Inv' /\ EndSaid
<1> DEFINE k == CheckJobTransforming(job)
<1>1. /\ "write" \in io.sources /\ ~io.buffer /\ Leave(k)
      /\ io' = StopSending(io) /\ drained' = TRUE
      /\ UNCHANGED <<killed, messages, children, delivered>>
      /\ engine' = engine /\ overtaken' = overtaken
  BY DEF PumpClosesInput, starts
<1>2. /\ job \in GoodJob /\ own \in BOOLEAN /\ io \in IO /\ PumpInv /\ PumpTypes
      /\ ~NothingRun
  BY <1>1 DEF Inv, JobInv, PumpInv, PumpTypes, NothingRun
<1>3. /\ k \in GoodJob /\ (Seen => Explained(k)) /\ SameButReasons(job, k)
  BY <1>2, Reasons, CheckJobTransformingQuiet, ReasonsOnly, OthersExplained
     DEF Quiet, Inv
<1> HIDE DEF k
<1>4. /\ job' \in GoodJob /\ job'.queued = {} /\ own' \in BOOLEAN
      /\ SameRun(k, job') /\ job'.state = k.state
      /\ job'.pending_job_state = k.pending_job_state
      /\ (Seen' => Explained(job')) /\ EndSaid
  <2>1. own /\ ~overtaken' => Explained(k) \/ EndExplained(k)
    BY <1>1, <1>3 DEF Seen
  <2> QED
    BY <1>1, <1>2, <1>3, <2>1, LeaveFields, LeaveExplained
<1>5. SameButReasons(job, job')
  BY <1>3, <1>4 DEF SameButReasons, SameRun
<1>6. /\ killed' = killed /\ messages' = messages /\ delivered' = delivered
      /\ left' = left /\ pipe' = pipe /\ open' = open /\ produced' = produced
      /\ ends' = ends
  BY <1>1 DEF children
<1>7. JobInv'
  <2>1. SentOnce'
    BY <1>1, <1>2, <1>5 DEF Inv, JobInv, SentOnce, SameButReasons, SameRun
  <2> QED
    BY <1>1, <1>4, <1>5, <1>6, <2>1 DEF Inv, JobInv, SpoolsOnce, Doomed,
       CompletedIsClean, StoppedNeverCompletes, Running, SameButReasons, SameRun
<1>8. PumpInv'
  <2>1. /\ io' \in IO /\ io'.buffer = io.buffer /\ io'.stdin = FALSE
        /\ io'.sources = io.sources \ {"write"}
    BY <1>1, <1>2 DEF StopSending, IO
  <2>2. PumpTypes' /\ OneBufferPump'
    BY <1>1, <1>2, <1>6, <2>1 DEF PumpInv, PumpTypes, OneBufferPump
  <2> QED
    BY <1>1, <1>2, <1>6, <2>1, <2>2 DEF PumpInv
<1> QED
  BY <1>4, <1>7, <1>8 DEF Inv


-----------------------------------------------------------------------------
(* The theorems                                                             *)

\* Every step keeps the invariant and explains a first cancellation.
LEMMA InvStep ==
    ASSUME Inv, [Next]_vars
    PROVE  Inv' /\ (UNCHANGED vars \/ EndSaid)
<1>1. CASE UNCHANGED vars
  BY <1>1 DEF vars, starts, children, Inv, Seen, JobInv, SpoolsOnce, SentOnce, NothingRun,
     Doomed, CompletedIsClean, StoppedNeverCompletes, PumpInv, PumpTypes,
     OneBufferPump
<1>2. ASSUME NEW p \in Procs, NEW st \in Statuses, ProcessExits(p, st)
      PROVE  Inv' /\ EndSaid
  BY <1>2, ExitStep
<1> QED
  BY <1>1, <1>2, AddDocumentStep, StartStep, CancelSteps, EngineLooks,
     EngineProcessesStep, EngineOvertakesStep, EngineStep, FilterSteps, PumpSteps,
     CloseStep, MessagesStep DEF Next

\* A new job has the invariant.
LEMMA InvInit ==
    ASSUME Init
    PROVE  Inv
<1>1. NewJob \in GoodJob /\ NewJob.queued = {}
  BY NewJobGood
<1>2. /\ NewJob.state = "pending-held" /\ NewJob.pending_job_state = "unset"
      /\ NewJob.chain = 0 /\ NewJob.started = {} /\ NewJob.finished = {}
      /\ NewJob.watched = {} /\ ~NewJob.document_fd
      /\ NewJob.state_reasons = <<Incoming>>
  BY DEF NewJob
<1>3. job = NewJob /\ own = TRUE /\ engine = "away" /\ overtaken = FALSE
  BY DEF Init
<1> DEFINE idle == [stdin |-> FALSE, stdout |-> FALSE, sources |-> {},
                    buffer |-> FALSE]
<1>4. idle \in IO /\ ~idle.stdin /\ idle.sources = {} /\ ~idle.buffer
  BY DEF IO
<1>5. /\ io = idle /\ messages = 0 /\ left = 0 /\ pipe = 0 /\ open = FALSE
      /\ produced = 0 /\ delivered = 0 /\ drained = FALSE /\ killed = {}
      /\ ends = {}
  BY DEF Init
<1> HIDE DEF idle
<1>6. JobInv
  <2>1. NothingRun
    BY <1>2, <1>3, <1>4, <1>5 DEF NothingRun
  <2> QED
    BY <1>1, <1>2, <1>3, <1>5, <2>1 DEF JobInv, SpoolsOnce, SentOnce, Doomed,
       CompletedIsClean, StoppedNeverCompletes, Running
<1>7. PumpInv
  <2>1. /\ 0 \in 0..MaxMessageErrors /\ 0 \in 0..MaxChunks /\ 0 \in 0..PipeCap
        /\ 0 + 0 <= MaxChunks
    BY PumpAssumption, MessagesAssumption
  <2>2. PumpTypes /\ OneBufferPump
    BY <1>4, <1>5, <2>1 DEF PumpTypes, OneBufferPump
  <2> QED
    BY <1>4, <1>5, <2>1, <2>2 DEF PumpInv
<1>8. Explained(NewJob)
  <2>1. \A r \in {StopPoint, CanceledByUser, CanceledBySystem, AbortedBySystem} :
            ~Has(NewJob, r)
    BY <1>2, Reasons DEF Has, HasReason
  <2>2. Before(NewJob.state_reasons, CanceledByUser, AbortedBySystem)
    BY <2>1 DEF Before, Has, HasReason
  <2> QED
    BY <1>2, <2>1, <2>2 DEF Explained, Terminal
<1> QED
  BY <1>3, <1>6, <1>7, <1>8 DEF Inv

\* The invariant holds for every chain of filters, every amount of output and
\* every capacity of the pipe.
THEOREM Invariance == Spec => []Inv
<1>1. Init => Inv
  BY InvInit
<1>2. Inv /\ [Next]_vars => Inv'
  BY InvStep
<1> QED
  BY <1>1, <1>2, PTL DEF Spec

\* The record of the job and the counters of the pump keep their types; what
\* the filters produce and the backend is given stays within the bound.
THEOREM TypeCorrect == Spec => []TypeOK
<1>1. Inv => TypeOK
  <2> SUFFICES ASSUME Inv
               PROVE  TypeOK
    OBVIOUS
  <2>1. JobInv /\ PumpInv /\ PumpTypes
    BY DEF Inv, PumpInv
  <2>2. /\ produced = delivered + pipe + (IF io.buffer THEN 1 ELSE 0)
        /\ produced + left <= MaxChunks /\ MaxChunks \in Nat
        /\ produced \in Nat /\ delivered \in Nat /\ left \in Nat /\ pipe \in Nat
    BY <2>1, PumpAssumption DEF PumpInv, PumpTypes
  <2>3. produced \in 0..MaxChunks /\ delivered \in 0..MaxChunks
    BY <2>2
  <2> QED
    BY <2>1, <2>3 DEF JobInv, PumpTypes, TypeOK, GoodJob
<1> QED
  BY <1>1, Invariance, PTL

\* pd_job_impl_start's assertion that no spool file exists yet never fails.
THEOREM SpoolsOnceHolds == Spec => []SpoolsOnce
<1>1. Inv => SpoolsOnce
  BY DEF Inv, JobInv
<1> QED
  BY <1>1, Invariance, PTL

\* A completed job has no process left and none that failed, in whatever order
\* pd_job_impl_process_watch_cb saw them end.
THEOREM CompletedIsCleanHolds == Spec => []CompletedIsClean
<1>1. Inv => CompletedIsClean
  BY DEF Inv, JobInv
<1> QED
  BY <1>1, Invariance, PTL

\* pd_job_impl_data_io_cb never reads over bytes that were not written.
THEOREM OneBuffer == Spec => []OneBufferPump
<1>1. Inv => OneBufferPump
  BY DEF Inv, PumpInv
<1> QED
  BY <1>1, Invariance, PTL

\* A job whose processes were killed does not complete, even if they all ended
\* with status 0 before.
THEOREM StoppedJobs == Spec => []StoppedNeverCompletes
<1>1. Inv => StoppedNeverCompletes
  BY DEF Inv, JobInv
<1> QED
  BY <1>1, Invariance, PTL

\* Whichever step makes a job canceled for the first time, and whatever '+' cut
\* off the list before, the reasons say by whom.
THEOREM FirstCancel == Spec => FirstCancelExplained
<1>1. Inv /\ [Next]_vars =>
        [own /\ ~overtaken /\ job.state # "canceled" /\ job'.state = "canceled" =>
            \/ HasReason(job'.state_reasons, CanceledByUser)
            \/ HasReason(job'.state_reasons, CanceledBySystem)]_vars
  BY InvStep DEF EndSaid, Seen, Has
<1> QED
  BY <1>1, Invariance, PTL DEF Spec, FirstCancelExplained


\* A cancellation leaves the state of a job that has ended alone.
LEMMA CanceledStaysEnded ==
    ASSUME Inv, job.state \in Terminal,
           CancelCall \/ PumpReadFails \/ PumpWriteFails
    PROVE  job'.state = job.state
<1>1. job \in GoodJob /\ own \in BOOLEAN
  BY DEF Inv, JobInv
<1>2. CASE CancelCall
  <2>1. Leave(Cancel(job))
    BY <1>2 DEF CancelCall, LeaveCanceled
  <2>2. Cancel(job) \in GoodJob /\ CanceledTo(job, Cancel(job), "canceled")
    BY <1>1, CancelQuiet, CancelFields DEF Quiet
  <2> QED
    BY <1>1, <2>1, <2>2, LeaveFields DEF CanceledTo
<1>3. CASE PumpReadFails \/ PumpWriteFails
  <2>1. Leave(DataError(job))
    BY <1>3 DEF PumpReadFails, PumpWriteFails, LeaveCanceled
  <2>2. "aborted" \in JobStates /\ AbortedBySystem \notin {Outgoing, StopPoint}
    BY Reasons DEF JobStates, Terminal
  <2>3. DataError(job) \in GoodJob /\ CanceledTo(job, DataError(job), "aborted")
    BY <1>1, <2>2, Reasons, ErrorsQuiet, DoCancelFields DEF Quiet, DataError
  <2> QED
    BY <1>1, <2>1, <2>3, LeaveFields DEF CanceledTo
<1> QED
  BY <1>2, <1>3

\* A job that is spooled, has ended and has no process to wait for keeps its
\* state: only the failure of a message channel may change it, or a start of the
\* job that is still under way in pd_engine_start_job.
THEOREM EndedJobs == Spec => EndedForGood
<1>1. ASSUME Inv, [Next]_vars, job.state \in Terminal, job.document_filename,
             job.watched = {}
      PROVE  \/ job'.state = job.state
             \/ messages' < messages
             \/ engine # "away" /\ engine' # engine
  <2>1. CASE UNCHANGED vars
    BY <2>1 DEF vars
  <2>2. ~AddDocumentCall /\ ~StartCall
    BY <1>1 DEF AddDocumentCall, CanAddDocument, StartCall, Inv, JobInv, SpoolsOnce
  <2>3. CASE EngineFinds
    BY <2>3 DEF EngineFinds
  <2>9. CASE EngineProcesses \/ EngineOvertakes \/ EngineHolds \/ EngineStarts
    BY <2>9 DEF EngineProcesses, EngineOvertakes, EngineHolds, EngineStarts
  <2>4. \A p \in Procs, st \in Statuses : ~ProcessExits(p, st)
    BY <1>1 DEF ProcessExits
  <2>5. CASE CancelCall \/ PumpReadFails \/ PumpWriteFails
    BY <1>1, <2>5, CanceledStaysEnded
  <2>6. CASE FilterWrites \/ FilterCloses \/ PumpReads \/ PumpSeesEOF \/ PumpWrites
    BY <2>6 DEF FilterWrites, FilterCloses, PumpReads, PumpSeesEOF, PumpWrites
  <2>7. CASE PumpClosesInput
    <3>1. /\ job \in GoodJob /\ own \in BOOLEAN
          /\ Leave(CheckJobTransforming(job))
      BY <1>1, <2>7 DEF Inv, JobInv, PumpClosesInput
    <3>2. /\ CheckJobTransforming(job) \in GoodJob
          /\ SameButReasons(job, CheckJobTransforming(job))
      BY <3>1, Reasons, CheckJobTransformingQuiet, ReasonsOnly DEF Quiet
    <3> QED
      BY <3>1, <3>2, LeaveFields DEF SameButReasons
  <2>8. CASE MessagesFail
    <3>1. messages \in Nat /\ messages' = messages - 1
      BY <1>1, <2>8 DEF MessagesFail, Inv, PumpInv, PumpTypes
    <3> QED
      BY <3>1
  <2> QED
    BY <1>1, <2>1, <2>2, <2>3, <2>4, <2>5, <2>6, <2>7, <2>8, <2>9 DEF Next
<1>2. Inv /\ [Next]_vars =>
        [job.state \in Terminal /\ job.document_filename /\ job.watched = {}
            => \/ job'.state = job.state
               \/ messages' < messages
               \/ engine # "away" /\ engine' # engine]_vars
  BY <1>1
<1> QED
  BY <1>2, Invariance, PTL DEF Spec, EndedForGood

-----------------------------------------------------------------------------
(* The pump is a pipe                                                       *)

\* The state of the pipe, as the refinement mapping has it.
PipeState == IF drained THEN "closed" ELSE IF killed # {} THEN "cut" ELSE "open"

\* Steps that neither write, deliver nor close leave the pipe as it is, or cut
\* it.
LEMMA OtherSteps ==
    ASSUME Inv, Next,
           ~FilterWrites, ~PumpWrites, ~PumpClosesInput
    PROVE  /\ produced' = produced /\ delivered' = delivered
           /\ drained' = drained /\ killed \subseteq killed'
<1>1. CASE AddDocumentCall
  BY <1>1 DEF AddDocumentCall, children
<1>2. CASE StartCall
  BY <1>2 DEF StartCall, LeaveCanceled, children
<1>3. CASE CancelCall
  BY <1>3 DEF CancelCall, LeaveCanceled, children
<1>4. CASE EngineFinds \/ EngineProcesses \/ EngineOvertakes \/ EngineHolds
  BY <1>4 DEF EngineFinds, EngineProcesses, EngineOvertakes, EngineHolds, children
<1>5. CASE EngineStarts
  BY <1>5 DEF EngineStarts
<1>6. CASE FilterCloses
  BY <1>6 DEF FilterCloses
<1>7. CASE \E p \in Procs, st \in Statuses : ProcessExits(p, st)
  BY <1>7 DEF ProcessExits
<1>8. CASE PumpReads \/ PumpSeesEOF
  BY <1>8 DEF PumpReads, PumpSeesEOF, children
<1>9. CASE PumpReadFails \/ PumpWriteFails
  BY <1>9 DEF PumpReadFails, PumpWriteFails, LeaveCanceled, children
<1>10. CASE MessagesFail
  BY <1>10 DEF MessagesFail, children
<1> QED
  BY <1>1, <1>2, <1>3, <1>4, <1>5, <1>6, <1>7, <1>8, <1>9, <1>10 DEF Next

\* Every step of the job is a step of the pipe, or leaves it alone.
LEMMA ConduitStep ==
    ASSUME Inv, [Next]_vars
    PROVE  [Pump!Next]_<<produced, delivered, PipeState>>
<1>1. /\ PumpInv /\ pipe \in Nat /\ produced \in Nat /\ delivered \in Nat
      /\ produced = delivered + pipe + (IF io.buffer THEN 1 ELSE 0)
      /\ PipeCap \in Nat
  BY PumpAssumption DEF Inv, PumpInv, PumpTypes
<1>2. CASE FilterWrites
  <2>1. /\ pipe < PipeCap /\ open /\ produced' = produced + 1
        /\ UNCHANGED <<killed, delivered, drained>>
    BY <1>2 DEF FilterWrites
  <2>2. produced - delivered < PipeCap + 1
    BY <1>1, <2>1
  <2>3. PipeState # "closed" /\ PipeState' = PipeState
    BY <1>1, <2>1 DEF PumpInv, PipeState
  <2> QED
    BY <2>1, <2>2, <2>3 DEF Pump!Next, Pump!Write, PipeState
<1>3. CASE PumpWrites
  <2>1. /\ "write" \in io.sources /\ io.buffer /\ delivered' = delivered + 1
        /\ UNCHANGED <<killed, produced, drained>>
    BY <1>3 DEF PumpWrites, children
  <2>2. delivered < produced
    BY <1>1, <2>1
  <2>3. PipeState = "open" /\ PipeState' = PipeState
    BY <1>1, <2>1 DEF PumpInv, PipeState
  <2> QED
    BY <2>1, <2>2, <2>3 DEF Pump!Next, Pump!Deliver, PipeState
<1>4. CASE PumpClosesInput
  <2>1. /\ "write" \in io.sources /\ ~io.buffer /\ drained' = TRUE
        /\ UNCHANGED <<produced, delivered>>
    BY <1>4 DEF PumpClosesInput, children
  <2>2. delivered = produced
    BY <1>1, <2>1 DEF PumpInv
  <2>3. PipeState = "open" /\ PipeState' = "closed"
    BY <1>1, <2>1 DEF PumpInv, PipeState
  <2> QED
    BY <2>1, <2>2, <2>3 DEF Pump!Next, Pump!Close, PipeState
<1>5. CASE Next /\ ~FilterWrites /\ ~PumpWrites /\ ~PumpClosesInput
  <2>1. /\ produced' = produced /\ delivered' = delivered
        /\ drained' = drained /\ killed \subseteq killed'
    BY <1>5, OtherSteps
  <2>2. \/ PipeState' = PipeState
        \/ (PipeState = "open" /\ PipeState' = "cut")
    BY <2>1 DEF PipeState
  <2> QED
    BY <2>1, <2>2 DEF Pump!Next, Pump!Cut, PipeState
<1>6. CASE UNCHANGED vars
  BY <1>6 DEF vars, children, PipeState
<1> QED
  BY <1>2, <1>3, <1>4, <1>5, <1>6

\* The pump of a job implements the pipe of Conduit, for every chain and every
\* amount of output: pd_job_impl_data_io_cb loses, repeats and invents nothing,
\* shuts the backend's input only when it has all of the output, and gives it
\* nothing more once the processes were killed.
THEOREM Refinement == Spec => ImplementsConduit
<1>1. Init => Pump!Init
  BY DEF Init, Pump!Init
<1>2. Inv /\ [Next]_vars => [Pump!Next]_<<produced, delivered, PipeState>>
  BY ConduitStep
<1> QED
  BY <1>1, <1>2, Invariance, PTL DEF Spec, ImplementsConduit, Pump!Spec, PipeState


=============================================================================
