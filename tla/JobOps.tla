------------------------------- MODULE JobOps -------------------------------
(***************************************************************************)
(* The operations of one print job (pd-job-impl.c) as operators on a record *)
(* that stands for a PdJobImpl.  PrintJob and PrintQueue build their        *)
(* actions from them.                                                       *)
(*                                                                         *)
(* A job runs a chain of filters (arranger, then with a driver a            *)
(* transformer, then perhaps a final filter) and one backend; the daemon    *)
(* itself copies the output of the last filter to the backend (PrintJob has *)
(* that pump).  Process p is a filter's position in the chain, or 0 for the *)
(* backend.                                                                 *)
(*                                                                         *)
(* Methods and callbacks run with property notification frozen: `queued' is *)
(* GObject's queue of properties set since the freeze.                      *)
(***************************************************************************)
EXTENDS StateReasons

CONSTANT ChainLens      \* lengths of the filter chain: 1 without a driver,
                        \* 2 with one, 3 if the PPD names a final filter
ASSUME ChainLensAssumption == ChainLens # {} /\ ChainLens \subseteq 1..3

Backend == 0
Procs == 0..3

Terminal == {"canceled", "aborted", "completed"}
JobStates == {"pending", "pending-held", "processing"} \cup Terminal

Incoming == "job-incoming"
Transforming == "job-transforming"
Outgoing == "job-outgoing"
StopPoint == "processing-to-stop-point"
CanceledByUser == "job-canceled-by-user"
CanceledBySystem == "job-canceled-by-system"
AbortedBySystem == "job-aborted-by-system"
JobReasons == {Incoming, Transforming, Outgoing, StopPoint, CanceledByUser,
               CanceledBySystem, AbortedBySystem}

Job == [state : JobStates,
        state_reasons : Seq(JobReasons),
        pending_job_state : JobStates \cup {"unset"},
        document_fd : BOOLEAN,          \* a client's descriptor is held
        document_filename : BOOLEAN,    \* the spool file exists
        chain : 0..3,                   \* length of filterchain
        started : SUBSET Procs,
        finished : SUBSET Procs,
        watched : SUBSET Procs,         \* process_watch_source is set
        queued : SUBSET {"state", "state-reasons"}]

\* pd_job_impl_init
NewJob ==
    [state |-> "pending-held", state_reasons |-> <<Incoming>>,
     pending_job_state |-> "unset",
     document_fd |-> FALSE, document_filename |-> FALSE,
     chain |-> 0, started |-> {}, finished |-> {}, watched |-> {},
     queued |-> {}]

-----------------------------------------------------------------------------
(* Properties: every set queues a notification, changed or not.             *)

SetState(job, state) ==
    [job EXCEPT !.state = state, !.queued = @ \cup {"state"}]

AddStateReason(job, r) ==
    [job EXCEPT !.state_reasons = AddReason(@, r),
                !.queued = @ \cup {"state-reasons"}]

RemoveStateReason(job, r) ==
    [job EXCEPT !.state_reasons = RemoveReason(@, r),
                !.queued = @ \cup {"state-reasons"}]

\* g_object_thaw_notify empties the queue (the caller emits what was in it).
Thawed(job) == [job EXCEPT !.queued = {}]

-----------------------------------------------------------------------------
(* Processes                                                                *)

Running(job) == job.started \ job.finished
FiltersRunning(job) == Running(job) \ {Backend} # {}
BackendStarted(job) == Backend \in job.started

\* All filters could be run: their exits and their stderr are watched.
FiltersStarted(job) == job.chain # 0 /\ job.chain \in job.started

\* pd_job_impl_check_job_transforming, for its effect; what it returns is
\* FiltersRunning.
CheckJobTransforming(job) ==
    IF FiltersRunning(job) THEN job ELSE RemoveStateReason(job, Transforming)

\* Stopping without saying which state to end in.
ToStopPointStateless(job, state) == AddStateReason(job, StopPoint)

\* The part of do_cancel_with_reason that waits for the processes to end.  It
\* also shuts the backend's stdin and sends the kills; what that does is in
\* PrintJob (LeaveCanceled).
ToStopPoint(job, state) ==
    AddStateReason([job EXCEPT !.pending_job_state = state], StopPoint)

\* pd_job_impl_do_cancel_with_reason: pending jobs change state at once, as
\* does a processing job without processes; otherwise the backend's input is
\* shut, every running process killed, and the state set once they are gone.
DoCancelWithReason(job, state, reason) ==
    LET a == AddStateReason(job, reason)
        c == CheckJobTransforming(a)
    IN  CASE job.state \in {"pending", "pending-held"} -> SetState(a, state)
          [] job.state = "processing" ->
                IF ~FiltersRunning(a) /\ ~BackendStarted(a)
                THEN SetState(c, state)
                ELSE IF HasReason(c.state_reasons, StopPoint) THEN c
                ELSE ToStopPoint(c, state)
          [] job.state \in Terminal -> a

\* The backend is done, whatever the filters do.
BackendFinished(job) == Backend \in job.finished

\* "No more processes running."
AllFinished(job) == Backend \in job.finished /\ ~FiltersRunning(job)

\* The exit status is not looked at.
NeverFailed(status) == FALSE

\* WEXITSTATUS (status) != 0.  It is 0 for a process that ended by a signal.
ExitedNonZero(status) == status = "failed"

\* pd_job_impl_process_watch_cb
ProcessFinished(job, p, status) ==
    LET f == [job EXCEPT !.finished = @ \cup {p}, !.watched = @ \ {p}]
        r == IF p = Backend THEN RemoveStateReason(f, Outgoing)
             ELSE CheckJobTransforming(f)
        e == IF ExitedNonZero(status)
             THEN [r EXCEPT !.pending_job_state = "aborted"] ELSE r
    IN  IF AllFinished(e) THEN SetState(e, e.pending_job_state) ELSE e

-----------------------------------------------------------------------------
(* pd_job_impl_start_processing: the set of its outcomes.                   *)

\* Setting up fails: no printer or no spool file, with no filter in the chain
\* yet; no content type, with the first; no pipe, with all of them.
SetupFailed(job) ==
    {SetState([job EXCEPT !.chain = n], "aborted") :
        n \in {0, 1} \cup ChainLens}

\* Filter k of n cannot be run: those before it run on, unwatched.
FilterFailed(job, n, k) ==
    SetState(AddStateReason([job EXCEPT !.chain = n,
                                        !.pending_job_state = "processing",
                                        !.started = 1..(k - 1)],
                            Transforming), "aborted")

FiltersRun(job, n) ==
    AddStateReason([job EXCEPT !.chain = n,
                               !.pending_job_state = "processing",
                               !.started = 1..n, !.watched = 1..n],
                   Transforming)

StartProcessing(job) ==
    IF job.chain # 0 THEN {job}
    ELSE SetupFailed(job)
           \cup (UNION {{FilterFailed(job, n, k) : k \in 1..n} : n \in ChainLens})
           \cup {FiltersRun(job, n) : n \in ChainLens}

\* pd_job_impl_start_sending once the chain is there: run the backend, or not.
BackendRun(job) ==
    [job EXCEPT !.pending_job_state = "completed",
                !.started = @ \cup {Backend}, !.watched = @ \cup {Backend}]

BackendFailed(job) ==
    SetState([job EXCEPT !.pending_job_state = "completed"], "aborted")

\* pd_job_impl_start_sending: the set of its outcomes.
StartSending(job) ==
    LET a == AddStateReason(job, Outgoing)
        chains == IF a.chain = 0 THEN StartProcessing(a) ELSE {a}
        ready == {p \in chains : p.state # "aborted"}
    IN  (chains \ ready) \cup {BackendRun(p) : p \in ready}
                         \cup {BackendFailed(p) : p \in ready}

-----------------------------------------------------------------------------
(* Failing I/O                                                              *)

\* pd_job_impl_data_io_cb when a read or a write fails.
DataError(job) == DoCancelWithReason(job, "aborted", AbortedBySystem)

\* pd_job_impl_message_io_cb when the read fails: no process is stopped.
MessageError(job) ==
    SetState(AddStateReason(job, CanceledBySystem), "canceled")

-----------------------------------------------------------------------------
(* D-Bus methods, for a caller that is authorised and owns the job; the     *)
(* other callers get an error and change nothing.                           *)

\* A check that forgets the spool file.
CanAddDocumentAgain(job) == ~job.document_fd

\* pd_job_impl_add_document: at most one document, ever.
CanAddDocument(job) == ~job.document_fd /\ ~job.document_filename
AddDocument(job) == [job EXCEPT !.document_fd = TRUE]

\* pd_job_impl_start: the spool file cannot be made (nothing changes), or
\* cannot be filled, or holds an unsupported type, or the job is pending now.
Spooled(job) ==
    [job EXCEPT !.document_fd = FALSE, !.document_filename = TRUE]

Start(job) ==
    {job, Spooled(job),
     DoCancelWithReason(Spooled(job), "aborted", AbortedBySystem),
     SetState(RemoveStateReason(Spooled(job), Incoming), "pending")}

\* pd_job_impl_cancel
Cancel(job) ==
    LET c == CheckJobTransforming(job)
    IN  CASE job.state \in {"pending", "pending-held"} ->
                DoCancelWithReason(job, "canceled", CanceledByUser)
          [] job.state = "processing" ->
                IF \/ ~FiltersRunning(job) /\ ~BackendStarted(job)
                   \/ ~HasReason(c.state_reasons, StopPoint)
                THEN DoCancelWithReason(c, "canceled", CanceledByUser)
                ELSE c
          [] job.state \in Terminal -> job

\* pd_job_impl_job_state_notify on a terminal state: tidy the reasons.
TidyReasons(job) ==
    RemoveStateReason(RemoveStateReason(job, Incoming), StopPoint)

=============================================================================
