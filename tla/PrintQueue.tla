----------------------------- MODULE PrintQueue -----------------------------
(***************************************************************************)
(* One printer, its array of jobs and the engine that schedules them.       *)
(*                                                                         *)
(* Nobody calls the scheduler.  It is a set of handlers on property         *)
(* notifications, which run nested inside each other on the main thread:    *)
(*   notify::state of a job          OwnStateNotify      pd-job-impl.c      *)
(*                                   EngineStateNotify   pd-engine.c        *)
(*                                   PrinterJobNotify    pd-printer-impl.c  *)
(*   notify::state-reasons of a job  ReasonsNotify       pd-engine.c        *)
(*   notify::state of the printer    PrinterStateNotify  pd-engine.c        *)
(* `emissions' is the stack of emissions under way, innermost first; each   *)
(* holds the handler it has to run next.  The main thread takes up another  *)
(* method call or callback only when the stack is empty; CreateJob has a    *)
(* thread of its own.  As GObject's notify signal does not recurse, setting *)
(* a property while its notification is being emitted restarts that         *)
(* emission.  That a worker thread may thaw the printer, and run its        *)
(* handlers beside the main thread, is left to Threads.                     *)
(***************************************************************************)
EXTENDS JobOps

CONSTANTS MaxJobs,          \* bound on the jobs created
          MaxFaults         \* bound on faults: processes that cannot be run,
                            \* spool files, reads and writes that fail

ASSUME QueueAssumption == MaxJobs \in Nat /\ MaxFaults \in Nat

VARIABLES jobs,         \* printer->jobs, in order of creation (= job id)
          printer,      \* its "state" and "job-outgoing" properties
          emissions,
          own,          \* jobs on which OwnStateNotify is connected
          queue,        \* jobs on which EngineStateNotify is connected
          sending,      \* jobs on which ReasonsNotify is connected
          pumping,      \* jobs for which data is being copied
          faults        \* faults that can still happen

handlers == <<own, queue, sending>>
vars == <<jobs, printer, emissions, handlers, pumping, faults>>

Ids == 1..Len(jobs)

\* An emission: the signal, the job (0 for the printer), the next handler.
Emission == [signal : {"state", "state-reasons", "printer"},
             job : 0..MaxJobs, handler : 1..3]
StateOf(j) == [signal |-> "state", job |-> j, handler |-> 1]
ReasonsOf(j) == [signal |-> "state-reasons", job |-> j, handler |-> 1]
PrinterState == [signal |-> "printer", job |-> 0, handler |-> 1]

\* Thawing job j with these properties queued: they are emitted in reverse
\* order of their first setting.  Every method that sets both sets the
\* reasons first, so the state is emitted first.
Thaw(j, queued) ==
    (IF "state" \in queued THEN <<StateOf(j)>> ELSE <<>>)
        \o (IF "state-reasons" \in queued THEN <<ReasonsOf(j)>> ELSE <<>>)

Init == /\ jobs = <<>>
        /\ printer = [state |-> "idle", job_outgoing |-> FALSE]
        /\ emissions = <<>>
        /\ own = {} /\ queue = {} /\ sending = {}
        /\ pumping = {} /\ faults = MaxFaults

-----------------------------------------------------------------------------
(* Method calls and callbacks                                               *)

\* The counter is incremented before it is used.
NextIdSkipping == Len(jobs) + 2

\* next_job_id, which is also the index the job gets in the printer's array.
NextId == Len(jobs) + 1

\* pd_printer_impl_complete_create_job and pd_engine_add_job, in the thread of
\* the call: the printer's lock is held from the creation of the job until all
\* handlers are connected, and no other user may touch the job before.
CreateJob ==
    /\ Len(jobs) < MaxJobs
    /\ jobs' = Append(jobs, NewJob)
    /\ own' = own \cup {NextId}
    /\ queue' = queue \cup {NextId}
    /\ UNCHANGED <<printer, emissions, sending, pumping, faults>>

MainLoop == emissions = <<>>

Fault == faults > 0 /\ faults' = faults - 1

\* Leave a method or callback of job j: store the result and thaw.
Leave(j, result) ==
    \E r \in {result} :
        /\ jobs' = [jobs EXCEPT ![j] = Thawed(r)]
        /\ emissions' = Thaw(j, r.queued)
        /\ UNCHANGED <<printer, handlers>>

AddDocumentCall(j) ==
    /\ MainLoop /\ CanAddDocument(jobs[j])
    /\ Leave(j, AddDocument(jobs[j]))
    /\ UNCHANGED <<pumping, faults>>

StartCall(j) ==
    /\ MainLoop /\ jobs[j].document_fd
    /\ \E r \in Start(jobs[j]) :
        /\ Leave(j, r)
        /\ IF r.queued = {} THEN Fault ELSE UNCHANGED faults
    /\ UNCHANGED pumping

CancelCall(j) ==
    /\ MainLoop
    /\ Leave(j, Cancel(jobs[j]))
    /\ UNCHANGED <<pumping, faults>>

ProcessExits(j, p, status) ==
    /\ MainLoop /\ p \in jobs[j].watched
    /\ Leave(j, ProcessFinished(jobs[j], p, status))
    /\ UNCHANGED <<pumping, faults>>

\* pd_job_impl_data_io_cb, without the data (PrintJob has it): a read or a
\* write fails, or the backend's input is closed at the end of the data.  The
\* watch is gone after that, except that a failing write to a job that has
\* already ended keeps it.
DataFails(j) ==
    /\ MainLoop /\ j \in pumping /\ Fault
    /\ Leave(j, DataError(jobs[j]))
    /\ \/ pumping' = pumping \ {j}
       \/ jobs[j].state \in Terminal /\ UNCHANGED pumping

DataEnds(j) ==
    /\ MainLoop /\ j \in pumping
    /\ Leave(j, CheckJobTransforming(jobs[j]))
    /\ pumping' = pumping \ {j}
    /\ UNCHANGED faults

\* A message channel of a job fails.
MessagesFail(j) ==
    /\ MainLoop /\ FiltersStarted(jobs[j]) /\ Fault
    /\ Leave(j, MessageError(jobs[j]))
    /\ UNCHANGED pumping

-----------------------------------------------------------------------------
(* Handlers.  Each runs as the next handler of the innermost emission.      *)

Top == Head(emissions)
Runs(signal, n) ==
    emissions # <<>> /\ Top.signal = signal /\ Top.handler = n

\* The stack once the current handler has returned and more comes after it.
Advance == <<[Top EXCEPT !.handler = @ + 1]>> \o Tail(emissions)

\* pd_job_impl_job_state_notify, connected in constructed(): on the end of the
\* job it sets the reasons twice, each time running their handler at once.
OwnStateNotify ==
    LET j == Top.job
        ended == j \in own /\ jobs[j].state \in Terminal
    IN  /\ Runs("state", 1)
        /\ IF ended
           THEN /\ jobs' = [jobs EXCEPT ![j] = Thawed(TidyReasons(@))]
                /\ own' = own \ {j}
                /\ emissions' = <<ReasonsOf(j)>> \o Advance
           ELSE /\ emissions' = Advance
                /\ UNCHANGED <<jobs, own>>
        /\ UNCHANGED <<printer, queue, sending, pumping, faults>>

\* The slot is not looked at.
SlotIgnored == FALSE

\* The printer's job-outgoing property is set: some job is being sent.
SlotTaken == printer.job_outgoing

\* pd_engine_start_job, called with `rest' as the stack to return to: mark
\* printer and job as processing and, unless some job is being sent, take the
\* printer's sending slot, watch the job's reasons and start sending.  The
\* code sets the two states before it looks at the slot; the handlers those
\* notifications run (PrinterStateNotify finds the printer busy, the job's find
\* it processing) change nothing that the rest of StartJob reads, so they are
\* left to the one emission that Thaw puts on the stack.
StartJob(k, rest) ==
    /\ \E r \in IF SlotTaken
                THEN {SetState(jobs[k], "processing")}
                ELSE StartSending(SetState(jobs[k], "processing")) :
        /\ jobs' = [jobs EXCEPT ![k] = Thawed(r)]
        /\ emissions' = Thaw(k, r.queued) \o rest
        /\ pumping' = IF BackendStarted(r) THEN pumping \cup {k} ELSE pumping
        /\ IF r.state = "aborted" THEN Fault ELSE UNCHANGED faults
    /\ printer' = [state |-> "processing", job_outgoing |-> TRUE]
    /\ sending' = IF SlotTaken THEN sending ELSE sending \cup {k}

\* pd_engine_job_state_notify: a pending job starts if the printer is idle.
\* The state it sets restarts the emission it runs in (Thaw puts it on top of
\* the rest), after PrinterStateNotify has seen a busy printer.
EngineStateNotify ==
    LET j == Top.job
        state == jobs[j].state
        starts == j \in queue /\ state = "pending" /\ printer.state = "idle"
    IN  /\ Runs("state", 2)
        /\ IF starts
           THEN StartJob(j, Tail(emissions))
           ELSE /\ emissions' = Advance
                /\ UNCHANGED <<jobs, printer, sending, pumping, faults>>
        /\ queue' = IF starts \/ state \notin {"pending", "pending-held"}
                    THEN queue \ {j} ELSE queue
        /\ UNCHANGED own

\* Setting the printer's state while the engine is not listening.
NotifyNobody(rest) == rest

\* notify::state of the printer starts to be emitted now, or restarts if this
\* is nested in its emission already.
NotifyPrinter(rest) ==
    IF \E i \in 1..Len(rest) : rest[i] = PrinterState
    THEN rest ELSE <<PrinterState>> \o rest

\* Aborted jobs are forgotten.
EndedWithoutAbort(state) == state \in {"canceled", "completed"}

\* The states on which pd_printer_impl_job_state_notify acts.
Ended(state) == state \in Terminal

\* pd_printer_impl_job_state_notify: any job that ends frees the printer.
PrinterJobNotify ==
    /\ Runs("state", 3)
    /\ IF Ended(jobs[Top.job].state) /\ printer.state = "processing"
       THEN /\ printer' = [printer EXCEPT !.state = "idle"]
            /\ emissions' = NotifyPrinter(Tail(emissions))
       ELSE /\ emissions' = Tail(emissions)
            /\ UNCHANGED printer
    /\ UNCHANGED <<jobs, handlers, pumping, faults>>

IsOutgoing(j) == HasReason(jobs[j].state_reasons, Outgoing)

\* Any change of the reasons is taken for the end of sending.
AssumedSent(j) == TRUE

NoLongerOutgoing(j) == ~IsOutgoing(j)

\* pd_engine_job_state_reasons_notify: the job is no longer outgoing.
ReasonsNotify ==
    LET j == Top.job
        gone == j \in sending /\ NoLongerOutgoing(j)
    IN  /\ Runs("state-reasons", 1)
        /\ emissions' = Tail(emissions)
        /\ IF gone
           THEN /\ printer' = [printer EXCEPT !.job_outgoing = FALSE]
                /\ sending' = sending \ {j}
           ELSE UNCHANGED <<printer, sending>>
        /\ UNCHANGED <<jobs, own, queue, pumping, faults>>

\* pd_printer_impl_get_next_job: the first pending job of the array.
Pending == {k \in Ids : jobs[k].state = "pending"}
IsNextJob(k) == k \in Pending /\ \A i \in Pending : k <= i

\* pd_engine_printer_state_notify: an idle printer takes the next job.  The
\* state that sets restarts this emission, which therefore stays on the stack.
PrinterStateNotify ==
    /\ Runs("printer", 1)
    /\ IF printer.state = "idle" /\ Pending # {}
       THEN \E k \in Pending : IsNextJob(k) /\ StartJob(k, emissions)
       ELSE /\ emissions' = Tail(emissions)
            /\ UNCHANGED <<jobs, printer, sending, pumping, faults>>
    /\ UNCHANGED <<own, queue>>

-----------------------------------------------------------------------------
Statuses == {"ok", "failed", "signal"}

Handler == \/ OwnStateNotify \/ EngineStateNotify \/ PrinterJobNotify
           \/ ReasonsNotify \/ PrinterStateNotify

Next == \/ CreateJob
        \/ \E j \in Ids :
            \/ AddDocumentCall(j) \/ StartCall(j) \/ CancelCall(j)
            \/ \E p \in Procs, status \in Statuses : ProcessExits(j, p, status)
            \/ DataFails(j) \/ DataEnds(j) \/ MessagesFail(j)
        \/ Handler

Spec == Init /\ [][Next]_vars

-----------------------------------------------------------------------------
TypeOK ==
    /\ jobs \in Seq(Job) /\ Len(jobs) <= MaxJobs
    /\ \A j \in Ids : jobs[j].queued = {}
    /\ printer \in [state : {"idle", "processing"}, job_outgoing : BOOLEAN]
    /\ emissions \in Seq(Emission)
    /\ \A i \in 1..Len(emissions) :
        emissions[i].job \in IF emissions[i].signal = "printer" THEN {0} ELSE Ids
    /\ own \subseteq Ids /\ queue \subseteq Ids /\ sending \subseteq Ids
    /\ pumping \subseteq Ids
    /\ faults \in 0..MaxFaults

\* The printer's job-outgoing property, the handler the engine put on the
\* job's reasons and the job's own job-outgoing reason are three copies of one
\* fact, changed by three handlers.  They agree whenever the main loop is back
\* in control, and at most one job is outgoing ("Whether any job is outgoing"),
\* as long as all handlers run on the main thread.
SendSlotAgrees ==
    MainLoop =>
        /\ sending = {j \in Ids : IsOutgoing(j)}
        /\ printer.job_outgoing = (sending # {})
        /\ \A j, k \in sending : j = k

\* No wakeup is lost: while the printer is idle no job waits in the queue
\* (pending, never ended before), so the engine never sleeps on work.
NoLostWakeup ==
    MainLoop /\ printer.state = "idle" =>
        \A j \in queue : jobs[j].state # "pending"

\* The printer is not left busy: while it says it is processing, some job is.
BusyWithAJob ==
    MainLoop /\ printer.state = "processing" =>
        \E j \in Ids : jobs[j].state = "processing"

\* The device is not shared: of the jobs that have not ended yet, at most one
\* has a running backend, as long as all handlers run on the main thread.  (A
\* job that ended and was started again afterwards, or whose messages could not
\* be read, is not covered: see EndedForGood in PrintJob.)
OneLiveBackend ==
    \A j, k \in own :
        Backend \in Running(jobs[j]) /\ Backend \in Running(jobs[k]) => j = k

\* "Job running": a job in state processing has a process, or just had one.
ProcessingRuns ==
    MainLoop => \A j \in Ids :
        jobs[j].state = "processing" => jobs[j].started # {}

=============================================================================
