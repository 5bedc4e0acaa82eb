------------------------------ MODULE PrintJob ------------------------------
(***************************************************************************)
(* One print job from CreateJob to its end: the methods of the Job          *)
(* interface, the main loop's child-watch and I/O callbacks, and the        *)
(* children, which write, exit, fail and die in any order.                  *)
(*                                                                         *)
(* Data is counted in chunks: what the last filter has still to write, what *)
(* is in the pipe to the daemon, the daemon's one buffer, and what the      *)
(* backend was given.                                                       *)
(***************************************************************************)
EXTENDS JobOps

CONSTANTS MaxChunks,    \* bound on what the last filter writes
          PipeCap,      \* chunks a pipe holds before its writer blocks
          MaxMessageErrors  \* bound on the message channels that fail; even
                            \* the shortest chain has three

ASSUME PumpAssumption == MaxChunks \in Nat /\ PipeCap \in Nat \ {0}
ASSUME MessagesAssumption == MaxMessageErrors \in 0..3

VARIABLES job,
          own,          \* pd_job_impl_job_state_notify is connected
          engine,       \* how far pd_engine_start_job is with the job
          overtaken,    \* history: it set the state in the middle of a Cancel
          io,           \* the daemon's side of the data pump
          messages,     \* message channels that can still fail
          left,         \* chunks the last filter can still write
          pipe,         \* chunks between the last filter and the daemon
          open,         \* the last filter holds its stdout open
          produced,     \* history: chunks the last filter wrote
          delivered,    \* history: chunks written to the backend
          drained,      \* history: the daemon shut the backend's stdin at EOF
          killed,       \* processes that were sent SIGKILL
          ends          \* history: the ways in which processes ended

children == <<left, pipe, open, produced, ends>>
starts == <<engine, overtaken>>
vars == <<job, own, starts, io, killed, messages, children, delivered, drained>>

\* stdin, stdout: the channels of the backend's input and of the last filter's
\* output; sources: which of them are watched; buffer: buflen - bufsent # 0.
IO == [stdin : BOOLEAN, stdout : BOOLEAN,
       sources : SUBSET {"read", "write"}, buffer : BOOLEAN]

Init == /\ job = NewJob /\ own = TRUE
        /\ engine = "away" /\ overtaken = FALSE
        /\ io = [stdin |-> FALSE, stdout |-> FALSE, sources |-> {},
                 buffer |-> FALSE]
        /\ messages = 0 /\ left = 0 /\ pipe = 0 /\ open = FALSE
        /\ produced = 0 /\ delivered = 0 /\ drained = FALSE
        /\ killed = {} /\ ends = {}

\* Return from a method without thawing.
LeaveFrozen(result) ==
    \E j \in {result} : job' = j /\ UNCHANGED own

\* Leave a method or callback with the job as in `result': thaw, and let the
\* job's own handler see the new state; it tidies up and disconnects.
Leave(result) ==
    \E j \in {result} :
        LET ended == own /\ "state" \in j.queued /\ j.state \in Terminal
        IN  /\ job' = Thawed(IF ended THEN TidyReasons(j) ELSE j)
            /\ own' = (own /\ ~ended)

\* Nothing is done to the pump.
SendOn(x) == x

\* Shut the backend's stdin and drop its watch: it gets no more data.
StopSending(x) == [x EXCEPT !.stdin = FALSE, !.sources = @ \ {"write"}]

\* No signal is sent.
KillNothing(procs) == {}

\* SIGKILL for every process that is still running.
KillProcesses(procs) == procs

\* Leave after pd_job_impl_do_cancel_with_reason: when it has brought the job
\* to its stop point, it has also stopped sending and killed the processes.
LeaveCanceled(result, x) ==
    \E j \in {result} :
        LET stops == /\ HasReason(j.state_reasons, StopPoint)
                     /\ ~HasReason(job.state_reasons, StopPoint)
        IN  /\ Leave(j)
            /\ io' = IF stops THEN StopSending(x) ELSE x
            /\ killed' = IF stops THEN killed \cup KillProcesses(Running(job))
                         ELSE killed

-----------------------------------------------------------------------------
(* Clients                                                                  *)

AddDocumentCall ==
    /\ CanAddDocument(job)
    /\ Leave(AddDocument(job))
    /\ UNCHANGED <<starts, killed, io, messages, children, delivered, drained>>

StartCall ==
    /\ job.document_fd
    /\ \E j \in Start(job) : LeaveCanceled(j, io)
    /\ UNCHANGED <<starts, messages, children, delivered, drained>>

CancelCall ==
    /\ LeaveCanceled(Cancel(job), io)
    /\ UNCHANGED <<starts, messages, children, delivered, drained>>

-----------------------------------------------------------------------------
(* The engine starts the job.  It may run in the thread of a method of the  *)
(* printer, and only pd_job_impl_start_sending, like the methods and the    *)
(* callbacks of the job, has the job locked: what comes before it falls     *)
(* between their steps.  One start of the job at a time; two threads that   *)
(* start one job are in Threads.                                            *)

\* pd_engine_job_state_notify or pd_engine_printer_state_notify, as far as the
\* last look at the job's state.
EngineFinds ==
    /\ engine = "away" /\ job.state = "pending"
    /\ engine' = "found"
    /\ UNCHANGED <<job, own, overtaken, killed, io, messages, children, delivered,
                   drained>>

\* pd_engine_start_job sets the state, whatever it is by now.
EngineProcesses ==
    /\ engine = "found" /\ engine' = "processing"
    /\ Leave(SetState(job, "processing"))
    /\ UNCHANGED <<overtaken, killed, io, messages, children, delivered, drained>>

\* It does so while a Cancel still holds the notifications back: the handlers
\* never see the job canceled.
EngineOvertakes ==
    /\ engine = "found" /\ engine' = "processing"
    /\ job.state = "pending"
    /\ Leave(SetState(Cancel(job), "processing"))
    /\ overtaken' = TRUE
    /\ UNCHANGED <<killed, io, messages, children, delivered, drained>>

\* Another job is being sent.
EngineHolds ==
    /\ engine = "processing" /\ engine' = "away"
    /\ UNCHANGED <<job, own, overtaken, killed, io, messages, children, delivered,
                   drained>>

\* The printer is free: pd_job_impl_start_sending.  The filters' messages are
\* watched once they all run, the last one's output once the backend does too.
EngineStarts ==
    /\ engine = "processing" /\ engine' = "away"
    /\ \E j \in StartSending(job) :
        /\ Leave(j)
        /\ IF FiltersStarted(j)
           THEN /\ messages' = MaxMessageErrors
                /\ left' = MaxChunks /\ open' = TRUE
           ELSE UNCHANGED <<messages, left, open>>
        /\ io' = IF BackendStarted(j)
                 THEN [stdin |-> TRUE, stdout |-> TRUE,
                       sources |-> {"read"}, buffer |-> FALSE]
                 ELSE io
    /\ UNCHANGED <<overtaken, killed, pipe, produced, delivered, drained, ends>>

-----------------------------------------------------------------------------
(* The children (external programs) and the callback for their exit.        *)

LastFilterRuns == job.chain # 0 /\ job.chain \in Running(job)

FilterWrites ==
    /\ LastFilterRuns /\ open /\ left > 0 /\ pipe < PipeCap
    /\ left' = left - 1 /\ pipe' = pipe + 1 /\ produced' = produced + 1
    /\ UNCHANGED <<job, own, starts, killed, io, messages, open, delivered, drained,
                   ends>>

\* It is done writing, early or not.
FilterCloses ==
    /\ LastFilterRuns /\ open
    /\ left' = 0 /\ open' = FALSE
    /\ UNCHANGED <<job, own, starts, killed, io, messages, pipe, produced, delivered,
                   drained, ends>>

\* A process ends, for whatever reason, and its watch fires; the callback
\* closes the input of the process, which only the backend has.
ProcessExits(p, st) ==
    /\ p \in job.watched
    /\ Leave(ProcessFinished(job, p, st))
    /\ io' = IF p = Backend THEN StopSending(io) ELSE io
    /\ ends' = ends \cup {st}
    /\ IF p = job.chain THEN left' = 0 /\ open' = FALSE
       ELSE UNCHANGED <<left, open>>
    /\ UNCHANGED <<starts, killed, messages, pipe, produced, delivered, drained>>

-----------------------------------------------------------------------------
(* The daemon's pump: pd_job_impl_data_io_cb, one action per outcome of its *)
(* read and of its write.  A callback that ends its watch arms the other,   *)
(* if that channel is still open.                                           *)

ArmWrite == IF io.stdin THEN {"write"} ELSE {}
ArmRead == IF io.stdout THEN {"read"} ELSE {}

\* The read watch is kept while the data is being written.
PumpReadsAhead ==
    /\ "read" \in io.sources /\ pipe > 0
    /\ io' = [io EXCEPT !.buffer = TRUE, !.sources = @ \cup ArmWrite]
    /\ pipe' = pipe - 1
    /\ UNCHANGED <<job, own, starts, killed, messages, left, open, produced, ends,
                   delivered, drained>>

PumpReads ==
    /\ "read" \in io.sources /\ pipe > 0
    /\ io' = [io EXCEPT !.buffer = TRUE,
                        !.sources = (@ \ {"read"}) \cup ArmWrite]
    /\ pipe' = pipe - 1
    /\ UNCHANGED <<job, own, starts, killed, messages, left, open, produced, ends,
                   delivered, drained>>

PumpSeesEOF ==
    /\ "read" \in io.sources /\ pipe = 0 /\ ~open
    /\ io' = [io EXCEPT !.stdout = FALSE,
                        !.sources = (@ \ {"read"}) \cup ArmWrite]
    /\ UNCHANGED <<job, own, starts, killed, messages, children, delivered, drained>>

\* The channel is released but its pointer left behind: stdout stays TRUE.
PumpReadFails ==
    /\ "read" \in io.sources
    /\ LeaveCanceled(DataError(job), [io EXCEPT !.sources = @ \ {"read"}])
    /\ UNCHANGED <<starts, messages, children, delivered, drained>>

\* Nobody goes back to reading.
PumpWritesOnce ==
    /\ "write" \in io.sources /\ io.buffer
    /\ io' = [io EXCEPT !.buffer = FALSE, !.sources = @ \ {"write"}]
    /\ delivered' = delivered + 1
    /\ UNCHANGED <<job, own, starts, killed, messages, children, drained>>

PumpWrites ==
    /\ "write" \in io.sources /\ io.buffer
    /\ io' = [io EXCEPT !.buffer = FALSE,
                        !.sources = (@ \ {"write"}) \cup ArmRead]
    /\ delivered' = delivered + 1
    /\ UNCHANGED <<job, own, starts, killed, messages, children, drained>>

\* Nothing buffered: "End of input".
PumpClosesInput ==
    /\ "write" \in io.sources /\ ~io.buffer
    /\ Leave(CheckJobTransforming(job))
    /\ io' = StopSending(io)
    /\ drained' = TRUE
    /\ UNCHANGED <<starts, killed, messages, children, delivered>>

\* The watch is kept unless the cancellation removes it.
PumpWriteFails ==
    /\ "write" \in io.sources /\ io.buffer
    /\ LeaveCanceled(DataError(job), io)
    /\ UNCHANGED <<starts, messages, children, delivered, drained>>

\* pd_job_impl_message_io_cb: reading a message channel fails.  (Its end
\* removes the channel and nothing else.)
MessagesFail ==
    /\ messages > 0
    /\ messages' = messages - 1
    /\ Leave(MessageError(job))
    /\ UNCHANGED <<starts, killed, io, children, delivered, drained>>

-----------------------------------------------------------------------------
Statuses == {"ok", "failed", "signal"}

Next == \/ AddDocumentCall \/ StartCall \/ CancelCall
        \/ EngineFinds \/ EngineProcesses \/ EngineOvertakes
        \/ EngineHolds \/ EngineStarts
        \/ FilterWrites \/ FilterCloses
        \/ \E p \in Procs, st \in Statuses : ProcessExits(p, st)
        \/ PumpReads \/ PumpSeesEOF \/ PumpReadFails
        \/ PumpWrites \/ PumpClosesInput \/ PumpWriteFails
        \/ MessagesFail

\* A child is certain to end once it was killed; a filter also when all of the
\* chain's output is written, the backend when its input was closed.
EndsByItself(p) ==
    \/ p \in killed
    \/ p = Backend /\ ~io.stdin
    \/ p # Backend /\ left = 0

\* The main loop dispatches every ready source; children do as above.
\* Clients and the engine owe the job nothing.
Fairness ==
    /\ WF_vars(FilterWrites \/ (left = 0 /\ FilterCloses))
    /\ WF_vars(PumpReads \/ PumpSeesEOF \/ PumpWrites \/ PumpClosesInput)
    /\ \A p \in Procs :
        WF_vars(EndsByItself(p) /\ \E st \in Statuses : ProcessExits(p, st))

Spec == Init /\ [][Next]_vars /\ Fairness

-----------------------------------------------------------------------------
TypeOK == /\ job \in Job /\ job.queued = {} /\ own \in BOOLEAN
          /\ engine \in {"away", "found", "processing"} /\ overtaken \in BOOLEAN
          /\ io \in IO /\ killed \subseteq Procs /\ messages \in 0..MaxMessageErrors
          /\ left \in 0..MaxChunks /\ pipe \in 0..PipeCap /\ open \in BOOLEAN
          /\ produced \in 0..MaxChunks /\ delivered \in 0..MaxChunks
          /\ drained \in BOOLEAN
          /\ ends \subseteq Statuses

\* pd_job_impl_start asserts document_filename == NULL once it has seen a
\* document_fd: no order of AddDocument, Start and Cancel makes it fail.
SpoolsOnce == job.document_fd => ~job.document_filename

\* A job is completed only when every process it started has ended and none
\* returned a non-zero status, whatever order the children ended in
\* (pd_job_impl_process_watch_cb).
CompletedIsClean ==
    job.state = "completed" =>
        /\ Backend \in job.finished /\ Running(job) = {}
        /\ "failed" \notin ends

\* The data pump holds one buffer: it waits to read or to write, never both,
\* and never reads over bytes that are not sent yet (pd_job_impl_data_io_cb).
OneBufferPump ==
    /\ io.sources # {"read", "write"}
    /\ "read" \in io.sources => ~io.buffer

\* The pump of the job, with its one buffer and two watches, is a pipe between
\* the last filter and the backend: it loses, repeats and invents nothing, holds
\* what fits in the pipe and one buffer, is closed only when it is empty, and is
\* cut for good when the processes are killed.
Pump == INSTANCE Conduit
            WITH Capacity <- PipeCap + 1, written <- produced,
                 state <- IF drained THEN "closed"
                          ELSE IF killed # {} THEN "cut" ELSE "open"
ImplementsConduit == Pump!Spec

\* A job whose processes were told to stop never counts as completed, even if
\* all of them end with status 0 before the signal reaches them.
StoppedNeverCompletes == killed # {} => job.state # "completed"

\* A job that is being stopped reaches a terminal state.
StopEnds ==
    (job.state = "processing" /\ HasReason(job.state_reasons, StopPoint))
        ~> job.state \in Terminal

\* A job that is being sent ends, except in one case: the backend has exited
\* and the last filter is still there with output that nobody reads.
SendingEnds ==
    (job.state = "processing" /\ BackendStarted(job))
        ~> \/ job.state \in Terminal
           \/ Backend \in job.finished /\ LastFilterRuns /\ left > 0

\* A job says why it was canceled: the first time it becomes canceled, at once
\* or when the last of its processes ends, job-canceled-by-user or -by-system
\* is among its reasons, whatever was added and removed on the way.  (A Cancel
\* that the engine overtook is not seen, and the next one is not the first.)
FirstCancelExplained ==
    [][own /\ ~overtaken /\ job.state # "canceled" /\ job'.state = "canceled" =>
        \/ HasReason(job'.state_reasons, CanceledByUser)
        \/ HasReason(job'.state_reasons, CanceledBySystem)]_vars

\* A job that has its document spooled and has ended, and of which no process
\* is watched, stays ended: only the failure of a message channel, or a start
\* by the engine that found it pending before and is still under way, may give
\* it another state.  (A job canceled before it was spooled can be started
\* again, and one canceled by a channel has exits to come.)
EndedForGood ==
    [][job.state \in Terminal /\ job.document_filename /\ job.watched = {}
        => \/ job'.state = job.state
           \/ messages' < messages
           \/ engine # "away" /\ engine' # engine]_vars

\* When the backend finishes, the job reaches a terminal state.
BackendDoneEndsJob == (Backend \in job.finished) ~> job.state \in Terminal

=============================================================================
