# Verification of printerd

printerd is a print spooler with a D-Bus interface: clients create a job on a
printer, hand over a document, start it, and the daemon runs a chain of filters
and a backend and copies the data between them. Nothing in it calls a
"scheduler": jobs are moved along by handlers on GObject property
notifications, by child-watch callbacks and by I/O callbacks, which nest and
interleave. This directory models that machinery in TLA+, checks it with TLC
and proves its safety properties with TLAPS.

## Inventory

| Component | State | Operations | Modelled in |
|---|---|---|---|
| State reasons (`pd-common.c`) | lists of reasons of jobs and printers | `add_or_remove_state_reason` | `StateReasons` |
| Job (`pd-job-impl.c`) | state, reasons, document, filter chain, backend, `pending_job_state` | `AddDocument`, `Start`, `Cancel`, `start_processing`, `start_sending`, `process_watch_cb`, own state handler | `JobOps`, `PrintJob` |
| Data pump (`pd_job_impl_data_io_cb`) | one buffer, the watches on the last filter's output and the backend's input | read, write, end of data, errors | `PrintJob` |
| Messages (`message_io_cb`, `parse_stderr`) | channels to children's stderr | `STATE:` lines, read error | `PrinterReasons`, `PrintJob` |
| Print queue (`pd-engine.c`, `pd-printer-impl.c`) | a printer's jobs, its state, its `job-outgoing` slot, the handlers connected | `CreateJob`, five notification handlers, `start_job`, `get_next_job` | `PrintQueue` |
| Driver and defaults (`pd-printer-impl.c`) | driver, content type, final filter, defaults | `UpdateDriver`, `UpdateDefaults`, what `CreateJob` and a starting job take from them | `Driver` |
| Printer registry (`pd-engine.c`, `pd-manager-impl.c`) | `id_to_printer`, objects on the bus | `CreatePrinter`, `DeletePrinter` | `Registry` |
| Devices (`pd-engine.c`, `pd-device-impl.c`) | `path_to_device`, objects on the bus | uevents, `Device.CreatePrinter` | `Registry` |
| Threads and locks (`pd-engine.c`, `pd-printer-impl.c`, `pd-job-impl.c`) | engine, printer and job mutexes, freeze counts, emissions | lock, freeze, set, unlock, thaw in every method and callback | `Threads` |
| Client library (`pd-client.c`) | initialization, the timer of the `changed` signal | `initable_init`, `queue_changed`, `on_changed_timeout`, `pd_client_settle` | `Client` |
| Authorisation, daemon, `main.c` | none that a property needs | polkit question, bus set-up | no |
| IPP front end, command line, viewer | none between calls | calls into the bus interface | no |

How they interact. Job methods, child-watch and I/O callbacks and uevents run
on the main thread; every method of Printer, Manager and Device has a thread of
its own. A job method freezes notifications, changes properties, unlocks, and
thaws; the thaw then emits `notify::state` and `notify::state-reasons`, and the
handlers of the job itself, of the engine and of the printer run inside it.
Those set properties of the printer or of another job, which nests further
emissions.

What is hard: children that end in any order, early or by a signal; a
cancellation in the middle of copying; channels that fail; one process of a
chain that cannot be run; handlers that run inside handlers; three records of
which job is being sent; jobs that must be woken by somebody else's end. The
list `hazards` in `PROJECT.json` gives each with its line.

What makes each component correct:

* state reasons: a list names a reason once, removal removes exactly that one,
  and what is reported is what is listed;
* job: completed means that everything ended well; canceled or aborted jobs do
  not count as completed; every stop and every transmission comes to an end; no
  assertion of the code fails;
* pump: bytes are neither lost nor overwritten, and none follow a stop;
* threads: nobody waits in a circle, every call returns, and a change is
  announced whichever thread it falls to to announce it;
* driver and defaults: type, filter and name come from one PPD, no update is
  lost, a job gets the defaults of its moment;
* client: every change is announced, none too early, and no timer outlives its
  pointer;
* registry: the hash tables and the bus list the same objects, a path belongs to
  one printer at a time, a job finds its own printer;
* queue: the device has one user, the records of who that is agree, an idle
  printer has no waiting job and a busy one has a running job.

## Modules

`StateReasons` - pure operators. `AddReason` and `RemoveReason` are the two
modes of `add_or_remove_state_reason`. The code copies the list and stops at the
reason when adding, so `AddReason` of a listed reason *shortens* the list; the
models keep that.

`PrinterReasons` - the printer's list under arbitrary `STATE:` lines. `reported`
is a history variable.

`JobOps` - a job as a record and every operation as an operator on it, shared by
the two modules below. Operations whose outcome depends on the environment
(`Start`, `StartProcessing`, `StartSending`) return the set of outcomes. The
field `queued` is GObject's queue of properties set while frozen. A process is
its position in the chain, or 0 for the backend.

`PrintJob` - one job with its children and its data. Actions correspond to
methods (`AddDocumentCall`, `StartCall`, `CancelCall`), to the engine's start of
the job (`EngineFinds`, `EngineProcesses`, `EngineOvertakes`, `EngineHolds`,
`EngineStarts`), to callbacks (`ProcessExits`, `PumpReads`, `PumpSeesEOF`,
`PumpReadFails`, `PumpWrites`, `PumpClosesInput`, `PumpWriteFails`,
`MessagesFail`) and to the children (`FilterWrites`, `FilterCloses`). A method or
callback and the job's own handler are one step: they run on the main thread, with
the job locked until they thaw. The engine's start is not: a printer's method may
run it in a worker thread, and until `pd_job_impl_start_sending` it takes no lock.
So it is one step that finds the job pending, one that sets it to processing
whatever it is by then, and one that looks at the slot and sends; the variable
`engine` is how far it has got, and anything may happen to the job between them.
The state may also be set while a Cancel has not thawed yet (`EngineOvertakes`):
the Cancel's new state is then never announced, which `overtaken` records. One
start of the job is under way at a time. Reads and writes that move nothing
(`EAGAIN`), and writes of a part of the buffer, are stuttering steps.

`PrintQueue` - one printer and its jobs. The variable `emissions` is the stack
of notifications being emitted, innermost first, each with the handler it runs
next; one handler is one step. `own`, `queue` and `sending` are the jobs on which
the job's own handler, the engine's state handler and the engine's reasons
handler are still connected. GObject's notify signal does not recurse: setting a
property inside its own emission restarts that emission
(`EngineStateNotify`, `NotifyPrinter`). All handlers run on the main thread and
`StartJob` is one step; what a worker thread adds is in `Threads`. Thawing emits in reverse order of first
setting; every method sets the reasons before the state, so the state is emitted
first (`Thaw`).

`Registry` - the engine's tables of printers and devices and their objects on
the bus. `AddPrinter` and `RemovePrinter` are what the calls do under the engine
lock, `CompleteCreatePrinter` and `CompleteRemovePrinter` what they do after it.
`CallBegins`, `CreateJob` and `CallEnds` are a method of a printer in its thread,
which keeps the printer in memory; `Alive` counts the references, and a printer
that loses its last one takes its jobs off the bus (`Owned`). Two steps use freed
memory in the code: the end of CreatePrinter after the printer was deleted, and
the second free of a string when no id is left. Their outcomes are to go on or to
end the daemon (`up`). An id is a sequence of words, so that a name with a number
and a numbered duplicate can be the same id. `MCRegistry` gives the names and the
devices.

`Conduit` - what the pump promises, as an abstract pipe: a capacity, and an end
that is open, closed (only when the pipe is empty) or cut. `PrintJob` implements
it with `written` as the chunks the last filter wrote, `PipeCap + 1` as the
capacity (the pipe and the one buffer), closed when the backend's input was shut
at the end of the data, cut when the processes were killed.

`Threads` - the same queue as `PrintQueue`, one level down: the mutexes of the
engine, the printer and the jobs, the freeze counts, and the emissions of
`notify::state` in the main thread and in worker threads. A method is the
sequence of instructions it executes (`Enter`, `Leave`, `Touch`, `StartJob`,
`CreateJob`...); `todo` is what a thread has left to do, and each instruction is
an action. So `CreateJob` takes a dozen steps here, and a worker that thaws the
printer may find that the main thread made it idle meanwhile, and start the next
job itself. Notifications queued under overlapping freezes go out in the thread
that thaws last; setting a property during its emission restarts the emission,
also from another thread. A lock that covers only a look-up is one instruction.
Failures are left to `PrintQueue`, and a job has one process. The constant
`EarlyClients` lets clients call a job as soon as it is on the bus rather than
after `CreateJob` has returned its path.

`Driver` - a printer's driver, the content type and filter found in the PPD, and
the defaults. `Best` is the loop over the `cupsFilter` lines. `UpdateDriver` is
three steps (reads the file, stores type and filter under the lock, sets the name
after it), `UpdateDefaults` and `CreateJob` are two each, and a job that starts
reads the driver three times. The uninitialised filter of a PPD without lines is a
choice of NULL or `"undefined"`. `given`, `mixed`, `alone` and `quiet` are history.
`MCDriver` gives the PPDs and compares `Best` with a reference definition
(`BestIsCheapest`, an assumption TLC evaluates) on all PPDs of up to three lines.

`Client` - the initialization of a `PdClient` under `init_lock`, and its `changed`
signal. `frames` is the stack of calls on the main context's thread, since handlers
of `changed` may run a main loop and `pd_client_settle` does. `timers` maps each
attached timer to the ticks it has left, `source` is `changed_timeout_source`.
`ChangedSignal` is what it promises: whatever changed is shown in the end.

`JobOpsProofs`, `PrintJobProofs`, `PrintQueueProofs`, `PrinterReasonsProofs`,
`RegistryProofs`, `ClientProofs`, `DriverProofs`, `ThreadsProofs` - lemmas and
theorems.

Left out of these models: text, MIME types (an outcome of `Start`), the state
processing-stopped (never set), authorisation (a refused call changes nothing),
and freeing a job. In `PrintQueue`, `CreateJob` is one step: the printer's lock is
held until the handlers are connected, and clients learn the job's path from the
reply. What that leaves out is in `Threads`.

## Runs

| Run | Checks | Bounds |
|---|---|---|
| `reasons` | `EachReasonOnce`, `NoStaleReason`, `RemovalIsFilter` | 4 reasons, lines of up to 2: every list and every overlap of a line with it (168 states) |
| `job` | `TypeOK`, `SpoolsOnce`, `CompletedIsClean`, `OneBufferPump`, `StoppedNeverCompletes`, `ImplementsConduit`, `FirstCancelExplained`, `EndedForGood`, `StopEnds`, `SendingEnds` | chains of 1 and 2 filters, 3 chunks through a pipe of 1, 2 failing message channels (246 thousand states) |
| `queue` | `NoLostWakeup`, `OneLiveBackend` | 3 jobs, no faults, one thread (1.06 million states) |
| `queue_faults` | `TypeOK`, `SendSlotAgrees`, `NoLostWakeup`, `BusyWithAJob` | 2 jobs, 2 faults, one thread (253 thousand states) |
| `threads` | `NoDeadlock`, `NoLostWakeup`, `BusyWithAJob`, `NoLeakedSlot`, `NothingHeldBack`, `CallsReturn` | main thread and 2 workers, 2 jobs, 2 further calls or messages (1.0 million states) |
| `driver` | `FinalFromOnePpd`, `DriverAgrees`, `JobUsesOnePpd`, `NoLostDefault`, `JobGetsDefaults` | 2 threads, 4 calls, 4 PPDs, 3 updates of 2 attributes (61 thousand states) |
| `client` | `InitAgrees`, `SourceIsLive`, `NothingUnannounced`, `RateLimited`, `ImplementsChangedSignal` | 2 threads, 3 changes, settle nested twice, 2 ticks in 100 ms (1149 states) |
| `registry` | `TypeOK`, `ViewsAgree`, `JobsFindTheirPrinter`, `NoGhostDevice`, `PathsAreKept` | 3 printers of 3 names and 2 ids, one suffix, 1 job, 2 ports, 2 kinds of devices (2.8 million states) |

The bounds. One pipe slot makes the last filter block and three chunks make the
buffer be reused and leave data behind when the backend exits early. Two filters
are needed for one to fail after another started and for exits out of order;
the third filter of the code behaves as the second. Three jobs in `queue` are needed for
one to be printed, one to be canceled and one to be woken; the fault run keeps
two, enough for the fault of one to hurt the other (three jobs with one fault
were also explored once, 9.6 million states). Three printers use up the single
suffix, or let an id be freed and reused twice while calls on its first owner go
on; a second job would not interact with the first. Two workers beside the main
thread let the freezes of three threads overlap on the printer; two jobs are one
that ends and one that is created or waits. Two overlapping `UpdateDriver` calls, a
third that repairs what they left, and a job use up the four calls of `driver`; the
PPDs are one that cannot be opened, one without lines, one with a tie and one whose
cheapest line comes in the middle. Three changes in `client` are one that is
announced, one during the announcement and one after it. `MaxJobs`, `MaxFaults`,
`MaxChunks`, `PipeCap`, `MaxMessageErrors`, `MaxLine`, `MaxPrinters`, `MaxCalls`,
`MaxChanges` and `MaxDepth` are the only bounds, `SuffixLimit` stands for the 1000
and `Delay` for the 100 ms of the code.
Deadlock is not checked where the system may come to rest: when all jobs have
ended there is nothing to do, and a daemon that ended does nothing.

Fairness. In `PrintJob` the main loop dispatches every ready source (weak fairness
of the pump's reads and writes). A child ends once it was killed; a filter writes
what it has and ends when it has written it; the backend ends when its input was
closed, as `run_file_output` in the source does. No fairness is assumed of clients,
of the engine, of failing channels, or of a filter that is blocked on a full pipe.
In `Threads` some thread that can execute its next instruction does, which is less
than any scheduler gives and enough because the calls are bounded; nobody has to
call. In `Client` time passes and the main loop gets on with what is due; nobody
has to call settle, and handlers of the application return. The other modules
have no fairness.

Runs that show a disagreement (`expect: violation`), each stating what a comment,
an assertion or the documentation says:

* `job_backend_done` - a backend that exits early leaves the last filter blocked
  and the job processing for ever. `SendingEnds`, which passes, says that this is
  the only way in which a transmission does not end.
* `queue_stuck` - a job whose processes cannot be run keeps the sending slot, and
  later jobs are set to processing with nothing run for them. `SendSlotAgrees`
  still holds: the slot and the (dead) job's reason agree.
* `threads_assert` - a worker that thaws the printer after `CreateJob` or
  `UpdateDefaults` and the main thread pick the same pending job. The one that
  comes second fails `g_assert (pd_job_get_state (job) == PD_JOB_STATE_PENDING)`.
  The properties of `threads` speak of the daemon while no assertion has failed.
* `threads_early` - the job is on the bus before `CreateJob` returns. If its owner
  cancels it just while the worker sets the job's owner, the worker announces the
  cancellation; the handlers lock the printer, which the worker has locked, and
  `CreateJob` never returns. `NoDeadlock`, which passes, says that this cannot
  happen to clients that wait for the reply.

`NoLostWakeup` speaks of jobs that never ended before, and `OneLiveBackend` of
jobs that have not ended: a job brought back by Start after Cancel has lost its
engine handler, and a job whose message channel failed is ended while its
backend runs.

Limits of what the passing runs say:

* `queue` and `queue_faults` take every order of calls, exits and nested handlers
  *of one thread*. With worker threads `SendSlotAgrees` does not hold of the code,
  and with three jobs `OneLiveBackend` does not either (see the slot below). What
  is claimed of several threads is what `threads` checks.
* In `threads` a job has one backend, also when two threads send it (see below).
* `DriverAgrees` says nothing after `UpdateDriver` calls that overlapped, and
  `JobUsesOnePpd` nothing of a job whose start overlapped one: there the code does
  mix drivers. They say that it goes no further than that.
* `EachReasonOnce`, `NoStaleReason` and `RemovalIsFilter` do not say that a reason
  stays listed until it is withdrawn: the code loses some.
* `ViewsAgree` does not tell what becomes of a `CreatePrinter` whose printer was
  deleted or that found no free id; neither touches the tables.

## Observations

Behaviour of the code that the models contain and a maintainer may not expect.
The properties above are stated so that they hold with it.

* Adding a reason that is listed already shortens the list: it and all later ones
  are lost (`pd-common.c:229`, "Add: nothing to do"). So a job canceled twice may
  lose `job-outgoing`; `FirstCancelExplained` is about the first time. The list of
  the printer loses reasons in the same way when a child repeats a `+`.
* Start does not look at the state: a held job that has its document, canceled and
  then started, becomes pending again. Once the document is spooled no call does
  that.
* A job that was spooled and canceled may be printed all the same. The engine finds
  it pending (`pd-engine.c:888`, `:892`) and sets it to processing (`:369`) without
  a lock, in a worker thread if a method of the printer thawed it there; a Cancel in
  between is overwritten, or comes between `:369` and the sending, and the filters
  and the backend run. `EndedForGood` says that such a start, and the failure of a
  message channel, are the only ways in which an ended job changes its state.
* If the Cancel was overwritten before its notification went out, the job's own
  handler is still connected and `job-canceled-by-user` is listed. A second Cancel
  adds that reason again, which takes it off the list, and the job
  ends canceled without saying by whom. This is why `FirstCancelExplained` leaves an
  overtaken job out.
* A child that dies of a signal has exit status 0, and the job may be completed.
* Canceling a waiting job makes a busy printer idle, and a second job becomes
  processing. `OneLiveBackend` says that the device is still not given to both, as
  long as the engine's handlers run on the main thread.
* Two devices of one model without a serial number get one id and one path.
  `NoGhostDevice` says that at least nothing is left behind.
* The engine connects its handler on a job's reasons before the job is outgoing. If
  a worker starts the job while the main thread thaws the Start call that made it
  pending, the notification of the reasons comes between the two and frees the
  slot of a job that is about to be sent. `NoLeakedSlot` is the other direction.
  The printer's record then says that nothing is being sent while a backend runs,
  and of two further jobs one may be sent beside it.
* Two threads may start one job (`threads_assert`), and if both find the slot free,
  both send it. The second `start_sending` adds `job-outgoing` again, which takes it
  off the list, and runs a second backend in the record of the first. No third job is
  needed for that. `Threads` does not have it; it would not hurt `NoLeakedSlot`,
  `BusyWithAJob` and `NoLostWakeup`, since the slot is freed, too early, and the job
  is processing.
* `UpdateDriver` reports success when the PPD cannot be opened.
* The list of supported values is looked up with the type of a string, so no
  attribute of a new job is ever reported as unsupported.
* `CreateJob` asks the bus for the caller's user name while it holds the printer's
  lock, which the job methods avoid on purpose ("before holding the lock as it
  uses sync D-Bus calls").

## Proofs

`QueueTypeCorrect` and `SendSlotCorrect` hold for every number of jobs and faults
and every set of chain lengths, from the assumptions `QueueAssumption` (both
bounds are natural numbers) and `ChainLensAssumption` (chains have one to three
filters).

The agreement `SendSlotAgrees` speaks of moments when no handler runs, so it is
not inductive. Between two handlers the records may differ in one way: a job has
lost its `job-outgoing` reason and the notification is still on the stack. The
invariant `SlotInv` says exactly this, without mentioning the main loop:

* the slot is taken iff a reasons handler is connected, and to one job only;
* an outgoing job has that handler;
* a job with that handler is outgoing, or its `notify::state-reasons` is on the
  stack.

`TypeInv` adds that jobs are well formed (`GoodJob`): no reason twice, and
`pending_job_state` is set before any process is watched; without that the exit
callback could store a state that is none. The proof has one lemma per handler
(`OwnStateNotifyStep`, `EngineStateNotifyStep`, ...), one for all methods and
callbacks (`CallStep`) and one for `StartJob`. What those need of the job's
operations is one relation, `Quiet` in `JobOpsProofs`: the operation keeps the
job well formed, does not make it outgoing, and has queued a notification if it
changed the reasons. It is proved of each elementary change and is transitive;
`StartSending` is the only operation that is not quiet, and always announces its
reasons. The same module says what adding and removing do to any list; its theorem
`ReasonsOnce` is why the models may take *the* position of a reason.

The other three properties of the queue have a second invariant, `LiveInv`. They too
speak of moments when no handler runs, and the invariant says of every moment which
handler on the stack is going to set right what is not right yet:

* a waiting job beside an idle printer is still to be looked at, by the engine's
  handler on the job's state or by the one on the printer's (`WakeInv`);
* a busy printer has a job in processing, or one that ended and whose notification
  has not yet reached the printer's handler (`BusyInv`);
* a job whose own handler is connected has not ended, or that handler is on the stack
  (`OwnInv`).

`OneLiveBackend` follows from `SlotInv` if a running backend means that the job is
outgoing. That is not inductive, since adding a listed reason drops everything
after it and could drop `job-outgoing`. It does not, because in a job that never ended
`job-outgoing` is the *first* reason and is itself never added twice (`OutgoingFirst`);
`Follows` in `JobOpsProofs` carries this through every operation of a job. `SaneJobs`
adds that a pending job has its document spooled, so Start cannot happen to it again.
TLC checked `LiveInv` beforehand with 2 jobs and 2 faults (1.4 million states).

`PrintJobProofs` proves all safety properties of one job, and that its pump refines
`Conduit`, for any amount of data and any pipe, from `PumpAssumption` (the pipe holds
something), `MessagesAssumption` and `ChainLensAssumption`. Its invariant has three
parts.

* `JobInv`: nothing was run for a job before it is spooled, while it is pending, and
  as long as the engine is starting it (`SentOnce`), so wherever a Cancel comes in the
  start there is nothing to kill; once a process failed or was killed,
  `pending_job_state` is not completed, and what is watched is running; that carries
  `CompletedIsClean` and `StoppedNeverCompletes` over the exits, in any order.
* `PumpInv`: every chunk is in one place (`produced` is what was delivered, what is in
  the pipe and what is in the buffer), and the pump waits to write with an empty buffer
  only when the pipe is empty and closed. This is what the refinement needs: the input
  of the backend is closed only when nothing is left.
* `Explained`: as long as the job's own handler has seen no end of it and no Cancel
  was overtaken (`Seen`), the job has not ended, the state it is to have for having
  been canceled goes with the reason that says so, and the reason of a data error
  never comes before that one, so adding it again cannot cut that one off. It is what
  `FirstCancelExplained` follows from.

The refinement maps every step of the job to a step of `Conduit` or to a stutter;
`Conduit` has no fairness, so `ImplementsConduit` is proved as TLC checks it.

`PrinterReasonsProofs` proves the three properties of the printer's list for any
reasons and lines of any length. A line is applied by a fold, and so is the reference
`Filtered`; `FoldsAreLoops` says what the library's fold has computed after each
element, and `CountUp` is the induction. `EachReasonOnce` and `NoStaleReason` need each
other: a removal is complete only where the list has the reason once.

`RegistryProofs` proves all four properties of the registry, for any names,
devices and numbers of objects, from `RegistryAssumption` (the bounds are natural
numbers). `ViewsAgree` is needed to know that an id that is free in the table is
free on the bus, and that the id a printer believes to have is its key.
`JobsFindTheirPrinter` is not inductive: that the path in a job leads anywhere
follows from its printer being listed under its own id. `OwnersInv` says this:
the job's path is its printer's id, and the printer is listed or used by a call.
A printer without an id is in memory for ever, so the invariant also says that no
call ever got hold of one (`adrift`); otherwise its jobs would stay on the bus
with a path that leads to another printer. `PathsAreKept` then is a statement
about `AddPrinter` alone, and `NoGhostDevice` is inductive as it stands.

It also has `RegistryTypeCorrect`.

`ClientProofs` is about any number of threads, changes and nested calls and any
delay, from `ClientAssumption` (the delay is a positive number, the bounds are
natural numbers). `InitAgrees` needs that a caller inside the lock is alone and that
nothing is connected before the first initialization ended (`InitInv`).
`SourceIsLive`, `NothingUnannounced` and the types of the stack are inductive
together (`SignalInv`); for `RateLimited` the invariant adds that no timer has less
time left than the pause since the last emission, which is why a timer that is due
means that the pause is over. `Refinement` shows that the initial states and all steps
are those of `ChangedSignal`; its liveness is left to TLC.

`DriverProofs` proves that no default is lost and that a job gets the defaults of the
moment it is added, for any number of threads, calls and attributes, from
`DriverAssumption`. The invariant `DefaultsInv` says that a thread in the middle of
reading and setting the defaults holds the lock and has read what they still are.
For any PPD files, `BestCorrect` says that the loop over the `cupsFilter` lines keeps
the first of the cheapest complete ones. `DriverInv` gives the three properties about
the PPD: an `UpdateDriver` that is alone is the only one under way and what it has
stored is still there (`CallInv`); what was read comes from one file, the named one
when all is quiet (`FinalInv`); and a job that starts in quiet has read what the printer
still has (`StartInv`). `DriverAssumption` says that a line of a PPD has a format and a
filter that are not NULL: both are pieces of the line, which
`g_strsplit_set` allocates.

`ThreadsProofs` proves the five invariants of `Threads` for any finite set of workers
and any number of jobs and calls, from `ThreadsAssumption` (the bounds are natural
numbers, the names of the main thread and of nobody are no workers). Each theorem
assumes `EarlyClients = FALSE`, clients that wait for the reply of `CreateJob`, as the
run `threads` does; with the others `NoDeadlock` is false, which `threads_early` shows.

A thread is a sequence of instructions that calls nest in, so the invariant first
says which sequences occur. A *frame* is a position in one block of code that takes
locks of its own (a method, a handler that locks the printer, the sending of a job),
then single instructions (the rest of the emissions and job starts it is inside of),
then perhaps the end of a message of a job whose lock is still held. That one level is
enough is a fact about the code: whatever nests is called by a thaw, and a thaw comes
last in its block, except in a message, which thaws the printer while it holds its own
job, and in `CreateJob`, whose new job has nothing to announce. `Code` is the sequence a frame stands for, and the invariant speaks of a function
`f` from threads to frames.

* `Inv(f)`: the threads have to do what `f` says (`FrameInv`); a lock has the owner
  whose position says so (`LockInv`); a freeze count is the number of threads whose
  position has the object frozen (`FreezeInv`, a cardinality, which is why the workers
  have to be finitely many); what is queued or changed is frozen, and every emission
  has a thread that goes on with it (`NoteInv`); there is room for the jobs under
  creation; and the jobs fit what the threads do with them (`Fits`, `JobInv`).
  `NothingHeldBack` follows: at rest all frames are empty.
* `LockOrder` is what `NoDeadlock` follows from. Who waits for the engine's lock may
  hold the printer's or a job's, who waits for the printer's may hold a job's. Who
  waits for a job's lock holds either the printer's, and then the job is new and nobody
  else can have it locked; or that of the job whose message it handles, and then it is
  the main thread and the two jobs differ. The last is not a matter of lock order at
  all: a job with a message has a backend, and is never pending again, so it is never
  the one that is started. This is why the invariant has to follow the states of jobs,
  and why a job that `Start` has not made pending yet (`Early`) must not be started.
* `Later(f)`: what is not right yet will be set right, and by what. A taken slot has a
  job that is outgoing, will be sent, or whose reasons will be notified (`SlotInv`); a
  busy printer has a job that is or will be processing, or that ended and whose
  notification will reach the printer's handler (`BusyInv`); a job that waits beside an
  idle printer has a thread that will look for it or has found one, or its own
  notification has not reached the engine's handler (`WakeInv`). "Will be notified"
  (`Heard`) is any of: queued for a thaw, an emission to be restarted, an emission that
  has not come to that handler. A restart that went unnoticed by one of the threads
  would break it.

There are two lemmas for each action, `...Inv` and `...Later`; both name the frame the
thread is at afterwards. TLC checked both parts beforehand, with `f` computed from
`todo`, with 2 jobs and two workers (992 thousand states).

Induction over data (`BestCorrect`, the folds) is done by hand: the library gives
that a non-empty set of numbers has a least member, and the least length at which a
statement fails is led to a contradiction. The same argument shows first that the
recursive function exists.

Only model-checked: liveness (`StopEnds`, `SendingEnds`, `CallsReturn`, the liveness
part of `ImplementsChangedSignal`), which is out of the prover's reach. Every invariant,
every action property and the refinement of `Conduit` that the passing runs check are
proved.

## Not modelled

* Authorisation, daemon and `main.c`: a synchronous question to polkit before each
  method, and bus set-up. A refused call changes nothing, so the models start after
  it. For job methods the question blocks the main thread; no model has that delay,
  since between two callbacks the main thread may wait arbitrarily long anyway.
* Finalization of printers and jobs in DeletePrinter's thread beside callbacks on
  the main thread: what follows is use of freed memory, of which a model says
  nothing. `Registry` has the references, and the two steps where freed memory is
  used without a race of callbacks.
* `SetDeviceUris` sets one property without reading it. That the URI and the driver
  are read through pointers which another thread may free is listed as a hazard.
* Settle on another thread than the client's, which the code marks as a TODO, and
  the client's finalization and look-ups.
* IPP front end, command line and viewer: straight-line clients that keep nothing
  between calls. `PrintJob`, `PrintQueue` and `Threads` let clients call in any order.
* Parsing of IEEE 1284 ids, MIME detection, arguments and environment of children,
  and the wording of anything.

## Plan

Done: all modules above, and proofs of all their safety properties. Left: an abstract
printer (one user at a time) that both `PrintQueue` and `Threads` implement, and three
jobs in `Threads` for TLC.
