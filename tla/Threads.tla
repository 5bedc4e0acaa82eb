------------------------------ MODULE Threads -------------------------------
(***************************************************************************)
(* The threads of the daemon at the level of its mutexes and of GObject's   *)
(* notifications.  Methods and callbacks of jobs run on the main thread,    *)
(* methods of the printer in worker threads.  There is one printer, object  *)
(* 0, and its jobs 1, 2...  The mutexes are the engine's and one for each   *)
(* object; none is recursive.                                               *)
(*                                                                         *)
(* A thread is the sequence of instructions it has still to execute         *)
(* (`todo'); a method is a sequence of instructions, and an instruction     *)
(* that calls something puts the callee's instructions in front.            *)
(*                                                                         *)
(* An object is locked, frozen, changed, unlocked and thawed: the thread    *)
(* that brings the freeze count to zero emits notify::state if any thread   *)
(* has changed the state in the meantime.  An emission that is already      *)
(* under way, in any thread, is restarted and not nested.                   *)
(*                                                                         *)
(* Processes and channels that fail are left to PrintQueue.                 *)
(***************************************************************************)
EXTENDS Naturals, Sequences, FiniteSets

CONSTANTS Workers,      \* worker threads of the printer's methods
          MaxJobs,      \* bound on the jobs created
          MaxCalls,     \* bound on Cancel and UpdateDefaults calls and messages
          EarlyClients  \* a client may use a job it saw appear on the bus
                        \* before CreateJob has returned its path

ASSUME ThreadsAssumption ==
    /\ IsFiniteSet(Workers) /\ "main" \notin Workers /\ "nobody" \notin Workers
    /\ MaxJobs \in Nat /\ MaxCalls \in Nat /\ EarlyClients \in BOOLEAN

VARIABLES todo,         \* what each thread has still to execute
          owner,        \* who holds each mutex
          frozen,       \* freeze counts of the objects
          queued,       \* objects whose notify::state waits for the thaw
          emission,     \* of notify::state of each object
          printer,      \* its "state" and "job-outgoing" properties
          jobs,         \* printer->jobs, in order of creation
          calls,        \* calls and messages that can still come
          up            \* no assertion has failed

locks == <<owner, calls, up>>
notes == <<frozen, queued, emission>>
vars == <<todo, locks, notes, printer, jobs>>

Threads == {"main"} \cup Workers
Objects == 0..MaxJobs
Ids == 1..Len(jobs)
Engine == MaxJobs + 1
Locks == Objects \cup {Engine}
Nobody == "nobody"
Terminal == {"canceled", "completed"}

Instruction(op, x) == <<[op |-> op, on |-> x, handler |-> 0]>>
Run(o, n) == <<[op |-> "run", on |-> o, handler |-> n]>>
Lock(o) == Instruction("lock", o)
Unlock(o) == Instruction("unlock", o)
\* The mutex is held for nothing but a look-up.
LockBriefly(o) == Instruction("brief", o)

-----------------------------------------------------------------------------
(* The methods and handlers, as the instructions they execute               *)

\* g_mutex_lock (&object->lock), g_object_freeze_notify (object)
Enter(o) == Lock(o) \o Instruction("freeze", o)

\* The notifications go out before the mutex is released.
ThawFirst(o) == Instruction("thaw", o) \o Unlock(o)

\* Every change of an object ends so: unlock, then thaw.
Leave(o) == Unlock(o) \o Instruction("thaw", o)

\* pd_engine_get_printer_by_path
GetPrinter == LockBriefly(Engine)

\* An early return that forgets to thaw.
TouchFrozen == Enter(0) \o Unlock(0)

\* pd_printer_impl_do_update_defaults, pd_printer_impl_add_state_reason and
\* pd_printer_impl_remove_state_reason
Touch == Enter(0) \o Leave(0)

\* The callbacks on notify::state.  Of a job: pd_job_impl_job_state_notify,
\* pd_engine_job_state_notify, pd_printer_impl_job_state_notify.
Handlers(o) ==
    IF o = 0 THEN << Instruction("look", o) >>
    ELSE << Instruction("tidy", o),
            Instruction("engine", o),
            Enter(0) \o Instruction("free", o) \o Leave(0) >>

\* pd_printer_impl_get_next_job, and the engine's use of what it returns.
NextJob == Lock(0) \o Instruction("next", 0)

\* pd_engine_start_job
StartJob(j) ==
    Instruction("busy", j) \o Instruction("process", j) \o Instruction("test", j)

\* pd_job_impl_start_sending, with pd_job_impl_start_processing
\* and pd_printer_impl_dup_final_content_type
StartSending(j) ==
    GetPrinter \o Enter(j) \o GetPrinter \o LockBriefly(0)
        \o Instruction("send", j) \o Leave(j)

\* pd_printer_impl_complete_create_job, up to pd_engine_add_job
CreateJob == Enter(0) \o Lock(Engine) \o Instruction("create", 0)

\* ... and what follows pd_engine_add_job, with pd_job_impl_set_attribute
Announce(j) == Enter(j) \o Instruction("own", j) \o Leave(j)
                   \o Instruction("reply", j) \o Leave(0)

\* pd_job_impl_start, pd_job_impl_cancel, pd_job_impl_process_watch_cb
JobMethod(op, j) == Enter(j) \o Instruction(op, j) \o Leave(j)

\* pd_job_impl_message_io_cb, with one STATE: line
Message(j) == Enter(j) \o Touch \o Leave(j)

-----------------------------------------------------------------------------
Init == /\ todo = [t \in Threads |-> <<>>]
        /\ owner = [l \in Locks |-> Nobody]
        /\ frozen = [o \in Objects |-> 0]
        /\ queued = {}
        /\ emission = [o \in Objects |-> "none"]
        /\ printer = [state |-> "idle", job_outgoing |-> FALSE]
        /\ jobs = <<>> /\ calls = MaxCalls /\ up = TRUE

\* A call or a callback arrives at a thread that has nothing to do.
Begins(t, program) ==
    /\ up /\ todo[t] = <<>>
    /\ todo' = [todo EXCEPT ![t] = program]
    /\ UNCHANGED <<owner, up, notes, printer, jobs>>

\* The jobs there are and those under creation.
Creating == {w \in Workers : \E i \in 1..Len(todo[w]) : todo[w][i].op = "create"}

CallCreateJob(w) ==
    /\ Len(jobs) + Cardinality(Creating) < MaxJobs
    /\ Begins(w, CreateJob) /\ UNCHANGED calls

CallUpdateDefaults(w) ==
    /\ calls > 0 /\ calls' = calls - 1
    /\ Begins(w, Touch)

Known(j) == EarlyClients \/ jobs[j].answered

\* The document is added before: AddDocument takes the job's lock alone.
CallStart(j) ==
    /\ Known(j) /\ ~jobs[j].started
    /\ Begins("main", JobMethod("start", j)) /\ UNCHANGED calls

CallCancel(j) ==
    /\ Known(j) /\ Begins("main", JobMethod("cancel", j))
    /\ calls > 0 /\ calls' = calls - 1

BackendExits(j) ==
    /\ jobs[j].running
    /\ Begins("main", JobMethod("exit", j)) /\ UNCHANGED calls

MessageArrives(j) ==
    /\ jobs[j].running /\ calls > 0 /\ calls' = calls - 1
    /\ Begins("main", Message(j))

-----------------------------------------------------------------------------
(* Mutexes and notifications                                                *)

Executes(t, op) == up /\ todo[t] # <<>> /\ Head(todo[t]).op = op
On(t) == Head(todo[t]).on
Rest(t) == Tail(todo[t])
Goes(t, program) == todo' = [todo EXCEPT ![t] = program]

Acquires(t) ==
    /\ Executes(t, "lock") /\ owner[On(t)] = Nobody
    /\ owner' = [owner EXCEPT ![On(t)] = t]
    /\ Goes(t, Rest(t)) /\ UNCHANGED <<calls, up, notes, printer, jobs>>

AcquiresBriefly(t) ==
    /\ Executes(t, "brief") /\ owner[On(t)] = Nobody
    /\ Goes(t, Rest(t)) /\ UNCHANGED <<locks, notes, printer, jobs>>

Releases(t) ==
    /\ Executes(t, "unlock")
    /\ owner' = [owner EXCEPT ![On(t)] = Nobody]
    /\ Goes(t, Rest(t)) /\ UNCHANGED <<calls, up, notes, printer, jobs>>

Freezes(t) ==
    /\ Executes(t, "freeze")
    /\ frozen' = [frozen EXCEPT ![On(t)] = @ + 1]
    /\ Goes(t, Rest(t)) /\ UNCHANGED <<locks, queued, emission, printer, jobs>>

\* A change during an emission is not announced again.
EmitOnce(t, o, rest) ==
    IF emission[o] = "none"
    THEN /\ emission' = [emission EXCEPT ![o] = "on"]
         /\ Goes(t, Run(o, 1) \o rest)
    ELSE Goes(t, rest) /\ UNCHANGED emission

\* Emit notify::state of o, or have the emission under way restarted.
Emit(t, o, rest) ==
    IF emission[o] = "none"
    THEN /\ emission' = [emission EXCEPT ![o] = "on"]
         /\ Goes(t, Run(o, 1) \o rest)
    ELSE /\ emission' = [emission EXCEPT ![o] = "restart"]
         /\ Goes(t, rest)

\* The state of o is set, to another value or not.
Notify(t, o, rest) ==
    IF frozen[o] > 0
    THEN /\ queued' = queued \cup {o}
         /\ Goes(t, rest) /\ UNCHANGED <<frozen, emission>>
    ELSE Emit(t, o, rest) /\ UNCHANGED <<frozen, queued>>

\* The state is announced first, then the reasons.
Thaws(t) ==
    LET o == On(t)
        last == frozen[o] = 1
        reasons == last /\ o \in Ids /\ jobs[o].changed
        rest == (IF reasons THEN Instruction("reasons", o) ELSE <<>>) \o Rest(t)
    IN  /\ Executes(t, "thaw")
        /\ frozen' = [frozen EXCEPT ![o] = @ - 1]
        /\ jobs' = IF reasons THEN [jobs EXCEPT ![o].changed = FALSE] ELSE jobs
        /\ IF last /\ o \in queued
           THEN queued' = queued \ {o} /\ Emit(t, o, rest)
           ELSE Goes(t, rest) /\ UNCHANGED <<queued, emission>>
        /\ UNCHANGED <<locks, printer>>

\* The emission comes to its next handler, starts again or ends.
Runs(t) ==
    LET o == On(t)
        n == Head(todo[t]).handler
    IN  /\ Executes(t, "run")
        /\ IF emission[o] = "restart"
           THEN /\ emission' = [emission EXCEPT ![o] = "on"]
                /\ Goes(t, Run(o, 1) \o Rest(t))
           ELSE IF n <= Len(Handlers(o))
           THEN /\ Goes(t, Handlers(o)[n] \o Run(o, n + 1) \o Rest(t))
                /\ UNCHANGED emission
           ELSE /\ emission' = [emission EXCEPT ![o] = "none"]
                /\ Goes(t, Rest(t))
        /\ UNCHANGED <<locks, frozen, queued, printer, jobs>>

-----------------------------------------------------------------------------
(* The printer's state                                                      *)

\* pd_engine_printer_state_notify looks at the printer ...
Looks(t) ==
    /\ Executes(t, "look")
    /\ Goes(t, (IF printer.state = "idle" THEN NextJob ELSE <<>>) \o Rest(t))
    /\ UNCHANGED <<locks, notes, printer, jobs>>

Pending == {k \in Ids : jobs[k].state = "pending"}

\* ... pd_printer_impl_get_next_job finds the first pending job ...
Nexts(t) ==
    /\ Executes(t, "next")
    /\ \/ Pending = {} /\ Goes(t, Unlock(0) \o Rest(t))
       \/ \E k \in Pending :
            /\ \A i \in Pending : k <= i
            /\ Goes(t, Unlock(0) \o Instruction("assert", k) \o StartJob(k)
                           \o Rest(t))
    /\ UNCHANGED <<locks, notes, printer, jobs>>

\* ... and g_assert looks at the job again.
Asserts(t) ==
    /\ Executes(t, "assert")
    /\ up' = (jobs[On(t)].state = "pending")
    /\ Goes(t, Rest(t)) /\ UNCHANGED <<owner, calls, notes, printer, jobs>>

\* pd_engine_start_job: the printer's state, the job's state ...
Busies(t) ==
    /\ Executes(t, "busy")
    /\ printer' = [printer EXCEPT !.state = "processing"]
    /\ Notify(t, 0, Rest(t))
    /\ UNCHANGED <<locks, jobs>>

Processes(t) ==
    /\ Executes(t, "process")
    /\ jobs' = [jobs EXCEPT ![On(t)].state = "processing"]
    /\ Notify(t, On(t), Rest(t))
    /\ UNCHANGED <<locks, printer>>

\* ... and the sending slot, read here and taken below.
Tests(t) ==
    LET j == On(t)
    IN  /\ Executes(t, "test")
        /\ Goes(t, (IF printer.job_outgoing THEN <<>>
                    ELSE Instruction("claim", j) \o StartSending(j)) \o Rest(t))
        /\ UNCHANGED <<locks, notes, printer, jobs>>

Claims(t) ==
    /\ Executes(t, "claim")
    /\ printer' = [printer EXCEPT !.job_outgoing = TRUE]
    /\ jobs' = [jobs EXCEPT ![On(t)].sending = TRUE]
    /\ Goes(t, Rest(t)) /\ UNCHANGED <<locks, notes>>

\* A job has one backend here, also when two threads send it.
Sends(t) ==
    /\ Executes(t, "send")
    /\ jobs' = [jobs EXCEPT ![On(t)].running = TRUE, ![On(t)].outgoing = TRUE,
                            ![On(t)].backend_started = TRUE,
                            ![On(t)].changed = TRUE]
    /\ Goes(t, Rest(t)) /\ UNCHANGED <<locks, notes, printer>>

-----------------------------------------------------------------------------
(* The handlers on a job's state                                            *)

\* A job that is canceled keeps the printer.
Completed(j) == jobs[j].state = "completed"

Ended(j) == jobs[j].state \in Terminal

\* pd_job_impl_job_state_notify changes the reasons of a job that has ended,
\* once; they are notified now, or with the thaw.
Tidies(t) ==
    LET j == On(t)
        tidies == jobs[j].own /\ Ended(j)
    IN  /\ Executes(t, "tidy")
        /\ jobs' = [jobs EXCEPT ![j].own = @ /\ ~tidies,
                                ![j].changed = @ \/ (tidies /\ frozen[j] > 0)]
        /\ Goes(t, (IF tidies /\ frozen[j] = 0
                    THEN Instruction("reasons", j) ELSE <<>>) \o Rest(t))
        /\ UNCHANGED <<locks, notes, printer>>

\* Only a job that came to its own end gives the slot back.
GoneWhenEnded(j) == jobs[j].sending /\ ~jobs[j].outgoing /\ jobs[j].state = "completed"

\* "Job no longer outgoing"
NoLongerOutgoing(j) == jobs[j].sending /\ ~jobs[j].outgoing

\* pd_engine_job_state_reasons_notify, while it is connected
Reasons(t) ==
    LET j == On(t)
        gone == NoLongerOutgoing(j)
    IN  /\ Executes(t, "reasons")
        /\ printer' = [printer EXCEPT !.job_outgoing = @ /\ ~gone]
        /\ jobs' = [jobs EXCEPT ![j].sending = @ /\ ~gone]
        /\ Goes(t, Rest(t)) /\ UNCHANGED <<locks, notes>>

\* pd_engine_job_state_notify, while it is connected
Engines(t) ==
    LET j == On(t)
        starts == /\ jobs[j].watched /\ jobs[j].state = "pending"
                  /\ printer.state = "idle"
    IN  /\ Executes(t, "engine")
        /\ jobs' = [jobs EXCEPT ![j].watched =
                        @ /\ ~starts /\ jobs[j].state \in {"pending", "pending-held"}]
        /\ Goes(t, (IF starts THEN StartJob(j) ELSE <<>>) \o Rest(t))
        /\ UNCHANGED <<locks, notes, printer>>

\* pd_printer_impl_job_state_notify, under the printer's lock and frozen
Frees(t) ==
    /\ Executes(t, "free")
    /\ IF Ended(On(t)) /\ printer.state = "processing"
       THEN printer' = [printer EXCEPT !.state = "idle"] /\ Notify(t, 0, Rest(t))
       ELSE Goes(t, Rest(t)) /\ UNCHANGED <<printer, notes>>
    /\ UNCHANGED <<locks, jobs>>

-----------------------------------------------------------------------------
(* The methods, under the lock of their object                              *)

NewJob ==
    [state |-> "pending-held",
     owned |-> FALSE,           \* job-originating-user-name is set
     answered |-> FALSE,        \* CreateJob has returned its path
     started |-> FALSE,         \* Start has spooled the document
     own |-> TRUE,              \* pd_job_impl_job_state_notify is connected
     watched |-> TRUE,          \* pd_engine_job_state_notify is connected
     sending |-> FALSE,         \* pd_engine_job_state_reasons_notify is
     outgoing |-> FALSE,        \* job-outgoing is among its reasons
     changed |-> FALSE,         \* notify::state-reasons waits for the thaw
     backend_started |-> FALSE,
     running |-> FALSE]         \* its backend has not exited

Creates(t) ==
    /\ Executes(t, "create")
    /\ jobs' = Append(jobs, NewJob)
    /\ Goes(t, Unlock(Engine) \o Announce(Len(jobs) + 1))
    /\ UNCHANGED <<locks, notes, printer>>

Owns(t) ==
    /\ Executes(t, "own")
    /\ jobs' = [jobs EXCEPT ![On(t)].owned = TRUE]
    /\ Goes(t, Rest(t)) /\ UNCHANGED <<locks, notes, printer>>

Replies(t) ==
    /\ Executes(t, "reply")
    /\ jobs' = [jobs EXCEPT ![On(t)].answered = TRUE]
    /\ Goes(t, Rest(t)) /\ UNCHANGED <<locks, notes, printer>>

\* Reasons and state of j are set, both under the freeze.
SetsState(t, j, state) ==
    /\ jobs' = [jobs EXCEPT ![j].state = state, ![j].changed = TRUE]
    /\ Notify(t, j, Rest(t))

\* Without an owner the caller is "Not job owner".
Denied(t) == ~jobs[On(t)].owned

\* pd_job_impl_start: the document is spooled and its type looked up ...
Starts(t) ==
    LET j == On(t)
    IN  /\ Executes(t, "start")
        /\ IF Denied(t) THEN Goes(t, Rest(t)) /\ UNCHANGED jobs
           ELSE /\ jobs' = [jobs EXCEPT ![j].started = TRUE]
                /\ Goes(t, GetPrinter \o Instruction("pend", j) \o Rest(t))
        /\ UNCHANGED <<locks, notes, printer>>

\* ... and it becomes a candidate.
Pends(t) ==
    /\ Executes(t, "pend") /\ SetsState(t, On(t), "pending")
    /\ UNCHANGED <<locks, printer>>

\* pd_job_impl_cancel, of a job that has not ended: a reason is added; one that
\* was sent ends by the exit of its backend, any other at once.
Cancels(t) ==
    LET j == On(t)
    IN  /\ Executes(t, "cancel")
        /\ IF Denied(t) \/ jobs[j].state \in Terminal
           THEN Goes(t, Rest(t)) /\ UNCHANGED <<notes, jobs>>
           ELSE IF jobs[j].state = "processing" /\ jobs[j].backend_started
           THEN /\ jobs' = [jobs EXCEPT ![j].changed = TRUE]
                /\ Goes(t, Rest(t)) /\ UNCHANGED notes
           ELSE SetsState(t, j, "canceled")
        /\ UNCHANGED <<locks, printer>>

\* pd_job_impl_process_watch_cb, of the last process; "completed" stands for
\* whichever terminal state pending_job_state holds.
Exits(t) ==
    LET j == On(t)
    IN  /\ Executes(t, "exit")
        /\ jobs' = [jobs EXCEPT ![j].running = FALSE, ![j].outgoing = FALSE,
                                ![j].changed = TRUE, ![j].state = "completed"]
        /\ Notify(t, j, Rest(t))
        /\ UNCHANGED <<locks, printer>>

-----------------------------------------------------------------------------
Step(t) == \/ Acquires(t) \/ AcquiresBriefly(t) \/ Releases(t)
           \/ Freezes(t) \/ Thaws(t) \/ Runs(t)
           \/ Looks(t) \/ Nexts(t) \/ Asserts(t) \/ Busies(t) \/ Processes(t)
           \/ Tests(t) \/ Claims(t) \/ Sends(t) \/ Tidies(t) \/ Reasons(t)
           \/ Engines(t) \/ Frees(t) \/ Creates(t) \/ Owns(t) \/ Replies(t)
           \/ Starts(t) \/ Pends(t) \/ Cancels(t) \/ Exits(t)

Next == \/ \E w \in Workers : CallCreateJob(w) \/ CallUpdateDefaults(w)
        \/ \E j \in Ids : CallStart(j) \/ CallCancel(j) \/ BackendExits(j)
                            \/ MessageArrives(j)
        \/ \E t \in Threads : Step(t)

\* Some thread that can get on does.  The calls are bounded, so this is all
\* that is needed of the scheduler.
Spec == Init /\ [][Next]_vars /\ WF_vars(\E t \in Threads : Step(t))

-----------------------------------------------------------------------------
AtRest == up /\ \A t \in Threads : todo[t] = <<>>

Waits(t, l) ==
    todo[t] # <<>> /\ Head(todo[t]) \in {Lock(l)[1], LockBriefly(l)[1]}

\* No thread ever waits for itself or for threads that wait for it: the
\* handlers that run when a printer or a job is thawed take the locks of both,
\* in whichever thread they happen to run.
NoDeadlock ==
    \A T \in (SUBSET Threads) \ {{}} :
        ~ \A t \in T : \E l \in Locks : Waits(t, l) /\ owner[l] \in T

\* When all is quiet and the printer idle, no job waits in the queue: the end
\* of one job, announced by a worker that happens to thaw the printer, is not
\* lost on the next.
NoLostWakeup ==
    AtRest /\ printer.state = "idle" =>
        \A j \in Ids : ~(jobs[j].watched /\ jobs[j].state = "pending")

\* When all is quiet a busy printer has a job that is being processed.
BusyWithAJob ==
    AtRest /\ printer.state = "processing" =>
        \E j \in Ids : jobs[j].state = "processing"

\* When all is quiet the sending slot is taken only by a job that is outgoing:
\* a slot that nobody gives back would stop the printer for good.
NoLeakedSlot ==
    AtRest /\ printer.job_outgoing => \E j \in Ids : jobs[j].outgoing

\* Every call is answered: all threads finish what they have to do.
CallsReturn == []<>(~up \/ \A t \in Threads : todo[t] = <<>>)

\* The daemon goes quiet with nothing held back: no mutex is locked, no object
\* is still frozen, and every change has been announced.  Whoever freezes an
\* object thaws it, though the freezes of several threads overlap.
NothingHeldBack ==
    AtRest => /\ \A l \in Locks : owner[l] = Nobody
              /\ \A o \in Objects : frozen[o] = 0 /\ emission[o] = "none"
              /\ queued = {} /\ \A j \in Ids : ~jobs[j].changed

\* "To print a file, the Printer object's CreateJob method is called.  This
\* returns an object path for the new job."
CreateJobReturns ==
    \A w \in Workers : w \in Creating ~> (~up \/ todo[w] = <<>>)

\* "g_assert (pd_job_get_state (job) == PD_JOB_STATE_PENDING)"
NextJobIsPending == up

=============================================================================
