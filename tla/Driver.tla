------------------------------- MODULE Driver -------------------------------
(***************************************************************************)
(* What a printer's configuration is made of and what a job takes from it:  *)
(* the driver (a PPD file), the content type and final filter found in it,  *)
(* and the default attributes.                                              *)
(*                                                                         *)
(* UpdateDriver, UpdateDefaults and CreateJob each run in a thread of their *)
(* own (`calls'); a job reads the configuration on the main thread when it  *)
(* is started, the driver three times and without the printer's lock.       *)
(***************************************************************************)
EXTENDS Integers, Sequences

CONSTANTS Ppds,         \* names of PPD files
          Lines,        \* their cupsFilter lines; <<>> if there are none
          Readable,     \* the files that can be opened
          Updates,      \* arguments of UpdateDefaults and CreateJob
          Defaults,     \* attributes set by pd_printer_impl_init
          Callers,      \* threads
          MaxCalls      \* bound on method calls and on jobs started

NULL == "NULL"

\* A cupsFilter line: "source cost filter", or one with a part missing; atoi
\* takes any cost.
\* What is read from a file is never a null pointer.
Line == [complete : BOOLEAN, format : STRING \ {NULL}, cost : Int,
         filter : STRING \ {NULL}]

ASSUME DriverAssumption ==
    /\ "" \notin Ppds /\ Readable \subseteq Ppds
    /\ Lines \in [Ppds -> Seq(Line)]
    /\ "nobody" \notin Callers /\ MaxCalls \in Nat

VARIABLES driver,       \* property "driver", "" when unset
          final,        \* final_content_type and final_filter
          defaults,     \* property "defaults"
          lock,         \* who holds printer->lock
          calls,        \* what each thread is doing
          job,          \* what the job being started has read so far;
                        \* history: nobody has changed the driver meanwhile
          created,      \* the job created last: request, attributes
          left,         \* calls that can still come
          given,        \* history: the last value given to each default
          mixed         \* history: two UpdateDriver calls overlapped, and none
                        \* has run by itself since

vars == <<driver, final, defaults, lock, calls, job, created, left, given, mixed>>

Nobody == "nobody"
Idle == [call |-> "none"]
NotStarted == [step |-> "none", quiet |-> FALSE]
NotCreated == [made |-> FALSE]

-----------------------------------------------------------------------------
(* pd_printer_impl_set_driver                                               *)

\* cost < best_cost
Better(a, b) == b.cost < a.cost

\* The line kept after the first n; an incomplete line stands for none.
Best(lines) ==
    LET none == [complete |-> FALSE, format |-> "", cost |-> 0, filter |-> ""]
        best[n \in 0..Len(lines)] ==
            IF n = 0 THEN none
            ELSE IF lines[n].complete
                    /\ (~best[n - 1].complete \/ Better(best[n - 1], lines[n]))
                 THEN lines[n] ELSE best[n - 1]
    IN  best[Len(lines)]

\* The first line that is complete, whatever it costs.
FinalFirst(ppd) ==
    LET complete == {n \in 1..Len(Lines[ppd]) : Lines[ppd][n].complete}
    IN  IF complete # {}
        THEN LET n == CHOOSE n \in complete : \A k \in complete : n <= k
             IN  [content_type |-> Lines[ppd][n].format, filter |-> Lines[ppd][n].filter]
        ELSE [content_type |-> "application/vnd.cups-pdf", filter |-> NULL]

\* What is stored for a PPD; without a line there is no filter either.
Final(ppd) ==
    LET line == Best(Lines[ppd])
    IN  IF line.complete
        THEN [content_type |-> line.format, filter |-> line.filter]
        ELSE [content_type |-> "application/vnd.cups-pdf", filter |-> NULL]

Init == /\ driver = "" /\ final = [content_type |-> NULL, filter |-> NULL]
        /\ defaults = Defaults /\ given = Defaults
        /\ lock = Nobody
        /\ calls = [c \in Callers |-> Idle]
        /\ job = NotStarted /\ created = NotCreated
        /\ left = MaxCalls /\ mixed = FALSE

Updating == {c \in Callers : calls[c].call = "driver"}

Call == left > 0 /\ left' = left - 1

\* ppdOpenFile
Opens(ppd) == ppd \in Readable

\* A file that cannot be opened changes nothing, and the call succeeds.
UpdateDriverFails(c, ppd) ==
    /\ calls[c] = Idle /\ Call /\ ~Opens(ppd)
    /\ UNCHANGED <<driver, final, defaults, lock, calls, job, created, given, mixed>>

UpdateDriverReads(c, ppd) ==
    /\ calls[c] = Idle /\ Call /\ Opens(ppd)
    /\ calls' = [d \in Callers |->
                    IF d = c THEN [call |-> "driver", ppd |-> ppd, stored |-> FALSE,
                                   alone |-> Updating = {}]
                    ELSE IF d \in Updating THEN [calls[d] EXCEPT !.alone = FALSE]
                    ELSE calls[d]]
    /\ job' = [job EXCEPT !.quiet = FALSE]
    /\ UNCHANGED <<driver, final, defaults, lock, created, given, mixed>>

\* Both parts, under the lock.
UpdateDriverStores(c) ==
    /\ c \in Updating /\ ~calls[c].stored /\ lock = Nobody
    /\ final' = Final(calls[c].ppd)
    /\ calls' = [calls EXCEPT ![c].stored = TRUE]
    /\ UNCHANGED <<driver, defaults, lock, job, created, left, given, mixed>>

\* A name that is set already is kept.
NameKept(c) == driver' = IF driver = "" THEN calls[c].ppd ELSE driver

\* pd_printer_set_driver, without the lock.
NameSet(c) == driver' = calls[c].ppd

UpdateDriverNames(c) ==
    /\ c \in Updating /\ calls[c].stored
    /\ NameSet(c)
    /\ mixed' = ~calls[c].alone
    /\ calls' = [calls EXCEPT ![c] = Idle]
    /\ UNCHANGED <<final, defaults, lock, job, created, left, given>>

-----------------------------------------------------------------------------
(* Defaults and the attributes of a new job                                 *)

\* Existing values win.
UpdatesLose(attributes, updates) ==
    [k \in DOMAIN attributes \cup DOMAIN updates |->
        IF k \in DOMAIN attributes THEN attributes[k] ELSE updates[k]]

\* update_attributes: "add/overwrite default values, keeping other values"
UpdateAttributes(attributes, updates) ==
    [k \in DOMAIN attributes \cup DOMAIN updates |->
        IF k \in DOMAIN updates THEN updates[k] ELSE attributes[k]]

\* Nobody takes the lock.
LockSkipped(c) == UNCHANGED lock

LockTaken(c) == lock = Nobody /\ lock' = c

\* pd_printer_impl_do_update_defaults: read the property ...
UpdateDefaultsReads(c, updates) ==
    /\ calls[c] = Idle /\ Call /\ LockTaken(c)
    /\ calls' = [calls EXCEPT ![c] = [call |-> "defaults", updates |-> updates,
                                      current |-> defaults]]
    /\ UNCHANGED <<driver, final, defaults, job, created, given, mixed>>

\* ... and set it.
UpdateDefaultsSets(c) ==
    /\ calls[c].call = "defaults"
    /\ defaults' = UpdateAttributes(calls[c].current, calls[c].updates)
    /\ given' = [k \in DOMAIN given \cup DOMAIN calls[c].updates |->
                    IF k \in DOMAIN calls[c].updates
                    THEN calls[c].updates[k] ELSE given[k]]
    /\ lock' = Nobody
    /\ calls' = [calls EXCEPT ![c] = Idle]
    /\ UNCHANGED <<driver, final, job, created, left, mixed>>

\* pd_printer_impl_complete_create_job: the defaults are read ...
CreateJobReads(c, request) ==
    /\ calls[c] = Idle /\ Call /\ LockTaken(c)
    /\ calls' = [calls EXCEPT ![c] = [call |-> "job", request |-> request,
                                      current |-> defaults]]
    /\ UNCHANGED <<driver, final, defaults, job, created, given, mixed>>

\* ... and the job made from them.
CreateJobAdds(c) ==
    /\ calls[c].call = "job"
    /\ created' = [made |-> TRUE, request |-> calls[c].request,
                   defaults |-> given,
                   attributes |-> UpdateAttributes(calls[c].current,
                                                   calls[c].request)]
    /\ lock' = Nobody
    /\ calls' = [calls EXCEPT ![c] = Idle]
    /\ UNCHANGED <<driver, final, defaults, job, left, given, mixed>>

-----------------------------------------------------------------------------
(* A job is started: pd_job_impl_start_sending                              *)

Quiet == Updating = {} /\ ~mixed

\* The driver for the backend's environment ...
StartReadsDriver ==
    /\ job.step \in {"none", "run", "aborted"} /\ Call
    /\ job' = [step |-> "chain", backend |-> driver, quiet |-> Quiet]
    /\ UNCHANGED <<driver, final, defaults, lock, calls, created, given, mixed>>

\* ... the driver for the filters (none for a raw queue) ...
StartBuildsChain ==
    /\ job.step = "chain"
    /\ job' = [step |-> IF driver = "" THEN "run" ELSE "type",
               backend |-> job.backend, filters |-> driver,
               quiet |-> job.quiet]
    /\ UNCHANGED <<driver, final, defaults, lock, calls, created, left, given, mixed>>

\* ... pd_printer_impl_dup_final_content_type: a missing filter leaves the
\* local variable as it was found on the stack ...
StartReadsType ==
    /\ job.step = "type" /\ lock = Nobody
    /\ \E filter \in IF final.filter # NULL THEN {final.filter}
                     ELSE {NULL, "undefined"} :
        job' = [step |-> IF filter = NULL THEN "aborted" ELSE "arguments",
                backend |-> job.backend, filters |-> job.filters,
                content_type |-> final.content_type, filter |-> filter,
                quiet |-> job.quiet]
    /\ UNCHANGED <<driver, final, defaults, lock, calls, created, left, given, mixed>>

\* ... and run_cupsfilter's -p.
StartRunsCupsfilter ==
    /\ job.step = "arguments"
    /\ job' = [step |-> "run", backend |-> job.backend, filters |-> job.filters,
               content_type |-> job.content_type, filter |-> job.filter,
               ppd |-> driver, quiet |-> job.quiet]
    /\ UNCHANGED <<driver, final, defaults, lock, calls, created, left, given, mixed>>

-----------------------------------------------------------------------------
Next == \/ \E c \in Callers :
            \/ \E ppd \in Ppds : UpdateDriverFails(c, ppd) \/ UpdateDriverReads(c, ppd)
            \/ UpdateDriverStores(c) \/ UpdateDriverNames(c)
            \/ \E u \in Updates : UpdateDefaultsReads(c, u) \/ CreateJobReads(c, u)
            \/ UpdateDefaultsSets(c) \/ CreateJobAdds(c)
        \/ StartReadsDriver \/ StartBuildsChain \/ StartReadsType
        \/ StartRunsCupsfilter

Spec == Init /\ [][Next]_vars

-----------------------------------------------------------------------------
\* The reference: the first line of the lowest cost.
IsCheapest(lines, n) ==
    /\ lines[n].complete
    /\ \A m \in 1..Len(lines) :
        lines[m].complete => \/ lines[n].cost < lines[m].cost
                             \/ lines[n].cost = lines[m].cost /\ n <= m

Matches(ppd, content_type, filter) ==
    LET lines == Lines[ppd]
        complete == {n \in 1..Len(lines) : lines[n].complete}
    IN  IF complete = {}
        THEN content_type = "application/vnd.cups-pdf" /\ filter \in {NULL, "undefined"}
        ELSE \E n \in complete : /\ IsCheapest(lines, n)
                                 /\ content_type = lines[n].format
                                 /\ filter = lines[n].filter

\* Content type and filter always come from one PPD, and are those of its
\* cheapest line, the first one where several cost the same.
FinalFromOnePpd ==
    final.content_type # NULL =>
        \E ppd \in Readable : Matches(ppd, final.content_type, final.filter)

\* The driver's name and what was read from the driver agree once no
\* UpdateDriver is under way, unless the last one to finish overlapped another;
\* any call that runs by itself repairs that.
DriverAgrees ==
    Quiet => IF driver = "" THEN final.content_type = NULL
             ELSE Matches(driver, final.content_type, final.filter)

\* A job that starts while nobody changes the driver gives the filters, the
\* backend and cupsfilter one PPD and asks cupsfilter for the type and runs the
\* filter of that PPD, although it reads the driver three times.  Only a PPD
\* without a cupsFilter line leaves the filter undefined.
JobUsesOnePpd ==
    job.step = "run" /\ job.quiet =>
        /\ job.filters = job.backend
        /\ job.filters # "" =>
            /\ job.ppd = job.filters
            /\ Matches(job.ppd, job.content_type, job.filter)

\* No update of the defaults is lost, though every call reads the property and
\* sets all of it: each attribute has the value given to it last.
NoLostDefault == defaults = given

\* The attributes of a job are what was asked for and, for the rest, the
\* defaults at the moment the job is added.
JobGetsDefaults ==
    created.made =>
        \A k \in DOMAIN created.request \cup DOMAIN created.defaults :
            created.attributes[k] =
                IF k \in DOMAIN created.request THEN created.request[k]
                ELSE created.defaults[k]

=============================================================================
