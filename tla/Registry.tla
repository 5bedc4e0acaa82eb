------------------------------ MODULE Registry ------------------------------
(***************************************************************************)
(* The engine's registry: printers and USB devices, each kept twice, in a   *)
(* hash table of the engine and as an object on the bus.  Requests reach an *)
(* object through the bus; the engine, and the jobs of a printer, find it   *)
(* in the hash table by the last part of its path.                          *)
(*                                                                         *)
(* CreatePrinter and DeletePrinter run in threads of their own.  The engine *)
(* lock is held for the part that changes the registry, which is one action *)
(* here; what a call does after it has unlocked is another.  A method of a  *)
(* printer keeps the printer in memory until it returns, so a printer that  *)
(* was deleted is finalized by the last call that still uses it.            *)
(*                                                                         *)
(* An id is the sequence of words that "_" joins.                           *)
(***************************************************************************)
EXTENDS Integers, Sequences

CONSTANTS Names,        \* names clients give: [words, sep]
          SuffixLimit,  \* the first suffix that is not tried (1000)
          Ports,        \* sysfs paths of USB printer interfaces
          Fields,       \* IEEE 1284 fields of a device: [mfg, mdl, sn], each a
                        \* sequence of words, empty if the field is absent
          MaxPrinters, MaxJobs      \* bounds on the objects created

ASSUME RegistryAssumption ==
    /\ SuffixLimit \in Nat /\ MaxPrinters \in Nat /\ MaxJobs \in Nat

VARIABLES ids,              \* ids[p]: printer->id of the p-th printer created
          id_to_printer,    \* hash table of the engine
          printer_bus,      \* printers on the bus, by the id in their path
          adrift,           \* printers that found no id: in memory, nowhere listed
          creating,         \* printers whose CreatePrinter call has not returned
          deleting,         \* printers DeletePrinter has unlisted and still uses
          calls,            \* printers that have a call of a method under way
          jobs,             \* jobs[j]: the printer that owns it, its "printer" path
          job_bus,          \* jobs on the bus
          path_to_device,   \* hash table of the engine, by port
          device_bus,       \* devices on the bus, by the id in their path
          up                \* the daemon runs

printerVars == <<ids, id_to_printer, printer_bus, adrift, creating, deleting>>
jobVars == <<calls, jobs, job_bus>>
deviceVars == <<path_to_device, device_bus>>
vars == <<printerVars, jobVars, deviceVars, up>>

Printers == 1..Len(ids)
Values(f) == {f[x] : x \in DOMAIN f}
Put(f, k, v) == [x \in DOMAIN f \cup {k} |-> IF x = k THEN v ELSE f[x]]
Without(f, k) == [x \in DOMAIN f \ {k} |-> f[x]]

Init == /\ ids = <<>> /\ id_to_printer = <<>> /\ printer_bus = <<>>
        /\ adrift = {} /\ creating = {} /\ deleting = {}
        /\ calls = {} /\ jobs = <<>> /\ job_bus = {}
        /\ path_to_device = <<>> /\ device_bus = <<>>
        /\ up = TRUE

-----------------------------------------------------------------------------
(* Printers                                                                 *)

\* pd_printer_impl_get_id: whatever separates the words becomes "_".
CanonId(name) == name.words

Taken(id) == id \in DOMAIN id_to_printer
FreeSuffixes(base) ==
    {i \in 2..(SuffixLimit - 1) : ~Taken(Append(base, i))}

\* The first suffix is used without looking it up.
NewIdsUnchecked(base) ==
    IF ~Taken(base) THEN {base} ELSE {Append(base, 2)}

\* The id a printer gets: its own, or with the least suffix that is free;
\* none if the search gives up.
NewIds(base) ==
    IF ~Taken(base) THEN {base}
    ELSE {Append(base, i) : i \in {k \in FreeSuffixes(base) :
                                      \A l \in FreeSuffixes(base) : k <= l}}

\* The call of pd_printer_impl_set_id is forgotten.
StoredIdUnset(base, id) == base

\* pd_printer_impl_set_id: what the printer takes its own id to be.
StoredId(base, id) == id

\* pd_engine_add_printer: list the printer and export it.  A driver that
\* cannot be set changes nothing.
AddPrinter(name) ==
    /\ Len(ids) < MaxPrinters
    /\ \E id \in NewIds(CanonId(name)) :
         /\ ids' = Append(ids, StoredId(CanonId(name), id))
         /\ id_to_printer' = Put(id_to_printer, id, Len(ids) + 1)
         /\ printer_bus' = Put(printer_bus, id, Len(ids) + 1)
    /\ creating' = creating \cup {Len(ids) + 1}
    /\ UNCHANGED <<adrift, deleting, jobVars, deviceVars, up>>

\* No id is free: the printer is returned all the same, neither listed nor
\* exported, with the id of another printer.  The string of the last attempt
\* is freed twice, which may end the daemon.
AddPrinterWithoutId(name) ==
    /\ Len(ids) < MaxPrinters
    /\ NewIds(CanonId(name)) = {}
    /\ ids' = Append(ids, CanonId(name))
    /\ adrift' = adrift \cup {Len(ids) + 1}
    /\ creating' = creating \cup {Len(ids) + 1}
    /\ up' \in BOOLEAN
    /\ UNCHANGED <<id_to_printer, printer_bus, deleting, jobVars, deviceVars>>

\* Calls that hold a reference to the printer; CreatePrinter holds none.
Users == calls \cup deleting

\* Printers in memory: the hash table and the object on the bus hold one too,
\* and nobody drops that of a printer adrift.
Alive == Values(id_to_printer) \cup Values(printer_bus) \cup Users \cup adrift

\* The rest of CreatePrinter, of the manager or of a device, after the unlock:
\* device URIs, defaults, the reply.  If the printer was deleted and finalized
\* in between, these use freed memory.
CompleteCreatePrinter(p) ==
    /\ p \in creating
    /\ creating' = creating \ {p}
    /\ up' \in IF p \in Alive THEN {TRUE} ELSE BOOLEAN
    /\ UNCHANGED <<ids, id_to_printer, printer_bus, adrift, deleting, jobVars,
                   deviceVars>>

\* The finalizer forgets the printer's jobs.
OwnedForever(exported) == exported

\* pd_printer_impl_finalize takes the jobs of a printer off the bus; those
\* of a printer that is still referenced stay.
Owned(exported) == {j \in exported : jobs[j].printer \in Alive'}

\* pd_engine_remove_printer for an object path that is on the bus, as long as
\* it holds the lock; any other path changes nothing.
RemovePrinter(id) ==
    /\ id \in DOMAIN printer_bus
    /\ printer_bus' = Without(printer_bus, id)
    /\ id_to_printer' = Without(id_to_printer, ids[printer_bus[id]])
    /\ deleting' = deleting \cup {printer_bus[id]}
    /\ UNCHANGED <<ids, adrift, creating, jobVars, deviceVars, up>>

\* Its last lines, after the unlock: the references it took are dropped.
CompleteRemovePrinter(p) ==
    /\ p \in deleting
    /\ deleting' = deleting \ {p}
    /\ UNCHANGED <<ids, id_to_printer, printer_bus, adrift, creating, calls, jobs,
                   deviceVars, up>>
    /\ job_bus' = Owned(job_bus)

\* The same for an object that is no printer, such as the manager: the id of
\* a null printer is asked for.
RemoveOtherObject ==
    /\ up' = FALSE
    /\ UNCHANGED <<printerVars, jobVars, deviceVars>>

-----------------------------------------------------------------------------
(* Methods of a printer, each in its own thread                             *)

\* The bus dispatches a call and holds the printer.  One call for each printer
\* stands for all that are under way.
CallBegins(p) ==
    /\ p \in Values(printer_bus) \ calls
    /\ calls' = calls \cup {p}
    /\ UNCHANGED <<printerVars, jobs, job_bus, deviceVars, up>>

\* The counter is incremented before it is used.
NextJobIdSkipping == Len(jobs) + 2

\* next_job_id.
NextJobId == Len(jobs) + 1

\* pd_printer_impl_complete_create_job: the job is told the path of its
\* printer, is exported and joins the printer's array.
CreateJob(p) ==
    /\ p \in calls /\ Len(jobs) < MaxJobs
    /\ jobs' = Append(jobs, [printer |-> p, path |-> ids[p]])
    /\ job_bus' = job_bus \cup {NextJobId}
    /\ UNCHANGED <<printerVars, calls, deviceVars, up>>

\* The call returns and lets go of the printer.
CallEnds(p) ==
    /\ p \in calls
    /\ calls' = calls \ {p}
    /\ UNCHANGED <<printerVars, jobs, deviceVars, up>>
    /\ job_bus' = Owned(job_bus)

-----------------------------------------------------------------------------
(* Devices                                                                  *)

\* pd_device_impl_get_id.
DeviceId(fields) ==
    LET words == fields.mfg \o fields.mdl \o fields.sn
    IN IF words = <<>> THEN <<"unknown-device">> ELSE words

Device(port, fields) == [port |-> port, fields |-> fields]

\* "add": pd_engine_device_add exports the device in place of what was at its
\* path.  A port is announced again at start-up only with the device it has;
\* interfaces that are no printers, or have no id to read, change nothing.
AddDevice(port, fields) ==
    /\ port \in DOMAIN path_to_device => path_to_device[port].fields = fields
    /\ device_bus' = Put(device_bus, DeviceId(fields), Device(port, fields))
    /\ path_to_device' = Put(path_to_device, port, Device(port, fields))
    /\ UNCHANGED <<printerVars, jobVars, up>>

\* The object is left on the bus.
UnexportNothing(fields) == device_bus

\* pd_engine_device_remove: whatever is exported at the device's path goes.
Unexport(fields) == Without(device_bus, DeviceId(fields))

\* "remove" of a port the engine knows.
RemoveDevice(port) ==
    /\ port \in DOMAIN path_to_device
    /\ device_bus' = Unexport(path_to_device[port].fields)
    /\ path_to_device' = Without(path_to_device, port)
    /\ UNCHANGED <<printerVars, jobVars, up>>

-----------------------------------------------------------------------------
Next == /\ up
        /\ \/ \E name \in Names : AddPrinter(name) \/ AddPrinterWithoutId(name)
           \/ \E p \in Printers :
                 \/ CompleteCreatePrinter(p) \/ CompleteRemovePrinter(p)
                 \/ CallBegins(p) \/ CreateJob(p) \/ CallEnds(p)
           \/ \E id \in DOMAIN printer_bus : RemovePrinter(id)
           \/ RemoveOtherObject
           \/ \E port \in Ports : \/ RemoveDevice(port)
                                  \/ \E fields \in Fields : AddDevice(port, fields)

Spec == Init /\ [][Next]_vars

-----------------------------------------------------------------------------
\* Tables and sets only name objects that exist.
TypeOK == /\ Values(id_to_printer) \cup Values(printer_bus) \cup adrift
                \cup creating \cup Users \subseteq Printers
          /\ \A j \in DOMAIN jobs : jobs[j].printer \in Printers
          /\ job_bus \subseteq DOMAIN jobs
          /\ DOMAIN path_to_device \subseteq Ports
          /\ up \in BOOLEAN

\* The engine's table and the bus list the same printers at the same ids, and
\* each printer knows that id: pd_engine_remove_printer finds a printer on the
\* bus and removes it from the table by the id it believes to have.
ViewsAgree == /\ id_to_printer = printer_bus
              /\ \A id \in DOMAIN id_to_printer : ids[id_to_printer[id]] = id

\* A job that clients can reach finds its own printer under its path
\* (pd_job_impl_get_printer), although ids are reused after a deletion; as long
\* as a call on the deleted printer is under way it may find another.
JobsFindTheirPrinter ==
    \A j \in job_bus :
        \/ jobs[j].printer \in Users
        \/ /\ jobs[j].path \in DOMAIN id_to_printer
           /\ id_to_printer[jobs[j].path] = jobs[j].printer

\* A path changes hands only after its printer was deleted: the search for a
\* free id in pd_engine_add_printer never ends at one that is in use, be it the
\* name of a printer or a name with a suffix.
PathsAreKept ==
    [][\A id \in DOMAIN printer_bus :
          id \in DOMAIN printer_bus' => printer_bus'[id] = printer_bus[id]]_vars

\* A device on the bus is one the engine knows, under the id in its path, also
\* when devices of one id come and go in any order: no object outlives its
\* device (pd_engine_handle_uevent).
NoGhostDevice ==
    \A id \in DOMAIN device_bus :
        /\ DeviceId(device_bus[id].fields) = id
        /\ \E port \in DOMAIN path_to_device :
               path_to_device[port] = device_bus[id]

=============================================================================
