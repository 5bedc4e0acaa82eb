--------------------------- MODULE RegistryProofs ---------------------------
(***************************************************************************)
(* Proofs about Registry, for any set of names and devices and any number   *)
(* of printers and jobs.                                                    *)
(***************************************************************************)
EXTENDS Registry, TLAPS

\* A sequence, of whatever elements.
IsSeq(s) == s \in Seq(Values(s))

\* Appending to a sequence makes a longer one that agrees with it.
LEMMA AppendAny ==
    ASSUME NEW s, IsSeq(s), NEW x
    PROVE  /\ IsSeq(Append(s, x))
           /\ Len(s) \in Nat /\ Len(Append(s, x)) = Len(s) + 1
           /\ DOMAIN s = 1..Len(s)
           /\ DOMAIN Append(s, x) = 1..(Len(s) + 1)
           /\ Append(s, x)[Len(s) + 1] = x
           /\ \A i \in 1..Len(s) : Append(s, x)[i] = s[i]
<1> DEFINE S == Values(s) \cup {x}
<1>1. s \in Seq(S)
  BY DEF IsSeq
<1>2. /\ Len(s) \in Nat /\ Len(Append(s, x)) = Len(s) + 1
      /\ DOMAIN s = 1..Len(s) /\ DOMAIN Append(s, x) = 1..(Len(s) + 1)
      /\ Append(s, x)[Len(s) + 1] = x
      /\ \A i \in 1..Len(s) : Append(s, x)[i] = s[i]
      /\ Append(s, x) \in Seq(S)
  BY <1>1
<1>3. \A i \in 1..(Len(s) + 1) : Append(s, x)[i] \in Values(Append(s, x))
  BY <1>2 DEF Values
<1>4. Append(s, x) \in Seq(Values(Append(s, x)))
  BY <1>2, <1>3
<1> QED
  BY <1>2, <1>4 DEF IsSeq

\* What insertion of a new key does to the values of a table.
LEMMA PutValues ==
    ASSUME NEW f, NEW k, NEW v, k \notin DOMAIN f
    PROVE  Values(Put(f, k, v)) = Values(f) \cup {v}
  BY DEF Values, Put

\* An id that is chosen for a printer is not in use.
LEMMA NewIdIsFree ==
    ASSUME NEW base, NEW id \in NewIds(base)
    PROVE  id \notin DOMAIN id_to_printer
  BY DEF NewIds, FreeSuffixes, Taken

-----------------------------------------------------------------------------
\* The printer of a job on the bus is listed or used by a call, and is
\* known to the job by the printer's own id: with ViewsAgree this makes the
\* job's path lead to its printer.
OwnersInv ==
    \A j \in job_bus :
        /\ jobs[j].path = ids[jobs[j].printer]
        /\ jobs[j].printer \in Values(id_to_printer) \cup Users

IInv == /\ IsSeq(ids) /\ IsSeq(jobs)
        /\ TypeOK
        /\ adrift \cap (Values(id_to_printer) \cup Users) = {}
        /\ ViewsAgree
        /\ OwnersInv

LEMMA InitIInv == Init => IInv
<1> SUFFICES ASSUME Init PROVE IInv
  OBVIOUS
<1>1. IsSeq(<<>>) /\ Values(<<>>) = {} /\ DOMAIN <<>> = {}
  BY DEF IsSeq, Values
<1> QED
  BY <1>1 DEF Init, IInv, TypeOK, ViewsAgree, OwnersInv, Users

\* Listing a printer.
LEMMA AddPrinterStep ==
    ASSUME IInv, NEW name, AddPrinter(name)
    PROVE  IInv'
<1> DEFINE new == Len(ids) + 1
<1>1. PICK id \in NewIds(CanonId(name)) :
        /\ ids' = Append(ids, id)
        /\ id_to_printer' = Put(id_to_printer, id, new)
        /\ printer_bus' = Put(printer_bus, id, new)
  BY DEF AddPrinter, StoredId
<1>2. id \notin DOMAIN id_to_printer
  BY NewIdIsFree
<1>3. /\ creating' = creating \cup {new}
      /\ UNCHANGED <<adrift, Users, jobs, job_bus, path_to_device, up>>
  BY DEF AddPrinter, jobVars, deviceVars, Users
<1>4. /\ IsSeq(ids') /\ Len(ids) \in Nat /\ Len(ids') = new /\ ids'[new] = id
      /\ \A p \in Printers : ids'[p] = ids[p]
  BY <1>1, AppendAny DEF IInv, Printers
<1>5. id_to_printer = printer_bus /\ id_to_printer' = printer_bus'
  BY <1>1 DEF IInv, ViewsAgree
<1>6. Values(id_to_printer') = Values(id_to_printer) \cup {new}
  BY <1>1, <1>2, PutValues
<1>7. Printers \subseteq Printers' /\ new \in Printers' /\ new \notin Printers
  BY <1>4 DEF Printers
<1>8. TypeOK'
  BY <1>3, <1>5, <1>6, <1>7 DEF IInv, TypeOK
<1>9. adrift' \cap (Values(id_to_printer') \cup Users') = {}
  BY <1>3, <1>6, <1>7 DEF IInv, TypeOK
<1>10. ViewsAgree'
  <2> SUFFICES ASSUME NEW i \in DOMAIN id_to_printer'
               PROVE  ids'[id_to_printer'[i]] = i
    BY <1>5 DEF ViewsAgree
  <2>1. CASE i = id
    BY <2>1, <1>1, <1>4 DEF Put
  <2>2. CASE i # id
    <3>1. i \in DOMAIN id_to_printer /\ id_to_printer'[i] = id_to_printer[i]
      BY <2>2, <1>1 DEF Put
    <3>2. id_to_printer[i] \in Printers
      BY <3>1 DEF IInv, TypeOK, Values
    <3> QED
      BY <3>1, <3>2, <1>4 DEF IInv, ViewsAgree
  <2> QED
    BY <2>1, <2>2
<1>11. OwnersInv'
  <2> SUFFICES ASSUME NEW j \in job_bus
               PROVE  /\ jobs[j].path = ids'[jobs[j].printer]
                      /\ jobs[j].printer \in Values(id_to_printer') \cup Users
    BY <1>3 DEF OwnersInv
  <2>1. jobs[j].printer \in Printers
    BY DEF IInv, TypeOK
  <2> QED
    BY <2>1, <1>4, <1>6 DEF IInv, OwnersInv
<1> QED
  BY <1>3, <1>4, <1>8, <1>9, <1>10, <1>11 DEF IInv

\* A printer that finds no id.
LEMMA AddPrinterWithoutIdStep ==
    ASSUME IInv, NEW name, AddPrinterWithoutId(name)
    PROVE  IInv'
<1> DEFINE new == Len(ids) + 1
<1>1. /\ ids' = Append(ids, CanonId(name))
      /\ adrift' = adrift \cup {new} /\ creating' = creating \cup {new}
      /\ up' \in BOOLEAN
      /\ UNCHANGED <<id_to_printer, printer_bus, Users, jobs, job_bus,
                     path_to_device>>
  BY DEF AddPrinterWithoutId, jobVars, deviceVars, Users
<1>2. /\ IsSeq(ids') /\ Len(ids) \in Nat /\ Len(ids') = new
      /\ \A p \in Printers : ids'[p] = ids[p]
  BY <1>1, AppendAny DEF IInv, Printers
<1>3. Printers \subseteq Printers' /\ new \in Printers' /\ new \notin Printers
  BY <1>2 DEF Printers
<1>4. Values(id_to_printer) \cup Users \subseteq Printers
  BY DEF IInv, TypeOK
<1>5. TypeOK'
  BY <1>1, <1>3 DEF IInv, TypeOK
<1>6. adrift' \cap (Values(id_to_printer') \cup Users') = {}
  BY <1>1, <1>3, <1>4 DEF IInv
<1>7. ViewsAgree'
  BY <1>1, <1>2, <1>4, ZenonT(60) DEF IInv, ViewsAgree, Values
<1>8. OwnersInv'
  BY <1>1, <1>2 DEF IInv, OwnersInv, TypeOK
<1> QED
  BY <1>1, <1>2, <1>5, <1>6, <1>7, <1>8 DEF IInv

\* Deleting a printer: the call that deletes it holds it.
LEMMA RemovePrinterStep ==
    ASSUME IInv, NEW id, RemovePrinter(id)
    PROVE  IInv'
<1> DEFINE p == printer_bus[id]
<1>1. /\ id \in DOMAIN printer_bus
      /\ printer_bus' = Without(printer_bus, id)
      /\ id_to_printer' = Without(id_to_printer, ids[p])
      /\ Users' = Users \cup {p}
      /\ UNCHANGED <<ids, adrift, creating, jobs, job_bus, path_to_device, up>>
  BY DEF RemovePrinter, jobVars, deviceVars, Users
<1>2. id_to_printer = printer_bus /\ ids[p] = id
  BY <1>1 DEF IInv, ViewsAgree
<1>3. /\ id_to_printer' = Without(id_to_printer, id)
      /\ id_to_printer' = printer_bus'
  BY <1>1, <1>2
<1>4. /\ Values(id_to_printer') \subseteq Values(id_to_printer)
      /\ p \in Values(id_to_printer)
      /\ Values(id_to_printer) \subseteq Values(id_to_printer') \cup {p}
  BY <1>1, <1>2, <1>3 DEF Values, Without
<1>5. TypeOK'
  BY <1>1, <1>3, <1>4 DEF IInv, TypeOK, Printers
<1>6. ViewsAgree'
  BY <1>1, <1>3 DEF IInv, ViewsAgree, Without
<1>7. OwnersInv'
  BY <1>1, <1>4 DEF IInv, OwnersInv
<1>8. adrift' \cap (Values(id_to_printer') \cup Users') = {}
  BY <1>1, <1>4 DEF IInv
<1> QED
  BY <1>1, <1>5, <1>6, <1>7, <1>8 DEF IInv

\* A call that lets go of a printer: jobs that stay on the bus have a printer
\* that is alive and, as a printer without an id has no jobs, listed or used.
LEMMA ReleaseStep ==
    ASSUME IInv, Users' \subseteq Users, job_bus' = Owned(job_bus),
           UNCHANGED <<ids, id_to_printer, printer_bus, adrift, creating, jobs,
                       path_to_device, up>>
    PROVE  IInv'
<1>1. job_bus' \subseteq job_bus /\ \A j \in job_bus' : jobs[j].printer \in Alive'
  BY DEF Owned
<1>2. \A j \in job_bus' : jobs[j].printer \notin adrift
  BY <1>1 DEF IInv, OwnersInv
<1>3. Alive' = Values(id_to_printer') \cup Users' \cup adrift
  BY DEF Alive, IInv, ViewsAgree
<1>4. OwnersInv'
  BY <1>1, <1>2, <1>3 DEF IInv, OwnersInv
<1>5. TypeOK' /\ ViewsAgree'
  BY <1>1 DEF IInv, TypeOK, ViewsAgree, Printers
<1> QED
  BY <1>4, <1>5 DEF IInv

\* The methods of a printer.
LEMMA CallBeginsStep ==
    ASSUME IInv, NEW p \in Printers, CallBegins(p)
    PROVE  IInv'
<1>1. /\ p \in Values(printer_bus) /\ Users' = Users \cup {p}
      /\ UNCHANGED <<ids, id_to_printer, printer_bus, adrift, creating, jobs,
                     job_bus, path_to_device, up>>
  BY DEF CallBegins, printerVars, deviceVars, Users
<1>2. p \in Values(id_to_printer)
  BY <1>1 DEF IInv, ViewsAgree
<1>3. TypeOK' /\ ViewsAgree'
  BY <1>1 DEF IInv, TypeOK, ViewsAgree, Printers
<1>4. OwnersInv'
  BY <1>1 DEF IInv, OwnersInv
<1> QED
  BY <1>1, <1>2, <1>3, <1>4 DEF IInv

LEMMA CreateJobStep ==
    ASSUME IInv, NEW p \in Printers, CreateJob(p)
    PROVE  IInv'
<1> DEFINE new == [printer |-> p, path |-> ids[p]]
<1>1. /\ p \in Users
      /\ jobs' = Append(jobs, new) /\ job_bus' = job_bus \cup {Len(jobs) + 1}
      /\ UNCHANGED <<ids, id_to_printer, printer_bus, adrift, creating, Users,
                     path_to_device, up>>
  BY DEF CreateJob, NextJobId, printerVars, deviceVars, Users
<1>2. /\ IsSeq(jobs') /\ Len(jobs) \in Nat
      /\ DOMAIN jobs = 1..Len(jobs) /\ DOMAIN jobs' = 1..(Len(jobs) + 1)
      /\ jobs'[Len(jobs) + 1] = new
      /\ \A j \in 1..Len(jobs) : jobs'[j] = jobs[j]
  BY <1>1, AppendAny DEF IInv
<1>3. new.printer = p /\ new.path = ids[p]
  OBVIOUS
<1> HIDE DEF new
<1>4. TypeOK'
  BY <1>1, <1>2, <1>3 DEF IInv, TypeOK, Printers
<1>5. ViewsAgree'
  BY <1>1 DEF IInv, ViewsAgree
<1>6. OwnersInv'
  <2> SUFFICES ASSUME NEW j \in job_bus'
               PROVE  /\ jobs'[j].path = ids[jobs'[j].printer]
                      /\ jobs'[j].printer \in Values(id_to_printer) \cup Users
    BY <1>1 DEF OwnersInv
  <2>1. CASE j = Len(jobs) + 1
    BY <2>1, <1>1, <1>2, <1>3
  <2>2. CASE j \in job_bus
    <3>1. jobs'[j] = jobs[j]
      BY <2>2, <1>2 DEF IInv, TypeOK
    <3> QED
      BY <2>2, <3>1 DEF IInv, OwnersInv
  <2> QED
    BY <2>1, <2>2, <1>1
<1> QED
  BY <1>1, <1>2, <1>4, <1>5, <1>6 DEF IInv

\* Steps that leave printers and jobs alone.
LEMMA OtherStep ==
    ASSUME IInv, UNCHANGED <<ids, id_to_printer, printer_bus, adrift, deleting,
                             jobVars>>,
           creating' \subseteq creating, up' \in BOOLEAN,
           DOMAIN path_to_device' \subseteq Ports
    PROVE  IInv'
<1>1. TypeOK'
  BY DEF IInv, TypeOK, Printers, Users, jobVars
<1>2. ViewsAgree' /\ OwnersInv'
  BY DEF IInv, ViewsAgree, OwnersInv, Users, jobVars
<1> QED
  BY <1>1, <1>2 DEF IInv, Users, jobVars

LEMMA NextIInv == IInv /\ [Next]_vars => IInv'
<1> SUFFICES ASSUME IInv, [Next]_vars PROVE IInv'
  OBVIOUS
<1>0. DOMAIN path_to_device \subseteq Ports /\ up \in BOOLEAN
  BY DEF IInv, TypeOK
<1>1. ASSUME NEW name \in Names, AddPrinter(name) \/ AddPrinterWithoutId(name)
      PROVE  IInv'
  BY <1>1, AddPrinterStep, AddPrinterWithoutIdStep
<1>2. ASSUME NEW p \in Printers, CompleteCreatePrinter(p) PROVE IInv'
  BY <1>0, <1>2, OtherStep DEF CompleteCreatePrinter, deviceVars
<1>3. ASSUME NEW p \in Printers, CallBegins(p) \/ CreateJob(p) PROVE IInv'
  BY <1>3, CallBeginsStep, CreateJobStep
<1>9. ASSUME NEW p \in Printers, CallEnds(p) \/ CompleteRemovePrinter(p)
      PROVE  IInv'
  BY <1>9, ReleaseStep
     DEF CallEnds, CompleteRemovePrinter, printerVars, deviceVars, Users
<1>4. ASSUME NEW id \in DOMAIN printer_bus, RemovePrinter(id) PROVE IInv'
  BY <1>4, RemovePrinterStep
<1>5. CASE RemoveOtherObject
  BY <1>0, <1>5, OtherStep DEF RemoveOtherObject, printerVars, deviceVars
<1>6. ASSUME NEW port \in Ports, RemoveDevice(port) PROVE IInv'
  BY <1>0, <1>6, OtherStep DEF RemoveDevice, printerVars, Without
<1>7. ASSUME NEW port \in Ports, NEW fields \in Fields, AddDevice(port, fields)
      PROVE  IInv'
  BY <1>0, <1>7, OtherStep DEF AddDevice, printerVars, Put
<1>8. CASE UNCHANGED vars
  BY <1>0, <1>8, OtherStep DEF vars, printerVars, deviceVars
<1> QED
  BY <1>1, <1>2, <1>3, <1>4, <1>5, <1>6, <1>7, <1>8, <1>9 DEF Next

LEMMA IInvJobs == IInv => JobsFindTheirPrinter
<1> SUFFICES ASSUME IInv, NEW j \in job_bus, jobs[j].printer \notin Users
             PROVE  /\ jobs[j].path \in DOMAIN id_to_printer
                    /\ id_to_printer[jobs[j].path] = jobs[j].printer
  BY DEF JobsFindTheirPrinter
<1>1. jobs[j].printer \in Values(id_to_printer)
  BY DEF IInv, OwnersInv
<1>2. PICK id \in DOMAIN id_to_printer : id_to_printer[id] = jobs[j].printer
  BY <1>1 DEF Values
<1>3. jobs[j].path = id
  BY <1>2 DEF IInv, OwnersInv, ViewsAgree
<1> QED
  BY <1>2, <1>3

\* The tables of the engine and the bus only name printers and jobs that exist,
\* for any names and any number of printers.
THEOREM RegistryTypeCorrect == Spec => []TypeOK
<1>1. IInv => TypeOK
  BY DEF IInv
<1> QED
  BY <1>1, InitIInv, NextIInv, PTL DEF Spec

-----------------------------------------------------------------------------
\* The engine's table of printers and the bus agree in every reachable state,
\* and printers know their ids (pd_engine_add_printer, _remove_printer).
THEOREM ViewsCorrect == Spec => []ViewsAgree
<1>1. IInv => ViewsAgree
  BY DEF IInv
<1> QED
  BY <1>1, InitIInv, NextIInv, PTL DEF Spec

\* Jobs that clients can reach find their own printer, however printers of the
\* same name are deleted and created meanwhile (pd_job_impl_get_printer).
THEOREM JobsFindCorrect == Spec => []JobsFindTheirPrinter
  BY IInvJobs, InitIInv, NextIInv, PTL DEF Spec

\* No step hands the path of a listed printer to another one
\* (the search for a free id in pd_engine_add_printer).
THEOREM PathsKept == Spec => PathsAreKept
<1> DEFINE Kept == \A id \in DOMAIN printer_bus :
                      id \in DOMAIN printer_bus' =>
                          printer_bus'[id] = printer_bus[id]
<1>1. IInv /\ [Next]_vars => [Kept]_vars
  <2> SUFFICES ASSUME IInv, Next PROVE Kept
    OBVIOUS
  <2>1. ASSUME NEW name \in Names, AddPrinter(name) PROVE Kept
    <3>1. PICK id \in NewIds(CanonId(name)) :
            printer_bus' = Put(printer_bus, id, Len(ids) + 1)
      BY <2>1 DEF AddPrinter
    <3>2. id \notin DOMAIN printer_bus
      BY NewIdIsFree DEF IInv, ViewsAgree
    <3> QED
      BY <3>1, <3>2 DEF Put
  <2>2. ASSUME NEW id, RemovePrinter(id) PROVE Kept
    BY <2>2 DEF RemovePrinter, Without
  <2>3. CASE UNCHANGED printer_bus
    BY <2>3
  <2> QED
    BY <2>1, <2>2, <2>3
       DEF Next, AddPrinterWithoutId, CompleteCreatePrinter,
           CompleteRemovePrinter, CallBegins, CreateJob, CallEnds, RemoveOtherObject, RemoveDevice, AddDevice,
           printerVars
<1> QED
  BY <1>1, InitIInv, NextIInv, PTL DEF Spec, PathsAreKept

\* No device object outlives its device, whatever devices share an id
\* (pd_engine_handle_uevent).
THEOREM NoGhosts == Spec => []NoGhostDevice
<1>1. Init => NoGhostDevice
  BY DEF Init, NoGhostDevice
<1>2. NoGhostDevice /\ [Next]_vars => NoGhostDevice'
  <2> SUFFICES ASSUME NoGhostDevice, [Next]_vars PROVE NoGhostDevice'
    OBVIOUS
  <2>1. ASSUME NEW port \in Ports, NEW fields \in Fields, AddDevice(port, fields)
        PROVE  NoGhostDevice'
    <3> DEFINE new == Device(port, fields)
    <3>1. /\ device_bus' = Put(device_bus, DeviceId(fields), new)
          /\ path_to_device' = Put(path_to_device, port, new)
          /\ port \in DOMAIN path_to_device =>
                 path_to_device[port].fields = fields
      BY <2>1 DEF AddDevice
    <3>2. new.fields = fields
      BY DEF Device
    <3> HIDE DEF new
    <3> SUFFICES ASSUME NEW id \in DOMAIN device_bus'
                 PROVE  /\ DeviceId(device_bus'[id].fields) = id
                        /\ \E s \in DOMAIN path_to_device' :
                               path_to_device'[s] = device_bus'[id]
      BY DEF NoGhostDevice
    <3>3. CASE id = DeviceId(fields)
      BY <3>1, <3>2, <3>3 DEF Put
    <3>4. CASE id # DeviceId(fields)
      <4>1. id \in DOMAIN device_bus /\ device_bus'[id] = device_bus[id]
        BY <3>1, <3>4 DEF Put
      <4>2. PICK s \in DOMAIN path_to_device : path_to_device[s] = device_bus[id]
        BY <4>1 DEF NoGhostDevice
      <4>3. DeviceId(device_bus[id].fields) = id
        BY <4>1 DEF NoGhostDevice
      <4>4. s # port
        BY <4>2, <4>3, <3>1, <3>4
      <4>5. s \in DOMAIN path_to_device' /\ path_to_device'[s] = path_to_device[s]
        BY <4>4, <3>1 DEF Put
      <4> QED
        BY <4>1, <4>2, <4>3, <4>5
    <3> QED
      BY <3>3, <3>4
  <2>2. ASSUME NEW port \in Ports, RemoveDevice(port) PROVE NoGhostDevice'
    <3>1. /\ device_bus' = Without(device_bus,
                                   DeviceId(path_to_device[port].fields))
          /\ path_to_device' = Without(path_to_device, port)
      BY <2>2 DEF RemoveDevice, Unexport
    <3> SUFFICES ASSUME NEW id \in DOMAIN device_bus'
                 PROVE  /\ DeviceId(device_bus'[id].fields) = id
                        /\ \E s \in DOMAIN path_to_device' :
                               path_to_device'[s] = device_bus'[id]
      BY DEF NoGhostDevice
    <3>2. /\ id \in DOMAIN device_bus /\ device_bus'[id] = device_bus[id]
          /\ id # DeviceId(path_to_device[port].fields)
      BY <3>1 DEF Without
    <3>3. DeviceId(device_bus[id].fields) = id
      BY <3>2 DEF NoGhostDevice
    <3>4. PICK s \in DOMAIN path_to_device : path_to_device[s] = device_bus[id]
      BY <3>2 DEF NoGhostDevice
    <3>5. s # port
      BY <3>2, <3>3, <3>4
    <3> QED
      BY <3>1, <3>2, <3>3, <3>4, <3>5 DEF Without
  <2>3. CASE UNCHANGED deviceVars
    BY <2>3 DEF NoGhostDevice, deviceVars
  <2> QED
    BY <2>1, <2>2, <2>3
       DEF Next, AddPrinter, AddPrinterWithoutId, CompleteCreatePrinter,
           CompleteRemovePrinter, CallBegins, CreateJob, CallEnds,
           RemovePrinter, RemoveOtherObject, vars
<1> QED
  BY <1>1, <1>2, PTL DEF Spec
=============================================================================
