---------------------------- MODULE DriverProofs ----------------------------
(***************************************************************************)
(* Proofs about the configuration of a printer in Driver, for any PPD       *)
(* files, any updates, any number of threads and of calls: the defaults,    *)
(* the choice of a cupsFilter line, and what a job takes from the driver.   *)
(***************************************************************************)
EXTENDS Driver, WellFoundedInduction, TLAPS

\* Whoever has read the defaults to change them, or to make a job of them,
\* holds the lock, and what it has read is still what the property says.
LockInv ==
    /\ DOMAIN calls = Callers
    /\ \A c \in Callers :
        calls[c].call \in {"defaults", "job"} =>
            lock = c /\ calls[c].current = defaults

DefaultsInv == LockInv /\ NoLostDefault

\* No thread has read anything, and nothing was given but the first defaults.
LEMMA InitDefaultsInv == Init => DefaultsInv
<1> SUFFICES ASSUME Init PROVE DefaultsInv
  OBVIOUS
<1>1. DOMAIN calls = Callers /\ \A c \in Callers : calls[c] = Idle
  BY DEF Init
<1>2. Idle.call = "none"
  BY DEF Idle
<1>3. LockInv
  BY <1>1, <1>2 DEF LockInv
<1> QED BY <1>3 DEF Init, DefaultsInv, NoLostDefault

\* UpdateDriver goes its own way: it neither takes part in the exclusion of the
\* others nor changes what they have read.
LEMMA DriverStep ==
    ASSUME DefaultsInv, NEW c \in Callers,
           \/ UpdateDriverStores(c) \/ UpdateDriverNames(c)
           \/ \E ppd \in Ppds : UpdateDriverFails(c, ppd) \/ UpdateDriverReads(c, ppd)
    PROVE  DefaultsInv'
<1> USE DEF DefaultsInv, LockInv, NoLostDefault, Idle
<1>1. ASSUME NEW ppd \in Ppds, UpdateDriverReads(c, ppd) PROVE DefaultsInv'
  <2>1. UNCHANGED <<defaults, given, lock>> /\ DOMAIN calls' = Callers
    BY <1>1 DEF UpdateDriverReads
  <2>2. \A d \in Callers :
          calls'[d].call \in {"defaults", "job"} => calls'[d] = calls[d]
    BY <1>1 DEF UpdateDriverReads, Updating
  <2> QED BY <2>1, <2>2
<1>2. ASSUME NEW ppd \in Ppds, UpdateDriverFails(c, ppd) PROVE DefaultsInv'
  BY <1>2 DEF UpdateDriverFails
<1>3. CASE UpdateDriverStores(c)
  <2>1. UNCHANGED <<defaults, given, lock>> /\ DOMAIN calls' = Callers
    BY <1>3 DEF UpdateDriverStores
  <2>2. \A d \in Callers :
          calls'[d].call \in {"defaults", "job"} => calls'[d] = calls[d]
    BY <1>3 DEF UpdateDriverStores, Updating
  <2> QED BY <2>1, <2>2
<1>4. CASE UpdateDriverNames(c)
  BY <1>4 DEF UpdateDriverNames
<1> QED BY <1>1, <1>2, <1>3, <1>4

\* UpdateDefaults and CreateJob exclude each other.
LEMMA DefaultsStep ==
    ASSUME DefaultsInv, NEW c \in Callers,
           \/ \E u \in Updates : UpdateDefaultsReads(c, u) \/ CreateJobReads(c, u)
           \/ UpdateDefaultsSets(c) \/ CreateJobAdds(c)
    PROVE  DefaultsInv'
<1> USE DriverAssumption DEF DefaultsInv, LockInv, NoLostDefault, Idle, Nobody
<1>1. ASSUME NEW u \in Updates, UpdateDefaultsReads(c, u) PROVE DefaultsInv'
  BY <1>1 DEF UpdateDefaultsReads, LockTaken
<1>2. ASSUME NEW u \in Updates, CreateJobReads(c, u) PROVE DefaultsInv'
  BY <1>2 DEF CreateJobReads, LockTaken
<1>3. CASE UpdateDefaultsSets(c)
  BY <1>3 DEF UpdateDefaultsSets, UpdateAttributes
<1>4. CASE CreateJobAdds(c)
  BY <1>4 DEF CreateJobAdds
<1> QED BY <1>1, <1>2, <1>3, <1>4

\* DefaultsInv is inductive.
LEMMA NextDefaultsInv == DefaultsInv /\ [Next]_vars => DefaultsInv'
<1> SUFFICES ASSUME DefaultsInv, [Next]_vars PROVE DefaultsInv'
  OBVIOUS
<1>1. CASE StartReadsDriver \/ StartBuildsChain \/ StartReadsType
             \/ StartRunsCupsfilter
  BY <1>1 DEF StartReadsDriver, StartBuildsChain, StartReadsType,
              StartRunsCupsfilter, DefaultsInv, LockInv, NoLostDefault
<1>2. CASE UNCHANGED vars
  BY <1>2 DEF vars, DefaultsInv, LockInv, NoLostDefault
<1> QED BY <1>1, <1>2, DriverStep, DefaultsStep DEF Next

\* No update of the defaults is lost: the read, the merge and the write of
\* pd_printer_impl_do_update_defaults are one step to all other callers.
THEOREM DefaultsKept == Spec => []NoLostDefault
<1>1. DefaultsInv => NoLostDefault
  BY DEF DefaultsInv
<1> QED BY <1>1, InitDefaultsInv, NextDefaultsInv, PTL DEF Spec

-----------------------------------------------------------------------------
\* The attributes of a new job are merged from the defaults that hold when the
\* job is added, not from older ones.
THEOREM JobDefaultsCorrect == Spec => []JobGetsDefaults
<1>1. Init => JobGetsDefaults
  <2>1. ~NotCreated.made
    BY DEF NotCreated
  <2> QED BY <2>1 DEF Init, JobGetsDefaults
<1>2. DefaultsInv /\ JobGetsDefaults /\ [Next]_vars => JobGetsDefaults'
  <2> SUFFICES ASSUME DefaultsInv, JobGetsDefaults, [Next]_vars
               PROVE  JobGetsDefaults'
    OBVIOUS
  <2>1. ASSUME NEW c \in Callers, CreateJobAdds(c) PROVE JobGetsDefaults'
    <3>1. calls[c].current = given
      BY <2>1 DEF DefaultsInv, LockInv, NoLostDefault, CreateJobAdds
    <3> QED BY <2>1, <3>1 DEF CreateJobAdds, JobGetsDefaults, UpdateAttributes
  <2>2. CASE UNCHANGED created
    BY <2>2 DEF JobGetsDefaults
  <2>3. CASE UNCHANGED vars
    BY <2>2, <2>3 DEF vars
  <2> QED BY <2>1, <2>2, <2>3
       DEF Next, UpdateDriverFails, UpdateDriverReads, UpdateDriverStores,
           UpdateDriverNames, UpdateDefaultsReads, UpdateDefaultsSets,
           CreateJobReads, StartReadsDriver, StartBuildsChain, StartReadsType,
           StartRunsCupsfilter
<1> QED BY <1>1, <1>2, InitDefaultsInv, NextDefaultsInv, PTL DEF Spec

-----------------------------------------------------------------------------
(* The line pd_printer_impl_set_driver keeps.                               *)

\* Every set of natural numbers has a least one: what the inductions below use.
LEMMA NatMin ==
    ASSUME NEW T, T \subseteq Nat, T # {}
    PROVE  \E x \in T : \A y \in T : x <= y
<1> DEFINE R == OpToRel(<, Nat)
<1>1. IsWellFoundedOn(R, Nat)
  BY NatLessThanWellFounded
<1>2. \A x \in Nat, y \in Nat : x < y => <<x, y>> \in R
  BY DEF OpToRel
<1> HIDE DEF R
<1>3. PICK x \in T : \A y \in T : <<y, x>> \notin R
  BY <1>1, WFMin
<1>4. ASSUME NEW y \in T PROVE x <= y
  <2>1. x \in Nat /\ y \in Nat
    BY <1>3
  <2>2. ~(y < x)
    BY <1>2, <1>3, <2>1
  <2> QED
    BY <2>1, <2>2
<1> QED
  BY <1>3, <1>4

NoLine == [complete |-> FALSE, format |-> "", cost |-> 0, filter |-> ""]

\* One turn of the loop.
Keep(a, b) == IF b.complete /\ (~a.complete \/ Better(a, b)) THEN b ELSE a

\* f[i] is the line kept after the first i, up to n.
Scan(f, lines, n) ==
    f = [i \in 0..n |-> IF i = 0 THEN NoLine ELSE Keep(f[i - 1], lines[i])]

\* The loop goes through any number of lines.
LEMMA ScanExists ==
    ASSUME NEW lines, NEW n \in Nat
    PROVE  \E f : Scan(f, lines, n)
<1> DEFINE Bad == {k \in Nat : ~\E f : Scan(f, lines, k)}
<1> SUFFICES ASSUME Bad # {} PROVE FALSE
  OBVIOUS
<1>1. PICK k \in Bad : \A j \in Bad : k <= j
  BY NatMin
<1>2. CASE k = 0
  <2>1. Scan([i \in 0..0 |-> NoLine], lines, 0)
    BY DEF Scan
  <2> QED
    BY <1>1, <1>2, <2>1
<1>3. CASE k # 0
  <2>1. k \in Nat /\ k - 1 \in Nat /\ k - 1 \notin Bad
    BY <1>1, <1>3
  <2>2. PICK f : Scan(f, lines, k - 1)
    BY <2>1
  <2> DEFINE g == [i \in 0..k |-> IF i < k THEN f[i] ELSE Keep(f[k - 1], lines[k])]
  <2>3. \A i \in 0..(k - 1) :
            f[i] = IF i = 0 THEN NoLine ELSE Keep(f[i - 1], lines[i])
    BY <2>2 DEF Scan
  <2>4. ASSUME NEW i \in 0..k
        PROVE  g[i] = IF i = 0 THEN NoLine ELSE Keep(g[i - 1], lines[i])
    <3>1. CASE i = 0
      BY <2>1, <2>3, <3>1, <1>3
    <3>2. CASE i # 0
      <4>1. g[i - 1] = f[i - 1]
        BY <2>1, <3>2
      <4>2. CASE i < k
        BY <2>1, <2>3, <3>2, <4>1, <4>2
      <4>3. CASE i = k
        BY <2>1, <3>2, <4>1, <4>3
      <4> QED
        BY <2>1, <4>2, <4>3
    <3> QED
      BY <3>1, <3>2
  <2>5. g = [i \in 0..k |-> g[i]]
    OBVIOUS
  <2> HIDE DEF g
  <2>6. Scan(g, lines, k)
    BY <2>4, <2>5 DEF Scan
  <2> QED
    BY <1>1, <2>6
<1> QED
  BY <1>2, <1>3

\* After n lines the one kept is the first of the cheapest so far.
Kept(line, lines, n) ==
    IF \A k \in 1..n : ~lines[k].complete
    THEN ~line.complete
    ELSE \E k \in 1..n :
            /\ line = lines[k] /\ lines[k].complete
            /\ \A m \in 1..n : lines[m].complete =>
                 \/ lines[k].cost < lines[m].cost
                 \/ (lines[k].cost = lines[m].cost /\ k <= m)

\* One more line keeps it so.
LEMMA KeptStep ==
    ASSUME NEW lines \in Seq(Line), NEW n \in 1..Len(lines), NEW a,
           Kept(a, lines, n - 1)
    PROVE  Kept(Keep(a, lines[n]), lines, n)
<1>1. \A k \in 1..n : lines[k].complete \in BOOLEAN /\ lines[k].cost \in Int
  <2> SUFFICES ASSUME NEW k \in 1..n
               PROVE  lines[k].complete \in BOOLEAN /\ lines[k].cost \in Int
    OBVIOUS
  <2>1. lines[k] \in Line
    OBVIOUS
  <2> QED
    BY <2>1 DEF Line
<1>2. n \in Nat /\ 1..n = (1..(n - 1)) \cup {n} /\ n \notin 1..(n - 1)
  OBVIOUS
<1>3. CASE \A k \in 1..(n - 1) : ~lines[k].complete
  <2>1. ~a.complete
    BY <1>3 DEF Kept
  <2>2. CASE lines[n].complete
    BY <1>1, <1>2, <1>3, <2>1, <2>2 DEF Kept, Keep
  <2>3. CASE ~lines[n].complete
    BY <1>1, <1>2, <1>3, <2>1, <2>3 DEF Kept, Keep
  <2> QED
    BY <2>2, <2>3
<1>4. CASE ~\A k \in 1..(n - 1) : ~lines[k].complete
  <2>1. PICK k \in 1..(n - 1) :
            /\ a = lines[k] /\ lines[k].complete
            /\ \A m \in 1..(n - 1) : lines[m].complete =>
                 \/ lines[k].cost < lines[m].cost
                 \/ (lines[k].cost = lines[m].cost /\ k <= m)
    BY <1>4 DEF Kept
  <2>2. k \in 1..n /\ k < n
    BY <1>2
  <2>3. CASE lines[n].complete /\ lines[n].cost < lines[k].cost
    <3>1. Keep(a, lines[n]) = lines[n]
      BY <2>1, <2>3 DEF Keep, Better
    <3>2. \A m \in 1..n : lines[m].complete =>
                 \/ lines[n].cost < lines[m].cost
                 \/ (lines[n].cost = lines[m].cost /\ n <= m)
      BY <1>1, <1>2, <2>1, <2>2, <2>3
    <3> QED
      BY <2>3, <3>1, <3>2 DEF Kept
  <2>4. CASE ~(lines[n].complete /\ lines[n].cost < lines[k].cost)
    <3>1. Keep(a, lines[n]) = lines[k]
      BY <2>1, <2>4 DEF Keep, Better
    <3>2. \A m \in 1..n : lines[m].complete =>
                 \/ lines[k].cost < lines[m].cost
                 \/ (lines[k].cost = lines[m].cost /\ k <= m)
      BY <1>1, <1>2, <2>1, <2>2, <2>4
    <3> QED
      BY <2>1, <2>2, <3>1, <3>2 DEF Kept
  <2> QED
    BY <2>3, <2>4
<1> QED
  BY <1>3, <1>4

\* The line found is the first of the cheapest complete ones, or none is
\* complete: the scan of pd_printer_impl_set_driver against its reference.
THEOREM BestCorrect ==
    ASSUME NEW lines \in Seq(Line)
    PROVE  IF \A n \in 1..Len(lines) : ~lines[n].complete
           THEN ~Best(lines).complete
           ELSE \E n \in 1..Len(lines) :
                    IsCheapest(lines, n) /\ Best(lines) = lines[n]
<1> DEFINE f == CHOOSE f : Scan(f, lines, Len(lines))
<1>1. Scan(f, lines, Len(lines))
  BY ScanExists
<1>2. Best(lines) = f[Len(lines)]
  BY DEF Best, Scan, Keep, NoLine
<1> HIDE DEF f
<1>3. \A i \in 0..Len(lines) :
        f[i] = IF i = 0 THEN NoLine ELSE Keep(f[i - 1], lines[i])
  BY <1>1 DEF Scan
<1> DEFINE Bad == {k \in 0..Len(lines) : ~Kept(f[k], lines, k)}
<1>4. Bad = {}
  <2> SUFFICES ASSUME Bad # {} PROVE FALSE
    OBVIOUS
  <2>1. Len(lines) \in Nat /\ Bad \subseteq Nat
    OBVIOUS
  <2>2. PICK k \in Bad : \A j \in Bad : k <= j
    BY <2>1, NatMin
  <2>3. CASE k = 0
    <3>1. f[0] = NoLine
      BY <1>3, <2>1
    <3>2. Kept(NoLine, lines, 0)
      BY DEF Kept, NoLine
    <3> QED
      BY <2>2, <2>3, <3>1, <3>2
  <2>4. CASE k # 0
    <3>1. k \in 1..Len(lines) /\ k - 1 \in 0..Len(lines) /\ k - 1 \notin Bad
      BY <2>1, <2>2, <2>4
    <3>2. Kept(f[k - 1], lines, k - 1)
      BY <3>1
    <3>3. Kept(Keep(f[k - 1], lines[k]), lines, k)
      BY <3>1, <3>2, KeptStep
    <3> QED
      BY <1>3, <2>2, <3>1, <3>3
  <2> QED
    BY <2>3, <2>4
<1>5. Kept(Best(lines), lines, Len(lines))
  BY <1>2, <1>4
<1> QED
  BY <1>5 DEF Kept, IsCheapest


-----------------------------------------------------------------------------
(* The driver, what was read from it, and what a job takes.                  *)

Unset == [content_type |-> NULL, filter |-> NULL]

\* The outcome of Final for a file is what the reference asks for, also where a
\* missing filter leaves the variable of a job undefined.
LEMMA FinalMatches ==
    ASSUME NEW ppd \in Ppds, NEW fin, fin = Final(ppd)
    PROVE  /\ Matches(ppd, fin.content_type, fin.filter)
           /\ fin.content_type # NULL
           /\ fin.filter = NULL => Matches(ppd, fin.content_type, "undefined")
<1> DEFINE lines == Lines[ppd]
           cups == [content_type |-> "application/vnd.cups-pdf", filter |-> NULL]
<1>1. lines \in Seq(Line)
  BY DriverAssumption
<1>2. CASE \A n \in 1..Len(lines) : ~lines[n].complete
  <2>1. ~Best(lines).complete
    BY <1>1, <1>2, BestCorrect
  <2>2. fin = cups
    BY <2>1 DEF Final
  <2>3. {n \in 1..Len(lines) : lines[n].complete} = {}
    BY <1>2
  <2> QED
    BY <2>2, <2>3 DEF Matches, NULL
<1>3. CASE ~\A n \in 1..Len(lines) : ~lines[n].complete
  <2>1. PICK n \in 1..Len(lines) : IsCheapest(lines, n) /\ Best(lines) = lines[n]
    BY <1>1, <1>3, BestCorrect
  <2>2. lines[n] \in Line /\ lines[n].complete
    BY <1>1, <2>1 DEF IsCheapest
  <2>3. lines[n].format # NULL /\ lines[n].filter # NULL
    BY <2>2 DEF Line
  <2>4. fin.content_type = lines[n].format /\ fin.filter = lines[n].filter
    BY <2>1, <2>2 DEF Final
  <2>5. n \in {k \in 1..Len(lines) : lines[k].complete}
    BY <2>2
  <2>6. Matches(ppd, fin.content_type, fin.filter)
    BY <2>1, <2>4, <2>5 DEF Matches
  <2> QED
    BY <2>3, <2>4, <2>6
<1> QED
  BY <1>2, <1>3

\* An UpdateDriver that is `alone' is the only one under way, and what it has
\* stored is still there; whoever overlapped another is not.
CallInv ==
    /\ DOMAIN calls = Callers
    /\ \A c \in Updating :
        /\ calls[c] \in [call : {"driver"}, ppd : Readable, stored : BOOLEAN,
                         alone : BOOLEAN]
        /\ calls[c].alone =>
            /\ Updating = {c}
            /\ calls[c].stored => final = Final(calls[c].ppd)

\* What was read comes from one file; it is the named one when all is quiet.
FinalInv ==
    /\ mixed \in BOOLEAN
    /\ final = Unset \/ \E ppd \in Readable : final = Final(ppd)
    /\ Quiet => \/ driver = "" /\ final = Unset
                \/ driver \in Readable /\ final = Final(driver)

\* While a job is started and nobody changes the driver, what the job has read
\* is what the printer still has.
StartInv ==
    job.quiet /\ job.step \in {"chain", "type", "arguments"} =>
        /\ Quiet /\ job.backend = driver
        /\ job.step \in {"type", "arguments"} => driver # "" /\ job.filters = driver
        /\ job.step = "arguments" => Matches(driver, job.content_type, job.filter)

DriverInv == CallInv /\ FinalInv /\ StartInv /\ JobUsesOnePpd

LEMMA InitDriverInv == Init => DriverInv
<1> SUFFICES ASSUME Init PROVE DriverInv
  OBVIOUS
<1>1. Updating = {}
  BY DEF Init, Updating, Idle
<1>2. CallInv /\ FinalInv
  BY <1>1 DEF Init, CallInv, FinalInv, Unset
<1>3. ~job.quiet
  BY DEF Init, NotStarted
<1> QED
  BY <1>2, <1>3 DEF DriverInv, StartInv, JobUsesOnePpd

\* A thread begins an UpdateDriver: nothing is quiet any more.
LEMMA ReadsDriverInv ==
    ASSUME DriverInv, NEW c \in Callers, NEW ppd \in Ppds,
           UpdateDriverReads(c, ppd)
    PROVE  DriverInv'
<1>1. /\ calls[c] = Idle /\ ppd \in Readable /\ UNCHANGED <<driver, final, mixed>>
      /\ DOMAIN calls' = Callers
      /\ calls'[c] = [call |-> "driver", ppd |-> ppd, stored |-> FALSE,
                      alone |-> Updating = {}]
      /\ \A d \in Updating : d # c => calls'[d] = [calls[d] EXCEPT !.alone = FALSE]
      /\ \A d \in Callers \ Updating : d # c => calls'[d] = calls[d]
  BY DEF UpdateDriverReads, Updating, Opens
<1>2. c \notin Updating
  BY <1>1 DEF Updating, Idle
<1>3. \A d \in Updating :
        calls[d] \in [call : {"driver"}, ppd : Readable, stored : BOOLEAN,
                      alone : BOOLEAN]
  BY DEF DriverInv, CallInv
<1>4. \A d \in Updating :
        calls'[d] \in [call : {"driver"}, ppd : Readable, stored : BOOLEAN,
                       alone : {FALSE}]
  BY <1>1, <1>2, <1>3, ZenonT(60)
<1>5. calls'[c] \in [call : {"driver"}, ppd : Readable, stored : {FALSE},
                     alone : BOOLEAN]
  BY <1>1
<1>6. Updating' = Updating \cup {c}
  BY <1>1, <1>2, <1>4, <1>5 DEF Updating
<1>7. calls'[c].alone => Updating = {}
  <2> DEFINE a == Updating = {}
  <2>1. calls'[c] = [call |-> "driver", ppd |-> ppd, stored |-> FALSE, alone |-> a]
    BY <1>1
  <2> HIDE DEF a
  <2>2. calls'[c].alone = a
    BY <2>1
  <2> QED
    BY <2>2 DEF a
<1>8. CallInv'
  BY <1>1, <1>4, <1>5, <1>6, <1>7 DEF CallInv
<1>9. ~Quiet' /\ FinalInv'
  BY <1>1, <1>6 DEF DriverInv, FinalInv, Quiet
<1>10. ~job'.quiet
  BY DEF UpdateDriverReads
<1> QED
  BY <1>8, <1>9, <1>10 DEF DriverInv, StartInv, JobUsesOnePpd

\* It stores what it has read.
LEMMA StoresDriverInv ==
    ASSUME DriverInv, NEW c \in Callers, UpdateDriverStores(c)
    PROVE  DriverInv'
<1>1. /\ c \in Updating /\ final' = Final(calls[c].ppd)
      /\ calls' = [calls EXCEPT ![c].stored = TRUE]
      /\ UNCHANGED <<driver, mixed, job>>
  BY DEF UpdateDriverStores
<1>2. \A d \in Updating :
        calls[d] \in [call : {"driver"}, ppd : Readable, stored : BOOLEAN,
                      alone : BOOLEAN]
  BY DEF DriverInv, CallInv
<1>3. /\ DOMAIN calls' = Callers
      /\ calls'[c] = [calls[c] EXCEPT !.stored = TRUE]
      /\ \A d \in Callers : d # c => calls'[d] = calls[d]
  BY <1>1 DEF DriverInv, CallInv
<1>4. /\ calls'[c] \in [call : {"driver"}, ppd : Readable, stored : BOOLEAN,
                        alone : BOOLEAN]
      /\ calls'[c].ppd = calls[c].ppd /\ calls'[c].alone = calls[c].alone
  BY <1>1, <1>2, <1>3
<1>5. Updating' = Updating
  BY <1>1, <1>3, <1>4 DEF Updating
<1>6. CallInv'
  <2> SUFFICES ASSUME NEW d \in Updating
               PROVE  /\ calls'[d] \in [call : {"driver"}, ppd : Readable,
                                        stored : BOOLEAN, alone : BOOLEAN]
                      /\ calls'[d].alone =>
                           /\ Updating = {d}
                           /\ calls'[d].stored => final' = Final(calls'[d].ppd)
    BY <1>3, <1>5 DEF CallInv
  <2>1. CASE d = c
    BY <1>1, <1>4, <2>1 DEF DriverInv, CallInv
  <2>2. CASE d # c
    <3>1. calls'[d] = calls[d]
      BY <1>3, <2>2 DEF Updating
    <3>2. ~calls[d].alone
      BY <1>1, <2>2 DEF DriverInv, CallInv
    <3> QED
      BY <1>2, <3>1, <3>2
  <2> QED
    BY <2>1, <2>2
<1>7. ~Quiet' /\ ~Quiet
  BY <1>1, <1>5 DEF Quiet
<1>8. FinalInv'
  BY <1>1, <1>2, <1>7 DEF DriverInv, FinalInv
<1> QED
  BY <1>1, <1>6, <1>7, <1>8 DEF DriverInv, StartInv, JobUsesOnePpd

\* It names the driver and is done.  If it was alone, name and content agree.
LEMMA NamesDriverInv ==
    ASSUME DriverInv, NEW c \in Callers, UpdateDriverNames(c)
    PROVE  DriverInv'
<1>1. /\ c \in Updating /\ calls[c].stored /\ driver' = calls[c].ppd
      /\ calls' = [calls EXCEPT ![c] = Idle] /\ mixed' = ~calls[c].alone
      /\ UNCHANGED <<final, job>>
  BY DEF UpdateDriverNames, NameSet
<1>2. \A d \in Updating :
        calls[d] \in [call : {"driver"}, ppd : Readable, stored : BOOLEAN,
                      alone : BOOLEAN]
  BY DEF DriverInv, CallInv
<1>3. /\ DOMAIN calls' = Callers /\ calls'[c] = Idle
      /\ \A d \in Callers : d # c => calls'[d] = calls[d]
  BY <1>1 DEF DriverInv, CallInv
<1>4. Updating' = Updating \ {c}
  BY <1>3 DEF Updating, Idle
<1>5. CallInv'
  <2> SUFFICES ASSUME NEW d \in Updating, d # c
               PROVE  /\ calls'[d] \in [call : {"driver"}, ppd : Readable,
                                        stored : BOOLEAN, alone : BOOLEAN]
                      /\ ~calls'[d].alone
    BY <1>3, <1>4 DEF CallInv
  <2>1. calls'[d] = calls[d]
    BY <1>3 DEF Updating
  <2>2. ~calls[d].alone
    BY <1>1 DEF DriverInv, CallInv
  <2> QED
    BY <1>2, <2>1, <2>2
<1>6. ~mixed' => driver' \in Readable /\ final' = Final(driver')
  BY <1>1, <1>2 DEF DriverInv, CallInv
<1>7. FinalInv'
  BY <1>1, <1>6 DEF DriverInv, FinalInv, Quiet
<1>8. ~Quiet
  BY <1>1 DEF Quiet
<1> QED
  BY <1>1, <1>5, <1>7, <1>8 DEF DriverInv, StartInv, JobUsesOnePpd

\* UpdateDefaults, CreateJob and an UpdateDriver that opens no file touch none
\* of this.
LEMMA OtherDriverInv ==
    ASSUME DriverInv, NEW c \in Callers,
           \/ \E ppd \in Ppds : UpdateDriverFails(c, ppd)
           \/ \E u \in Updates : UpdateDefaultsReads(c, u) \/ CreateJobReads(c, u)
           \/ UpdateDefaultsSets(c) \/ CreateJobAdds(c)
    PROVE  DriverInv'
<1>1. UNCHANGED <<driver, final, job, mixed>>
  BY DEF UpdateDriverFails, UpdateDefaultsReads, CreateJobReads,
         UpdateDefaultsSets, CreateJobAdds
<1>2. /\ DOMAIN calls' = Callers /\ c \notin Updating
      /\ calls'[c].call # "driver"
      /\ \A d \in Callers : d # c => calls'[d] = calls[d]
  BY DEF DriverInv, CallInv, Updating, Idle, UpdateDriverFails,
         UpdateDefaultsReads, CreateJobReads, UpdateDefaultsSets, CreateJobAdds
<1>3. Updating' = Updating /\ \A d \in Updating : calls'[d] = calls[d]
  BY <1>2 DEF Updating
<1>4. CallInv'
  BY <1>1, <1>2, <1>3 DEF DriverInv, CallInv
<1>5. Quiet' = Quiet
  BY <1>1, <1>3 DEF Quiet
<1> QED
  BY <1>1, <1>4, <1>5 DEF DriverInv, FinalInv, StartInv, JobUsesOnePpd

\* A job goes one step further in its start.
LEMMA StartDriverInv ==
    ASSUME DriverInv,
           \/ StartReadsDriver \/ StartBuildsChain \/ StartReadsType
           \/ StartRunsCupsfilter
    PROVE  DriverInv'
<1>1. UNCHANGED <<driver, final, calls, mixed>>
  BY DEF StartReadsDriver, StartBuildsChain, StartReadsType, StartRunsCupsfilter
<1>2. Updating' = Updating /\ Quiet' = Quiet
  BY <1>1 DEF Updating, Quiet
<1>3. CallInv' /\ FinalInv'
  BY <1>1, <1>2 DEF DriverInv, CallInv, FinalInv
<1>4. CASE StartReadsDriver
  BY <1>1, <1>2, <1>3, <1>4
     DEF StartReadsDriver, DriverInv, StartInv, JobUsesOnePpd
<1>5. CASE StartBuildsChain
  BY <1>1, <1>2, <1>3, <1>5
     DEF StartBuildsChain, DriverInv, StartInv, JobUsesOnePpd
<1>6. CASE StartReadsType
  <2>1. job.step = "type"
    BY <1>6 DEF StartReadsType
  <2>2. PICK filter \in IF final.filter # NULL THEN {final.filter}
                        ELSE {NULL, "undefined"} :
          job' = [step |-> IF filter = NULL THEN "aborted" ELSE "arguments",
                  backend |-> job.backend, filters |-> job.filters,
                  content_type |-> final.content_type, filter |-> filter,
                  quiet |-> job.quiet]
    BY <1>6 DEF StartReadsType
  <2>3. /\ job'.step \in {"aborted", "arguments"} /\ job'.quiet = job.quiet
        /\ job'.backend = job.backend /\ job'.filters = job.filters
        /\ job'.content_type = final.content_type /\ job'.filter = filter
    BY <2>2
  <2>4. ASSUME job.quiet
        PROVE  /\ Quiet /\ job.backend = driver /\ driver # ""
               /\ job.filters = driver /\ Matches(driver, final.content_type, filter)
    <3>1. /\ Quiet /\ job.backend = driver /\ driver # "" /\ job.filters = driver
      BY <2>1, <2>4 DEF DriverInv, StartInv
    <3>2. driver \in Readable /\ final = Final(driver)
      BY <3>1 DEF DriverInv, FinalInv
    <3>3. driver \in Ppds
      BY <3>2, DriverAssumption
    <3>4. /\ Matches(driver, final.content_type, final.filter)
          /\ final.filter = NULL => Matches(driver, final.content_type, "undefined")
      BY <3>2, <3>3, FinalMatches
    <3> QED
      BY <2>2, <3>1, <3>4
  <2> QED
    BY <1>1, <1>2, <1>3, <2>3, <2>4 DEF DriverInv, StartInv, JobUsesOnePpd
<1>7. CASE StartRunsCupsfilter
  BY <1>1, <1>2, <1>3, <1>7
     DEF StartRunsCupsfilter, DriverInv, StartInv, JobUsesOnePpd
<1> QED
  BY <1>4, <1>5, <1>6, <1>7

\* DriverInv is inductive.
LEMMA NextDriverInv == DriverInv /\ [Next]_vars => DriverInv'
<1> SUFFICES ASSUME DriverInv, [Next]_vars PROVE DriverInv'
  OBVIOUS
<1>1. CASE UNCHANGED vars
  <2>1. Updating' = Updating /\ Quiet' = Quiet
    BY <1>1 DEF vars, Updating, Quiet
  <2> QED
    BY <1>1, <2>1 DEF vars, DriverInv, CallInv, FinalInv, StartInv, JobUsesOnePpd
<1> QED
  BY <1>1, ReadsDriverInv, StoresDriverInv, NamesDriverInv, OtherDriverInv,
     StartDriverInv DEF Next

THEOREM DriverInvariance == Spec => []DriverInv
  BY InitDriverInv, NextDriverInv, PTL DEF Spec

\* For every PPD file and every overlap of UpdateDriver calls, the content type
\* and the filter of a printer are those of the cheapest line of one file.
THEOREM OnePpd == Spec => []FinalFromOnePpd
<1>1. DriverInv => FinalFromOnePpd
  <2> SUFFICES ASSUME DriverInv, final.content_type # NULL
               PROVE  \E ppd \in Readable :
                        Matches(ppd, final.content_type, final.filter)
    BY DEF FinalFromOnePpd
  <2>1. final # Unset
    BY DEF Unset
  <2>2. PICK ppd \in Readable : final = Final(ppd)
    BY <2>1 DEF DriverInv, FinalInv
  <2>3. ppd \in Ppds
    BY DriverAssumption
  <2> QED
    BY <2>2, <2>3, FinalMatches
<1> QED
  BY <1>1, DriverInvariance, PTL

\* Name and content of the driver agree unless the last UpdateDriver to finish
\* overlapped another one.
THEOREM NameAgrees == Spec => []DriverAgrees
<1>1. DriverInv => DriverAgrees
  <2> SUFFICES ASSUME DriverInv, Quiet
               PROVE  IF driver = "" THEN final.content_type = NULL
                      ELSE Matches(driver, final.content_type, final.filter)
    BY DEF DriverAgrees
  <2>1. CASE driver = "" /\ final = Unset
    BY <2>1 DEF Unset
  <2>2. CASE driver \in Readable /\ final = Final(driver)
    <3>1. driver \in Ppds /\ driver # ""
      BY <2>2, DriverAssumption
    <3> QED
      BY <2>2, <3>1, FinalMatches
  <2> QED
    BY <2>1, <2>2 DEF DriverInv, FinalInv
<1> QED
  BY <1>1, DriverInvariance, PTL

\* The three reads of the driver and the one of the content type in
\* pd_job_impl_start_sending see one PPD whenever nobody changes the driver.
THEOREM JobPpd == Spec => []JobUsesOnePpd
<1>1. DriverInv => JobUsesOnePpd
  BY DEF DriverInv
<1> QED
  BY <1>1, DriverInvariance, PTL


=============================================================================
