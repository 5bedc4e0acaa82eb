-------------------------- MODULE PrintQueueProofs --------------------------
(***************************************************************************)
(* Type correctness of the print queue, the agreement of the sending slot,  *)
(* and that neither the printer nor a job is forgotten, for any number of   *)
(* jobs, faults and lengths of the filter chain.                            *)
(***************************************************************************)
EXTENDS PrintQueue, JobOpsProofs

(***************************************************************************)
(* The stack of emissions                                                   *)
(***************************************************************************)

\* Emissions that concern one of the first n jobs, or the printer.
Target(n) ==
    {e \in Emission : e.job \in IF e.signal = "printer" THEN {0} ELSE 1..n}

In(e, s) == \E i \in 1..Len(s) : s[i] = e

\* What is in a concatenation is in one of its parts, and conversely.
LEMMA InConcat ==
    ASSUME NEW S, NEW a \in Seq(S), NEW b \in Seq(S), NEW e
    PROVE  In(e, a \o b) <=> In(e, a) \/ In(e, b)
<1>0. Len(a) \in Nat /\ Len(b) \in Nat
  BY LenProperties
<1>1. /\ Len(a \o b) = Len(a) + Len(b)
      /\ \A i \in 1..(Len(a) + Len(b)) :
            (a \o b)[i] = IF i <= Len(a) THEN a[i] ELSE b[i - Len(a)]
  BY ConcatProperties
<1>2. In(e, a \o b) => In(e, a) \/ In(e, b)
  <2> SUFFICES ASSUME NEW i \in 1..(Len(a) + Len(b)), (a \o b)[i] = e
               PROVE  In(e, a) \/ In(e, b)
    BY <1>1 DEF In
  <2>1. CASE i <= Len(a)
    BY <1>0, <1>1, <2>1 DEF In
  <2>2. CASE ~(i <= Len(a))
    <3>1. i - Len(a) \in 1..Len(b) /\ b[i - Len(a)] = e
      BY <1>0, <1>1, <2>2
    <3> QED
      BY <3>1 DEF In
  <2> QED
    BY <2>1, <2>2
<1>3. In(e, a) => In(e, a \o b)
  BY <1>0, <1>1 DEF In
<1>4. In(e, b) => In(e, a \o b)
  <2> SUFFICES ASSUME NEW i \in 1..Len(b), b[i] = e
               PROVE  In(e, a \o b)
    BY DEF In
  <2>1. /\ i + Len(a) \in 1..(Len(a) + Len(b)) /\ ~(i + Len(a) <= Len(a))
        /\ (i + Len(a)) - Len(a) = i
    BY <1>0
  <2>2. (a \o b)[i + Len(a)] = e
    BY <1>1, <2>1
  <2> QED
    BY <1>1, <2>1, <2>2 DEF In
<1> QED
  BY <1>2, <1>3, <1>4

\* Popping the stack loses the innermost emission only.
LEMMA InTail ==
    ASSUME NEW S, NEW s \in Seq(S), s # <<>>, NEW e
    PROVE  /\ Tail(s) \in Seq(S) /\ Head(s) \in S
           /\ In(e, s) => e = Head(s) \/ In(e, Tail(s))
           /\ In(e, Tail(s)) => In(e, s)
<1>1. /\ Tail(s) \in Seq(S) /\ Head(s) \in S
      /\ Len(Tail(s)) = Len(s) - 1 /\ Len(s) \in Nat
      /\ \A i \in 1..Len(Tail(s)) : Tail(s)[i] = s[i + 1]
      /\ Head(s) = s[1]
  BY HeadTailProperties, LenProperties
<1>2. In(e, s) => e = Head(s) \/ In(e, Tail(s))
  <2> SUFFICES ASSUME NEW i \in 1..Len(s), s[i] = e, i # 1
               PROVE  In(e, Tail(s))
    BY <1>1 DEF In
  <2>1. i - 1 \in 1..Len(Tail(s)) /\ (i - 1) + 1 = i
    BY <1>1
  <2>2. Tail(s)[i - 1] = e
    BY <1>1, <2>1
  <2> QED
    BY <2>1, <2>2 DEF In
<1>3. In(e, Tail(s)) => In(e, s)
  <2> SUFFICES ASSUME NEW i \in 1..Len(Tail(s)), Tail(s)[i] = e
               PROVE  In(e, s)
    BY DEF In
  <2>1. i + 1 \in 1..Len(s) /\ s[i + 1] = e
    BY <1>1
  <2> QED
    BY <2>1 DEF In
<1> QED
  BY <1>1, <1>2, <1>3

\* Thawing a job emits about that job, and about its reasons if they are
\* queued.
LEMMA ThawProperties ==
    ASSUME NEW n \in Nat, n <= MaxJobs, NEW j \in 1..n, NEW queued
    PROVE  /\ Thaw(j, queued) \in Seq(Target(n))
           /\ "state-reasons" \in queued => In(ReasonsOf(j), Thaw(j, queued))
<1> DEFINE a == IF "state" \in queued THEN <<StateOf(j)>> ELSE <<>>
           b == IF "state-reasons" \in queued THEN <<ReasonsOf(j)>> ELSE <<>>
<1>1. MaxJobs \in Nat /\ j \in 0..MaxJobs
  BY QueueAssumption
<1>2. StateOf(j) \in Target(n) /\ ReasonsOf(j) \in Target(n)
  BY <1>1 DEF Target, Emission, StateOf, ReasonsOf
<1>3. a \in Seq(Target(n)) /\ b \in Seq(Target(n))
  BY <1>2
<1>4. "state-reasons" \in queued => In(ReasonsOf(j), b)
  BY DEF In
<1>5. Thaw(j, queued) = a \o b
  BY DEF Thaw
<1> HIDE DEF a, b
<1> QED
  BY <1>3, <1>4, <1>5, InConcat, ConcatProperties

(***************************************************************************)
(* The inductive invariant                                                  *)
(***************************************************************************)

TypeInv ==
    /\ jobs \in Seq(GoodJob) /\ Len(jobs) <= MaxJobs
    /\ \A j \in Ids : jobs[j].queued = {}
    /\ printer \in [state : {"idle", "processing"}, job_outgoing : BOOLEAN]
    /\ emissions \in Seq(Target(Len(jobs)))
    /\ own \subseteq Ids /\ queue \subseteq Ids /\ sending \subseteq Ids
    /\ pumping \subseteq Ids
    /\ faults \in 0..MaxFaults

\* Between two steps of a chain of handlers the three copies may disagree in
\* one way only: a job has lost its reason and the notification that will tell
\* the engine is still to be delivered.
SlotInv ==
    /\ printer.job_outgoing <=> sending # {}
    /\ \A j, k \in sending : j = k
    /\ \A j \in Ids : IsOutgoing(j) => j \in sending
    /\ \A j \in sending : IsOutgoing(j) \/ In(ReasonsOf(j), emissions)

IInv == TypeInv /\ SlotInv

\* A printer without jobs satisfies the invariant.
LEMMA InitIInv == Init => IInv
BY QueueAssumption DEF Init, IInv, TypeInv, SlotInv, Ids, In

\* The invariant gives the two properties.
LEMMA IInvTypeOK == IInv => TypeOK
<1> SUFFICES ASSUME TypeInv PROVE TypeOK
  BY DEF IInv
<1>1. GoodJob \subseteq Job
  BY DEF GoodJob
<1>2. jobs \in Seq(Job)
  BY <1>1, SeqMonotonic DEF TypeInv
<1>3. Target(Len(jobs)) \subseteq Emission
  BY DEF Target
<1>4. emissions \in Seq(Emission)
  BY <1>3, SeqMonotonic DEF TypeInv
<1>5. \A i \in 1..Len(emissions) : emissions[i] \in Target(Len(jobs))
  BY ElementOfSeq DEF TypeInv
<1> QED
  BY <1>2, <1>4, <1>5 DEF TypeInv, TypeOK, Target, Ids

\* With no emission under way the invariant is the agreement.
LEMMA IInvSlot == IInv => SendSlotAgrees
<1> SUFFICES ASSUME TypeInv, SlotInv, emissions = <<>>
             PROVE  /\ sending = {j \in Ids : IsOutgoing(j)}
                    /\ printer.job_outgoing = (sending # {})
                    /\ \A j, k \in sending : j = k
  BY DEF IInv, SendSlotAgrees, MainLoop
<1>1. \A e : ~In(e, emissions)
  BY DEF In
<1>2. sending = {j \in Ids : IsOutgoing(j)}
  BY <1>1 DEF TypeInv, SlotInv
<1>3. printer.job_outgoing \in BOOLEAN
  BY DEF TypeInv
<1>4. printer.job_outgoing = (sending # {})
  BY <1>3, Zenon DEF SlotInv
<1> QED
  BY <1>2, <1>4 DEF SlotInv

(***************************************************************************)
(* Steps.  First what is common to them: the job array after job j became   *)
(* r, and the two ways in which the reasons of a job can change.            *)
(***************************************************************************)

\* The job array after job j became r.
LEMMA JobsExcept ==
    ASSUME TypeInv, NEW j \in Ids, NEW r \in GoodJob,
           jobs' = [jobs EXCEPT ![j] = Thawed(r)]
    PROVE  /\ jobs' \in Seq(GoodJob) /\ Len(jobs') = Len(jobs) /\ Ids' = Ids
           /\ \A i \in Ids : jobs'[i].queued = {}
           /\ \A i \in Ids \ {j} : jobs'[i] = jobs[i]
           /\ jobs'[j] = Thawed(r)
           /\ jobs'[j].state_reasons = r.state_reasons
           /\ jobs'[j].state = r.state
<1>1. /\ Thawed(r) \in GoodJob /\ Thawed(r).queued = {}
      /\ Thawed(r).state_reasons = r.state_reasons
      /\ Thawed(r).state = r.state
  BY ThawedGood
<1>2. jobs \in Seq(GoodJob) /\ j \in 1..Len(jobs)
  BY DEF TypeInv, Ids
<1>3. jobs' \in Seq(GoodJob) /\ Len(jobs') = Len(jobs)
  BY <1>1, <1>2, ExceptSeq
<1>4. \A i \in 1..Len(jobs) : jobs'[i] = IF i = j THEN Thawed(r) ELSE jobs[i]
  BY <1>2, ExceptSeq
<1> QED
  BY <1>1, <1>2, <1>3, <1>4 DEF TypeInv, Ids

\* A job whose reasons are unchanged or announced leaves the slot intact, as
\* long as it was not made outgoing and the rest of the stack is kept.
LEMMA QuietSlot ==
    ASSUME IInv, NEW j \in Ids, NEW r, Quiet(jobs[j], r),
           jobs' = [jobs EXCEPT ![j] = Thawed(r)],
           UNCHANGED <<printer, sending>>,
           "state-reasons" \in r.queued => In(ReasonsOf(j), emissions'),
           \A i \in Ids : In(ReasonsOf(i), emissions) => In(ReasonsOf(i), emissions')
    PROVE  SlotInv'
<1>1. r \in GoodJob
  BY DEF Quiet
<1>2. /\ Ids' = Ids
      /\ \A i \in Ids \ {j} : jobs'[i] = jobs[i]
      /\ jobs'[j].state_reasons = r.state_reasons
  BY <1>1, JobsExcept DEF IInv
<1>3. \A i \in Ids \ {j} : IsOutgoing(i)' <=> IsOutgoing(i)
  BY <1>2 DEF IsOutgoing
<1>4. IsOutgoing(j)' => IsOutgoing(j)
  BY <1>2 DEF IsOutgoing, Quiet, IsOutgoingJob
<1>5. IsOutgoing(j) => IsOutgoing(j)' \/ In(ReasonsOf(j), emissions')
  BY <1>2 DEF IsOutgoing, Quiet
<1>6. sending \subseteq Ids
  BY DEF IInv, TypeInv
<1>7. \A i \in Ids' : IsOutgoing(i)' => i \in sending'
  BY <1>2, <1>3, <1>4 DEF IInv, SlotInv
<1>8. \A i \in sending' : IsOutgoing(i)' \/ In(ReasonsOf(i), emissions')
  <2> SUFFICES ASSUME NEW i \in sending
               PROVE  IsOutgoing(i)' \/ In(ReasonsOf(i), emissions')
    OBVIOUS
  <2>1. IsOutgoing(i) \/ In(ReasonsOf(i), emissions)
    BY DEF IInv, SlotInv
  <2>2. i \in Ids
    BY <1>6
  <2> QED
    BY <1>3, <1>5, <2>1, <2>2
<1> QED
  BY <1>7, <1>8 DEF IInv, SlotInv, In, ReasonsOf

\* Leaving a method or callback that did not make the job outgoing.
LEMMA LeaveStep ==
    ASSUME IInv, MainLoop, NEW j \in Ids, NEW r, Quiet(jobs[j], r),
           Leave(j, r), pumping' \subseteq Ids, faults' \in 0..MaxFaults
    PROVE  IInv'
<1>1. r \in GoodJob
  BY DEF Quiet
<1>2. /\ jobs' = [jobs EXCEPT ![j] = Thawed(r)]
      /\ emissions' = Thaw(j, r.queued)
      /\ UNCHANGED <<printer, own, queue, sending>>
  BY DEF Leave, handlers
<1>3. /\ jobs' \in Seq(GoodJob) /\ Len(jobs') = Len(jobs) /\ Ids' = Ids
      /\ \A i \in Ids : jobs'[i].queued = {}
  BY <1>1, <1>2, JobsExcept DEF IInv
<1>4. Len(jobs) \in Nat /\ Len(jobs) <= MaxJobs
  BY LenProperties DEF IInv, TypeInv
<1>5. /\ emissions' \in Seq(Target(Len(jobs)))
      /\ "state-reasons" \in r.queued => In(ReasonsOf(j), emissions')
  BY <1>2, <1>4, ThawProperties DEF Ids
<1>6. \A i \in Ids : ~In(ReasonsOf(i), emissions)
  BY DEF MainLoop, In
<1>7. SlotInv'
  BY <1>2, <1>5, <1>6, QuietSlot
<1>8. TypeInv'
  BY <1>2, <1>3, <1>4, <1>5 DEF IInv, TypeInv
<1> QED
  BY <1>7, <1>8 DEF IInv

\* A fault uses up one of those that may happen.
LEMMA FaultStep ==
    ASSUME IInv, Fault \/ UNCHANGED faults
    PROVE  faults' \in 0..MaxFaults
BY QueueAssumption DEF IInv, TypeInv, Fault

\* The job with index j is well formed.
LEMMA JobGood ==
    ASSUME IInv, NEW j \in Ids
    PROVE  jobs[j] \in GoodJob /\ jobs[j].queued = {}
BY ElementOfSeq DEF IInv, TypeInv, Ids

\* CreateJob: a new job is not outgoing, and the others keep their index.
LEMMA CreateJobStep ==
    ASSUME IInv, CreateJob
    PROVE  IInv'
<1>1. jobs \in Seq(GoodJob) /\ Len(jobs) \in Nat /\ MaxJobs \in Nat
  BY LenProperties, QueueAssumption DEF IInv, TypeInv
<1>2. /\ jobs' \in Seq(GoodJob) /\ Len(jobs') = Len(jobs) + 1
      /\ \A i \in Ids : jobs'[i] = jobs[i]
      /\ jobs'[Len(jobs) + 1] = NewJob
  BY <1>1, NewJobGood, AppendProperties DEF CreateJob, Ids
<1>3. Ids' = Ids \cup {Len(jobs) + 1} /\ Len(jobs) + 1 \notin Ids
  BY <1>1, <1>2 DEF Ids
<1>4. Len(jobs') <= MaxJobs
  BY <1>1, <1>2 DEF CreateJob
<1>5. emissions' \in Seq(Target(Len(jobs')))
  <2>1. Target(Len(jobs)) \subseteq Target(Len(jobs'))
    BY <1>1, <1>2 DEF Target
  <2> QED
    BY <2>1, SeqMonotonic DEF IInv, TypeInv, CreateJob
<1>6. \A i \in Ids' : jobs'[i].queued = {}
  BY <1>2, <1>3, NewJobGood DEF IInv, TypeInv
<1>7. TypeInv'
  BY <1>2, <1>3, <1>4, <1>5, <1>6 DEF IInv, TypeInv, CreateJob, NextId
<1>8. \A i \in Ids : IsOutgoing(i)' <=> IsOutgoing(i)
  BY <1>2 DEF IsOutgoing
<1>9. ~IsOutgoingJob(jobs'[Len(jobs) + 1])
  BY <1>2, NewJobGood
<1>10. UNCHANGED <<printer, sending, emissions>> /\ sending \subseteq Ids
  BY DEF CreateJob, IInv, TypeInv
<1>11. \A i \in Ids' : IsOutgoing(i)' => i \in sending'
  <2> SUFFICES ASSUME NEW i \in Ids', IsOutgoing(i)'
               PROVE  i \in sending
    BY <1>10
  <2>1. i # Len(jobs) + 1
    BY <1>9 DEF IsOutgoing, IsOutgoingJob
  <2> QED
    BY <1>3, <1>8, <2>1 DEF IInv, SlotInv
<1>12. \A i \in sending' : IsOutgoing(i)' \/ In(ReasonsOf(i), emissions')
  BY <1>8, <1>10 DEF IInv, SlotInv
<1>13. SlotInv'
  BY <1>10, <1>11, <1>12 DEF IInv, SlotInv, In, ReasonsOf
<1> QED
  BY <1>7, <1>13 DEF IInv

\* The main thread's method calls and callbacks.
LEMMA CallStep ==
    ASSUME IInv, NEW j \in Ids,
           \/ AddDocumentCall(j) \/ StartCall(j) \/ CancelCall(j)
           \/ \E p \in Procs, status \in Statuses : ProcessExits(j, p, status)
           \/ DataFails(j) \/ DataEnds(j) \/ MessagesFail(j)
    PROVE  IInv'
<1>0. jobs[j] \in GoodJob
  BY JobGood
<1>1. pumping \subseteq Ids
  BY DEF IInv, TypeInv
<1>2. CASE AddDocumentCall(j)
  BY <1>0, <1>1, <1>2, SpoolingQuiet, FaultStep, LeaveStep DEF AddDocumentCall
<1>3. CASE StartCall(j)
  <2>1. PICK r \in Start(jobs[j]) :
            Leave(j, r) /\ (Fault \/ UNCHANGED faults)
    BY <1>3 DEF StartCall
  <2>2. Quiet(jobs[j], r)
    BY <1>0, SpoolingQuiet
  <2> QED
    BY <1>1, <1>3, <2>1, <2>2, FaultStep, LeaveStep DEF StartCall
<1>4. CASE CancelCall(j)
  BY <1>0, <1>1, <1>4, CancelQuiet, FaultStep, LeaveStep DEF CancelCall
<1>5. ASSUME NEW p \in Procs, NEW status \in Statuses, ProcessExits(j, p, status)
      PROVE  IInv'
  <2>1. Quiet(jobs[j], ProcessFinished(jobs[j], p, status))
    BY <1>0, <1>5, ProcessFinishedQuiet DEF ProcessExits
  <2> QED
    BY <1>1, <1>5, <2>1, FaultStep, LeaveStep DEF ProcessExits
<1>6. CASE DataFails(j)
  <2>1. pumping' \subseteq Ids
    BY <1>1, <1>6 DEF DataFails
  <2> QED
    BY <1>0, <1>6, <2>1, ErrorsQuiet, FaultStep, LeaveStep DEF DataFails
<1>7. CASE DataEnds(j)
  <2>1. pumping' \subseteq Ids
    BY <1>1, <1>7 DEF DataEnds
  <2> QED
    BY <1>0, <1>7, <2>1, CheckJobTransformingQuiet, FaultStep, LeaveStep
       DEF DataEnds
<1>8. CASE MessagesFail(j)
  BY <1>0, <1>1, <1>8, ErrorsQuiet, FaultStep, LeaveStep DEF MessagesFail
<1> QED
  BY <1>2, <1>3, <1>4, <1>5, <1>6, <1>7, <1>8

(***************************************************************************)
(* Handlers                                                                 *)
(***************************************************************************)

\* The emission whose handler runs, and the stack below it.
LEMMA TopProperties ==
    ASSUME IInv, emissions # <<>>
    PROVE  /\ Top \in Target(Len(jobs))
           /\ Tail(emissions) \in Seq(Target(Len(jobs)))
           /\ Top.signal # "printer" => Top.job \in Ids
           /\ \A e : In(e, emissions) => e = Top \/ In(e, Tail(emissions))
<1>1. emissions \in Seq(Target(Len(jobs)))
  BY DEF IInv, TypeInv
<1> QED
  BY <1>1, InTail DEF Top, Target, Ids

\* A handler of a job's state that is not the last one hands over to the next.
LEMMA AdvanceProperties ==
    ASSUME IInv, emissions # <<>>, Top.signal = "state", Top.handler \in {1, 2}
    PROVE  /\ Advance \in Seq(Target(Len(jobs)))
           /\ \A i : In(ReasonsOf(i), emissions) => In(ReasonsOf(i), Advance)
<1> DEFINE t == [Top EXCEPT !.handler = @ + 1]
<1>1. /\ Top \in Target(Len(jobs)) /\ Tail(emissions) \in Seq(Target(Len(jobs)))
      /\ \A e : In(e, emissions) => e = Top \/ In(e, Tail(emissions))
  BY TopProperties
<1>2. t \in Target(Len(jobs))
  BY <1>1 DEF Target, Emission
<1>3. <<t>> \in Seq(Target(Len(jobs)))
  BY <1>2
<1>4. Advance = <<t>> \o Tail(emissions)
  BY DEF Advance
<1> HIDE DEF t
<1>5. \A i : ReasonsOf(i) # Top
  BY DEF ReasonsOf
<1> QED
  BY <1>1, <1>3, <1>4, <1>5, InConcat, ConcatProperties

\* The job's own handler removes two reasons, neither of them job-outgoing.
LEMMA OwnStateNotifyStep ==
    ASSUME IInv, OwnStateNotify
    PROVE  IInv'
<1> DEFINE j == Top.job
           r == TidyReasons(jobs[j])
<1>1. emissions # <<>> /\ Top.signal = "state" /\ Top.handler = 1
  BY DEF OwnStateNotify, Runs
<1>2. j \in Ids
  BY <1>1, TopProperties
<1>3. /\ Advance \in Seq(Target(Len(jobs)))
      /\ \A i : In(ReasonsOf(i), emissions) => In(ReasonsOf(i), Advance)
  BY <1>1, AdvanceProperties
<1>4. CASE j \in own /\ jobs[j].state \in Terminal
  <2>1. /\ jobs' = [jobs EXCEPT ![j] = Thawed(r)] /\ own' = own \ {j}
        /\ emissions' = <<ReasonsOf(j)>> \o Advance
        /\ UNCHANGED <<printer, queue, sending, pumping, faults>>
    BY <1>4 DEF OwnStateNotify
  <2>2. Quiet(jobs[j], r) /\ r \in GoodJob
    BY <1>2, JobGood, TidyReasonsQuiet DEF Quiet
  <2> HIDE DEF r, j
  <2>3. /\ jobs' \in Seq(GoodJob) /\ Len(jobs') = Len(jobs) /\ Ids' = Ids
        /\ \A i \in Ids : jobs'[i].queued = {}
    BY <1>2, <2>1, <2>2, JobsExcept DEF IInv
  <2>4. <<ReasonsOf(j)>> \in Seq(Target(Len(jobs))) /\ In(ReasonsOf(j), <<ReasonsOf(j)>>)
    <3>1. ReasonsOf(j) \in Target(Len(jobs))
      BY <1>2, QueueAssumption, LenProperties
         DEF ReasonsOf, Target, Emission, Ids, IInv, TypeInv
    <3> QED
      BY <3>1 DEF In
  <2>5. /\ emissions' \in Seq(Target(Len(jobs)))
        /\ In(ReasonsOf(j), emissions')
        /\ \A i : In(ReasonsOf(i), Advance) => In(ReasonsOf(i), emissions')
    BY <1>3, <2>1, <2>4, InConcat, ConcatProperties
  <2>6. SlotInv'
    BY <1>2, <1>3, <2>1, <2>2, <2>5, QuietSlot
  <2>7. TypeInv'
    BY <2>1, <2>3, <2>5 DEF IInv, TypeInv
  <2> QED
    BY <2>6, <2>7 DEF IInv
<1>5. CASE ~(j \in own /\ jobs[j].state \in Terminal)
  <2>1. /\ emissions' = Advance
        /\ UNCHANGED <<jobs, own, printer, queue, sending, pumping, faults>>
    BY <1>5 DEF OwnStateNotify
  <2> QED
    BY <1>3, <2>1 DEF IInv, TypeInv, SlotInv, Ids, IsOutgoing
<1> QED
  BY <1>4, <1>5

\* pd_engine_start_job takes the slot or leaves it alone; `rest' must be what
\* is on the stack, or that without an emission of a state.
LEMMA StartJobStep ==
    ASSUME IInv, NEW k \in Ids, NEW rest \in Seq(Target(Len(jobs))),
           \A i : In(ReasonsOf(i), emissions) => In(ReasonsOf(i), rest),
           StartJob(k, rest), UNCHANGED own, queue' \subseteq queue
    PROVE  IInv'
<1> DEFINE p == SetState(jobs[k], "processing")
<1>1. /\ Quiet(jobs[k], p) /\ p \in GoodJob /\ "state" \in p.queued
      /\ p.state_reasons = jobs[k].state_reasons
  <2>1. jobs[k] \in GoodJob /\ "processing" \in JobStates
    BY JobGood DEF JobStates
  <2>2. "state" \in p.queued /\ p.state_reasons = jobs[k].state_reasons
    BY <2>1 DEF SetState, GoodJob, Job
  <2> QED
    BY <2>1, <2>2, SetStateQuiet DEF Quiet
<1>2. PICK r \in IF SlotTaken THEN {p} ELSE StartSending(p) :
        /\ jobs' = [jobs EXCEPT ![k] = Thawed(r)]
        /\ emissions' = Thaw(k, r.queued) \o rest
        /\ pumping' = IF BackendStarted(r) THEN pumping \cup {k} ELSE pumping
        /\ Fault \/ UNCHANGED faults
  BY DEF StartJob
<1>3. /\ printer' = [state |-> "processing", job_outgoing |-> TRUE]
      /\ sending' = IF SlotTaken THEN sending ELSE sending \cup {k}
  BY DEF StartJob
<1> HIDE DEF p
<1>4. r \in GoodJob
  BY <1>1, <1>2, StartSendingGood DEF Announced
<1>5. /\ jobs' \in Seq(GoodJob) /\ Len(jobs') = Len(jobs) /\ Ids' = Ids
      /\ \A i \in Ids : jobs'[i].queued = {}
      /\ \A i \in Ids \ {k} : jobs'[i] = jobs[i]
      /\ jobs'[k].state_reasons = r.state_reasons
  BY <1>2, <1>4, JobsExcept DEF IInv
<1>6. /\ Thaw(k, r.queued) \in Seq(Target(Len(jobs)))
      /\ "state-reasons" \in r.queued => In(ReasonsOf(k), Thaw(k, r.queued))
  BY LenProperties, ThawProperties DEF IInv, TypeInv, Ids
<1>7. /\ emissions' \in Seq(Target(Len(jobs)))
      /\ "state-reasons" \in r.queued => In(ReasonsOf(k), emissions')
      /\ \A i : In(ReasonsOf(i), emissions) => In(ReasonsOf(i), emissions')
  BY <1>2, <1>6, InConcat, ConcatProperties
<1>8. TypeInv'
  <2>1. faults' \in 0..MaxFaults
    BY <1>2, FaultStep
  <2> QED
    BY <1>2, <1>3, <1>5, <1>7, <2>1 DEF IInv, TypeInv
<1>9. \A i \in Ids \ {k} : IsOutgoing(i)' <=> IsOutgoing(i)
  BY <1>5 DEF IsOutgoing
<1>10. sending \subseteq Ids
  BY DEF IInv, TypeInv
<1>11. CASE SlotTaken
  <2>1. r = p
    BY <1>2, <1>11
  <2>2. IsOutgoing(k)' <=> IsOutgoing(k)
    BY <1>1, <1>5, <2>1 DEF IsOutgoing
  <2>3. sending' = sending /\ sending # {} /\ printer'.job_outgoing
    BY <1>3, <1>11 DEF SlotTaken, IInv, SlotInv
  <2>4. \A i \in Ids' : IsOutgoing(i)' => i \in sending'
    BY <1>5, <1>9, <2>2, <2>3 DEF IInv, SlotInv
  <2>5. \A i \in sending' : IsOutgoing(i)' \/ In(ReasonsOf(i), emissions')
    BY <1>7, <1>9, <1>10, <2>2, <2>3 DEF IInv, SlotInv
  <2>6. SlotInv'
    BY <2>3, <2>4, <2>5 DEF IInv, SlotInv, In, ReasonsOf
  <2> QED
    BY <1>8, <2>6 DEF IInv
<1>12. CASE ~SlotTaken
  <2>1. "state-reasons" \in r.queued
    BY <1>1, <1>2, <1>12, StartSendingGood DEF Announced
  <2>2. sending = {}
    BY <1>12 DEF SlotTaken, IInv, SlotInv
  <2>3. sending' = {k} /\ printer'.job_outgoing
    BY <1>3, <1>12, <2>2
  <2>4. \A i \in Ids' : IsOutgoing(i)' => i \in sending'
    BY <1>5, <1>9, <2>2, <2>3 DEF IInv, SlotInv
  <2>5. In(ReasonsOf(k), emissions')
    BY <1>7, <2>1
  <2>6. SlotInv'
    BY <2>3, <2>4, <2>5 DEF SlotInv, In, ReasonsOf
  <2> QED
    BY <1>8, <2>6 DEF IInv
<1> QED
  BY <1>11, <1>12

\* The engine's handler on a job starts it or only disconnects.
LEMMA EngineStateNotifyStep ==
    ASSUME IInv, EngineStateNotify
    PROVE  IInv'
<1> DEFINE j == Top.job
           starts == /\ j \in queue /\ jobs[j].state = "pending"
                     /\ printer.state = "idle"
<1>1. emissions # <<>> /\ Top.signal = "state" /\ Top.handler = 2
  BY DEF EngineStateNotify, Runs
<1>2. /\ j \in Ids /\ Tail(emissions) \in Seq(Target(Len(jobs)))
      /\ \A e : In(e, emissions) => e = Top \/ In(e, Tail(emissions))
  BY <1>1, TopProperties
<1>3. UNCHANGED own /\ queue' \subseteq queue
  BY DEF EngineStateNotify
<1>4. CASE starts
  <2>1. StartJob(j, Tail(emissions))
    BY <1>4 DEF EngineStateNotify
  <2>2. \A i : In(ReasonsOf(i), emissions) => In(ReasonsOf(i), Tail(emissions))
    BY <1>1, <1>2 DEF ReasonsOf
  <2> QED
    BY <1>2, <1>3, <2>1, <2>2, StartJobStep
<1>5. CASE ~starts
  <2>1. /\ emissions' = Advance
        /\ UNCHANGED <<jobs, printer, sending, pumping, faults>>
    BY <1>5 DEF EngineStateNotify
  <2>2. /\ Advance \in Seq(Target(Len(jobs)))
        /\ \A i : In(ReasonsOf(i), emissions) => In(ReasonsOf(i), Advance)
    BY <1>1, AdvanceProperties
  <2> QED
    BY <1>3, <2>1, <2>2 DEF IInv, TypeInv, SlotInv, Ids, IsOutgoing
<1> QED
  BY <1>4, <1>5

\* The printer's handler changes the printer's state, never its slot.
LEMMA PrinterJobNotifyStep ==
    ASSUME IInv, PrinterJobNotify
    PROVE  IInv'
<1>1. emissions # <<>> /\ Top.signal = "state"
  BY DEF PrinterJobNotify, Runs
<1>2. /\ Tail(emissions) \in Seq(Target(Len(jobs)))
      /\ \A i : In(ReasonsOf(i), emissions) => In(ReasonsOf(i), Tail(emissions))
  BY <1>1, TopProperties DEF ReasonsOf
<1>3. /\ <<PrinterState>> \o Tail(emissions) \in Seq(Target(Len(jobs)))
      /\ \A i : In(ReasonsOf(i), Tail(emissions))
                => In(ReasonsOf(i), <<PrinterState>> \o Tail(emissions))
  <2>1. <<PrinterState>> \in Seq(Target(Len(jobs)))
    BY QueueAssumption DEF PrinterState, Target, Emission
  <2> QED
    BY <1>2, <2>1, InConcat, ConcatProperties
<1>4. /\ emissions' \in Seq(Target(Len(jobs)))
      /\ \A i : In(ReasonsOf(i), emissions) => In(ReasonsOf(i), emissions')
  BY <1>2, <1>3 DEF PrinterJobNotify, NotifyPrinter
<1>5. /\ printer' \in [state : {"idle", "processing"}, job_outgoing : BOOLEAN]
      /\ printer'.job_outgoing = printer.job_outgoing
      /\ UNCHANGED <<jobs, own, queue, sending, pumping, faults>>
  BY DEF PrinterJobNotify, handlers, IInv, TypeInv
<1> QED
  BY <1>4, <1>5 DEF IInv, TypeInv, SlotInv, Ids, IsOutgoing

\* The one step that lets go of the slot.
LEMMA ReasonsNotifyStep ==
    ASSUME IInv, ReasonsNotify
    PROVE  IInv'
<1> DEFINE j == Top.job
<1>1. emissions # <<>> /\ Top.signal = "state-reasons"
  BY DEF ReasonsNotify, Runs
<1>2. /\ Top \in Target(Len(jobs)) /\ Tail(emissions) \in Seq(Target(Len(jobs)))
      /\ j \in Ids
      /\ \A e : In(e, emissions) => e = Top \/ In(e, Tail(emissions))
  BY <1>1, TopProperties
<1>3. emissions' = Tail(emissions) /\ UNCHANGED <<jobs, own, queue, pumping, faults>>
  BY DEF ReasonsNotify
<1>4. \A i : i # j /\ In(ReasonsOf(i), emissions) => In(ReasonsOf(i), emissions')
  BY <1>2, <1>3 DEF ReasonsOf
<1>5. CASE j \in sending /\ ~IsOutgoing(j)
  <2>1. /\ printer' = [printer EXCEPT !.job_outgoing = FALSE]
        /\ sending' = sending \ {j}
    BY <1>5 DEF ReasonsNotify, NoLongerOutgoing
  <2>2. sending' = {}
    BY <1>5, <2>1 DEF IInv, SlotInv
  <2>3. \A i \in Ids : ~IsOutgoing(i)
    BY <1>5 DEF IInv, SlotInv
  <2>4. ~printer'.job_outgoing
    BY <2>1 DEF IInv, TypeInv
  <2>5. SlotInv'
    BY <1>3, <2>2, <2>3, <2>4 DEF SlotInv, Ids, IsOutgoing
  <2>6. TypeInv'
    BY <1>2, <1>3, <2>1, <2>2 DEF IInv, TypeInv, Ids
  <2> QED
    BY <2>5, <2>6 DEF IInv
<1>6. CASE ~(j \in sending /\ ~IsOutgoing(j))
  <2>1. UNCHANGED <<printer, sending>>
    BY <1>6 DEF ReasonsNotify, NoLongerOutgoing
  <2>2. \A i \in sending : IsOutgoing(i) \/ In(ReasonsOf(i), emissions')
    BY <1>4, <1>6 DEF IInv, SlotInv
  <2>3. SlotInv'
    BY <1>3, <2>1, <2>2 DEF IInv, SlotInv, Ids, IsOutgoing, In, ReasonsOf
  <2>4. TypeInv'
    BY <1>2, <1>3, <2>1 DEF IInv, TypeInv, Ids
  <2> QED
    BY <2>3, <2>4 DEF IInv
<1> QED
  BY <1>5, <1>6

\* The engine's handler on the printer starts a job or does nothing.
LEMMA PrinterStateNotifyStep ==
    ASSUME IInv, PrinterStateNotify
    PROVE  IInv'
<1>1. emissions # <<>> /\ Top.signal = "printer"
  BY DEF PrinterStateNotify, Runs
<1>2. /\ emissions \in Seq(Target(Len(jobs)))
      /\ Tail(emissions) \in Seq(Target(Len(jobs)))
      /\ \A i : In(ReasonsOf(i), emissions) => In(ReasonsOf(i), Tail(emissions))
  BY <1>1, TopProperties DEF ReasonsOf, IInv, TypeInv
<1>3. CASE printer.state = "idle" /\ Pending # {}
  <2>1. PICK k \in Pending : StartJob(k, emissions)
    BY <1>3 DEF PrinterStateNotify
  <2>2. k \in Ids /\ UNCHANGED own /\ queue' \subseteq queue
    BY DEF Pending, PrinterStateNotify
  <2> QED
    BY <1>2, <2>1, <2>2, StartJobStep
<1>4. CASE ~(printer.state = "idle" /\ Pending # {})
  <2>1. /\ emissions' = Tail(emissions)
        /\ UNCHANGED <<jobs, printer, own, queue, sending, pumping, faults>>
    BY <1>4 DEF PrinterStateNotify
  <2> QED
    BY <1>2, <2>1 DEF IInv, TypeInv, SlotInv, Ids, IsOutgoing
<1> QED
  BY <1>3, <1>4

(***************************************************************************)
(* Theorems                                                                 *)
(***************************************************************************)

\* Every step keeps the invariant.
LEMMA NextIInv == IInv /\ [Next]_vars => IInv'
<1> SUFFICES ASSUME IInv, [Next]_vars
             PROVE  IInv'
  OBVIOUS
<1>1. CASE CreateJob
  BY <1>1, CreateJobStep
<1>2. ASSUME NEW j \in Ids,
             \/ AddDocumentCall(j) \/ StartCall(j) \/ CancelCall(j)
             \/ \E p \in Procs, status \in Statuses : ProcessExits(j, p, status)
             \/ DataFails(j) \/ DataEnds(j) \/ MessagesFail(j)
      PROVE  IInv'
  BY <1>2, CallStep
<1>3. CASE Handler
  BY <1>3, OwnStateNotifyStep, EngineStateNotifyStep, PrinterJobNotifyStep,
     ReasonsNotifyStep, PrinterStateNotifyStep DEF Handler
<1>4. CASE UNCHANGED vars
  BY <1>4 DEF vars, handlers, IInv, TypeInv, SlotInv, Ids, IsOutgoing
<1> QED
  BY <1>1, <1>2, <1>3, <1>4 DEF Next

\* The queue is well typed in every reachable state: in particular a process
\* callback never sets a job to a state that is none, the handlers only name
\* jobs of the printer, and no notification stays queued.
THEOREM QueueTypeCorrect == Spec => []TypeOK
<1> QED
  BY InitIInv, NextIInv, IInvTypeOK, PTL DEF Spec

\* The three records of which job is being sent agree whenever the main loop
\* is in control, however many jobs and faults there are.
THEOREM SendSlotCorrect == Spec => []SendSlotAgrees
<1> QED
  BY InitIInv, NextIInv, IInvSlot, PTL DEF Spec

(***************************************************************************)
(* Nothing is forgotten: the second invariant.  It says of every state of a *)
(* chain of handlers which of them is going to set right what is not right  *)
(* yet.                                                                     *)
(***************************************************************************)

StateAt(j, h) == [signal |-> "state", job |-> j, handler |-> h]

\* Of every job: what is watched has a terminal state to end in, and a job that
\* is pending or processing has its document, so Start cannot happen to it.
Sane(j) ==
    /\ j.watched # {} => j.chain # 0 /\ j.pending_job_state \in Terminal
    /\ j.state \in {"pending", "processing"} => j.document_filename
    /\ ~(j.document_fd /\ j.document_filename)

\* Of a job that has never ended: nothing runs before it is started, and while
\* its backend runs job-outgoing is the first of its reasons, where no other
\* reason that is added twice can drop it.
Fresh(j) ==
    /\ j.state = "pending-held" =>
        j.started = {} /\ j.watched = {} /\ j.state_reasons = <<Incoming>>
    /\ j.state = "pending" =>
        j.started = {} /\ j.watched = {} /\ j.state_reasons = <<>>
    /\ Backend \in Running(j) => OutgoingFirst(j)

SaneJobs == \A j \in Ids : Sane(jobs[j])

\* A job that ended is known to have ended, or about to be.
OwnInv ==
    \A j \in own : /\ Fresh(jobs[j])
                   /\ jobs[j].state \in Terminal => In(StateAt(j, 1), emissions)

\* Whoever waits for an idle printer will be looked at by the engine's handler
\* on the job, or by the one on the printer.
WakeInv ==
    printer.state = "idle" =>
        \A j \in queue : jobs[j].state = "pending" =>
            \/ In(PrinterState, emissions)
            \/ In(StateAt(j, 1), emissions) \/ In(StateAt(j, 2), emissions)

\* A busy printer has a job, or one whose end it will still be told of.
BusyInv ==
    printer.state = "processing" =>
        \E j \in Ids :
            \/ jobs[j].state = "processing"
            \/ /\ jobs[j].state \in Terminal
               /\ \E h \in 1..3 : In(StateAt(j, h), emissions)

LiveInv == SaneJobs /\ OwnInv /\ WakeInv /\ BusyInv

\* What a method or callback may make of job j.
Moved(j, k) ==
    /\ Sane(k)
    /\ k.state # j.state =>
        /\ "state" \in k.queued
        /\ k.state \in Terminal \/ (k.state = "pending" /\ j.state # "processing")
    /\ Fresh(j) /\ j.state \notin Terminal => Fresh(k)

\* A job that is stopped: at once, later, or (when its messages cannot be read)
\* without stopping its processes.
LEMMA StopMoves ==
    ASSUME NEW j \in GoodJob, Sane(j), NEW k, NEW s \in {"canceled", "aborted"},
           SameRun(j, k), Follows(j, k), k.state \in {j.state, s},
           k.pending_job_state \in {j.pending_job_state, s},
           j.state \in {"pending", "pending-held"} => k.state = s
    PROVE  Moved(j, k)
<1>1. s \in Terminal /\ s \notin {"pending", "pending-held", "processing"}
  BY DEF Terminal
<1>2. Sane(k)
  BY <1>1 DEF Sane, SameRun
<1>3. Running(k) = Running(j)
  BY DEF Running, SameRun
<1>4. Fresh(j) => Fresh(k)
  BY <1>1, <1>3 DEF Fresh, Follows
<1> QED
  BY <1>1, <1>2, <1>4 DEF Moved, Follows

\* pd_job_impl_do_cancel_with_reason ends a waiting job at once.
LEMMA DoCancelMoves ==
    ASSUME NEW j \in GoodJob, Sane(j), NEW s \in {"canceled", "aborted"},
           NEW r \in JobReasons, r \notin {Outgoing, StopPoint}
    PROVE  Moved(j, DoCancelWithReason(j, s, r))
<1> DEFINE a == AddStateReason(j, r)
           c == CheckJobTransforming(a)
           k == DoCancelWithReason(j, s, r)
<1>0. s \in JobStates
  BY DEF JobStates, Terminal
<1>1. CanceledTo(j, k, s) /\ Follows(j, k)
  BY <1>0, DoCancelFields, DoCancelFollows
<1>2. a \in GoodJob
  BY AddStateReasonGood
<1>3. j.state \in {"pending", "pending-held"} => k = SetState(a, s)
  BY DoCancelCases DEF Terminal
<1>4. SetState(a, s).state = s
  <2> HIDE DEF a
  <2> QED
    BY <1>0, <1>2, StatesOnly
<1> SUFFICES Moved(j, k)
  OBVIOUS
<1> HIDE DEF a, c, k
<1> QED
  BY <1>1, <1>3, <1>4, StopMoves DEF CanceledTo

\* Cancel, and failing I/O.
LEMMA StopsMove ==
    ASSUME NEW j \in GoodJob, Sane(j)
    PROVE  /\ Moved(j, Cancel(j))
           /\ Moved(j, DataError(j)) /\ Moved(j, MessageError(j))
<1>0. /\ {CanceledByUser, AbortedBySystem} \subseteq JobReasons
      /\ CanceledByUser \notin {Outgoing, StopPoint}
      /\ AbortedBySystem \notin {Outgoing, StopPoint}
  BY DEF JobReasons, CanceledByUser, AbortedBySystem, Outgoing, StopPoint
<1>1. Moved(j, DataError(j))
  BY <1>0, DoCancelMoves DEF DataError
<1>2. Moved(j, MessageError(j))
  BY StopFollows, MessageErrorFields, StopMoves
<1>3. Moved(j, Cancel(j))
  <2>1. CASE j.state \in {"pending", "pending-held"}
    <3>1. Cancel(j) = DoCancelWithReason(j, "canceled", CanceledByUser)
      BY <2>1 DEF Cancel, Terminal
    <3> QED
      BY <1>0, <3>1, DoCancelMoves
  <2>2. CASE j.state \notin {"pending", "pending-held"}
    BY <2>2, CancelFields, StopFollows, StopMoves DEF CanceledTo
  <2> QED
    BY <2>1, <2>2
<1> QED
  BY <1>1, <1>2, <1>3

\* The end of a process gives a job a terminal state or none.
LEMMA ExitMoves ==
    ASSUME NEW j \in GoodJob, Sane(j), NEW p \in j.watched, NEW status
    PROVE  Moved(j, ProcessFinished(j, p, status))
<1> DEFINE k == ProcessFinished(j, p, status)
<1>1. /\ k.document_fd = j.document_fd
      /\ k.document_filename = j.document_filename
      /\ k.chain = j.chain /\ k.started = j.started
      /\ k.finished = j.finished \cup {p} /\ k.watched = j.watched \ {p}
      /\ k.pending_job_state =
            IF status = "failed" THEN "aborted" ELSE j.pending_job_state
      /\ k.state =
            IF AllFinished(k) THEN k.pending_job_state ELSE j.state
      /\ AllFinished(k) => "state" \in k.queued
  BY ProcessFinishedFields
<1>2. j.chain # 0 /\ k.pending_job_state \in Terminal
  BY <1>1 DEF Sane, Terminal
<1>3. p # Backend /\ OutgoingFirst(j) => OutgoingFirst(k)
  BY FilterEndFollows
<1> SUFFICES Moved(j, k)
  OBVIOUS
<1> HIDE DEF k
<1>4. Terminal \cap {"pending", "pending-held", "processing"} = {}
  BY DEF Terminal
<1>5. Sane(k)
  BY <1>1, <1>2, <1>4 DEF Sane
<1>6. ASSUME Fresh(j)
      PROVE  Fresh(k)
  <2>1. j.state \notin {"pending", "pending-held"}
    BY <1>6 DEF Fresh
  <2>2. k.state \notin {"pending", "pending-held"}
    BY <1>1, <1>2, <1>4, <2>1
  <2>3. Backend \in Running(k) => Backend \in Running(j) /\ p # Backend
    BY <1>1 DEF Running
  <2> QED
    BY <1>3, <1>6, <2>2, <2>3 DEF Fresh
<1> QED
  BY <1>1, <1>2, <1>5, <1>6 DEF Moved

\* The end of the data only removes a reason, which a waiting job has not.
LEMMA DataEndMoves ==
    ASSUME NEW j \in GoodJob, Sane(j)
    PROVE  Moved(j, CheckJobTransforming(j))
<1> DEFINE k == CheckJobTransforming(j)
<1>1. SameButReasons(j, k) /\ Follows(j, k)
  BY ReasonsOnly, CheckJobTransformingFollows DEF JobReasons
<1>2. \/ k.state_reasons = j.state_reasons
      \/ k.state_reasons = RemoveReason(j.state_reasons, Transforming)
  BY DEF CheckJobTransforming, RemoveStateReason, GoodJob, Job
<1> SUFFICES Moved(j, k)
  OBVIOUS
<1> HIDE DEF k
<1>3. /\ RemoveReason(<<>>, Transforming) = <<>>
      /\ RemoveReason(<<Incoming>>, Transforming) = <<Incoming>>
  BY DEF RemoveReason, HasReason, Incoming, Transforming
<1>4. Running(k) = Running(j)
  BY <1>1 DEF SameButReasons, SameRun, Running
<1>5. Fresh(j) => Fresh(k)
  BY <1>1, <1>2, <1>3, <1>4 DEF Fresh, SameButReasons, SameRun, Follows
<1> QED
  BY <1>1, <1>5 DEF Moved, Sane, SameButReasons, SameRun

\* AddDocument, and Start of a job that holds a descriptor: such a job is
\* neither pending nor processing.
LEMMA DocumentMoves ==
    ASSUME NEW j \in GoodJob, Sane(j)
    PROVE  /\ CanAddDocument(j) => Moved(j, AddDocument(j))
           /\ j.document_fd => \A k \in Start(j) : Moved(j, k)
<1>0. j \in Job
  BY DEF GoodJob
<1>1. CanAddDocument(j) => Moved(j, AddDocument(j))
  BY <1>0 DEF CanAddDocument, AddDocument, Moved, Sane, Fresh, Running,
              OutgoingFirst, Job
<1>2. ASSUME j.document_fd, NEW k \in Start(j)
      PROVE  Moved(j, k)
  <2> DEFINE s == Spooled(j)
             i == RemoveStateReason(s, Incoming)
             d == DoCancelWithReason(s, "aborted", AbortedBySystem)
  <2>1. j.state \notin {"pending", "processing"}
    BY <1>2 DEF Sane
  <2>2. /\ s \in GoodJob /\ s.state = j.state /\ s.queued = j.queued
        /\ s.state_reasons = j.state_reasons /\ s.watched = j.watched
        /\ s.started = j.started /\ s.finished = j.finished /\ s.chain = j.chain
        /\ s.pending_job_state = j.pending_job_state
        /\ s.document_fd = FALSE /\ s.document_filename = TRUE
    BY DEF Spooled, GoodJob, Job
  <2>3. Sane(s) /\ (Fresh(j) => Fresh(s))
    BY <2>2 DEF Sane, Fresh, Running, OutgoingFirst
  <2>4. k \in {j, s, d, SetState(i, "pending")}
    BY <1>2 DEF Start
  <2> HIDE DEF s
  <2>5. Moved(s, d)
    <3>1. AbortedBySystem \in JobReasons /\ AbortedBySystem \notin {Outgoing, StopPoint}
      BY DEF JobReasons, AbortedBySystem, Outgoing, StopPoint
    <3> QED
      BY <2>2, <2>3, <3>1, DoCancelMoves
  <2>6. Moved(j, d)
    <3> HIDE DEF d
    <3> QED
      BY <2>2, <2>3, <2>5 DEF Moved
  <2>7. Moved(j, j) /\ Moved(j, s)
    BY <2>2, <2>3 DEF Moved
  <2>8. /\ i \in GoodJob /\ SameButReasons(s, i)
        /\ i.state_reasons = RemoveReason(j.state_reasons, Incoming)
    <3>1. Incoming \in JobReasons
      BY DEF JobReasons
    <3>2. i \in GoodJob /\ SameButReasons(s, i)
      BY <2>2, <3>1, RemoveStateReasonQuiet, ReasonsOnly DEF Quiet
    <3>3. i.state_reasons = RemoveReason(s.state_reasons, Incoming)
      BY <2>2 DEF RemoveStateReason, GoodJob, Job
    <3> QED
      BY <2>2, <3>2, <3>3
  <2> HIDE DEF i
  <2> DEFINE m == SetState(i, "pending")
  <2>9. /\ SameRun(i, m) /\ m.state = "pending" /\ "state" \in m.queued
        /\ m.pending_job_state = i.pending_job_state
        /\ m.state_reasons = i.state_reasons
    BY <2>8, StatesOnly DEF JobStates
  <2> HIDE DEF m
  <2>10. Moved(j, m)
    <3>1. Sane(m)
      BY <2>2, <2>3, <2>8, <2>9 DEF Sane, SameRun, SameButReasons
    <3>2. ASSUME Fresh(j), j.state \notin Terminal
          PROVE  Fresh(m)
      <4>1. j.state = "pending-held"
        BY <1>0, <2>1, <3>2 DEF Job, JobStates
      <4>2. j.started = {} /\ j.watched = {} /\ j.state_reasons = <<Incoming>>
        BY <3>2, <4>1 DEF Fresh
      <4>3. RemoveReason(<<Incoming>>, Incoming) = <<>>
        <5> DEFINE w == <<Incoming>>
                   S == {Incoming}
        <5>1. w \in Seq(S) /\ HasReason(w, Incoming) /\ Len(w) = 1
          BY DEF HasReason
        <5> HIDE DEF w, S
        <5>2. /\ RemoveReason(w, Incoming) \in Seq(S)
              /\ Len(RemoveReason(w, Incoming)) = Len(w) - 1
          BY <5>1, RemoveListed
        <5>3. RemoveReason(w, Incoming) = <<>>
          BY <5>1, <5>2, EmptySeq
        <5> QED
          BY <5>3 DEF w
      <4> QED
        BY <2>2, <2>8, <2>9, <4>2, <4>3
           DEF Fresh, SameRun, SameButReasons, Running
    <3> QED
      BY <2>1, <2>9, <3>1, <3>2 DEF Moved
  <2> QED
    BY <2>4, <2>6, <2>7, <2>10 DEF m
<1> QED
  BY <1>1, <1>2


\* The engine starts a pending job.
LEMMA StartMoves ==
    ASSUME NEW j \in GoodJob, Sane(j), j.state = "pending",
           NEW p, p = SetState(j, "processing"),
           NEW k \in {p} \cup StartSending(p)
    PROVE  /\ Sane(k) /\ k.state \in {"processing", "aborted"}
           /\ "state" \in k.queued
           /\ Fresh(j) => Fresh(k)
<1>0. "processing" \in JobStates
  BY DEF JobStates
<1>1. /\ p \in GoodJob /\ SameRun(j, p) /\ p.state = "processing"
      /\ p.pending_job_state = j.pending_job_state
      /\ p.state_reasons = j.state_reasons /\ "state" \in p.queued
  BY <1>0, StatesOnly, SetStateQuiet DEF Quiet
<1>2. /\ p.watched # {} => p.chain # 0 /\ p.pending_job_state \in Terminal
      /\ p.document_filename /\ ~(p.document_fd /\ p.document_filename)
  BY <1>1 DEF Sane, SameRun
<1>3. CASE k = p
  <2>1. Fresh(j) => Fresh(p)
    BY <1>1 DEF Fresh, Running, SameRun
  <2> QED
    BY <1>1, <1>2, <1>3, <2>1 DEF Sane
<1>4. CASE k \in StartSending(p)
  <2>1. /\ k.document_fd = p.document_fd
        /\ k.document_filename = p.document_filename
        /\ k.state \in {"processing", "aborted"}
        /\ k.watched # {} => k.chain # 0 /\ k.pending_job_state \in Terminal
        /\ p.state_reasons = <<>> => OutgoingFirst(k)
    BY <1>1, <1>2, <1>4, StartSendingShape
  <2>2. "state" \in k.queued
    BY <1>1, <1>4, StartSendingGood DEF Announced
  <2>3. Fresh(j) => Fresh(k)
    BY <1>1, <2>1 DEF Fresh
  <2> QED
    BY <1>2, <2>1, <2>2, <2>3 DEF Sane
<1> QED
  BY <1>3, <1>4

\* Thawing a job emits its state if that is queued.
LEMMA ThawState ==
    ASSUME NEW n \in Nat, n <= MaxJobs, NEW j \in 1..n, NEW queued,
           "state" \in queued
    PROVE  In(StateAt(j, 1), Thaw(j, queued))
<1> DEFINE a == <<StateOf(j)>>
           b == IF "state-reasons" \in queued THEN <<ReasonsOf(j)>> ELSE <<>>
<1>1. MaxJobs \in Nat /\ j \in 0..MaxJobs
  BY QueueAssumption
<1>2. StateOf(j) \in Emission /\ ReasonsOf(j) \in Emission
  BY <1>1 DEF Emission, StateOf, ReasonsOf
<1>3. a \in Seq(Emission) /\ b \in Seq(Emission)
  BY <1>2
<1>4. In(StateAt(j, 1), a)
  BY DEF In, StateAt, StateOf
<1>5. Thaw(j, queued) = a \o b
  BY DEF Thaw
<1> HIDE DEF a, b
<1> QED
  BY <1>3, <1>4, <1>5, InConcat

\* No job, nothing to forget.
LEMMA InitLiveInv == Init => LiveInv
BY DEF Init, LiveInv, SaneJobs, OwnInv, WakeInv, BusyInv, Ids

\* A method or callback: what it changes is announced.
LEMMA LeaveLive ==
    ASSUME IInv, LiveInv, MainLoop, NEW j \in Ids, NEW r \in GoodJob,
           Moved(jobs[j], r), Leave(j, r)
    PROVE  LiveInv'
<1>1. /\ jobs' = [jobs EXCEPT ![j] = Thawed(r)]
      /\ emissions' = Thaw(j, r.queued)
      /\ UNCHANGED <<printer, own, queue, sending>>
  BY DEF Leave, handlers
<1>2. /\ Ids' = Ids /\ \A i \in Ids \ {j} : jobs'[i] = jobs[i]
      /\ jobs'[j] = Thawed(r)
  BY <1>1, JobsExcept DEF IInv
<1>3. SameButReasons(r, Thawed(r)) /\ Thawed(r).state_reasons = r.state_reasons
  BY ReasonsOnly, ThawedGood DEF JobReasons
<1>4. /\ jobs'[j].state = r.state /\ Sane(jobs'[j])
      /\ Fresh(r) => Fresh(jobs'[j])
  <2>1. Sane(r)
    BY DEF Moved
  <2> QED
    BY <1>2, <1>3, <2>1
       DEF Sane, Fresh, Running, OutgoingFirst, SameButReasons, SameRun
<1>5. Len(jobs) \in Nat /\ Len(jobs) <= MaxJobs
  BY LenProperties DEF IInv, TypeInv
<1>6. "state" \in r.queued => In(StateAt(j, 1), emissions')
  BY <1>1, <1>5, ThawState DEF Ids
<1>7. \A e : ~In(e, emissions)
  BY DEF MainLoop, In
<1>8. r.state # jobs[j].state =>
        /\ In(StateAt(j, 1), emissions')
        /\ r.state \in Terminal \/ jobs[j].state # "processing"
  BY <1>6 DEF Moved
<1>9. SaneJobs'
  BY <1>2, <1>4 DEF LiveInv, SaneJobs
<1>10. OwnInv'
  <2> SUFFICES ASSUME NEW i \in own
               PROVE  /\ Fresh(jobs'[i])
                      /\ jobs'[i].state \in Terminal => In(StateAt(i, 1), emissions')
    BY <1>1 DEF OwnInv
  <2>1. /\ i \in Ids /\ Fresh(jobs[i]) /\ jobs[i].state \notin Terminal
    BY <1>7 DEF IInv, TypeInv, LiveInv, OwnInv
  <2>2. CASE i = j
    <3>1. Fresh(jobs'[j])
      BY <1>4, <2>1, <2>2 DEF Moved
    <3> QED
      BY <1>4, <1>8, <2>1, <2>2, <3>1
  <2>3. CASE i # j
    BY <1>2, <2>1, <2>3
  <2> QED
    BY <2>2, <2>3
<1>11. WakeInv'
  <2> SUFFICES ASSUME printer.state = "idle", NEW i \in queue,
                      jobs'[i].state = "pending"
               PROVE  In(StateAt(i, 1), emissions')
    BY <1>1 DEF WakeInv
  <2>1. i \in Ids /\ jobs[i].state # "pending"
    BY <1>7 DEF IInv, TypeInv, LiveInv, WakeInv
  <2> QED
    BY <1>2, <1>4, <1>8, <2>1
<1>12. BusyInv'
  <2> SUFFICES ASSUME printer.state = "processing"
               PROVE  \E i \in Ids :
                        \/ jobs'[i].state = "processing"
                        \/ /\ jobs'[i].state \in Terminal
                           /\ \E h \in 1..3 : In(StateAt(i, h), emissions')
    BY <1>1, <1>2 DEF BusyInv
  <2>1. PICK i \in Ids : jobs[i].state = "processing"
    BY <1>7 DEF LiveInv, BusyInv
  <2>2. CASE i = j /\ r.state # "processing"
    BY <1>4, <1>8, <2>1, <2>2
  <2>3. CASE ~(i = j /\ r.state # "processing")
    BY <1>2, <1>4, <2>1, <2>3
  <2> QED
    BY <2>2, <2>3
<1> QED
  BY <1>9, <1>10, <1>11, <1>12 DEF LiveInv

\* A new job is held, and nobody waits for it.
LEMMA CreateJobLive ==
    ASSUME IInv, LiveInv, CreateJob
    PROVE  LiveInv'
<1>1. jobs \in Seq(GoodJob) /\ Len(jobs) \in Nat
  BY LenProperties DEF IInv, TypeInv
<1>2. /\ Len(jobs') = Len(jobs) + 1
      /\ \A i \in Ids : jobs'[i] = jobs[i]
      /\ jobs'[Len(jobs) + 1] = NewJob
  BY <1>1, NewJobGood, AppendProperties DEF CreateJob, Ids
<1>3. Ids' = Ids \cup {Len(jobs) + 1} /\ Len(jobs) + 1 \notin Ids
  BY <1>1, <1>2 DEF Ids
<1>4. /\ own' = own \cup {Len(jobs) + 1} /\ queue' = queue \cup {Len(jobs) + 1}
      /\ UNCHANGED <<printer, emissions>> /\ own \subseteq Ids /\ queue \subseteq Ids
  BY DEF CreateJob, NextId, IInv, TypeInv
<1>5. Sane(NewJob) /\ Fresh(NewJob) /\ NewJob.state = "pending-held"
  BY DEF NewJob, Sane, Fresh, Running
<1>6. "pending-held" \notin Terminal
  BY DEF Terminal
<1>7. SaneJobs' /\ OwnInv'
  BY <1>2, <1>3, <1>4, <1>5, <1>6 DEF LiveInv, SaneJobs, OwnInv
<1>8. WakeInv' /\ BusyInv'
  BY <1>2, <1>3, <1>4, <1>5 DEF LiveInv, WakeInv, BusyInv
<1> QED
  BY <1>7, <1>8 DEF LiveInv

\* The main thread's method calls and callbacks.
LEMMA CallLive ==
    ASSUME IInv, LiveInv, NEW j \in Ids,
           \/ AddDocumentCall(j) \/ StartCall(j) \/ CancelCall(j)
           \/ \E p \in Procs, status \in Statuses : ProcessExits(j, p, status)
           \/ DataFails(j) \/ DataEnds(j) \/ MessagesFail(j)
    PROVE  LiveInv'
<1>0. jobs[j] \in GoodJob /\ Sane(jobs[j])
  BY JobGood DEF LiveInv, SaneJobs
<1>2. CASE AddDocumentCall(j)
  <2>1. AddDocument(jobs[j]) \in GoodJob /\ Moved(jobs[j], AddDocument(jobs[j]))
    BY <1>0, <1>2, SpoolingQuiet, DocumentMoves DEF AddDocumentCall, Quiet
  <2> QED
    BY <1>2, <2>1, LeaveLive DEF AddDocumentCall
<1>3. CASE StartCall(j)
  <2>1. PICK r \in Start(jobs[j]) : Leave(j, r)
    BY <1>3 DEF StartCall
  <2>2. r \in GoodJob /\ Moved(jobs[j], r)
    BY <1>0, <1>3, SpoolingQuiet, DocumentMoves DEF StartCall, Quiet
  <2> QED
    BY <1>3, <2>1, <2>2, LeaveLive DEF StartCall
<1>4. CASE CancelCall(j)
  <2>1. Cancel(jobs[j]) \in GoodJob /\ Moved(jobs[j], Cancel(jobs[j]))
    BY <1>0, CancelQuiet, StopsMove DEF Quiet
  <2> QED
    BY <1>4, <2>1, LeaveLive DEF CancelCall
<1>5. ASSUME NEW p \in Procs, NEW status \in Statuses, ProcessExits(j, p, status)
      PROVE  LiveInv'
  <2>1. /\ ProcessFinished(jobs[j], p, status) \in GoodJob
        /\ Moved(jobs[j], ProcessFinished(jobs[j], p, status))
    BY <1>0, <1>5, ProcessFinishedQuiet, ExitMoves DEF ProcessExits, Quiet
  <2> QED
    BY <1>5, <2>1, LeaveLive DEF ProcessExits
<1>6. CASE DataFails(j)
  <2>1. DataError(jobs[j]) \in GoodJob /\ Moved(jobs[j], DataError(jobs[j]))
    BY <1>0, ErrorsQuiet, StopsMove DEF Quiet
  <2> QED
    BY <1>6, <2>1, LeaveLive DEF DataFails
<1>7. CASE DataEnds(j)
  <2>1. /\ CheckJobTransforming(jobs[j]) \in GoodJob
        /\ Moved(jobs[j], CheckJobTransforming(jobs[j]))
    BY <1>0, CheckJobTransformingQuiet, DataEndMoves DEF Quiet
  <2> QED
    BY <1>7, <2>1, LeaveLive DEF DataEnds
<1>8. CASE MessagesFail(j)
  <2>1. MessageError(jobs[j]) \in GoodJob /\ Moved(jobs[j], MessageError(jobs[j]))
    BY <1>0, ErrorsQuiet, StopsMove DEF Quiet
  <2> QED
    BY <1>8, <2>1, LeaveLive DEF MessagesFail
<1> QED
  BY <1>2, <1>3, <1>4, <1>5, <1>6, <1>7, <1>8


\* Handing over to the next handler keeps all other emissions.
LEMMA AdvanceIn ==
    ASSUME IInv, emissions # <<>>, Top.signal = "state", Top.handler \in {1, 2}
    PROVE  /\ Top = StateAt(Top.job, Top.handler)
           /\ In(StateAt(Top.job, Top.handler + 1), Advance)
           /\ \A e : In(e, emissions) => e = Top \/ In(e, Advance)
<1> DEFINE t == [Top EXCEPT !.handler = @ + 1]
<1>1. /\ Top \in Target(Len(jobs)) /\ Tail(emissions) \in Seq(Target(Len(jobs)))
      /\ \A e : In(e, emissions) => e = Top \/ In(e, Tail(emissions))
  BY TopProperties
<1>2. t \in Target(Len(jobs)) /\ t = StateAt(Top.job, Top.handler + 1)
  BY <1>1 DEF Target, Emission, StateAt
<1>3. <<t>> \in Seq(Target(Len(jobs))) /\ In(t, <<t>>)
  BY <1>2 DEF In
<1>4. Advance = <<t>> \o Tail(emissions)
  BY DEF Advance
<1>5. Top = StateAt(Top.job, Top.handler)
  BY <1>1 DEF Target, Emission, StateAt
<1> HIDE DEF t
<1>6. /\ In(t, Advance) /\ \A e : In(e, Tail(emissions)) => In(e, Advance)
  BY <1>1, <1>3, <1>4, InConcat
<1> QED
  BY <1>1, <1>2, <1>5, <1>6

\* Emissions of a state differ by job or by handler.
LEMMA StateAtInjective ==
    ASSUME NEW i, NEW j, NEW g, NEW h, StateAt(i, g) = StateAt(j, h)
    PROVE  i = j /\ g = h
BY DEF StateAt

\* The job's own handler: an end that was announced is now known.
LEMMA OwnStateNotifyLive ==
    ASSUME IInv, LiveInv, OwnStateNotify
    PROVE  LiveInv'
<1> DEFINE j == Top.job
           r == TidyReasons(jobs[j])
           ended == j \in own /\ jobs[j].state \in Terminal
<1>1. emissions # <<>> /\ Top.signal = "state" /\ Top.handler = 1
  BY DEF OwnStateNotify, Runs
<1>2. j \in Ids
  BY <1>1, TopProperties
<1>3. /\ Top = StateAt(j, 1) /\ In(StateAt(j, 2), Advance)
      /\ \A e : In(e, emissions) => e = Top \/ In(e, Advance)
      /\ Advance \in Seq(Target(Len(jobs)))
  BY <1>1, AdvanceIn, AdvanceProperties
<1>4. /\ UNCHANGED <<printer, queue>> /\ own' = IF ended THEN own \ {j} ELSE own
      /\ ~ended => UNCHANGED jobs
      /\ \A e : In(e, Advance) => In(e, emissions')
  <2>1. <<ReasonsOf(j)>> \in Seq(Target(Len(jobs)))
    <3>1. ReasonsOf(j) \in Target(Len(jobs))
      BY <1>2, QueueAssumption, LenProperties
         DEF ReasonsOf, Target, Emission, Ids, IInv, TypeInv
    <3> QED
      BY <3>1
  <2>2. UNCHANGED <<printer, queue>>
    BY DEF OwnStateNotify
  <2>3. ended => own' = own \ {j} /\ emissions' = <<ReasonsOf(j)>> \o Advance
    BY DEF OwnStateNotify
  <2>4. ~ended => emissions' = Advance /\ UNCHANGED <<jobs, own>>
    BY DEF OwnStateNotify
  <2> HIDE DEF j, ended
  <2>5. \A e : In(e, Advance) => In(e, <<ReasonsOf(j)>> \o Advance)
    BY <1>3, <2>1, InConcat
  <2> QED
    BY <2>2, <2>3, <2>4, <2>5
<1>5. /\ Ids' = Ids /\ \A i \in Ids : jobs'[i].state = jobs[i].state
      /\ \A i \in Ids : Sane(jobs'[i])
      /\ \A i \in own' : jobs'[i] = jobs[i]
  <2>1. CASE ended
    <3>1. /\ jobs' = [jobs EXCEPT ![j] = Thawed(r)]
      BY <2>1 DEF OwnStateNotify
    <3>2. jobs[j] \in GoodJob
      BY <1>2, JobGood
    <3>3. r \in GoodJob /\ SameButReasons(jobs[j], r)
      BY <3>2, TidyReasonsQuiet, TidyReasonsOnly DEF Quiet
    <3> HIDE DEF r, j
    <3>4. SameButReasons(r, Thawed(r))
      BY <3>3, ReasonsOnly DEF JobReasons
    <3>5. /\ Ids' = Ids /\ \A i \in Ids \ {j} : jobs'[i] = jobs[i]
          /\ jobs'[j] = Thawed(r)
      BY <1>2, <3>1, <3>3, JobsExcept DEF IInv
    <3>6. jobs'[j].state = jobs[j].state /\ Sane(jobs'[j])
      BY <1>2, <3>3, <3>4, <3>5
         DEF LiveInv, SaneJobs, Sane, SameButReasons, SameRun
    <3>7. own \subseteq Ids
      BY DEF IInv, TypeInv
    <3> QED
      BY <1>4, <2>1, <3>5, <3>6, <3>7 DEF LiveInv, SaneJobs
  <2>2. CASE ~ended
    BY <1>4, <2>2 DEF LiveInv, SaneJobs, Ids
  <2> QED
    BY <2>1, <2>2
<1> HIDE DEF j, r, ended
<1>6. OwnInv'
  <2> SUFFICES ASSUME NEW i \in own'
               PROVE  /\ Fresh(jobs'[i])
                      /\ jobs'[i].state \in Terminal => In(StateAt(i, 1), emissions')
    BY DEF OwnInv
  <2>1. i \in own /\ jobs'[i] = jobs[i]
    BY <1>4, <1>5
  <2>2. ASSUME jobs[i].state \in Terminal
        PROVE  i # j
    BY <1>4, <2>1, <2>2 DEF ended
  <2>3. /\ Fresh(jobs[i])
        /\ jobs[i].state \in Terminal => In(StateAt(i, 1), emissions)
    BY <2>1 DEF LiveInv, OwnInv
  <2>4. i # j => StateAt(i, 1) # Top
    BY <1>3, StateAtInjective
  <2> QED
    BY <1>3, <1>4, <2>1, <2>2, <2>3, <2>4
<1>7. WakeInv'
  <2> SUFFICES ASSUME printer.state = "idle", NEW i \in queue,
                      jobs'[i].state = "pending"
               PROVE  \/ In(PrinterState, emissions')
                      \/ In(StateAt(i, 1), emissions')
                      \/ In(StateAt(i, 2), emissions')
    BY <1>4 DEF WakeInv
  <2>1. i \in Ids
    BY DEF IInv, TypeInv
  <2>2. \/ In(PrinterState, emissions)
        \/ In(StateAt(i, 1), emissions) \/ In(StateAt(i, 2), emissions)
    BY <1>5, <2>1 DEF LiveInv, WakeInv
  <2>3. PrinterState # Top
    BY <1>1 DEF PrinterState
  <2>4. StateAt(i, 1) = Top => i = j
    BY <1>3, StateAtInjective
  <2>5. StateAt(i, 2) # Top
    BY <1>3, StateAtInjective
  <2> QED
    BY <1>3, <1>4, <2>2, <2>3, <2>4, <2>5
<1>8. BusyInv'
  <2> SUFFICES ASSUME printer.state = "processing"
               PROVE  \E i \in Ids :
                        \/ jobs'[i].state = "processing"
                        \/ /\ jobs'[i].state \in Terminal
                           /\ \E h \in 1..3 : In(StateAt(i, h), emissions')
    BY <1>4, <1>5 DEF BusyInv
  <2>1. PICK i \in Ids :
            \/ jobs[i].state = "processing"
            \/ /\ jobs[i].state \in Terminal
               /\ \E h \in 1..3 : In(StateAt(i, h), emissions)
    BY DEF LiveInv, BusyInv
  <2>2. ASSUME NEW h \in 1..3, In(StateAt(i, h), emissions)
        PROVE  \E g \in 1..3 : In(StateAt(i, g), emissions')
    <3>1. CASE StateAt(i, h) = Top
      <4>1. i = j
        BY <1>3, <3>1, StateAtInjective
      <4> QED
        BY <1>3, <1>4, <4>1
    <3>2. CASE StateAt(i, h) # Top
      BY <1>3, <1>4, <2>2, <3>2
    <3> QED
      BY <3>1, <3>2
  <2> QED
    BY <1>5, <2>1, <2>2
<1> QED
  BY <1>5, <1>6, <1>7, <1>8 DEF LiveInv, SaneJobs

\* pd_engine_start_job: the printer is busy with the job, or with announcing
\* that it could not be run.
LEMMA StartJobLive ==
    ASSUME IInv, LiveInv, NEW k \in Pending, NEW rest \in Seq(Target(Len(jobs))),
           StartJob(k, rest), UNCHANGED own,
           \A i \in own : In(StateAt(i, 1), emissions) => In(StateAt(i, 1), rest)
    PROVE  LiveInv'
<1> DEFINE p == SetState(jobs[k], "processing")
<1>0. /\ k \in Ids /\ jobs[k].state = "pending"
      /\ jobs[k] \in GoodJob /\ Sane(jobs[k])
  BY JobGood DEF Pending, LiveInv, SaneJobs
<1>1. PICK r \in IF SlotTaken THEN {p} ELSE StartSending(p) :
        /\ jobs' = [jobs EXCEPT ![k] = Thawed(r)]
        /\ emissions' = Thaw(k, r.queued) \o rest
  BY DEF StartJob
<1>2. r \in {p} \cup StartSending(p)
  BY <1>1
<1>3. /\ Sane(r) /\ r.state \in {"processing", "aborted"} /\ "state" \in r.queued
      /\ Fresh(jobs[k]) => Fresh(r)
  BY <1>0, <1>2, StartMoves
<1>4. r \in GoodJob
  <2>1. p \in GoodJob /\ "state" \in p.queued
    BY <1>0, StatesOnly, SetStateQuiet DEF JobStates, Quiet
  <2> QED
    BY <1>2, <2>1, StartSendingGood DEF Announced
<1> HIDE DEF p
<1>5. /\ Ids' = Ids /\ \A i \in Ids \ {k} : jobs'[i] = jobs[i]
      /\ jobs'[k] = Thawed(r)
  BY <1>0, <1>1, <1>4, JobsExcept DEF IInv
<1>6. SameButReasons(r, Thawed(r)) /\ Thawed(r).state_reasons = r.state_reasons
  BY <1>4, ReasonsOnly, ThawedGood DEF JobReasons
<1>7. /\ jobs'[k].state = r.state /\ Sane(jobs'[k])
      /\ Fresh(r) => Fresh(jobs'[k])
  BY <1>3, <1>5, <1>6
     DEF Sane, Fresh, Running, OutgoingFirst, SameButReasons, SameRun
<1>8. /\ In(StateAt(k, 1), emissions')
      /\ \A e : In(e, rest) => In(e, emissions')
  <2>1. Len(jobs) \in Nat /\ Len(jobs) <= MaxJobs
    BY LenProperties DEF IInv, TypeInv
  <2>2. /\ Thaw(k, r.queued) \in Seq(Target(Len(jobs)))
        /\ In(StateAt(k, 1), Thaw(k, r.queued))
    BY <1>0, <1>3, <2>1, ThawProperties, ThawState DEF Ids
  <2> QED
    BY <1>1, <2>2, InConcat
<1>9. printer'.state = "processing"
  BY DEF StartJob
<1>10. WakeInv'
  BY <1>9 DEF WakeInv
<1>11. BusyInv'
  <2>1. "aborted" \in Terminal /\ 1 \in 1..3
    BY DEF Terminal
  <2> QED
    BY <1>0, <1>3, <1>5, <1>7, <1>8, <2>1 DEF BusyInv
<1>12. OwnInv'
  <2> SUFFICES ASSUME NEW i \in own
               PROVE  /\ Fresh(jobs'[i])
                      /\ jobs'[i].state \in Terminal => In(StateAt(i, 1), emissions')
    BY DEF OwnInv
  <2>1. /\ i \in Ids /\ Fresh(jobs[i])
        /\ jobs[i].state \in Terminal => In(StateAt(i, 1), emissions)
    BY DEF IInv, TypeInv, LiveInv, OwnInv
  <2>2. CASE i = k
    BY <1>3, <1>7, <1>8, <2>1, <2>2
  <2>3. CASE i # k
    BY <1>5, <1>8, <2>1, <2>3
  <2> QED
    BY <2>2, <2>3
<1>13. SaneJobs'
  BY <1>5, <1>7 DEF LiveInv, SaneJobs
<1> QED
  BY <1>10, <1>11, <1>12, <1>13 DEF LiveInv

\* The engine's handler on a job: it starts the job or need not.
LEMMA EngineStateNotifyLive ==
    ASSUME IInv, LiveInv, EngineStateNotify
    PROVE  LiveInv'
<1> DEFINE j == Top.job
           starts == /\ j \in queue /\ jobs[j].state = "pending"
                     /\ printer.state = "idle"
<1>1. emissions # <<>> /\ Top.signal = "state" /\ Top.handler = 2
  BY DEF EngineStateNotify, Runs
<1>2. /\ j \in Ids /\ Tail(emissions) \in Seq(Target(Len(jobs)))
      /\ \A e : In(e, emissions) => e = Top \/ In(e, Tail(emissions))
  BY <1>1, TopProperties
<1>3. /\ Top = StateAt(j, 2) /\ In(StateAt(j, 3), Advance)
      /\ \A e : In(e, emissions) => e = Top \/ In(e, Advance)
  BY <1>1, AdvanceIn
<1>4. UNCHANGED own /\ queue' \subseteq queue
  BY DEF EngineStateNotify
<1>5. \A i : StateAt(i, 1) # Top
  BY <1>3, StateAtInjective
<1>6. CASE starts
  <2>1. StartJob(j, Tail(emissions)) /\ j \in Pending
    BY <1>2, <1>6 DEF EngineStateNotify, Pending
  <2> QED
    BY <1>2, <1>4, <1>5, <2>1, StartJobLive
<1>7. CASE ~starts
  <2>1. emissions' = Advance /\ UNCHANGED <<jobs, printer>>
    BY <1>7 DEF EngineStateNotify
  <2>2. Ids' = Ids /\ SaneJobs'
    BY <2>1 DEF LiveInv, SaneJobs, Ids
  <2>3. OwnInv'
    BY <1>3, <1>4, <1>5, <2>1 DEF LiveInv, OwnInv
  <2>4. WakeInv'
    <3> SUFFICES ASSUME printer.state = "idle", NEW i \in queue,
                        jobs[i].state = "pending"
                 PROVE  \/ In(PrinterState, emissions')
                        \/ In(StateAt(i, 1), emissions')
                        \/ In(StateAt(i, 2), emissions')
      BY <1>4, <2>1 DEF WakeInv
    <3>1. \/ In(PrinterState, emissions)
          \/ In(StateAt(i, 1), emissions) \/ In(StateAt(i, 2), emissions)
      BY DEF LiveInv, WakeInv
    <3>2. PrinterState # Top
      BY <1>1 DEF PrinterState
    <3>3. i # j
      BY <1>7
    <3>4. StateAt(i, 2) # Top
      BY <1>3, <3>3, StateAtInjective
    <3> QED
      BY <1>3, <1>5, <2>1, <3>1, <3>2, <3>4
  <2>5. BusyInv'
    <3> SUFFICES ASSUME printer.state = "processing"
                 PROVE  \E i \in Ids :
                          \/ jobs[i].state = "processing"
                          \/ /\ jobs[i].state \in Terminal
                             /\ \E h \in 1..3 : In(StateAt(i, h), emissions')
      BY <2>1, <2>2 DEF BusyInv
    <3>1. PICK i \in Ids :
              \/ jobs[i].state = "processing"
              \/ /\ jobs[i].state \in Terminal
                 /\ \E h \in 1..3 : In(StateAt(i, h), emissions)
      BY DEF LiveInv, BusyInv
    <3>2. ASSUME NEW h \in 1..3, In(StateAt(i, h), emissions)
          PROVE  \E g \in 1..3 : In(StateAt(i, g), emissions')
      <4>1. CASE StateAt(i, h) = Top
        <5>1. i = j
          BY <1>3, <4>1, StateAtInjective
        <5> QED
          BY <1>3, <2>1, <5>1
      <4>2. CASE StateAt(i, h) # Top
        BY <1>3, <2>1, <3>2, <4>2
      <4> QED
        BY <4>1, <4>2
    <3> QED
      BY <3>1, <3>2
  <2> QED
    BY <2>2, <2>3, <2>4, <2>5 DEF LiveInv
<1> QED
  BY <1>6, <1>7

\* A pop of an emission nobody relies on.
LEMMA PopLive ==
    ASSUME IInv, LiveInv, UNCHANGED <<jobs, own, queue>>,
           printer'.state = printer.state,
           \A i \in own : In(StateAt(i, 1), emissions) => In(StateAt(i, 1), emissions'),
           printer.state = "idle" =>
             \A i \in queue : jobs[i].state = "pending" =>
               /\ \A h \in 1..2 : In(StateAt(i, h), emissions)
                                    => In(StateAt(i, h), emissions')
               /\ In(PrinterState, emissions) => In(PrinterState, emissions'),
           printer.state = "processing" =>
             \A i \in Ids : jobs[i].state \in Terminal =>
               \A h \in 1..3 : In(StateAt(i, h), emissions)
                                 => In(StateAt(i, h), emissions')
    PROVE  LiveInv'
<1>1. Ids' = Ids /\ SaneJobs' /\ OwnInv'
  BY DEF LiveInv, SaneJobs, OwnInv, Ids
<1>2. WakeInv'
  <2> SUFFICES ASSUME printer.state = "idle", NEW i \in queue,
                      jobs[i].state = "pending"
               PROVE  \/ In(PrinterState, emissions')
                      \/ In(StateAt(i, 1), emissions')
                      \/ In(StateAt(i, 2), emissions')
    BY DEF WakeInv
  <2>1. 1 \in 1..2 /\ 2 \in 1..2
    OBVIOUS
  <2> QED
    BY <2>1 DEF LiveInv, WakeInv
<1>3. BusyInv'
  BY <1>1 DEF LiveInv, BusyInv
<1> QED
  BY <1>1, <1>2, <1>3 DEF LiveInv

\* The printer's handler: it frees the printer and tells the engine, or the
\* job has not ended, or the printer is free already.
LEMMA PrinterJobNotifyLive ==
    ASSUME IInv, LiveInv, PrinterJobNotify
    PROVE  LiveInv'
<1> DEFINE j == Top.job
           frees == Ended(jobs[j].state) /\ printer.state = "processing"
<1>1. emissions # <<>> /\ Top.signal = "state" /\ Top.handler = 3
  BY DEF PrinterJobNotify, Runs
<1>2. /\ Tail(emissions) \in Seq(Target(Len(jobs))) /\ Top \in Target(Len(jobs))
      /\ \A e : In(e, emissions) => e = Top \/ In(e, Tail(emissions))
  BY <1>1, TopProperties
<1>3. Top = StateAt(j, 3) /\ PrinterState # Top
  BY <1>1, <1>2 DEF Target, Emission, StateAt, PrinterState
<1>4. \A i : StateAt(i, 1) # Top /\ StateAt(i, 2) # Top
  BY <1>3, StateAtInjective
<1>5. UNCHANGED <<jobs, own, queue>>
  BY DEF PrinterJobNotify, handlers
<1>6. CASE frees
  <2>1. /\ printer' = [printer EXCEPT !.state = "idle"]
        /\ emissions' = NotifyPrinter(Tail(emissions))
    BY <1>6 DEF PrinterJobNotify
  <2>2. /\ In(PrinterState, emissions')
        /\ \A e : In(e, Tail(emissions)) => In(e, emissions')
    <3>1. CASE In(PrinterState, Tail(emissions))
      BY <2>1, <3>1 DEF NotifyPrinter, In
    <3>2. CASE ~In(PrinterState, Tail(emissions))
      <4>1. emissions' = <<PrinterState>> \o Tail(emissions)
        BY <2>1, <3>2 DEF NotifyPrinter, In
      <4>2. /\ <<PrinterState>> \in Seq(Target(Len(jobs)))
            /\ In(PrinterState, <<PrinterState>>)
        BY QueueAssumption DEF PrinterState, Target, Emission, In
      <4> QED
        BY <1>2, <4>1, <4>2, InConcat
    <3> QED
      BY <3>1, <3>2
  <2>3. printer'.state = "idle"
    BY <2>1 DEF IInv, TypeInv
  <2>4. WakeInv' /\ BusyInv'
    BY <2>2, <2>3 DEF WakeInv, BusyInv
  <2>5. SaneJobs' /\ OwnInv'
    BY <1>2, <1>4, <1>5, <2>2 DEF LiveInv, SaneJobs, OwnInv, Ids
  <2> QED
    BY <2>4, <2>5 DEF LiveInv
<1>7. CASE ~frees
  <2>1. emissions' = Tail(emissions) /\ UNCHANGED printer
    BY <1>7 DEF PrinterJobNotify
  <2>2. \A i : \A h \in 1..2 : StateAt(i, h) # Top
    <3>1. \A h \in 1..2 : h = 1 \/ h = 2
      OBVIOUS
    <3> QED
      BY <1>4, <3>1
  <2>3. printer.state = "processing" =>
          \A i : jobs[i].state \in Terminal => \A h \in 1..3 : StateAt(i, h) # Top
    <3> SUFFICES ASSUME printer.state = "processing", NEW i,
                        jobs[i].state \in Terminal, NEW h \in 1..3
                 PROVE  StateAt(i, h) # Top
      OBVIOUS
    <3>1. i # j
      BY <1>7 DEF Ended
    <3> QED
      BY <1>3, <3>1, StateAtInjective
  <2> QED
    BY <1>2, <1>3, <1>4, <1>5, <2>1, <2>2, <2>3, PopLive
<1> QED
  BY <1>6, <1>7

\* The engine's handler on the reasons frees the slot, which nobody waits for.
LEMMA ReasonsNotifyLive ==
    ASSUME IInv, LiveInv, ReasonsNotify
    PROVE  LiveInv'
<1>1. emissions # <<>> /\ Top.signal = "state-reasons"
  BY DEF ReasonsNotify, Runs
<1>2. \A e : In(e, emissions) => e = Top \/ In(e, Tail(emissions))
  BY <1>1, TopProperties
<1>3. /\ PrinterState # Top /\ \A i, h : StateAt(i, h) # Top
  BY <1>1 DEF StateAt, PrinterState
<1>4. /\ emissions' = Tail(emissions) /\ UNCHANGED <<jobs, own, queue>>
      /\ printer'.state = printer.state
  BY DEF ReasonsNotify, IInv, TypeInv
<1> QED
  BY <1>2, <1>3, <1>4, PopLive

\* The engine's handler on the printer is done only when nothing is pending or
\* the printer is busy.
LEMMA PrinterStateNotifyLive ==
    ASSUME IInv, LiveInv, PrinterStateNotify
    PROVE  LiveInv'
<1>1. emissions # <<>> /\ Top.signal = "printer"
  BY DEF PrinterStateNotify, Runs
<1>2. /\ \A e : In(e, emissions) => e = Top \/ In(e, Tail(emissions))
      /\ emissions \in Seq(Target(Len(jobs)))
  BY <1>1, TopProperties DEF IInv, TypeInv
<1>3. \A i, h : StateAt(i, h) # Top
  BY <1>1 DEF StateAt
<1>4. CASE printer.state = "idle" /\ Pending # {}
  <2>1. PICK k \in Pending : StartJob(k, emissions)
    BY <1>4 DEF PrinterStateNotify
  <2>2. UNCHANGED own
    BY DEF PrinterStateNotify
  <2> QED
    BY <1>2, <2>1, <2>2, StartJobLive
<1>5. CASE ~(printer.state = "idle" /\ Pending # {})
  <2>1. /\ emissions' = Tail(emissions) /\ UNCHANGED <<jobs, printer, own, queue>>
    BY <1>5 DEF PrinterStateNotify
  <2>2. printer.state = "idle" => \A i \in queue : jobs[i].state # "pending"
    BY <1>5 DEF Pending, IInv, TypeInv
  <2> QED
    BY <1>2, <1>3, <2>1, <2>2, PopLive
<1> QED
  BY <1>4, <1>5

\* Every step keeps the second invariant, given the first.
LEMMA NextLiveInv == IInv /\ LiveInv /\ [Next]_vars => LiveInv'
<1> SUFFICES ASSUME IInv, LiveInv, [Next]_vars
             PROVE  LiveInv'
  OBVIOUS
<1>1. CASE CreateJob
  BY <1>1, CreateJobLive
<1>2. ASSUME NEW j \in Ids,
             \/ AddDocumentCall(j) \/ StartCall(j) \/ CancelCall(j)
             \/ \E p \in Procs, status \in Statuses : ProcessExits(j, p, status)
             \/ DataFails(j) \/ DataEnds(j) \/ MessagesFail(j)
      PROVE  LiveInv'
  BY <1>2, CallLive
<1>3. CASE Handler
  BY <1>3, OwnStateNotifyLive, EngineStateNotifyLive, PrinterJobNotifyLive,
     ReasonsNotifyLive, PrinterStateNotifyLive DEF Handler
<1>4. CASE UNCHANGED vars
  BY <1>4 DEF vars, handlers, LiveInv, SaneJobs, OwnInv, WakeInv, BusyInv, Ids
<1> QED
  BY <1>1, <1>2, <1>3, <1>4 DEF Next

\* The two invariants hold in every reachable state.
LEMMA QueueInvariance == Spec => [](IInv /\ LiveInv)
<1>1. IInv /\ LiveInv /\ [Next]_vars => (IInv /\ LiveInv)'
  BY NextIInv, NextLiveInv
<1> QED
  BY <1>1, InitIInv, InitLiveInv, PTL DEF Spec

\* While the printer is idle no job waits that was never started: each is
\* started by the handler that finds the printer idle, whatever the nesting of
\* the handlers, and however many jobs and faults there are.
THEOREM WakeupsKept == Spec => []NoLostWakeup
<1>1. LiveInv => NoLostWakeup
  BY DEF LiveInv, WakeInv, NoLostWakeup, MainLoop, In
<1> QED
  BY <1>1, QueueInvariance, PTL

\* A printer that says it is processing has a job in that state: whoever ends
\* its last job frees it.
THEOREM PrinterFreed == Spec => []BusyWithAJob
<1>1. LiveInv => BusyWithAJob
  BY DEF LiveInv, BusyInv, BusyWithAJob, MainLoop, In
<1> QED
  BY <1>1, QueueInvariance, PTL

\* At most one of the jobs that have not ended has a running backend: the
\* engine's slot is held by whoever has one, since no reason such a job can be
\* given drops job-outgoing.
THEOREM DeviceNotShared == Spec => []OneLiveBackend
<1>1. IInv /\ LiveInv => OneLiveBackend
  <2> SUFFICES ASSUME IInv, LiveInv, NEW j \in own, NEW k \in own,
                      Backend \in Running(jobs[j]), Backend \in Running(jobs[k])
               PROVE  j = k
    BY DEF OneLiveBackend
  <2>1. j \in Ids /\ k \in Ids
    BY DEF IInv, TypeInv
  <2>2. IsOutgoing(j) /\ IsOutgoing(k)
    BY <2>1, JobGood, FirstIsOutgoing
       DEF LiveInv, OwnInv, Fresh, IsOutgoing, IsOutgoingJob
  <2> QED
    BY <2>1, <2>2 DEF IInv, SlotInv
<1> QED
  BY <1>1, QueueInvariance, PTL


=============================================================================
