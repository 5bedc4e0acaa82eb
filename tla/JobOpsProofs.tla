---------------------------- MODULE JobOpsProofs ----------------------------
(***************************************************************************)
(* What the operations of a job keep, whatever the job.  Every operation is *)
(* a chain of a few elementary changes, and the two facts the print queue   *)
(* rests on hold of each link:                                              *)
(*   - the record stays well formed (GoodJob);                              *)
(*   - only start_sending makes a job outgoing, and whoever changes the     *)
(*     reasons has queued a notification of it (Quiet).                     *)
(***************************************************************************)
EXTENDS JobOps, SequenceTheorems, TLAPS

-----------------------------------------------------------------------------
(* What add_or_remove_state_reason() does to a list, for every list and      *)
(* every reason.                                                             *)

\* A reason that is listed has a position.
LEMMA IndexOfProperties ==
    ASSUME NEW S, NEW s \in Seq(S), NEW r, HasReason(s, r)
    PROVE  /\ IndexOf(s, r) \in 1..Len(s)
           /\ s[IndexOf(s, r)] = r
BY DEF HasReason, IndexOf

\* What '+' keeps when the reason is listed: the entries before it.
LEMMA AddListed ==
    ASSUME NEW S, NEW s \in Seq(S), NEW r, HasReason(s, r)
    PROVE  /\ AddReason(s, r) \in Seq(S)
           /\ Len(AddReason(s, r)) = IndexOf(s, r) - 1
           /\ \A i \in 1..Len(AddReason(s, r)) : AddReason(s, r)[i] = s[i]
<1>1. IndexOf(s, r) \in 1..Len(s)
  BY IndexOfProperties
<1>2. \A i \in 1..(IndexOf(s, r) - 1) : s[i] \in S
  BY <1>1, ElementOfSeq
<1> QED
  BY <1>1, <1>2, SubSeqProperties DEF AddReason

\* What '-' keeps when the reason is listed: the entries before and after it.
LEMMA RemoveListed ==
    ASSUME NEW S, NEW s \in Seq(S), NEW r, HasReason(s, r)
    PROVE  /\ RemoveReason(s, r) \in Seq(S)
           /\ Len(RemoveReason(s, r)) = Len(s) - 1
           /\ \A i \in 1..(Len(s) - 1) :
                RemoveReason(s, r)[i] =
                    IF i < IndexOf(s, r) THEN s[i] ELSE s[i + 1]
<1> DEFINE n == IndexOf(s, r)
           a == SubSeq(s, 1, n - 1)
           b == SubSeq(s, n + 1, Len(s))
<1>1. n \in 1..Len(s) /\ Len(s) \in Nat
  BY IndexOfProperties, LenProperties
<1>2. \A i \in 1..Len(s) : s[i] \in S
  BY ElementOfSeq
<1>3. /\ a \in Seq(S) /\ Len(a) = n - 1
      /\ \A i \in 1..(n - 1) : a[i] = s[i]
  <2>1. \A i \in 1..(n - 1) : s[i] \in S
    BY <1>1, <1>2
  <2> HIDE DEF n
  <2> QED
    BY <1>1, <2>1, SubSeqProperties
<1>4. /\ b \in Seq(S) /\ Len(b) = Len(s) - n
      /\ \A i \in 1..(Len(s) - n) : b[i] = s[n + i]
  <2>1. \A i \in (n + 1)..Len(s) : s[i] \in S
    BY <1>1, <1>2
  <2> HIDE DEF n
  <2> QED
    BY <1>1, <2>1, SubSeqProperties
<1>5. RemoveReason(s, r) = a \o b
  BY DEF RemoveReason
<1> HIDE DEF n, a, b
<1>6. /\ a \o b \in Seq(S) /\ Len(a \o b) = Len(a) + Len(b)
      /\ \A i \in 1..(Len(a) + Len(b)) :
            (a \o b)[i] = IF i <= Len(a) THEN a[i] ELSE b[i - Len(a)]
  BY <1>3, <1>4, ConcatProperties
<1>7. \A i \in 1..(Len(s) - 1) :
        (a \o b)[i] = IF i < n THEN s[i] ELSE s[i + 1]
  <2> SUFFICES ASSUME NEW i \in 1..(Len(s) - 1)
               PROVE  (a \o b)[i] = IF i < n THEN s[i] ELSE s[i + 1]
    OBVIOUS
  <2>1. CASE i < n
    BY <2>1, <1>1, <1>3, <1>4, <1>6
  <2>2. CASE ~(i < n)
    <3>1. i - Len(a) \in 1..(Len(s) - n) /\ ~(i <= Len(a)) /\ n + (i - Len(a)) = i + 1
      BY <2>2, <1>1, <1>3
    <3>2. (a \o b)[i] = b[i - Len(a)]
      BY <3>1, <1>1, <1>3, <1>4, <1>6
    <3>3. b[i - Len(a)] = s[n + (i - Len(a))]
      BY <3>1, <1>4
    <3> QED
      BY <2>2, <3>1, <3>2, <3>3
  <2> QED
    BY <2>1, <2>2
<1> QED
  BY <1>1, <1>3, <1>4, <1>5, <1>6, <1>7 DEF n

\* Both modes make a list of reasons from a list of reasons.
LEMMA ReasonsType ==
    ASSUME NEW S, NEW s \in Seq(S), NEW r \in S
    PROVE  AddReason(s, r) \in Seq(S) /\ RemoveReason(s, r) \in Seq(S)
<1>1. CASE HasReason(s, r)
  BY <1>1, AddListed, RemoveListed
<1>2. CASE ~HasReason(s, r)
  BY <1>2, AppendProperties DEF AddReason, RemoveReason
<1> QED
  BY <1>1, <1>2

\* Neither mode makes another reason appear; '+' may well lose one, '-' never
\* does.
LEMMA OtherReasons ==
    ASSUME NEW S, NEW s \in Seq(S), NEW q \in S, NEW r \in S, q # r
    PROVE  /\ HasReason(AddReason(s, q), r) => HasReason(s, r)
           /\ HasReason(RemoveReason(s, q), r) <=> HasReason(s, r)
<1>0. Len(s) \in Nat
  BY LenProperties
<1>1. CASE HasReason(s, q)
  <2>1. IndexOf(s, q) \in 1..Len(s) /\ s[IndexOf(s, q)] = q
    BY <1>1, IndexOfProperties
  <2>2. HasReason(AddReason(s, q), r) => HasReason(s, r)
    BY <1>0, <1>1, <2>1, AddListed DEF HasReason
  <2>3. HasReason(RemoveReason(s, q), r) => HasReason(s, r)
    <3> SUFFICES ASSUME HasReason(RemoveReason(s, q), r)
                 PROVE  HasReason(s, r)
      OBVIOUS
    <3>1. PICK i \in 1..(Len(s) - 1) : RemoveReason(s, q)[i] = r
      BY <1>1, RemoveListed DEF HasReason
    <3>2. s[i] = r \/ s[i + 1] = r
      BY <1>1, <3>1, RemoveListed
    <3>3. i \in 1..Len(s) /\ i + 1 \in 1..Len(s)
      BY <1>0
    <3> QED
      BY <3>2, <3>3 DEF HasReason
  <2>4. HasReason(s, r) => HasReason(RemoveReason(s, q), r)
    <3> SUFFICES ASSUME HasReason(s, r)
                 PROVE  HasReason(RemoveReason(s, q), r)
      OBVIOUS
    <3>1. PICK i \in 1..Len(s) : s[i] = r
      BY DEF HasReason
    <3>2. i # IndexOf(s, q)
      BY <2>1, <3>1
    <3>3. CASE i < IndexOf(s, q)
      <4>1. i \in 1..(Len(s) - 1)
        BY <1>0, <2>1, <3>3
      <4>2. RemoveReason(s, q)[i] = r
        BY <1>1, <3>1, <3>3, <4>1, RemoveListed
      <4> QED
        BY <1>1, <4>1, <4>2, RemoveListed DEF HasReason
    <3>4. CASE i > IndexOf(s, q)
      <4>1. i - 1 \in 1..(Len(s) - 1) /\ ~(i - 1 < IndexOf(s, q)) /\ (i - 1) + 1 = i
        BY <1>0, <2>1, <3>4
      <4>2. RemoveReason(s, q)[i - 1] = s[(i - 1) + 1]
        BY <1>1, <4>1, RemoveListed
      <4> QED
        BY <1>1, <3>1, <4>1, <4>2, RemoveListed DEF HasReason
    <3> QED
      BY <2>1, <3>2, <3>3, <3>4
  <2> QED
    BY <2>2, <2>3, <2>4
<1>2. CASE ~HasReason(s, q)
  <2>1. HasReason(AddReason(s, q), r) => HasReason(s, r)
    <3> SUFFICES ASSUME HasReason(Append(s, q), r)
                 PROVE  HasReason(s, r)
      BY <1>2 DEF AddReason
    <3>1. PICK i \in 1..(Len(s) + 1) : Append(s, q)[i] = r
      BY AppendProperties DEF HasReason
    <3>2. i \in 1..Len(s)
      BY <1>0, <3>1, AppendProperties
    <3> QED
      BY <3>1, <3>2, AppendProperties DEF HasReason
  <2> QED
    BY <1>2, <2>1 DEF RemoveReason
<1> QED
  BY <1>1, <1>2

\* Both modes keep a list free of duplicates: '+' of a listed reason shortens
\* the list, '+' of another one appends what is not there.
THEOREM ReasonsOnce ==
    ASSUME NEW S, NEW s \in Seq(S), NEW r \in S, NoDuplicates(s)
    PROVE  NoDuplicates(AddReason(s, r)) /\ NoDuplicates(RemoveReason(s, r))
<1>0. Len(s) \in Nat
  BY LenProperties
<1>1. CASE HasReason(s, r)
  <2>1. IndexOf(s, r) \in 1..Len(s)
    BY <1>1, IndexOfProperties
  <2>2. NoDuplicates(AddReason(s, r))
    BY <1>0, <1>1, <2>1, AddListed DEF NoDuplicates
  <2>3. NoDuplicates(RemoveReason(s, r))
    <3> SUFFICES ASSUME NEW i \in 1..(Len(s) - 1), NEW k \in 1..(Len(s) - 1),
                        RemoveReason(s, r)[i] = RemoveReason(s, r)[k]
                 PROVE  i = k
      BY <1>1, RemoveListed DEF NoDuplicates
    <3> DEFINE at(x) == IF x < IndexOf(s, r) THEN x ELSE x + 1
    <3>1. at(i) \in 1..Len(s) /\ at(k) \in 1..Len(s)
      BY <1>0, <2>1
    <3>2. s[at(i)] = s[at(k)]
      BY <1>1, RemoveListed
    <3>3. at(i) = at(k)
      <4> HIDE DEF at
      <4> QED
        BY <3>1, <3>2 DEF NoDuplicates
    <3> QED
      BY <2>1, <3>3
  <2> QED
    BY <2>2, <2>3
<1>2. CASE ~HasReason(s, r)
  <2>1. NoDuplicates(Append(s, r))
    BY <1>0, <1>2, AppendProperties DEF NoDuplicates, HasReason
  <2> QED
    BY <1>2, <2>1 DEF AddReason, RemoveReason
<1> QED
  BY <1>1, <1>2

\* '+' of a reason that is not listed adds it and loses nothing.
LEMMA AddUnlisted ==
    ASSUME NEW S, NEW s \in Seq(S), NEW r \in S, ~HasReason(s, r)
    PROVE  /\ HasReason(AddReason(s, r), r)
           /\ \A q : HasReason(s, q) => HasReason(AddReason(s, r), q)
<1>0. Len(s) \in Nat
  BY LenProperties
<1>1. /\ AddReason(s, r) = Append(s, r) /\ Len(Append(s, r)) = Len(s) + 1
      /\ \A i \in 1..Len(s) : Append(s, r)[i] = s[i]
      /\ Append(s, r)[Len(s) + 1] = r
  BY AppendProperties DEF AddReason
<1>2. HasReason(AddReason(s, r), r)
  <2>1. Len(s) + 1 \in 1..(Len(s) + 1)
    BY <1>0
  <2> QED
    BY <1>1, <2>1 DEF HasReason
<1>3. ASSUME NEW q, HasReason(s, q)
      PROVE  HasReason(AddReason(s, r), q)
  <2>1. PICK i \in 1..Len(s) : s[i] = q
    BY <1>3 DEF HasReason
  <2>2. i \in 1..(Len(s) + 1)
    BY <1>0
  <2> QED
    BY <1>1, <2>1, <2>2 DEF HasReason
<1> QED
  BY <1>2, <1>3

\* No p is listed after a q.
Before(s, p, q) ==
    \A i, k \in 1..Len(s) : s[i] = p /\ s[k] = q => i < k

\* Neither mode changes the order of what it keeps, so the order of two reasons
\* can only be spoilt by adding the first of them when the second is listed.
\* '+' of the second one then keeps the first.
LEMMA OrderKept ==
    ASSUME NEW S, NEW s \in Seq(S), NEW p \in S, NEW q \in S, NEW r \in S,
           p # q, Before(s, p, q)
    PROVE  /\ Before(RemoveReason(s, r), p, q)
           /\ r # p \/ ~HasReason(s, q) => Before(AddReason(s, r), p, q)
           /\ HasReason(s, p) => HasReason(AddReason(s, q), p)
<1>0. Len(s) \in Nat
  BY LenProperties
<1>1. Before(RemoveReason(s, r), p, q)
  <2>1. CASE HasReason(s, r)
    <3> SUFFICES ASSUME NEW i \in 1..(Len(s) - 1), NEW k \in 1..(Len(s) - 1),
                        RemoveReason(s, r)[i] = p, RemoveReason(s, r)[k] = q
                 PROVE  i < k
      BY <2>1, RemoveListed DEF Before
    <3> DEFINE at(x) == IF x < IndexOf(s, r) THEN x ELSE x + 1
    <3>0. IndexOf(s, r) \in 1..Len(s)
      BY <2>1, IndexOfProperties
    <3>1. at(i) \in 1..Len(s) /\ at(k) \in 1..Len(s)
      BY <1>0, <3>0
    <3>2. s[at(i)] = p /\ s[at(k)] = q
      BY <2>1, RemoveListed
    <3>3. at(i) < at(k)
      <4> HIDE DEF at
      <4> QED
        BY <3>1, <3>2 DEF Before
    <3> QED
      BY <3>0, <3>3
  <2>2. CASE ~HasReason(s, r)
    BY <2>2 DEF RemoveReason
  <2> QED
    BY <2>1, <2>2
<1>2. ASSUME r # p \/ ~HasReason(s, q)
      PROVE  Before(AddReason(s, r), p, q)
  <2>1. CASE HasReason(s, r)
    <3>1. IndexOf(s, r) \in 1..Len(s)
      BY <2>1, IndexOfProperties
    <3> QED
      BY <1>0, <2>1, <3>1, AddListed DEF Before
  <2>2. CASE ~HasReason(s, r)
    <3>1. /\ AddReason(s, r) = Append(s, r) /\ Len(Append(s, r)) = Len(s) + 1
          /\ \A i \in 1..Len(s) : Append(s, r)[i] = s[i]
          /\ Append(s, r)[Len(s) + 1] = r
      BY <2>2, AppendProperties DEF AddReason
    <3> SUFFICES ASSUME NEW i \in 1..(Len(s) + 1), NEW k \in 1..(Len(s) + 1),
                        Append(s, r)[i] = p, Append(s, r)[k] = q
                 PROVE  i < k
      BY <3>1 DEF Before
    <3>2. i \in 1..Len(s) \/ i = Len(s) + 1
      BY <1>0
    <3>3. k \in 1..Len(s) \/ k = Len(s) + 1
      BY <1>0
    <3>4. CASE i \in 1..Len(s) /\ k \in 1..Len(s)
      BY <3>1, <3>4 DEF Before
    <3>5. CASE i \in 1..Len(s) /\ k = Len(s) + 1
      BY <1>0, <3>5
    <3>6. CASE i = Len(s) + 1
      <4>1. r = p /\ k # i
        BY <3>1, <3>6
      <4>2. k \in 1..Len(s) /\ s[k] = q
        BY <3>1, <3>3, <3>6, <4>1
      <4> QED
        BY <1>2, <4>1, <4>2 DEF HasReason
    <3> QED
      BY <3>2, <3>3, <3>4, <3>5, <3>6
  <2> QED
    BY <2>1, <2>2
<1>3. ASSUME HasReason(s, p)
      PROVE  HasReason(AddReason(s, q), p)
  <2>1. CASE HasReason(s, q)
    <3>1. IndexOf(s, q) \in 1..Len(s) /\ s[IndexOf(s, q)] = q
      BY <2>1, IndexOfProperties
    <3>2. PICK i \in 1..Len(s) : s[i] = p
      BY <1>3 DEF HasReason
    <3>3. i < IndexOf(s, q)
      BY <3>1, <3>2 DEF Before
    <3>4. i \in 1..Len(AddReason(s, q))
      BY <1>0, <2>1, <3>1, <3>3, AddListed
    <3> QED
      BY <2>1, <3>2, <3>4, AddListed DEF HasReason
  <2>2. CASE ~HasReason(s, q)
    BY <1>3, <2>2, AddUnlisted
  <2> QED
    BY <2>1, <2>2
<1> QED
  BY <1>1, <1>2, <1>3

\* Neither mode touches the first entry, unless it is the reason in question.
LEMMA FirstKept ==
    ASSUME NEW S, NEW s \in Seq(S), NEW r \in S, Len(s) > 0, r # s[1]
    PROVE  /\ Len(AddReason(s, r)) > 0 /\ AddReason(s, r)[1] = s[1]
           /\ Len(RemoveReason(s, r)) > 0 /\ RemoveReason(s, r)[1] = s[1]
<1>0. Len(s) \in Nat
  BY LenProperties
<1>1. CASE HasReason(s, r)
  <2>1. IndexOf(s, r) \in 1..Len(s) /\ IndexOf(s, r) # 1
    BY <1>1, IndexOfProperties
  <2>2. 1 \in 1..(Len(s) - 1) /\ 1 < IndexOf(s, r) /\ 1 \in 1..(IndexOf(s, r) - 1)
    BY <1>0, <2>1
  <2>3. Len(AddReason(s, r)) > 0 /\ AddReason(s, r)[1] = s[1]
    BY <1>0, <1>1, <2>1, <2>2, AddListed
  <2>4. Len(RemoveReason(s, r)) > 0 /\ RemoveReason(s, r)[1] = s[1]
    BY <1>0, <1>1, <2>1, <2>2, RemoveListed
  <2> QED
    BY <2>3, <2>4
<1>2. CASE ~HasReason(s, r)
  <2>1. AddReason(s, r) = Append(s, r) /\ RemoveReason(s, r) = s
    BY <1>2 DEF AddReason, RemoveReason
  <2>2. Len(Append(s, r)) = Len(s) + 1 /\ Append(s, r)[1] = s[1]
    BY <1>0, AppendProperties
  <2> QED
    BY <1>0, <2>1, <2>2
<1> QED
  BY <1>1, <1>2

-----------------------------------------------------------------------------
(* The operations of a job.                                                  *)

\* A process is watched only once pending_job_state holds a state: otherwise
\* pd_job_impl_process_watch_cb would set a state that is none.
GoodJob ==
    {j \in Job : /\ NoDuplicates(j.state_reasons)
                 /\ j.watched # {} => j.pending_job_state # "unset"}

IsOutgoingJob(j) == HasReason(j.state_reasons, Outgoing)

\* k is j after changes none of which made the job outgoing.
Quiet(j, k) ==
    /\ k \in GoodJob
    /\ IsOutgoingJob(k) => IsOutgoingJob(j)
    /\ k.state_reasons = j.state_reasons \/ "state-reasons" \in k.queued
    /\ j.queued \subseteq k.queued

\* Quiet changes can be chained.
LEMMA QuietTransitive ==
    ASSUME NEW j, NEW k, NEW l, Quiet(j, k), Quiet(k, l)
    PROVE  Quiet(j, l)
BY DEF Quiet

\* Doing nothing is a quiet change.
LEMMA QuietReflexive ==
    ASSUME NEW j \in GoodJob
    PROVE  Quiet(j, j)
BY DEF Quiet

\* The elementary changes.
LEMMA SetStateQuiet ==
    ASSUME NEW j \in GoodJob, NEW s \in JobStates
    PROVE  Quiet(j, SetState(j, s))
BY DEF Quiet, GoodJob, Job, SetState, IsOutgoingJob

\* Adding any reason keeps the job well formed and queues the notification.
LEMMA AddStateReasonGood ==
    ASSUME NEW j \in GoodJob, NEW r \in JobReasons
    PROVE  /\ AddStateReason(j, r) \in GoodJob
           /\ "state-reasons" \in AddStateReason(j, r).queued
           /\ j.queued \subseteq AddStateReason(j, r).queued
           /\ AddStateReason(j, r).state_reasons = AddReason(j.state_reasons, r)
<1>1. j.state_reasons \in Seq(JobReasons) /\ NoDuplicates(j.state_reasons)
  BY DEF GoodJob, Job
<1>2. /\ AddReason(j.state_reasons, r) \in Seq(JobReasons)
      /\ NoDuplicates(AddReason(j.state_reasons, r))
  BY <1>1, ReasonsType, ReasonsOnce
<1> QED
  BY <1>2 DEF AddStateReason, GoodJob, Job

\* Adding a reason does not make the job outgoing, unless it is that reason.
LEMMA AddStateReasonQuiet ==
    ASSUME NEW j \in GoodJob, NEW r \in JobReasons, r # Outgoing
    PROVE  Quiet(j, AddStateReason(j, r))
<1>1. j.state_reasons \in Seq(JobReasons) /\ Outgoing \in JobReasons
  BY DEF GoodJob, Job, JobReasons
<1> QED
  BY <1>1, AddStateReasonGood, OtherReasons DEF Quiet, IsOutgoingJob

\* Removing a reason does not make the job outgoing.
LEMMA RemoveStateReasonQuiet ==
    ASSUME NEW j \in GoodJob, NEW r \in JobReasons
    PROVE  Quiet(j, RemoveStateReason(j, r))
<1>1. /\ j.state_reasons \in Seq(JobReasons) /\ NoDuplicates(j.state_reasons)
      /\ Outgoing \in JobReasons
  BY DEF GoodJob, Job, JobReasons
<1>2. /\ RemoveReason(j.state_reasons, r) \in Seq(JobReasons)
      /\ NoDuplicates(RemoveReason(j.state_reasons, r))
  BY <1>1, ReasonsType, ReasonsOnce
<1>3. HasReason(RemoveReason(j.state_reasons, r), Outgoing)
        => HasReason(j.state_reasons, Outgoing)
  <2>1. CASE r # Outgoing
    BY <1>1, <2>1, OtherReasons
  <2>2. CASE r = Outgoing
    BY <2>2 DEF RemoveReason
  <2> QED
    BY <2>1, <2>2
<1> QED
  BY <1>2, <1>3 DEF RemoveStateReason, GoodJob, Job, Quiet, IsOutgoingJob

\* Changes of fields that the two facts do not mention.
LEMMA PendingStateQuiet ==
    ASSUME NEW j \in GoodJob, NEW s \in JobStates
    PROVE  Quiet(j, [j EXCEPT !.pending_job_state = s])
BY DEF Quiet, GoodJob, Job, IsOutgoingJob, JobStates, Terminal

\* pd_job_impl_check_job_transforming only removes a reason.
LEMMA CheckJobTransformingQuiet ==
    ASSUME NEW j \in GoodJob
    PROVE  Quiet(j, CheckJobTransforming(j))
BY RemoveStateReasonQuiet, QuietReflexive DEF CheckJobTransforming, JobReasons

\* Bringing a job to its stop point: a state for later, and a reason.
LEMMA ToStopPointQuiet ==
    ASSUME NEW j \in GoodJob, NEW s \in JobStates
    PROVE  Quiet(j, ToStopPoint(j, s))
<1> DEFINE k == [j EXCEPT !.pending_job_state = s]
<1>1. Quiet(j, k) /\ k \in GoodJob
  BY PendingStateQuiet DEF Quiet
<1>2. ToStopPoint(j, s) = AddStateReason(k, StopPoint)
  BY DEF ToStopPoint
<1> HIDE DEF k
<1>3. Quiet(k, AddStateReason(k, StopPoint))
  BY <1>1, AddStateReasonQuiet DEF JobReasons, StopPoint, Outgoing
<1> QED
  BY <1>1, <1>2, <1>3, QuietTransitive

-----------------------------------------------------------------------------
(* The operations                                                           *)

\* pd_job_impl_do_cancel_with_reason
LEMMA DoCancelQuiet ==
    ASSUME NEW j \in GoodJob, NEW s \in JobStates, NEW r \in JobReasons,
           r # Outgoing
    PROVE  Quiet(j, DoCancelWithReason(j, s, r))
<1> DEFINE a == AddStateReason(j, r)
           c == CheckJobTransforming(a)
<1>1. Quiet(j, a) /\ a \in GoodJob
  BY AddStateReasonQuiet DEF Quiet
<1>2. Quiet(a, c) /\ c \in GoodJob
  <2> HIDE DEF a
  <2> QED
    BY <1>1, CheckJobTransformingQuiet DEF Quiet
<1>3. DoCancelWithReason(j, s, r) \in
        {a, c, SetState(a, s), SetState(c, s), ToStopPoint(c, s)}
  <2>1. j.state \in {"pending", "pending-held"} \/ j.state = "processing"
            \/ j.state \in Terminal
    BY DEF GoodJob, Job, JobStates
  <2>2. CASE j.state \in {"pending", "pending-held"}
    <3>1. DoCancelWithReason(j, s, r) = SetState(a, s)
      BY <2>2 DEF DoCancelWithReason, Terminal
    <3> QED
      BY <3>1
  <2>3. CASE j.state = "processing"
    <3>1. DoCancelWithReason(j, s, r) =
            IF ~FiltersRunning(a) /\ ~BackendStarted(a)
            THEN SetState(c, s)
            ELSE IF HasReason(c.state_reasons, StopPoint) THEN c
            ELSE ToStopPoint(c, s)
      BY <2>3 DEF DoCancelWithReason, Terminal
    <3> HIDE DEF a, c
    <3> QED
      BY <3>1
  <2>4. CASE j.state \in Terminal
    <3>1. DoCancelWithReason(j, s, r) = a
      BY <2>4 DEF DoCancelWithReason, Terminal
    <3> QED
      BY <3>1
  <2> QED
    BY <2>1, <2>2, <2>3, <2>4
<1> HIDE DEF a, c
<1>4. Quiet(a, SetState(a, s)) /\ Quiet(c, SetState(c, s))
        /\ Quiet(c, ToStopPoint(c, s))
  BY <1>1, <1>2, SetStateQuiet, ToStopPointQuiet
<1> QED
  BY <1>1, <1>2, <1>3, <1>4, QuietTransitive

\* pd_job_impl_cancel
LEMMA CancelQuiet ==
    ASSUME NEW j \in GoodJob
    PROVE  Quiet(j, Cancel(j))
<1> DEFINE c == CheckJobTransforming(j)
<1>1. Quiet(j, c) /\ c \in GoodJob
  BY CheckJobTransformingQuiet DEF Quiet
<1>2. \/ Cancel(j) \in {j, c}
      \/ Cancel(j) = DoCancelWithReason(j, "canceled", CanceledByUser)
      \/ Cancel(j) = DoCancelWithReason(c, "canceled", CanceledByUser)
  <2>1. j.state \in {"pending", "pending-held"} \/ j.state = "processing"
            \/ j.state \in Terminal
    BY DEF GoodJob, Job, JobStates
  <2>2. CASE j.state \in {"pending", "pending-held"}
    BY <2>2 DEF Cancel, Terminal
  <2>3. CASE j.state = "processing"
    BY <2>3 DEF Cancel, Terminal
  <2>4. CASE j.state \in Terminal
    BY <2>4 DEF Cancel, Terminal
  <2> QED
    BY <2>1, <2>2, <2>3, <2>4
<1> HIDE DEF c
<1>3. /\ CanceledByUser \in JobReasons /\ CanceledByUser # Outgoing
      /\ "canceled" \in JobStates
  BY DEF JobReasons, CanceledByUser, Outgoing, JobStates, Terminal
<1> QED
  BY <1>1, <1>2, <1>3, DoCancelQuiet, QuietReflexive, QuietTransitive

\* pd_job_impl_process_watch_cb
LEMMA ProcessFinishedQuiet ==
    ASSUME NEW j \in GoodJob, NEW p \in j.watched, NEW status
    PROVE  Quiet(j, ProcessFinished(j, p, status))
<1> DEFINE f == [j EXCEPT !.finished = @ \cup {p}, !.watched = @ \ {p}]
           r == IF p = Backend THEN RemoveStateReason(f, Outgoing)
                ELSE CheckJobTransforming(f)
           e == IF ExitedNonZero(status)
                THEN [r EXCEPT !.pending_job_state = "aborted"] ELSE r
<1>0. p \in Procs /\ j.pending_job_state \in JobStates
  BY DEF GoodJob, Job
<1>1. Quiet(j, f) /\ f \in GoodJob /\ f.pending_job_state = j.pending_job_state
  BY <1>0 DEF Quiet, GoodJob, Job, IsOutgoingJob
<1>2. Quiet(f, r) /\ r \in GoodJob /\ r.pending_job_state = f.pending_job_state
  <2> HIDE DEF f
  <2>1. /\ Quiet(f, RemoveStateReason(f, Outgoing))
        /\ Quiet(f, CheckJobTransforming(f))
    BY <1>1, RemoveStateReasonQuiet, CheckJobTransformingQuiet DEF JobReasons
  <2>2. /\ RemoveStateReason(f, Outgoing).pending_job_state = f.pending_job_state
        /\ RemoveStateReason(f, Transforming).pending_job_state = f.pending_job_state
    BY <1>1 DEF RemoveStateReason, GoodJob, Job
  <2> QED
    BY <2>1, <2>2 DEF Quiet, CheckJobTransforming
<1>3. Quiet(r, e) /\ e \in GoodJob /\ e.pending_job_state \in JobStates
  <2> HIDE DEF f, r
  <2>1. "aborted" \in JobStates
    BY DEF JobStates, Terminal
  <2>2. Quiet(r, [r EXCEPT !.pending_job_state = "aborted"])
    BY <1>2, <2>1, PendingStateQuiet
  <2>3. [r EXCEPT !.pending_job_state = "aborted"].pending_job_state = "aborted"
    BY <1>2 DEF GoodJob, Job
  <2> QED
    BY <1>0, <1>1, <1>2, <2>1, <2>2, <2>3, QuietReflexive DEF Quiet
<1>4. ProcessFinished(j, p, status) =
        IF AllFinished(e) THEN SetState(e, e.pending_job_state) ELSE e
  BY DEF ProcessFinished
<1> HIDE DEF f, r, e
<1>5. Quiet(e, SetState(e, e.pending_job_state))
  BY <1>3, SetStateQuiet
<1> QED
  BY <1>1, <1>2, <1>3, <1>4, <1>5, QuietTransitive

\* pd_job_impl_data_io_cb and pd_job_impl_message_io_cb, on errors
LEMMA ErrorsQuiet ==
    ASSUME NEW j \in GoodJob
    PROVE  Quiet(j, DataError(j)) /\ Quiet(j, MessageError(j))
<1>1. /\ {AbortedBySystem, CanceledBySystem} \subseteq JobReasons
      /\ AbortedBySystem # Outgoing /\ CanceledBySystem # Outgoing
      /\ {"aborted", "canceled"} \subseteq JobStates
  BY DEF JobReasons, AbortedBySystem, CanceledBySystem, Outgoing, JobStates,
         Terminal
<1>2. Quiet(j, DataError(j))
  BY <1>1, DoCancelQuiet DEF DataError
<1>3. Quiet(j, MessageError(j))
  <2> DEFINE a == AddStateReason(j, CanceledBySystem)
  <2>1. Quiet(j, a) /\ a \in GoodJob
    BY <1>1, AddStateReasonQuiet DEF Quiet
  <2>2. MessageError(j) = SetState(a, "canceled")
    BY DEF MessageError
  <2> HIDE DEF a
  <2> QED
    BY <1>1, <2>1, <2>2, SetStateQuiet, QuietTransitive
<1> QED
  BY <1>2, <1>3

\* pd_job_impl_add_document and pd_job_impl_start
LEMMA SpoolingQuiet ==
    ASSUME NEW j \in GoodJob
    PROVE  Quiet(j, AddDocument(j)) /\ \A k \in Start(j) : Quiet(j, k)
<1>1. Quiet(j, AddDocument(j))
  BY DEF AddDocument, Quiet, GoodJob, Job, IsOutgoingJob
<1> DEFINE s == Spooled(j)
           i == RemoveStateReason(s, Incoming)
<1>2. Quiet(j, s) /\ s \in GoodJob
  BY DEF Spooled, Quiet, GoodJob, Job, IsOutgoingJob
<1>3. /\ {AbortedBySystem, Incoming} \subseteq JobReasons
      /\ AbortedBySystem # Outgoing /\ {"aborted", "pending"} \subseteq JobStates
  BY DEF JobReasons, AbortedBySystem, Incoming, Outgoing, JobStates, Terminal
<1>4. Start(j) = {j, s, DoCancelWithReason(s, "aborted", AbortedBySystem),
                  SetState(i, "pending")}
  BY DEF Start
<1>5. Quiet(s, DoCancelWithReason(s, "aborted", AbortedBySystem))
  <2> HIDE DEF s
  <2> QED
    BY <1>2, <1>3, DoCancelQuiet
<1>6. Quiet(s, i) /\ i \in GoodJob
  <2> HIDE DEF s
  <2> QED
    BY <1>2, <1>3, RemoveStateReasonQuiet DEF Quiet
<1>7. Quiet(i, SetState(i, "pending"))
  <2> HIDE DEF i
  <2> QED
    BY <1>3, <1>6, SetStateQuiet
<1> HIDE DEF s, i
<1> QED
  BY <1>1, <1>2, <1>4, <1>5, <1>6, <1>7, QuietReflexive, QuietTransitive

\* pd_job_impl_job_state_notify leaves job-outgoing as it is.
LEMMA TidyReasonsQuiet ==
    ASSUME NEW j \in GoodJob
    PROVE  /\ Quiet(j, TidyReasons(j))
           /\ IsOutgoingJob(TidyReasons(j)) <=> IsOutgoingJob(j)
<1> DEFINE i == RemoveStateReason(j, Incoming)
<1>1. /\ {Incoming, StopPoint, Outgoing} \subseteq JobReasons
      /\ Incoming # Outgoing /\ StopPoint # Outgoing
  BY DEF JobReasons, Incoming, StopPoint, Outgoing
<1>2. Quiet(j, i) /\ i \in GoodJob
  BY <1>1, RemoveStateReasonQuiet DEF Quiet
<1>3. TidyReasons(j) = RemoveStateReason(i, StopPoint)
  BY DEF TidyReasons
<1>4. \A k \in GoodJob : \A r \in JobReasons :
        r # Outgoing =>
            (IsOutgoingJob(RemoveStateReason(k, r)) <=> IsOutgoingJob(k))
  <2> SUFFICES ASSUME NEW k \in GoodJob, NEW r \in JobReasons, r # Outgoing
               PROVE  IsOutgoingJob(RemoveStateReason(k, r)) <=> IsOutgoingJob(k)
    OBVIOUS
  <2>1. k.state_reasons \in Seq(JobReasons)
    BY DEF GoodJob, Job
  <2>2. RemoveStateReason(k, r).state_reasons = RemoveReason(k.state_reasons, r)
    BY DEF RemoveStateReason, GoodJob, Job
  <2> QED
    BY <1>1, <2>1, <2>2, OtherReasons DEF IsOutgoingJob
<1> HIDE DEF i
<1>5. IsOutgoingJob(i) <=> IsOutgoingJob(j)
  BY <1>1, <1>4 DEF i
<1>6. /\ Quiet(i, RemoveStateReason(i, StopPoint))
      /\ IsOutgoingJob(RemoveStateReason(i, StopPoint)) <=> IsOutgoingJob(i)
  BY <1>1, <1>2, <1>4, RemoveStateReasonQuiet
<1> QED
  BY <1>2, <1>3, <1>5, <1>6, QuietTransitive

-----------------------------------------------------------------------------
(* Starting a job                                                           *)

\* k is well formed, with its reasons' notification queued, and that of its
\* state unless the state is s.
Tells(k, s) ==
    /\ k \in GoodJob
    /\ "state-reasons" \in k.queued
    /\ "state" \in k.queued \/ k.state = s

\* k is well formed, with both notifications queued.
Announced(k) ==
    /\ k \in GoodJob
    /\ "state-reasons" \in k.queued /\ "state" \in k.queued

\* "unset" is no state of a job.
LEMMA AnnouncedTells ==
    ASSUME NEW k
    PROVE  Announced(k) <=> Tells(k, "unset")
BY DEF Announced, Tells, GoodJob, Job, JobStates, Terminal

\* pd_job_impl_start_processing keeps the job well formed and what is queued.
LEMMA StartProcessingTells ==
    ASSUME NEW j, NEW s, Tells(j, s), NEW k \in StartProcessing(j)
    PROVE  Tells(k, s)
<1>0. /\ ChainLens \subseteq 1..3 /\ "aborted" \in JobStates
      /\ "processing" \in JobStates /\ "processing" # "unset"
      /\ Transforming \in JobReasons
  BY ChainLensAssumption DEF JobStates, Terminal, JobReasons
<1>1. \A n \in 0..3 : \A t \in SUBSET Procs : \A w \in SUBSET Procs :
        LET l == [j EXCEPT !.chain = n, !.pending_job_state = "processing",
                           !.started = t, !.watched = w]
            m == [j EXCEPT !.chain = n, !.pending_job_state = "processing",
                           !.started = t]
        IN  Tells(l, s) /\ Tells(m, s)
  BY <1>0, ZenonT(60) DEF Tells, GoodJob, Job
<1>2. \A l : Tells(l, s) =>
        /\ Tells(AddStateReason(l, Transforming), s)
        /\ Tells(SetState(l, "aborted"), s)
  <2> SUFFICES ASSUME NEW l, Tells(l, s)
               PROVE  /\ Tells(AddStateReason(l, Transforming), s)
                      /\ Tells(SetState(l, "aborted"), s)
    OBVIOUS
  <2>1. l \in GoodJob /\ l \in Job
    BY DEF Tells, GoodJob
  <2>2. /\ AddStateReason(l, Transforming).state = l.state
        /\ l.queued \subseteq AddStateReason(l, Transforming).queued
        /\ "state-reasons" \in AddStateReason(l, Transforming).queued
    BY <2>1 DEF AddStateReason, Job
  <2>3. "state" \in SetState(l, "aborted").queued
    BY <2>1 DEF SetState, Job
  <2>4. Tells(AddStateReason(l, Transforming), s)
    BY <1>0, <2>1, <2>2, AddStateReasonGood DEF Tells
  <2>5. Tells(SetState(l, "aborted"), s)
    BY <1>0, <2>1, <2>3, SetStateQuiet DEF Tells, Quiet
  <2> QED
    BY <2>4, <2>5
<1>3. \A n \in 0..3 : Tells([j EXCEPT !.chain = n], s)
  BY ONLY Tells(j, s), SMTT(60) DEF Tells, GoodJob, Job
<1>4. CASE k = j
  BY <1>4
<1>5. CASE k \in SetupFailed(j)
  <2>1. PICK n \in {0, 1} \cup ChainLens :
            k = SetState([j EXCEPT !.chain = n], "aborted")
    BY ONLY <1>5, SMTT(60) DEF SetupFailed
  <2> QED
    BY <1>0, <1>2, <1>3, <2>1
<1>6. ASSUME NEW n \in ChainLens, NEW i \in 1..n, k = FilterFailed(j, n, i)
      PROVE  Tells(k, s)
  <2>1. n \in 0..3 /\ 1..(i - 1) \in SUBSET Procs
    BY ONLY <1>0, n \in ChainLens, i \in 1..n, SMTT(60) DEF Procs
  <2> QED
    BY <1>1, <1>2, <1>6, <2>1, ZenonT(60) DEF FilterFailed
<1>7. ASSUME NEW n \in ChainLens, k = FiltersRun(j, n)
      PROVE  Tells(k, s)
  <2>1. n \in 0..3 /\ 1..n \in SUBSET Procs
    BY <1>0 DEF Procs
  <2> QED
    BY <1>1, <1>2, <1>7, <2>1 DEF FiltersRun
<1> QED
  BY <1>4, <1>5, <1>6, <1>7 DEF StartProcessing

\* pd_job_impl_start_sending, whatever comes of it, announces new reasons.
LEMMA StartSendingTells ==
    ASSUME NEW j \in GoodJob, NEW s, "state" \in j.queued \/ j.state = s,
           NEW k \in StartSending(j)
    PROVE  Tells(k, s)
<1> DEFINE a == AddStateReason(j, Outgoing)
           chains == IF a.chain = 0 THEN StartProcessing(a) ELSE {a}
<1>1. Tells(a, s)
  <2>1. /\ a.state = j.state /\ j.queued \subseteq a.queued
        /\ "state-reasons" \in a.queued
    BY DEF AddStateReason, GoodJob, Job
  <2>2. a \in GoodJob
    BY AddStateReasonGood DEF JobReasons
  <2> QED
    BY <2>1, <2>2 DEF Tells
<1> HIDE DEF a
<1>2. \A p \in chains : Tells(p, s)
  BY <1>1, StartProcessingTells
<1>3. \E p \in chains : k \in {p, BackendRun(p), BackendFailed(p)}
  BY DEF StartSending, a
<1>4. PICK p \in chains : k \in {p, BackendRun(p), BackendFailed(p)}
  BY <1>3
<1>5. Tells(p, s)
  BY <1>2
<1> HIDE DEF chains
<1>6. Tells(BackendRun(p), s)
  <2>1. p \in Job /\ p.started \in SUBSET Procs /\ p.watched \in SUBSET Procs
    BY <1>5 DEF Tells, GoodJob, Job
  <2>2. /\ p.started \cup {Backend} \in SUBSET Procs
        /\ p.watched \cup {Backend} \in SUBSET Procs
    BY <2>1 DEF Procs, Backend
  <2>3. "completed" \in JobStates /\ "completed" # "unset"
    BY DEF JobStates, Terminal
  <2> QED
    BY <1>5, <2>2, <2>3 DEF Tells, GoodJob, Job, BackendRun
<1>7. Tells(BackendFailed(p), s)
  <2> DEFINE c == [p EXCEPT !.pending_job_state = "completed"]
  <2>1. Tells(c, s)
    BY <1>5 DEF Tells, GoodJob, Job, JobStates, Terminal
  <2>2. BackendFailed(p) = SetState(c, "aborted")
    BY DEF BackendFailed
  <2> HIDE DEF c
  <2>3. "aborted" \in JobStates
    BY DEF JobStates, Terminal
  <2>4. "state" \in SetState(c, "aborted").queued
    BY <2>1 DEF SetState, Tells, GoodJob, Job
  <2> QED
    BY <2>1, <2>2, <2>3, <2>4, SetStateQuiet DEF Tells, Quiet
<1> QED
  BY <1>4, <1>5, <1>6, <1>7

\* In particular, a job that has announced both goes on to.
LEMMA StartProcessingGood ==
    ASSUME NEW j, Announced(j), NEW k \in StartProcessing(j)
    PROVE  Announced(k)
BY AnnouncedTells, StartProcessingTells

\* The same for a job whose new state is still to be announced.
LEMMA StartSendingGood ==
    ASSUME NEW j \in GoodJob, "state" \in j.queued, NEW k \in StartSending(j)
    PROVE  Announced(k)
BY AnnouncedTells, StartSendingTells

\* A new job is well formed and not outgoing.
LEMMA NewJobGood ==
    /\ NewJob \in GoodJob /\ ~IsOutgoingJob(NewJob) /\ NewJob.queued = {}
<1>1. <<Incoming>> \in Seq(JobReasons)
  BY DEF JobReasons
<1> QED
  BY <1>1 DEF NewJob, GoodJob, Job, JobStates, Terminal, IsOutgoingJob,
              HasReason, NoDuplicates, Incoming, Outgoing

\* Thawing changes nothing but the queue.
LEMMA ThawedGood ==
    ASSUME NEW j \in GoodJob
    PROVE  /\ Thawed(j) \in GoodJob /\ Thawed(j).queued = {}
           /\ Thawed(j).state_reasons = j.state_reasons
           /\ Thawed(j).state = j.state
BY DEF Thawed, GoodJob, Job

-----------------------------------------------------------------------------
(* What the operations do to the other fields                               *)

\* The same document, filters and processes.
SameRun(j, k) ==
    /\ k.document_fd = j.document_fd
    /\ k.document_filename = j.document_filename
    /\ k.chain = j.chain /\ k.started = j.started
    /\ k.finished = j.finished /\ k.watched = j.watched

\* Only the reasons and the queue may differ.
SameButReasons(j, k) ==
    /\ SameRun(j, k)
    /\ k.state = j.state /\ k.pending_job_state = j.pending_job_state

\* Adding, removing and announcing reasons changes nothing else.
LEMMA ReasonsOnly ==
    ASSUME NEW j \in GoodJob, NEW r \in JobReasons
    PROVE  /\ SameButReasons(j, AddStateReason(j, r))
           /\ SameButReasons(j, RemoveStateReason(j, r))
           /\ SameButReasons(j, CheckJobTransforming(j))
           /\ SameButReasons(j, Thawed(j))
<1>1. /\ SameButReasons(j, AddStateReason(j, r))
      /\ SameButReasons(j, RemoveStateReason(j, r))
  BY DEF GoodJob, Job, SameButReasons, SameRun, AddStateReason, RemoveStateReason
<1>2. SameButReasons(j, RemoveStateReason(j, Transforming))
  BY DEF GoodJob, Job, SameButReasons, SameRun, RemoveStateReason
<1>3. SameButReasons(j, CheckJobTransforming(j))
  BY <1>2 DEF CheckJobTransforming, SameButReasons, SameRun
<1>4. SameButReasons(j, Thawed(j))
  BY DEF GoodJob, Job, SameButReasons, SameRun, Thawed
<1> QED
  BY <1>1, <1>3, <1>4

\* pd_job_impl_job_state_notify changes reasons only, and none but two.
LEMMA TidyReasonsOnly ==
    ASSUME NEW j \in GoodJob
    PROVE  /\ SameButReasons(j, TidyReasons(j))
           /\ \A r \in JobReasons \ {Incoming, StopPoint} :
                HasReason(TidyReasons(j).state_reasons, r)
                    <=> HasReason(j.state_reasons, r)
<1> DEFINE i == RemoveStateReason(j, Incoming)
<1>1. /\ {Incoming, StopPoint} \subseteq JobReasons
      /\ j.state_reasons \in Seq(JobReasons)
  BY DEF JobReasons, GoodJob, Job
<1>2. /\ i \in GoodJob /\ i.state_reasons \in Seq(JobReasons)
      /\ i.state_reasons = RemoveReason(j.state_reasons, Incoming)
      /\ SameButReasons(j, i)
  <2>1. i \in GoodJob /\ SameButReasons(j, i)
    BY <1>1, RemoveStateReasonQuiet, ReasonsOnly DEF Quiet
  <2> QED
    BY <2>1 DEF GoodJob, Job, RemoveStateReason
<1>3. TidyReasons(j) = RemoveStateReason(i, StopPoint)
  BY DEF TidyReasons
<1> HIDE DEF i
<1>4. /\ SameButReasons(i, TidyReasons(j))
      /\ TidyReasons(j).state_reasons = RemoveReason(i.state_reasons, StopPoint)
  <2>1. SameButReasons(i, TidyReasons(j))
    BY <1>1, <1>2, <1>3, ReasonsOnly
  <2>2. RemoveStateReason(i, StopPoint).state_reasons
            = RemoveReason(i.state_reasons, StopPoint)
    BY <1>2 DEF RemoveStateReason, GoodJob, Job
  <2> QED
    BY <1>3, <2>1, <2>2
<1>5. \A r \in JobReasons \ {Incoming, StopPoint} :
        HasReason(TidyReasons(j).state_reasons, r)
            <=> HasReason(j.state_reasons, r)
  BY <1>1, <1>2, <1>4, OtherReasons
<1> QED
  BY <1>2, <1>4, <1>5 DEF SameButReasons, SameRun

\* g_object_set of the state, and of what is to be the state later.
LEMMA StatesOnly ==
    ASSUME NEW j \in GoodJob, NEW s \in JobStates
    PROVE  /\ SameRun(j, SetState(j, s)) /\ SetState(j, s).state = s
           /\ SetState(j, s).pending_job_state = j.pending_job_state
           /\ SetState(j, s).state_reasons = j.state_reasons
           /\ "state" \in SetState(j, s).queued
           /\ SameRun(j, ToStopPoint(j, s)) /\ ToStopPoint(j, s).state = j.state
           /\ ToStopPoint(j, s).pending_job_state = s
           /\ ToStopPoint(j, s).state_reasons
                = AddReason(j.state_reasons, StopPoint)
BY DEF GoodJob, Job, SameRun, SetState, ToStopPoint, AddStateReason

\* The outcomes of pd_job_impl_do_cancel_with_reason, one for each of its
\* branches.
LEMMA DoCancelCases ==
    ASSUME NEW j \in GoodJob, NEW s, NEW r,
           NEW a, a = AddStateReason(j, r),
           NEW c, c = CheckJobTransforming(a)
    PROVE  \/ /\ j.state \in {"pending", "pending-held"}
              /\ DoCancelWithReason(j, s, r) = SetState(a, s)
           \/ /\ j.state = "processing"
              /\ ~FiltersRunning(a) /\ ~BackendStarted(a)
              /\ DoCancelWithReason(j, s, r) = SetState(c, s)
           \/ /\ j.state = "processing"
              /\ FiltersRunning(a) \/ BackendStarted(a)
              /\ HasReason(c.state_reasons, StopPoint)
              /\ DoCancelWithReason(j, s, r) = c
           \/ /\ j.state = "processing"
              /\ FiltersRunning(a) \/ BackendStarted(a)
              /\ ~HasReason(c.state_reasons, StopPoint)
              /\ DoCancelWithReason(j, s, r) = ToStopPoint(c, s)
           \/ /\ j.state \in Terminal
              /\ DoCancelWithReason(j, s, r) = a
<1>1. j.state \in {"pending", "pending-held"} \/ j.state = "processing"
        \/ j.state \in Terminal
  BY DEF GoodJob, Job, JobStates
<1>2. CASE j.state \in {"pending", "pending-held"}
  <2>1. DoCancelWithReason(j, s, r) = SetState(a, s)
    BY <1>2 DEF DoCancelWithReason, Terminal
  <2> QED
    BY <1>2, <2>1
<1>3. CASE j.state = "processing"
  <2>1. DoCancelWithReason(j, s, r) =
          IF ~FiltersRunning(a) /\ ~BackendStarted(a)
          THEN SetState(c, s)
          ELSE IF HasReason(c.state_reasons, StopPoint) THEN c
          ELSE ToStopPoint(c, s)
    BY <1>3 DEF DoCancelWithReason, Terminal
  <2> QED
    BY <1>3, <2>1
<1>4. CASE j.state \in Terminal
  <2>1. DoCancelWithReason(j, s, r) = a
    BY <1>4 DEF DoCancelWithReason, Terminal
  <2> QED
    BY <1>4, <2>1
<1> QED
  BY <1>1, <1>2, <1>3, <1>4

\* k is j after a cancellation that ends it in state s: at once, or later, and
\* then it is brought to its stop point with s kept for later.
CanceledTo(j, k, s) ==
    /\ SameRun(j, k)
    /\ k.state \in {j.state, s}
    /\ j.state \in Terminal => k.state = j.state
    /\ k.pending_job_state \in {j.pending_job_state, s}
    /\ HasReason(k.state_reasons, StopPoint) =>
        HasReason(j.state_reasons, StopPoint) \/ k.pending_job_state = s

\* pd_job_impl_do_cancel_with_reason
LEMMA DoCancelFields ==
    ASSUME NEW j \in GoodJob, NEW s \in JobStates, NEW r \in JobReasons,
           r \notin {Outgoing, StopPoint}
    PROVE  CanceledTo(j, DoCancelWithReason(j, s, r), s)
<1> DEFINE a == AddStateReason(j, r)
           c == CheckJobTransforming(a)
           k == DoCancelWithReason(j, s, r)
<1>0. {StopPoint, Transforming} \subseteq JobReasons /\ Transforming # StopPoint
  BY DEF JobReasons, StopPoint, Transforming
<1>1. /\ a \in GoodJob /\ SameButReasons(j, a)
      /\ HasReason(a.state_reasons, StopPoint)
            => HasReason(j.state_reasons, StopPoint)
  <2>1. /\ j.state_reasons \in Seq(JobReasons) /\ a \in GoodJob
        /\ SameButReasons(j, a)
        /\ a.state_reasons = AddReason(j.state_reasons, r)
    BY AddStateReasonGood, ReasonsOnly DEF GoodJob, Job
  <2> QED
    BY <1>0, <2>1, OtherReasons
<1>2. /\ c \in GoodJob /\ SameButReasons(a, c)
      /\ HasReason(c.state_reasons, StopPoint)
            <=> HasReason(a.state_reasons, StopPoint)
  <2> HIDE DEF a
  <2>1. c \in GoodJob /\ SameButReasons(a, c)
    BY <1>0, <1>1, CheckJobTransformingQuiet, ReasonsOnly DEF Quiet
  <2>2. /\ a.state_reasons \in Seq(JobReasons)
        /\ RemoveStateReason(a, Transforming).state_reasons
                = RemoveReason(a.state_reasons, Transforming)
    BY <1>1 DEF GoodJob, Job, RemoveStateReason
  <2>3. HasReason(RemoveStateReason(a, Transforming).state_reasons, StopPoint)
            <=> HasReason(a.state_reasons, StopPoint)
    BY <1>0, <2>2, OtherReasons
  <2> QED
    BY <2>1, <2>3 DEF CheckJobTransforming
<1>3. k \in {a, c, SetState(a, s), SetState(c, s), ToStopPoint(c, s)}
        /\ (j.state \in Terminal => k = a)
  <2>1. j.state \in Terminal => j.state \notin {"pending", "pending-held", "processing"}
    BY DEF Terminal
  <2> QED
    BY <2>1, DoCancelCases
<1> SUFFICES CanceledTo(j, k, s)
  OBVIOUS
<1> HIDE DEF a, c, k
<1>4. CASE k \in {a, c}
  BY <1>1, <1>2, <1>4 DEF CanceledTo, SameButReasons, SameRun
<1>5. CASE k = SetState(a, s) /\ j.state \notin Terminal
  BY <1>1, <1>5, StatesOnly DEF CanceledTo, SameButReasons, SameRun
<1>6. CASE k = SetState(c, s) /\ j.state \notin Terminal
  BY <1>1, <1>2, <1>6, StatesOnly DEF CanceledTo, SameButReasons, SameRun
<1>7. CASE k = ToStopPoint(c, s)
  BY <1>1, <1>2, <1>7, StatesOnly DEF CanceledTo, SameButReasons, SameRun
<1> QED
  BY <1>3, <1>4, <1>5, <1>6, <1>7

\* pd_job_impl_cancel
LEMMA CancelFields ==
    ASSUME NEW j \in GoodJob
    PROVE  CanceledTo(j, Cancel(j), "canceled")
<1> DEFINE c == CheckJobTransforming(j)
<1>0. /\ {StopPoint, Transforming, CanceledByUser} \subseteq JobReasons
      /\ CanceledByUser \notin {Outgoing, StopPoint} /\ Transforming # StopPoint
      /\ "canceled" \in JobStates
  BY DEF JobReasons, StopPoint, Transforming, CanceledByUser, Outgoing,
         JobStates, Terminal
<1>1. /\ c \in GoodJob /\ SameButReasons(j, c)
      /\ HasReason(c.state_reasons, StopPoint)
            <=> HasReason(j.state_reasons, StopPoint)
  <2>1. c \in GoodJob /\ SameButReasons(j, c)
    BY <1>0, CheckJobTransformingQuiet, ReasonsOnly DEF Quiet
  <2>2. /\ j.state_reasons \in Seq(JobReasons)
        /\ RemoveStateReason(j, Transforming).state_reasons
                = RemoveReason(j.state_reasons, Transforming)
    BY DEF GoodJob, Job, RemoveStateReason
  <2>3. HasReason(RemoveStateReason(j, Transforming).state_reasons, StopPoint)
            <=> HasReason(j.state_reasons, StopPoint)
    BY <1>0, <2>2, OtherReasons
  <2> QED
    BY <2>1, <2>3 DEF CheckJobTransforming
<1>2. \/ Cancel(j) \in {j, c}
      \/ Cancel(j) = DoCancelWithReason(j, "canceled", CanceledByUser)
      \/ Cancel(j) = DoCancelWithReason(c, "canceled", CanceledByUser)
  <2>1. j.state \in {"pending", "pending-held"} \/ j.state = "processing"
            \/ j.state \in Terminal
    BY DEF GoodJob, Job, JobStates
  <2>2. CASE j.state \in {"pending", "pending-held"}
    BY <2>2 DEF Cancel, Terminal
  <2>3. CASE j.state = "processing"
    BY <2>3 DEF Cancel, Terminal
  <2>4. CASE j.state \in Terminal
    BY <2>4 DEF Cancel, Terminal
  <2> QED
    BY <2>1, <2>2, <2>3, <2>4
<1> HIDE DEF c
<1>3. /\ CanceledTo(j, DoCancelWithReason(j, "canceled", CanceledByUser),
                    "canceled")
      /\ CanceledTo(c, DoCancelWithReason(c, "canceled", CanceledByUser),
                    "canceled")
  BY <1>0, <1>1, DoCancelFields
<1>4. CASE Cancel(j) \in {j, c}
  BY <1>1, <1>4 DEF CanceledTo, SameButReasons, SameRun
<1>5. CASE Cancel(j) = DoCancelWithReason(c, "canceled", CanceledByUser)
  BY <1>1, <1>3, <1>5 DEF CanceledTo, SameButReasons, SameRun
<1> QED
  BY <1>2, <1>3, <1>4, <1>5

\* pd_job_impl_process_watch_cb: a process is done, and when it was the last
\* the state kept for later becomes the job's.
LEMMA ProcessFinishedFields ==
    ASSUME NEW j \in GoodJob, NEW p \in j.watched, NEW status,
           NEW k, k = ProcessFinished(j, p, status)
    PROVE  /\ k.document_fd = j.document_fd
           /\ k.document_filename = j.document_filename
           /\ k.chain = j.chain /\ k.started = j.started
           /\ k.finished = j.finished \cup {p} /\ k.watched = j.watched \ {p}
           /\ k.pending_job_state =
                IF status = "failed" THEN "aborted" ELSE j.pending_job_state
           /\ k.state =
                IF AllFinished(k) THEN k.pending_job_state ELSE j.state
           /\ AllFinished(k) => "state" \in k.queued
<1> DEFINE f == [j EXCEPT !.finished = @ \cup {p}, !.watched = @ \ {p}]
           r == IF p = Backend THEN RemoveStateReason(f, Outgoing)
                ELSE CheckJobTransforming(f)
           e == IF ExitedNonZero(status)
                THEN [r EXCEPT !.pending_job_state = "aborted"] ELSE r
<1>0. /\ p \in Procs /\ j.pending_job_state \in JobStates
      /\ Outgoing \in JobReasons /\ "aborted" \in JobStates
  BY DEF GoodJob, Job, JobReasons, JobStates, Terminal
<1>1. /\ f \in GoodJob /\ f.finished = j.finished \cup {p}
      /\ f.watched = j.watched \ {p} /\ f.state = j.state
      /\ f.document_fd = j.document_fd
      /\ f.document_filename = j.document_filename
      /\ f.chain = j.chain /\ f.started = j.started
      /\ f.pending_job_state = j.pending_job_state
  BY <1>0 DEF GoodJob, Job
<1>2. r \in GoodJob /\ SameButReasons(f, r)
  <2> HIDE DEF f
  <2> QED
    BY <1>0, <1>1, RemoveStateReasonQuiet, CheckJobTransformingQuiet,
       ReasonsOnly DEF Quiet
<1>3. /\ e \in GoodJob /\ SameRun(r, e) /\ e.state = r.state
      /\ e.pending_job_state =
            IF status = "failed" THEN "aborted" ELSE r.pending_job_state
  <2> HIDE DEF f, r
  <2>1. LET x == [r EXCEPT !.pending_job_state = "aborted"]
        IN  /\ x \in GoodJob /\ SameRun(r, x) /\ x.state = r.state
            /\ x.pending_job_state = "aborted"
    BY <1>0, <1>2 DEF GoodJob, Job, SameRun
  <2> QED
    BY <1>2, <2>1 DEF ExitedNonZero, SameRun
<1>4. k = IF AllFinished(e) THEN SetState(e, e.pending_job_state) ELSE e
  BY DEF ProcessFinished
<1> HIDE DEF f, r, e
<1>5. e.pending_job_state \in JobStates
  BY <1>0, <1>1, <1>2, <1>3 DEF SameButReasons
<1>6. CASE AllFinished(e)
  <2>1. /\ SameRun(e, k) /\ k.state = e.pending_job_state
        /\ k.pending_job_state = e.pending_job_state /\ "state" \in k.queued
    BY <1>3, <1>4, <1>5, <1>6, StatesOnly
  <2>2. AllFinished(k)
    BY <1>6, <2>1 DEF AllFinished, FiltersRunning, Running, SameRun
  <2> QED
    BY <1>1, <1>2, <1>3, <2>1, <2>2 DEF SameRun, SameButReasons
<1>7. CASE ~AllFinished(e)
  BY <1>1, <1>2, <1>3, <1>4, <1>7 DEF SameRun, SameButReasons
<1> QED
  BY <1>6, <1>7

\* pd_job_impl_message_io_cb, on an error
LEMMA MessageErrorFields ==
    ASSUME NEW j \in GoodJob
    PROVE  /\ SameRun(j, MessageError(j)) /\ MessageError(j).state = "canceled"
           /\ MessageError(j).pending_job_state = j.pending_job_state
           /\ MessageError(j).state_reasons
                = AddReason(j.state_reasons, CanceledBySystem)
           /\ "state" \in MessageError(j).queued
<1> DEFINE a == AddStateReason(j, CanceledBySystem)
<1>1. /\ a \in GoodJob /\ SameButReasons(j, a)
      /\ a.state_reasons = AddReason(j.state_reasons, CanceledBySystem)
      /\ "canceled" \in JobStates
  BY AddStateReasonGood, ReasonsOnly
     DEF JobReasons, CanceledBySystem, JobStates, Terminal
<1>2. MessageError(j) = SetState(a, "canceled")
  BY DEF MessageError
<1> HIDE DEF a
<1> QED
  BY <1>1, <1>2, StatesOnly DEF SameButReasons, SameRun

\* What pd_job_impl_start makes of a job that keeps a descriptor: nothing, or a
\* spooled job that was canceled, is pending, or has the state it had.
LEMMA StartFields ==
    ASSUME NEW j \in GoodJob, NEW k \in Start(j)
    PROVE  \/ k = j
           \/ k = Spooled(j)
           \/ CanceledTo(Spooled(j), k, "aborted")
           \/ /\ SameRun(Spooled(j), k) /\ k.state = "pending"
              /\ k.pending_job_state = j.pending_job_state
              /\ k.state_reasons = RemoveReason(j.state_reasons, Incoming)
<1> DEFINE s == Spooled(j)
           i == RemoveStateReason(s, Incoming)
<1>0. /\ {Incoming, AbortedBySystem} \subseteq JobReasons
      /\ AbortedBySystem \notin {Outgoing, StopPoint}
      /\ {"pending", "aborted"} \subseteq JobStates
  BY DEF JobReasons, Incoming, AbortedBySystem, Outgoing, StopPoint, JobStates,
         Terminal
<1>1. /\ s \in GoodJob /\ s.state_reasons = j.state_reasons
      /\ s.pending_job_state = j.pending_job_state
  BY DEF Spooled, GoodJob, Job
<1>2. k \in {j, s, DoCancelWithReason(s, "aborted", AbortedBySystem),
             SetState(i, "pending")}
  BY DEF Start
<1> SUFFICES \/ k = j
             \/ k = s
             \/ CanceledTo(s, k, "aborted")
             \/ /\ SameRun(s, k) /\ k.state = "pending"
                /\ k.pending_job_state = j.pending_job_state
                /\ k.state_reasons = RemoveReason(j.state_reasons, Incoming)
  OBVIOUS
<1> HIDE DEF s
<1>3. CanceledTo(s, DoCancelWithReason(s, "aborted", AbortedBySystem), "aborted")
  BY <1>0, <1>1, DoCancelFields
<1>4. /\ i \in GoodJob /\ SameButReasons(s, i)
      /\ i.state_reasons = RemoveReason(j.state_reasons, Incoming)
  <2>1. i \in GoodJob /\ SameButReasons(s, i)
    BY <1>0, <1>1, RemoveStateReasonQuiet, ReasonsOnly DEF Quiet
  <2>2. i.state_reasons = RemoveReason(s.state_reasons, Incoming)
    BY <1>1 DEF RemoveStateReason, GoodJob, Job
  <2> QED
    BY <1>1, <2>1, <2>2
<1> HIDE DEF i
<1>5. CASE k = SetState(i, "pending")
  BY <1>0, <1>1, <1>4, <1>5, StatesOnly DEF SameButReasons, SameRun
<1> QED
  BY <1>2, <1>3, <1>5

\* pd_job_impl_start_sending on a job without processes: either the state
\* becomes aborted, or the filters and the backend run and are watched.
LEMMA StartSendingFields ==
    ASSUME NEW j \in GoodJob, j.chain = 0, j.started = {}, j.finished = {},
           j.watched = {}, NEW k \in StartSending(j)
    PROVE  /\ k.document_fd = j.document_fd
           /\ k.document_filename = j.document_filename
           /\ k.finished = {} /\ k.watched \subseteq k.started
           /\ k.pending_job_state \in
                {j.pending_job_state, "processing", "completed"}
           /\ \/ k.state = "aborted" /\ ~BackendStarted(k)
              \/ /\ k.state = j.state /\ BackendStarted(k)
                 /\ FiltersStarted(k) /\ k.pending_job_state = "completed"
<1> DEFINE a == AddStateReason(j, Outgoing)
<1>0. ChainLens \subseteq 1..3
  BY ChainLensAssumption
<1>1. a \in GoodJob /\ SameButReasons(j, a)
  BY AddStateReasonGood, ReasonsOnly DEF JobReasons
<1> DEFINE chains == IF a.chain = 0 THEN StartProcessing(a) ELSE {a}
           OK(q) == /\ q.document_fd = j.document_fd
                    /\ q.document_filename = j.document_filename
                    /\ q.finished = {} /\ q.watched \subseteq q.started
                    /\ q.pending_job_state \in {j.pending_job_state, "processing"}
                    /\ q \in Job
                    /\ Backend \notin q.started
                    /\ \/ q.state = "aborted"
                       \/ q.state = j.state /\ FiltersStarted(q)
<1>2. /\ chains = StartProcessing(a)
      /\ \E q \in chains : \/ k = q /\ q.state = "aborted"
                           \/ /\ q.state # "aborted"
                              /\ k \in {BackendRun(q), BackendFailed(q)}
  <2>1. a.chain = 0
    BY <1>1 DEF SameButReasons, SameRun
  <2> QED
    BY <2>1 DEF StartSending
<1> HIDE DEF a, chains
<1>3. \A q \in chains : OK(q)
  <2> SUFFICES ASSUME NEW q \in StartProcessing(a)
               PROVE  OK(q)
    BY <1>2
  <2>0. /\ a.chain = 0 /\ a.started = {} /\ a.finished = {} /\ a.watched = {}
        /\ a.state = j.state /\ a.document_fd = j.document_fd
        /\ a.document_filename = j.document_filename
        /\ a.pending_job_state = j.pending_job_state
    BY <1>1 DEF SameButReasons, SameRun
  <2>1. \/ q \in SetupFailed(a)
        \/ \E n \in ChainLens : \E i \in 1..n : q = FilterFailed(a, n, i)
        \/ \E n \in ChainLens : q = FiltersRun(a, n)
    BY <2>0 DEF StartProcessing
  <2>2. CASE q \in SetupFailed(a)
    <3>1. PICK n \in {0, 1} \cup ChainLens :
              q = SetState([a EXCEPT !.chain = n], "aborted")
      BY <2>2 DEF SetupFailed
    <3> DEFINE m == [a EXCEPT !.chain = n]
    <3>2. n \in 0..3 /\ "aborted" \in JobStates
      BY <1>0 DEF JobStates, Terminal
    <3>3. /\ m \in GoodJob /\ m.started = {} /\ m.finished = {}
          /\ m.watched = {} /\ m.document_fd = j.document_fd
          /\ m.document_filename = j.document_filename
          /\ m.pending_job_state = j.pending_job_state
      BY <1>1, <2>0, <3>2 DEF GoodJob, Job
    <3>4. q = SetState(m, "aborted")
      BY <3>1
    <3> HIDE DEF m
    <3>5. /\ q \in GoodJob /\ SameRun(m, q) /\ q.state = "aborted"
          /\ q.pending_job_state = m.pending_job_state
      BY <3>2, <3>3, <3>4, StatesOnly, SetStateQuiet DEF Quiet
    <3> QED
      BY <3>3, <3>5 DEF SameRun, GoodJob
  <2> DEFINE Run(n, s, w) ==
               [a EXCEPT !.chain = n, !.pending_job_state = "processing",
                         !.started = s, !.watched = w]
  <2>3. ASSUME NEW n \in ChainLens, NEW s \in SUBSET Procs,
               NEW w \in SUBSET Procs, NEW l, l = Run(n, s, w)
        PROVE  /\ l \in GoodJob
               /\ l.chain = n /\ l.started = s /\ l.watched = w
               /\ l.pending_job_state = "processing" /\ l.finished = {}
               /\ l.document_fd = j.document_fd /\ l.state = j.state
               /\ l.document_filename = j.document_filename
    <3>1. n \in 0..3 /\ "processing" \in JobStates
      BY <1>0 DEF JobStates
    <3>2. a \in Job /\ NoDuplicates(a.state_reasons)
      BY <1>1 DEF GoodJob
    <3>3. l \in Job /\ l.state_reasons = a.state_reasons
      BY <2>3, <3>1, <3>2 DEF Job
    <3>4. /\ l.chain = n /\ l.started = s /\ l.watched = w
          /\ l.pending_job_state = "processing" /\ l.finished = a.finished
          /\ l.document_fd = a.document_fd /\ l.state = a.state
          /\ l.document_filename = a.document_filename
      BY <2>3, <3>2 DEF Job
    <3> QED
      BY <2>0, <3>2, <3>3, <3>4 DEF GoodJob
  <2>4. Transforming \in JobReasons /\ "aborted" \in JobStates
    BY DEF JobReasons, JobStates, Terminal
  <2>5. ASSUME NEW n \in ChainLens, NEW i \in 1..n, q = FilterFailed(a, n, i)
        PROVE  OK(q)
    <3> DEFINE s == 1..(i - 1)
               m == [a EXCEPT !.chain = n, !.pending_job_state = "processing",
                              !.started = s]
               t == AddStateReason(m, Transforming)
    <3>1. s \in SUBSET Procs /\ Backend \notin s
      BY <1>0 DEF Procs, Backend
    <3>2. q = SetState(t, "aborted")
      BY <2>5 DEF FilterFailed
    <3> HIDE DEF s
    <3> DEFINE none == {}
               l == Run(n, s, none)
    <3>0. m = l
      BY <1>1, <2>0 DEF GoodJob, Job
    <3>3. /\ m \in GoodJob /\ m.started = s /\ m.watched = {}
          /\ m.pending_job_state = "processing" /\ m.finished = {}
          /\ m.document_fd = j.document_fd
          /\ m.document_filename = j.document_filename
      <4>1. none \in SUBSET Procs
        OBVIOUS
      <4>2. /\ l \in GoodJob /\ l.started = s /\ l.watched = none
            /\ l.pending_job_state = "processing" /\ l.finished = {}
            /\ l.document_fd = j.document_fd
            /\ l.document_filename = j.document_filename
        <5> HIDE DEF Run, none
        <5> QED
          BY <2>3, <3>1, <4>1
      <4> HIDE DEF m, l
      <4> QED
        BY <3>0, <4>2
    <3> HIDE DEF m, l
    <3>4. t \in GoodJob /\ SameButReasons(m, t)
      BY <2>4, <3>3, AddStateReasonGood, ReasonsOnly
    <3> HIDE DEF t
    <3>5. /\ q \in GoodJob /\ SameRun(t, q) /\ q.state = "aborted"
          /\ q.pending_job_state = t.pending_job_state
      BY <2>4, <3>2, <3>4, StatesOnly, SetStateQuiet DEF Quiet
    <3> QED
      BY <3>1, <3>3, <3>4, <3>5 DEF SameButReasons, SameRun, GoodJob
  <2>6. ASSUME NEW n \in ChainLens, q = FiltersRun(a, n)
        PROVE  OK(q)
    <3> DEFINE s == 1..n
               l == Run(n, s, s)
    <3>1. s \in SUBSET Procs /\ Backend \notin s /\ n # 0 /\ n \in s
      BY <1>0 DEF Procs, Backend
    <3>2. q = AddStateReason(l, Transforming)
      BY <2>6 DEF FiltersRun
    <3> HIDE DEF s
    <3>3. /\ l \in GoodJob /\ l.started = s /\ l.watched = s /\ l.chain = n
          /\ l.pending_job_state = "processing" /\ l.finished = {}
          /\ l.document_fd = j.document_fd /\ l.state = j.state
          /\ l.document_filename = j.document_filename
      <4> HIDE DEF Run
      <4> QED
        BY <2>3, <3>1
    <3> HIDE DEF l
    <3>4. q \in GoodJob /\ SameButReasons(l, q)
      BY <2>4, <3>2, <3>3, AddStateReasonGood, ReasonsOnly
    <3> QED
      BY <3>1, <3>3, <3>4 DEF SameButReasons, SameRun, GoodJob, FiltersStarted
  <2> QED
    BY <2>1, <2>2, <2>5, <2>6
<1>4. PICK q \in chains : \/ k = q /\ q.state = "aborted"
                          \/ /\ q.state # "aborted"
                             /\ k \in {BackendRun(q), BackendFailed(q)}
  BY <1>2
<1>5. OK(q)
  BY <1>3
<1>6. CASE k = q /\ q.state = "aborted"
  BY <1>5, <1>6 DEF BackendStarted
<1>7. CASE k = BackendFailed(q)
  BY <1>5, <1>7 DEF BackendFailed, SetState, BackendStarted, Job
<1>8. CASE k = BackendRun(q) /\ q.state # "aborted"
  BY <1>5, <1>8 DEF BackendRun, BackendStarted, FiltersStarted, Job
<1> QED
  BY <1>4, <1>6, <1>7, <1>8

-----------------------------------------------------------------------------
(* What the queue relies on: a change of the state is announced, and        *)
(* job-outgoing is not lost while it comes first.  '+' of a listed reason   *)
(* drops all that follow it, so the place matters.                          *)

OutgoingFirst(j) ==
    Len(j.state_reasons) > 0 /\ j.state_reasons[1] = Outgoing

\* k is j after changes that did not end the sending.
Follows(j, k) ==
    /\ k \in GoodJob
    /\ k.state # j.state => "state" \in k.queued
    /\ j.queued \subseteq k.queued
    /\ OutgoingFirst(j) => OutgoingFirst(k)

\* Such changes can be chained ...
LEMMA FollowsTransitive ==
    ASSUME NEW j, NEW k, NEW l, Follows(j, k), Follows(k, l)
    PROVE  Follows(j, l)
BY DEF Follows

\* ... and doing nothing is one.
LEMMA FollowsReflexive ==
    ASSUME NEW j \in GoodJob
    PROVE  Follows(j, j)
BY DEF Follows

\* A job that is first outgoing is outgoing.
LEMMA FirstIsOutgoing ==
    ASSUME NEW j \in GoodJob, OutgoingFirst(j)
    PROVE  IsOutgoingJob(j)
<1>1. j.state_reasons \in Seq(JobReasons)
  BY DEF GoodJob, Job
<1>2. Len(j.state_reasons) \in Nat
  BY <1>1, LenProperties
<1>3. 1 \in 1..Len(j.state_reasons)
  BY <1>2 DEF OutgoingFirst
<1> QED
  BY <1>3 DEF OutgoingFirst, IsOutgoingJob, HasReason

\* Any other reason may come or go.
LEMMA ReasonFollows ==
    ASSUME NEW j \in GoodJob, NEW r \in JobReasons, r # Outgoing
    PROVE  /\ Follows(j, AddStateReason(j, r))
           /\ Follows(j, RemoveStateReason(j, r))
<1>1. /\ AddStateReason(j, r) \in GoodJob /\ RemoveStateReason(j, r) \in GoodJob
      /\ j.queued \subseteq AddStateReason(j, r).queued
      /\ j.queued \subseteq RemoveStateReason(j, r).queued
  BY AddStateReasonGood, RemoveStateReasonQuiet DEF Quiet
<1>2. /\ AddStateReason(j, r).state = j.state
      /\ RemoveStateReason(j, r).state = j.state
  BY ReasonsOnly DEF SameButReasons
<1>3. /\ j.state_reasons \in Seq(JobReasons)
      /\ AddStateReason(j, r).state_reasons = AddReason(j.state_reasons, r)
      /\ RemoveStateReason(j, r).state_reasons = RemoveReason(j.state_reasons, r)
  BY DEF GoodJob, Job, AddStateReason, RemoveStateReason
<1>4. ASSUME OutgoingFirst(j)
      PROVE  /\ OutgoingFirst(AddStateReason(j, r))
             /\ OutgoingFirst(RemoveStateReason(j, r))
  <2>1. Len(j.state_reasons) > 0 /\ j.state_reasons[1] = Outgoing
    BY <1>4 DEF OutgoingFirst
  <2>2. /\ Len(AddReason(j.state_reasons, r)) > 0
        /\ AddReason(j.state_reasons, r)[1] = Outgoing
        /\ Len(RemoveReason(j.state_reasons, r)) > 0
        /\ RemoveReason(j.state_reasons, r)[1] = Outgoing
    BY <1>3, <2>1, FirstKept
  <2> QED
    BY <1>3, <2>2 DEF OutgoingFirst
<1> QED
  BY <1>1, <1>2, <1>4 DEF Follows

\* Setting a state, and keeping one for later.
LEMMA StateFollows ==
    ASSUME NEW j \in GoodJob, NEW s \in JobStates
    PROVE  /\ Follows(j, SetState(j, s))
           /\ Follows(j, [j EXCEPT !.pending_job_state = s])
<1>1. SetState(j, s) \in GoodJob /\ [j EXCEPT !.pending_job_state = s] \in GoodJob
  BY SetStateQuiet, PendingStateQuiet DEF Quiet
<1> QED
  BY <1>1 DEF Follows, SetState, OutgoingFirst, GoodJob, Job

\* pd_job_impl_check_job_transforming removes another reason.
LEMMA CheckJobTransformingFollows ==
    ASSUME NEW j \in GoodJob
    PROVE  Follows(j, CheckJobTransforming(j))
<1>1. Transforming \in JobReasons /\ Transforming # Outgoing
  BY DEF JobReasons, Transforming, Outgoing
<1> QED
  BY <1>1, ReasonFollows, FollowsReflexive DEF CheckJobTransforming

\* Bringing a job to its stop point adds another reason.
LEMMA ToStopPointFollows ==
    ASSUME NEW j \in GoodJob, NEW s \in JobStates
    PROVE  Follows(j, ToStopPoint(j, s))
<1> DEFINE k == [j EXCEPT !.pending_job_state = s]
<1>1. Follows(j, k) /\ k \in GoodJob
  BY StateFollows DEF Follows
<1>2. ToStopPoint(j, s) = AddStateReason(k, StopPoint)
  BY DEF ToStopPoint
<1>3. StopPoint \in JobReasons /\ StopPoint # Outgoing
  BY DEF JobReasons, StopPoint, Outgoing
<1> HIDE DEF k
<1>4. Follows(k, AddStateReason(k, StopPoint))
  BY <1>1, <1>3, ReasonFollows
<1> QED
  BY <1>1, <1>2, <1>4, FollowsTransitive

\* pd_job_impl_do_cancel_with_reason
LEMMA DoCancelFollows ==
    ASSUME NEW j \in GoodJob, NEW s \in JobStates, NEW r \in JobReasons,
           r # Outgoing
    PROVE  Follows(j, DoCancelWithReason(j, s, r))
<1> DEFINE a == AddStateReason(j, r)
           c == CheckJobTransforming(a)
<1>1. Follows(j, a) /\ a \in GoodJob
  BY ReasonFollows DEF Follows
<1>2. Follows(a, c) /\ c \in GoodJob
  <2> HIDE DEF a
  <2> QED
    BY <1>1, CheckJobTransformingFollows DEF Follows
<1>3. DoCancelWithReason(j, s, r) \in
        {a, c, SetState(a, s), SetState(c, s), ToStopPoint(c, s)}
  BY DoCancelCases
<1> HIDE DEF a, c
<1>4. /\ Follows(a, SetState(a, s)) /\ Follows(c, SetState(c, s))
      /\ Follows(c, ToStopPoint(c, s))
  BY <1>1, <1>2, StateFollows, ToStopPointFollows
<1> QED
  BY <1>1, <1>2, <1>3, <1>4, FollowsTransitive

\* pd_job_impl_cancel, and the callbacks on errors
LEMMA StopFollows ==
    ASSUME NEW j \in GoodJob
    PROVE  /\ Follows(j, Cancel(j))
           /\ Follows(j, DataError(j)) /\ Follows(j, MessageError(j))
<1> DEFINE c == CheckJobTransforming(j)
           a == AddStateReason(j, CanceledBySystem)
<1>0. /\ {CanceledByUser, CanceledBySystem, AbortedBySystem} \subseteq JobReasons
      /\ Outgoing \notin {CanceledByUser, CanceledBySystem, AbortedBySystem}
      /\ {"canceled", "aborted"} \subseteq JobStates
  BY DEF JobReasons, CanceledByUser, CanceledBySystem, AbortedBySystem, Outgoing,
         JobStates, Terminal
<1>1. Follows(j, c) /\ c \in GoodJob
  BY CheckJobTransformingFollows DEF Follows
<1>2. Follows(j, a) /\ a \in GoodJob
  BY <1>0, ReasonFollows DEF Follows
<1>3. \/ Cancel(j) \in {j, c}
      \/ Cancel(j) = DoCancelWithReason(j, "canceled", CanceledByUser)
      \/ Cancel(j) = DoCancelWithReason(c, "canceled", CanceledByUser)
  <2>1. j.state \in {"pending", "pending-held"} \/ j.state = "processing"
            \/ j.state \in Terminal
    BY DEF GoodJob, Job, JobStates
  <2>2. CASE j.state \in {"pending", "pending-held"}
    BY <2>2 DEF Cancel, Terminal
  <2>3. CASE j.state = "processing"
    BY <2>3 DEF Cancel, Terminal
  <2>4. CASE j.state \in Terminal
    BY <2>4 DEF Cancel, Terminal
  <2> QED
    BY <2>1, <2>2, <2>3, <2>4
<1>4. MessageError(j) = SetState(a, "canceled")
  BY DEF MessageError
<1> HIDE DEF c, a
<1>5. Follows(a, SetState(a, "canceled"))
  BY <1>0, <1>2, StateFollows
<1>6. /\ Follows(j, DoCancelWithReason(j, "canceled", CanceledByUser))
      /\ Follows(c, DoCancelWithReason(c, "canceled", CanceledByUser))
      /\ Follows(j, DataError(j))
  BY <1>0, <1>1, DoCancelFollows DEF DataError
<1> QED
  BY <1>1, <1>2, <1>3, <1>4, <1>5, <1>6, FollowsReflexive, FollowsTransitive

\* The end of a filter leaves job-outgoing in its place.
LEMMA FilterEndFollows ==
    ASSUME NEW j \in GoodJob, NEW p \in j.watched, p # Backend, NEW status,
           OutgoingFirst(j)
    PROVE  OutgoingFirst(ProcessFinished(j, p, status))
<1> DEFINE f == [j EXCEPT !.finished = @ \cup {p}, !.watched = @ \ {p}]
           r == CheckJobTransforming(f)
           e == IF ExitedNonZero(status)
                THEN [r EXCEPT !.pending_job_state = "aborted"] ELSE r
<1>0. /\ p \in Procs /\ j.pending_job_state \in JobStates
      /\ "aborted" \in JobStates
  BY DEF GoodJob, Job, JobStates, Terminal
<1>1. /\ f \in GoodJob /\ f.state_reasons = j.state_reasons
      /\ f.pending_job_state = j.pending_job_state
  BY <1>0 DEF GoodJob, Job
<1>2. /\ r \in GoodJob /\ Follows(f, r)
      /\ r.pending_job_state = j.pending_job_state
  <2> HIDE DEF f
  <2>1. Transforming \in JobReasons
    BY DEF JobReasons
  <2> QED
    BY <1>1, <2>1, CheckJobTransformingFollows, ReasonsOnly
       DEF Follows, SameButReasons
<1>3. /\ e \in GoodJob /\ Follows(r, e) /\ e.pending_job_state \in JobStates
  <2> HIDE DEF f, r
  <2>1. Follows(r, [r EXCEPT !.pending_job_state = "aborted"])
    BY <1>0, <1>2, StateFollows
  <2>2. [r EXCEPT !.pending_job_state = "aborted"].pending_job_state = "aborted"
    BY <1>2 DEF GoodJob, Job
  <2> QED
    BY <1>0, <1>2, <2>1, <2>2, FollowsReflexive DEF Follows
<1>4. ProcessFinished(j, p, status) =
        IF AllFinished(e) THEN SetState(e, e.pending_job_state) ELSE e
  BY DEF ProcessFinished
<1>5. OutgoingFirst(f)
  BY <1>1 DEF OutgoingFirst
<1> HIDE DEF f, r, e
<1>6. Follows(e, SetState(e, e.pending_job_state))
  BY <1>3, StateFollows
<1> QED
  BY <1>2, <1>3, <1>4, <1>5, <1>6 DEF Follows


\* pd_job_impl_start_processing adds job-transforming or nothing.
LEMMA StartProcessingReasons ==
    ASSUME NEW j \in GoodJob, NEW k \in StartProcessing(j)
    PROVE  k.state_reasons \in
            {j.state_reasons, AddReason(j.state_reasons, Transforming)}
<1>0. j \in Job
  BY DEF GoodJob
<1>1. CASE k \in SetupFailed(j)
  BY <1>0, <1>1 DEF SetupFailed, SetState, Job
<1>2. ASSUME NEW n \in ChainLens, NEW i \in 1..n, k = FilterFailed(j, n, i)
      PROVE  k.state_reasons = AddReason(j.state_reasons, Transforming)
  BY <1>0, <1>2 DEF FilterFailed, SetState, AddStateReason, Job
<1>3. ASSUME NEW n \in ChainLens, k = FiltersRun(j, n)
      PROVE  k.state_reasons = AddReason(j.state_reasons, Transforming)
  BY <1>0, <1>3 DEF FiltersRun, AddStateReason, Job
<1> QED
  BY <1>1, <1>2, <1>3 DEF StartProcessing

\* pd_job_impl_start_sending, whatever was started before: the document is the
\* same, the job is processing or aborted, and what is watched has a state to
\* end in.  The reasons of a job that had none begin with job-outgoing.
LEMMA StartSendingShape ==
    ASSUME NEW j \in GoodJob, "state" \in j.queued, j.state = "processing",
           j.watched # {} => j.chain # 0 /\ j.pending_job_state \in Terminal,
           NEW k \in StartSending(j)
    PROVE  /\ k.document_fd = j.document_fd
           /\ k.document_filename = j.document_filename
           /\ k.state \in {"processing", "aborted"}
           /\ k.watched # {} => k.chain # 0 /\ k.pending_job_state \in Terminal
           /\ j.state_reasons = <<>> => OutgoingFirst(k)
<1> DEFINE a == AddStateReason(j, Outgoing)
           chains == IF a.chain = 0 THEN StartProcessing(a) ELSE {a}
           OK(q) == /\ q.document_fd = j.document_fd
                    /\ q.document_filename = j.document_filename
                    /\ q.state \in {"processing", "aborted"}
                    /\ q.state = "aborted" => q.watched = {}
                    /\ q.state = "processing" => q.chain # 0
<1>0. /\ Outgoing \in JobReasons /\ Transforming \in JobReasons
      /\ Transforming # Outgoing /\ ChainLens \subseteq 1..3
  BY ChainLensAssumption DEF JobReasons, Outgoing, Transforming
<1>1. /\ a \in GoodJob /\ SameButReasons(j, a) /\ Announced(a)
      /\ a.state_reasons = AddReason(j.state_reasons, Outgoing)
  BY <1>0, AddStateReasonGood, ReasonsOnly DEF Announced
<1>2. PICK q \in chains : \/ k = q /\ q.state = "aborted"
                          \/ /\ q.state # "aborted"
                             /\ k \in {BackendRun(q), BackendFailed(q)}
  BY DEF StartSending
<1> HIDE DEF a
<1>3. /\ q \in GoodJob
      /\ q.state_reasons \in
            {a.state_reasons, AddReason(a.state_reasons, Transforming)}
  BY <1>1, StartProcessingGood, StartProcessingReasons DEF Announced
<1>4. OK(q)
  <2>1. /\ a \in Job /\ a.document_fd = j.document_fd
        /\ a.document_filename = j.document_filename
        /\ a.state = "processing"
        /\ a.watched # {} => a.chain # 0
    BY <1>1 DEF SameButReasons, SameRun, GoodJob
  <2>2. CASE a.chain # 0
    BY <2>1, <2>2
  <2>3. CASE a.chain = 0
    <3>1. a.watched = {}
      BY <2>1, <2>3
    <3>2. \/ q \in SetupFailed(a)
          \/ \E n \in ChainLens : \E i \in 1..n : q = FilterFailed(a, n, i)
          \/ \E n \in ChainLens : q = FiltersRun(a, n)
      BY <2>3 DEF StartProcessing
    <3>3. CASE q \in SetupFailed(a)
      <4>1. PICK n \in {0, 1} \cup ChainLens :
                q = SetState([a EXCEPT !.chain = n], "aborted")
        BY <3>3 DEF SetupFailed
      <4> QED
        BY <2>1, <3>1, <4>1 DEF SetState, Job
    <3>4. ASSUME NEW n \in ChainLens, NEW i \in 1..n, q = FilterFailed(a, n, i)
          PROVE  OK(q)
      BY <2>1, <3>1, <3>4 DEF FilterFailed, SetState, AddStateReason, Job
    <3>5. ASSUME NEW n \in ChainLens, q = FiltersRun(a, n)
          PROVE  OK(q)
      <4>1. n # 0
        BY <1>0
      <4> QED
        BY <2>1, <3>5, <4>1 DEF FiltersRun, AddStateReason, Job
    <3> QED
      BY <3>2, <3>3, <3>4, <3>5
  <2> QED
    BY <2>2, <2>3
<1> HIDE DEF chains
<1>5. q \in Job /\ q.chain \in 0..3
  BY <1>3 DEF GoodJob, Job
<1>6. /\ k.document_fd = q.document_fd
      /\ k.document_filename = q.document_filename
      /\ k.state \in {"processing", "aborted"}
      /\ k.state_reasons = q.state_reasons
  BY <1>2, <1>4, <1>5 DEF BackendRun, BackendFailed, SetState, Job
<1>7. k.watched # {} => k.chain # 0 /\ k.pending_job_state \in Terminal
  <2>1. CASE k = q /\ q.state = "aborted"
    BY <1>4, <2>1
  <2>2. CASE k = BackendFailed(q) /\ q.state # "aborted"
    BY <1>4, <1>5, <2>2 DEF BackendFailed, SetState, Job, Terminal
  <2>3. CASE k = BackendRun(q) /\ q.state # "aborted"
    BY <1>4, <1>5, <2>3 DEF BackendRun, Job, Terminal
  <2> QED
    BY <1>2, <2>1, <2>2, <2>3
<1>8. ASSUME j.state_reasons = <<>>
      PROVE  OutgoingFirst(k)
  <2>1. a.state_reasons = <<Outgoing>>
    BY <1>1, <1>8 DEF AddReason, HasReason
  <2>2. OutgoingFirst(a)
    BY <2>1 DEF OutgoingFirst
  <2>3. OutgoingFirst(AddStateReason(a, Transforming))
    BY <1>0, <1>1, <2>2, ReasonFollows DEF Follows
  <2>4. AddStateReason(a, Transforming).state_reasons
            = AddReason(a.state_reasons, Transforming)
    BY <1>0, <1>1, AddStateReasonGood
  <2> QED
    BY <1>3, <1>6, <2>2, <2>3, <2>4 DEF OutgoingFirst
<1> QED
  BY <1>4, <1>6, <1>7, <1>8

=============================================================================
