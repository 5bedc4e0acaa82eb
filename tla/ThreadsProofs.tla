--------------------------- MODULE ThreadsProofs ----------------------------
(***************************************************************************)
(* The properties of Threads, for any workers and any number of jobs and    *)
(* calls.                                                                   *)
(*                                                                         *)
(* A thread is a sequence of instructions, to which calls add in front.     *)
(* The sequences that occur are few in kind: a thread is somewhere within   *)
(* one block of code that takes locks of its own, then has some single      *)
(* instructions left (handlers of emissions, a job to start), and then may  *)
(* be back in the message of a job whose lock it holds.  This is a frame;   *)
(* Code(c) is the sequence it stands for.  The invariant is about a         *)
(* function f from threads to frames:                                       *)
(*                                                                         *)
(*   Inv(f)    f describes what the threads have to do, a lock is held by   *)
(*             the thread whose position says so, a freeze count is the     *)
(*             number of threads whose position says so, every emission     *)
(*             and everything queued has a thread that will see to it;      *)
(*   Later(f)  the slot, the busy printer and the pending jobs are what     *)
(*             they should be, or a thread has ahead of it what will set    *)
(*             them right.                                                  *)
(*                                                                         *)
(* Every action moves one thread, from f[t] to a frame that is given for    *)
(* each; the lemmas XInv and XLater say that the invariant holds of it.     *)
(***************************************************************************)
EXTENDS Threads, FiniteSetTheorems, SequenceTheorems, TLAPS

-----------------------------------------------------------------------------
(* What a thread is at                                                      *)

Do(op, x) == [op |-> op, on |-> x, handler |-> 0]
RunAt(o, n) == [op |-> "run", on |-> o, handler |-> n]
Single == {"reasons", "tidy", "engine", "assert", "busy", "process", "test",
           "look", "run"}
Ops == Single \cup {"lock", "brief", "unlock", "freeze", "thaw", "free",
                    "next", "claim", "send", "create", "own", "reply", "pend",
                    "start", "cancel", "exit"}
Item == [op : Ops, on : Nat, handler : Nat]

\* The pieces of code during which a thread takes locks of its own.  Those in
\* Flat are executed by a thread that has nothing else to do.
Flat == {"touch", "create", "announce", "start", "cancel", "exit", "pend",
         "message"}
Nested == {"free", "next", "unlock", "send"}
Jobless == {"touch", "next", "unlock", "create"}
Methods == {"start", "cancel", "exit"}

Block(seg, j) ==
    CASE seg = "touch"    -> Touch
      [] seg = "free"     -> Enter(0) \o Instruction("free", j) \o Leave(0)
      [] seg = "next"     -> NextJob
      [] seg = "unlock"   -> Unlock(0)
      [] seg = "send"     -> Instruction("claim", j) \o StartSending(j)
      [] seg = "create"   -> CreateJob
      [] seg = "announce" -> Unlock(Engine) \o Announce(j)
      [] seg = "pend"     -> GetPrinter \o Instruction("pend", j) \o Leave(j)
      [] seg = "message"  -> Message(j)
      [] OTHER            -> JobMethod(seg, j)

Size(seg) ==
    CASE seg \in {"send", "announce"} -> 9
      [] seg = "message" -> 8
      [] seg = "free" -> 5
      [] seg \in Methods -> 5
      [] seg \in {"touch", "create", "pend"} -> 4
      [] seg = "next" -> 2
      [] seg = "unlock" -> 1

\* The single instructions there are, with m jobs.
Calm(m) ==
    {x \in [op : Single, on : 0..m, handler : 0..4] :
        /\ x.op = "run" <=> x.handler # 0
        /\ x.op = "look" => x.on = 0
        /\ x.on = 0 => x.op \in {"look", "run"}}

\* A thread executes segment seg of job j from position n on, then the
\* instructions r, and is then back in the message of job b, if b # 0.
Frame(m) ==
    {c \in [seg : Flat \cup Nested, j : 0..m, n : 1..10, r : Seq(Calm(m)), b : 0..m] :
        /\ c.n <= Size(c.seg) + 1 /\ (c.j = 0 <=> c.seg \in Jobless)
        /\ c.seg \in Flat /\ c.n <= Size(c.seg) => c.r = <<>> /\ c.b = 0}

Active(c) == c.n <= Size(c.seg)
Residue(seg, j, n) == SubSeq(Block(seg, j), n, Size(seg))
Base(b) == IF b = 0 THEN <<>> ELSE Residue("message", b, 7)
Code(c) == Residue(c.seg, c.j, c.n) \o (c.r \o Base(c.b))

-----------------------------------------------------------------------------
(* Sequences                                                                *)

\* The engine's lock has a number after those of the objects.
LEMMA EngineLock == Engine \in Nat
  BY ThreadsAssumption DEF Engine

\* The instructions of a block, one by one.
IsCode(B, m) == B \in Seq(Item) /\ Len(B) = m

\* UpdateDefaults, or a change of the printer's reasons.
LEMMA TouchCode ==
    ASSUME NEW j \in Nat, NEW B, B = Block("touch", j)
    PROVE  /\ IsCode(B, 4)
           /\ B[1] = Do("lock", 0) /\ B[2] = Do("freeze", 0)
           /\ B[3] = Do("unlock", 0) /\ B[4] = Do("thaw", 0)
  <1> DEFINE x1 == Do("lock", 0)
             x2 == Do("freeze", 0)
             x3 == Do("unlock", 0)
             x4 == Do("thaw", 0)
             y == (<<x1>> \o <<x2>>) \o (<<x3>> \o <<x4>>)
  <1>1. B = y
    BY DEF Block, Touch, Enter, Leave, Lock, Unlock, Instruction, Do
  <1>2. x1 \in Item /\ x2 \in Item /\ x3 \in Item /\ x4 \in Item
    BY DEF Do, Item, Ops
  <1> HIDE DEF x1, x2, x3, x4
  <1>3. IsCode(y, 4) /\ y[1] = x1 /\ y[2] = x2 /\ y[3] = x3 /\ y[4] = x4
    BY <1>2 DEF IsCode
  <1> HIDE DEF y
  <1> QED BY <1>1, <1>3 DEF x1, x2, x3, x4

\* pd_printer_impl_job_state_notify.
LEMMA FreeCode ==
    ASSUME NEW j \in Nat, NEW B, B = Block("free", j)
    PROVE  /\ IsCode(B, 5)
           /\ B[1] = Do("lock", 0) /\ B[2] = Do("freeze", 0)
           /\ B[3] = Do("free", j) /\ B[4] = Do("unlock", 0)
           /\ B[5] = Do("thaw", 0)
  <1> DEFINE x1 == Do("lock", 0)
             x2 == Do("freeze", 0)
             x3 == Do("free", j)
             x4 == Do("unlock", 0)
             x5 == Do("thaw", 0)
             y == (<<x1>> \o <<x2>>) \o <<x3>> \o (<<x4>> \o <<x5>>)
  <1>1. B = y
    BY DEF Block, Enter, Leave, Lock, Unlock, Instruction, Do
  <1>2. x1 \in Item /\ x2 \in Item /\ x3 \in Item /\ x4 \in Item /\ x5 \in Item
    BY DEF Do, Item, Ops
  <1> HIDE DEF x1, x2, x3, x4, x5
  <1>3. IsCode(y, 5) /\ y[1] = x1 /\ y[2] = x2 /\ y[3] = x3 /\ y[4] = x4
        /\ y[5] = x5
    BY <1>2 DEF IsCode
  <1> HIDE DEF y
  <1> QED BY <1>1, <1>3 DEF x1, x2, x3, x4, x5

\* pd_printer_impl_get_next_job, up to the look at the jobs.
LEMMA NextCode ==
    ASSUME NEW j \in Nat, NEW B, B = Block("next", j)
    PROVE  /\ IsCode(B, 2)
           /\ B[1] = Do("lock", 0) /\ B[2] = Do("next", 0)
  <1> DEFINE x1 == Do("lock", 0)
             x2 == Do("next", 0)
             y == <<x1>> \o <<x2>>
  <1>1. B = y
    BY DEF Block, NextJob, Lock, Unlock, Instruction, Do
  <1>2. x1 \in Item /\ x2 \in Item
    BY DEF Do, Item, Ops
  <1> HIDE DEF x1, x2
  <1>3. IsCode(y, 2) /\ y[1] = x1 /\ y[2] = x2
    BY <1>2 DEF IsCode
  <1> HIDE DEF y
  <1> QED BY <1>1, <1>3 DEF x1, x2

\* ... and after it.
LEMMA UnlockCode ==
    ASSUME NEW j \in Nat, NEW B, B = Block("unlock", j)
    PROVE  /\ IsCode(B, 1)
           /\ B[1] = Do("unlock", 0)
  <1> DEFINE x1 == Do("unlock", 0)
             y == <<x1>>
  <1>1. B = y
    BY DEF Block, Lock, Unlock, Instruction, Do
  <1>2. x1 \in Item
    BY DEF Do, Item, Ops
  <1> HIDE DEF x1
  <1>3. IsCode(y, 1) /\ y[1] = x1
    BY <1>2 DEF IsCode
  <1> HIDE DEF y
  <1> QED BY <1>1, <1>3 DEF x1

\* The slot is taken and the job sent.
LEMMA SendCode ==
    ASSUME NEW j \in Nat, NEW B, B = Block("send", j)
    PROVE  /\ IsCode(B, 9)
           /\ B[1] = Do("claim", j) /\ B[2] = Do("brief", Engine)
           /\ B[3] = Do("lock", j) /\ B[4] = Do("freeze", j)
           /\ B[5] = Do("brief", Engine) /\ B[6] = Do("brief", 0)
           /\ B[7] = Do("send", j) /\ B[8] = Do("unlock", j)
           /\ B[9] = Do("thaw", j)
  <1> DEFINE x1 == Do("claim", j)
             x2 == Do("brief", Engine)
             x3 == Do("lock", j)
             x4 == Do("freeze", j)
             x5 == Do("brief", Engine)
             x6 == Do("brief", 0)
             x7 == Do("send", j)
             x8 == Do("unlock", j)
             x9 == Do("thaw", j)
             y == <<x1>> \o (<<x2>> \o (<<x3>> \o <<x4>>) \o <<x5>>
                  \o <<x6>> \o <<x7>> \o (<<x8>> \o <<x9>>))
  <1>1. B = y
    BY DEF Block, StartSending, GetPrinter, LockBriefly, Enter, Leave, Lock,
           Unlock, Instruction, Do
  <1>2. x1 \in Item /\ x2 \in Item /\ x3 \in Item /\ x4 \in Item
        /\ x5 \in Item /\ x6 \in Item /\ x7 \in Item /\ x8 \in Item
        /\ x9 \in Item
    BY EngineLock DEF Do, Item, Ops
  <1> HIDE DEF x1, x2, x3, x4, x5, x6, x7, x8, x9
  <1>3. IsCode(y, 9) /\ y[1] = x1 /\ y[2] = x2 /\ y[3] = x3 /\ y[4] = x4
        /\ y[5] = x5 /\ y[6] = x6 /\ y[7] = x7 /\ y[8] = x8 /\ y[9] = x9
    BY <1>2 DEF IsCode
  <1> HIDE DEF y
  <1> QED BY <1>1, <1>3 DEF x1, x2, x3, x4, x5, x6, x7, x8, x9

\* CreateJob, up to pd_engine_add_job.
LEMMA CreateCode ==
    ASSUME NEW j \in Nat, NEW B, B = Block("create", j)
    PROVE  /\ IsCode(B, 4)
           /\ B[1] = Do("lock", 0) /\ B[2] = Do("freeze", 0)
           /\ B[3] = Do("lock", Engine) /\ B[4] = Do("create", 0)
  <1> DEFINE x1 == Do("lock", 0)
             x2 == Do("freeze", 0)
             x3 == Do("lock", Engine)
             x4 == Do("create", 0)
             y == (<<x1>> \o <<x2>>) \o <<x3>> \o <<x4>>
  <1>1. B = y
    BY DEF Block, CreateJob, Enter, Leave, Lock, Unlock, Instruction, Do
  <1>2. x1 \in Item /\ x2 \in Item /\ x3 \in Item /\ x4 \in Item
    BY EngineLock DEF Do, Item, Ops
  <1> HIDE DEF x1, x2, x3, x4
  <1>3. IsCode(y, 4) /\ y[1] = x1 /\ y[2] = x2 /\ y[3] = x3 /\ y[4] = x4
    BY <1>2 DEF IsCode
  <1> HIDE DEF y
  <1> QED BY <1>1, <1>3 DEF x1, x2, x3, x4

\* ... and after it, once the job has a number.
LEMMA AnnounceCode ==
    ASSUME NEW j \in Nat, NEW B, B = Block("announce", j)
    PROVE  /\ IsCode(B, 9)
           /\ B[1] = Do("unlock", Engine) /\ B[2] = Do("lock", j)
           /\ B[3] = Do("freeze", j) /\ B[4] = Do("own", j)
           /\ B[5] = Do("unlock", j) /\ B[6] = Do("thaw", j)
           /\ B[7] = Do("reply", j) /\ B[8] = Do("unlock", 0)
           /\ B[9] = Do("thaw", 0)
  <1> DEFINE x1 == Do("unlock", Engine)
             x2 == Do("lock", j)
             x3 == Do("freeze", j)
             x4 == Do("own", j)
             x5 == Do("unlock", j)
             x6 == Do("thaw", j)
             x7 == Do("reply", j)
             x8 == Do("unlock", 0)
             x9 == Do("thaw", 0)
             y == <<x1>> \o ((<<x2>> \o <<x3>>) \o <<x4>> \o (<<x5>>
                  \o <<x6>>) \o <<x7>> \o (<<x8>> \o <<x9>>))
  <1>1. B = y
    BY DEF Block, Announce, Enter, Leave, Lock, Unlock, Instruction, Do
  <1>2. x1 \in Item /\ x2 \in Item /\ x3 \in Item /\ x4 \in Item
        /\ x5 \in Item /\ x6 \in Item /\ x7 \in Item /\ x8 \in Item
        /\ x9 \in Item
    BY EngineLock DEF Do, Item, Ops
  <1> HIDE DEF x1, x2, x3, x4, x5, x6, x7, x8, x9
  <1>3. IsCode(y, 9) /\ y[1] = x1 /\ y[2] = x2 /\ y[3] = x3 /\ y[4] = x4
        /\ y[5] = x5 /\ y[6] = x6 /\ y[7] = x7 /\ y[8] = x8 /\ y[9] = x9
    BY <1>2 DEF IsCode
  <1> HIDE DEF y
  <1> QED BY <1>1, <1>3 DEF x1, x2, x3, x4, x5, x6, x7, x8, x9

\* Start, once the document is spooled.
LEMMA PendCode ==
    ASSUME NEW j \in Nat, NEW B, B = Block("pend", j)
    PROVE  /\ IsCode(B, 4)
           /\ B[1] = Do("brief", Engine) /\ B[2] = Do("pend", j)
           /\ B[3] = Do("unlock", j) /\ B[4] = Do("thaw", j)
  <1> DEFINE x1 == Do("brief", Engine)
             x2 == Do("pend", j)
             x3 == Do("unlock", j)
             x4 == Do("thaw", j)
             y == <<x1>> \o <<x2>> \o (<<x3>> \o <<x4>>)
  <1>1. B = y
    BY DEF Block, GetPrinter, LockBriefly, Enter, Leave, Lock, Unlock,
           Instruction, Do
  <1>2. x1 \in Item /\ x2 \in Item /\ x3 \in Item /\ x4 \in Item
    BY EngineLock DEF Do, Item, Ops
  <1> HIDE DEF x1, x2, x3, x4
  <1>3. IsCode(y, 4) /\ y[1] = x1 /\ y[2] = x2 /\ y[3] = x3 /\ y[4] = x4
    BY <1>2 DEF IsCode
  <1> HIDE DEF y
  <1> QED BY <1>1, <1>3 DEF x1, x2, x3, x4

\* A message of the job's backend, which changes the printer's reasons.
LEMMA MessageCode ==
    ASSUME NEW j \in Nat, NEW B, B = Block("message", j)
    PROVE  /\ IsCode(B, 8)
           /\ B[1] = Do("lock", j) /\ B[2] = Do("freeze", j)
           /\ B[3] = Do("lock", 0) /\ B[4] = Do("freeze", 0)
           /\ B[5] = Do("unlock", 0) /\ B[6] = Do("thaw", 0)
           /\ B[7] = Do("unlock", j) /\ B[8] = Do("thaw", j)
  <1> DEFINE x1 == Do("lock", j)
             x2 == Do("freeze", j)
             x3 == Do("lock", 0)
             x4 == Do("freeze", 0)
             x5 == Do("unlock", 0)
             x6 == Do("thaw", 0)
             x7 == Do("unlock", j)
             x8 == Do("thaw", j)
             y == (<<x1>> \o <<x2>>) \o ((<<x3>> \o <<x4>>) \o (<<x5>>
                  \o <<x6>>)) \o (<<x7>> \o <<x8>>)
  <1>1. B = y
    BY DEF Block, Message, Touch, Enter, Leave, Lock, Unlock, Instruction, Do
  <1>2. x1 \in Item /\ x2 \in Item /\ x3 \in Item /\ x4 \in Item
        /\ x5 \in Item /\ x6 \in Item /\ x7 \in Item /\ x8 \in Item
    BY DEF Do, Item, Ops
  <1> HIDE DEF x1, x2, x3, x4, x5, x6, x7, x8
  <1>3. IsCode(y, 8) /\ y[1] = x1 /\ y[2] = x2 /\ y[3] = x3 /\ y[4] = x4
        /\ y[5] = x5 /\ y[6] = x6 /\ y[7] = x7 /\ y[8] = x8
    BY <1>2 DEF IsCode
  <1> HIDE DEF y
  <1> QED BY <1>1, <1>3 DEF x1, x2, x3, x4, x5, x6, x7, x8

\* Start, Cancel and the exit of the backend.
LEMMA MethodCode ==
    ASSUME NEW seg \in Methods, NEW j \in Nat, NEW B, B = Block(seg, j)
    PROVE  /\ IsCode(B, 5)
           /\ B[1] = Do("lock", j) /\ B[2] = Do("freeze", j)
           /\ B[3] = Do(seg, j) /\ B[4] = Do("unlock", j)
           /\ B[5] = Do("thaw", j)
  <1> DEFINE x1 == Do("lock", j)
             x2 == Do("freeze", j)
             x3 == Do(seg, j)
             x4 == Do("unlock", j)
             x5 == Do("thaw", j)
             y == (<<x1>> \o <<x2>>) \o <<x3>> \o (<<x4>> \o <<x5>>)
  <1>1. B = y
    BY DEF Block, Methods, JobMethod, Enter, Leave, Lock, Unlock, Instruction, Do
  <1>2. x1 \in Item /\ x2 \in Item /\ x3 \in Item /\ x4 \in Item /\ x5 \in Item
    BY DEF Do, Item, Ops, Methods
  <1> HIDE DEF x1, x2, x3, x4, x5
  <1>3. IsCode(y, 5) /\ y[1] = x1 /\ y[2] = x2 /\ y[3] = x3 /\ y[4] = x4
        /\ y[5] = x5
    BY <1>2 DEF IsCode
  <1> HIDE DEF y
  <1> QED BY <1>1, <1>3 DEF x1, x2, x3, x4, x5


\* A block is as long as Size says.
LEMMA Blocks ==
    ASSUME NEW seg \in Flat \cup Nested, NEW j \in Nat
    PROVE  Block(seg, j) \in Seq(Item) /\ Len(Block(seg, j)) = Size(seg)
  <1> DEFINE B == Block(seg, j)
  <1>0. IsCode(B, Size(seg))
    <2> HIDE DEF B
    <2>1. CASE seg = "touch"    BY <2>1, TouchCode DEF B, Size
    <2>2. CASE seg = "free"     BY <2>2, FreeCode DEF B, Size, Methods
    <2>3. CASE seg = "next"     BY <2>3, NextCode DEF B, Size, Methods
    <2>4. CASE seg = "unlock"   BY <2>4, UnlockCode DEF B, Size, Methods
    <2>5. CASE seg = "send"     BY <2>5, SendCode DEF B, Size, Methods
    <2>6. CASE seg = "create"   BY <2>6, CreateCode DEF B, Size, Methods
    <2>7. CASE seg = "announce" BY <2>7, AnnounceCode DEF B, Size, Methods
    <2>8. CASE seg = "pend"     BY <2>8, PendCode DEF B, Size, Methods
    <2>9. CASE seg = "message"  BY <2>9, MessageCode DEF B, Size, Methods
    <2>10. CASE seg \in Methods BY <2>10, MethodCode DEF B, Size, Methods
    <2> QED BY <2>1, <2>2, <2>3, <2>4, <2>5, <2>6, <2>7, <2>8, <2>9, <2>10
            DEF Flat, Nested, Methods
  <1> QED BY <1>0 DEF IsCode

\* Every block has one to nine instructions.
LEMMA Sizes == ASSUME NEW seg \in Flat \cup Nested
               PROVE  Size(seg) \in 1..9
  BY DEF Flat, Nested, Methods, Size

-----------------------------------------------------------------------------
(* The code of a frame                                                      *)

AtWork(c) == Active(c) \/ c.r # <<>> \/ c.b # 0

\* The instruction a thread executes next, and where it is after it.
Now(c) == IF Active(c) THEN Block(c.seg, c.j)[c.n]
          ELSE IF c.r # <<>> THEN Head(c.r)
          ELSE Do("unlock", c.b)

Advance(c) ==
    IF Active(c)
    THEN IF c.seg = "message" /\ c.n = 6
         THEN [c EXCEPT !.n = 9, !.b = c.j]
         ELSE [c EXCEPT !.n = c.n + 1]
    ELSE IF c.r # <<>> THEN [c EXCEPT !.r = Tail(c.r)]
    ELSE [seg |-> "message", j |-> c.b, n |-> 8, r |-> <<>>, b |-> 0]

\* The single instructions are instructions.
LEMMA Calms == ASSUME NEW m \in Nat
               PROVE  Calm(m) \subseteq Item
  <1> SUFFICES ASSUME NEW x \in Calm(m)  PROVE x \in Item
    OBVIOUS
  <1>1. x \in [op : Single, on : 0..m, handler : 0..4]
    BY DEF Calm
  <1>2. Single \subseteq Ops
    BY DEF Ops
  <1> QED BY <1>1, <1>2 DEF Item

\* The fields of a frame.
LEMMA FrameParts ==
    ASSUME NEW m \in Nat, NEW c \in Frame(m)
    PROVE  /\ c.seg \in Flat \cup Nested /\ c.j \in 0..m /\ c.n \in 1..10
           /\ c.r \in Seq(Calm(m)) /\ c.r \in Seq(Item) /\ c.b \in 0..m
           /\ c.n <= Size(c.seg) + 1 /\ (c.j = 0 <=> c.seg \in Jobless)
           /\ c.seg \in Flat /\ c.n <= Size(c.seg) => c.r = <<>> /\ c.b = 0
           /\ c = [seg |-> c.seg, j |-> c.j, n |-> c.n, r |-> c.r, b |-> c.b]
  <1>1. c \in [seg : Flat \cup Nested, j : 0..m, n : 1..10, r : Seq(Calm(m)), b : 0..m]
    BY DEF Frame
  <1>2. /\ c.n <= Size(c.seg) + 1 /\ (c.j = 0 <=> c.seg \in Jobless)
        /\ c.seg \in Flat /\ c.n <= Size(c.seg) => c.r = <<>> /\ c.b = 0
    BY DEF Frame
  <1>3. c.r \in Seq(Calm(m))
    BY <1>1
  <1>4. c.r \in Seq(Item)
    BY <1>3, Calms
  <1> QED BY <1>1, <1>2, <1>3, <1>4

\* What is left of a block is its next instruction and what is left after it.
LEMMA Residues ==
    ASSUME NEW seg \in Flat \cup Nested, NEW j \in Nat, NEW n \in 1..10,
           n <= Size(seg) + 1
    PROVE  /\ Residue(seg, j, n) \in Seq(Item)
           /\ n = Size(seg) + 1 => Residue(seg, j, n) = <<>>
           /\ n <= Size(seg) => /\ Block(seg, j)[n] \in Item
                                /\ Residue(seg, j, n)
                                     = <<Block(seg, j)[n]>> \o Residue(seg, j, n + 1)
  <1> DEFINE B == Block(seg, j)
             s == Size(seg)
  <1>1. B \in Seq(Item) /\ Len(B) = s /\ s \in 1..9
    BY Blocks, Sizes
  <1> HIDE DEF B, s
  <1>2. SubSeq(B, n, s) \in Seq(Item)
    BY <1>1 DEF s
  <1>3. ASSUME n = s + 1  PROVE SubSeq(B, n, s) = <<>>
    BY <1>1, <1>3, SubSeqEmpty
  <1>4. ASSUME n <= s
        PROVE  B[n] \in Item /\ SubSeq(B, n, s) = <<B[n]>> \o SubSeq(B, n + 1, s)
    BY <1>1, <1>4
  <1> QED BY <1>2, <1>3, <1>4 DEF Residue, B, s

\* An instruction put in front is the head, the rest the tail.
LEMMA Cons ==
    ASSUME NEW a \in Item, NEW s \in Seq(Item)
    PROVE  /\ <<a>> \o s \in Seq(Item) /\ <<a>> \o s # <<>>
           /\ Head(<<a>> \o s) = a /\ Tail(<<a>> \o s) = s
  OBVIOUS

\* A sequence that is not empty is its head and its tail.
LEMMA Uncons ==
    ASSUME NEW s \in Seq(Item), s # <<>>
    PROVE  Head(s) \in Item /\ Tail(s) \in Seq(Item) /\ s = <<Head(s)>> \o Tail(s)
  OBVIOUS

\* Sequences of instructions, one after the other, are one.
LEMMA JoinType ==
    ASSUME NEW s \in Seq(Item), NEW u \in Seq(Item)
    PROVE  s \o u \in Seq(Item)
  OBVIOUS

\* The calls nest to any depth: how the sequences are put together does not matter.
LEMMA JoinAssoc ==
    ASSUME NEW s \in Seq(Item), NEW u \in Seq(Item), NEW v \in Seq(Item)
    PROVE  (s \o u) \o v = s \o (u \o v)
  OBVIOUS

\* Nothing put in front changes nothing.
LEMMA JoinEmpty ==
    ASSUME NEW s \in Seq(Item)
    PROVE  <<>> \o s = s /\ s \o <<>> = s
  OBVIOUS

\* One instruction is a sequence of instructions.
LEMMA Ones == ASSUME NEW a \in Item PROVE <<a>> \in Seq(Item)
  OBVIOUS

\* The code of a frame, instruction by instruction.
LEMMA BlockNow ==
    ASSUME NEW seg \in Flat \cup Nested, NEW j \in Nat, NEW n \in 1..10,
           n <= Size(seg), NEW u \in Seq(Item)
    PROVE  /\ Residue(seg, j, n) \o u # <<>>
           /\ Head(Residue(seg, j, n) \o u) = Block(seg, j)[n]
           /\ Tail(Residue(seg, j, n) \o u) = Residue(seg, j, n + 1) \o u
  <1> DEFINE x == Block(seg, j)[n]
             s == Residue(seg, j, n + 1)
             k == n + 1
  <1>0. Size(seg) \in 1..9
    BY Sizes
  <1>1. k \in 1..10 /\ k <= Size(seg) + 1 /\ n <= Size(seg) + 1
    BY <1>0
  <1>2. x \in Item /\ Residue(seg, j, n) = <<x>> \o s
    BY <1>1, Residues
  <1>3. s \in Seq(Item)
    <2> HIDE DEF k
    <2>1. Residue(seg, j, k) \in Seq(Item)
      BY <1>1, Residues
    <2> QED BY <2>1 DEF k
  <1> HIDE DEF x, s
  <1>4. Residue(seg, j, n) \o u = <<x>> \o (s \o u) /\ s \o u \in Seq(Item)
    BY <1>2, <1>3, Ones, JoinType, JoinAssoc
  <1>5. /\ Residue(seg, j, n) \o u # <<>>
        /\ Head(Residue(seg, j, n) \o u) = x
        /\ Tail(Residue(seg, j, n) \o u) = s \o u
    BY <1>2, <1>4, Cons
  <1> QED BY <1>5 DEF x, s

\* After the printer's part of a message the job is unlocked and thawed.
LEMMA MessageEnd ==
    ASSUME NEW j \in Nat
    PROVE  /\ Residue("message", j, 9) = <<>>
           /\ Residue("message", j, 8) \in Seq(Item)
           /\ Residue("message", j, 7) \in Seq(Item)
           /\ Residue("message", j, 7) = <<Do("unlock", j)>> \o Residue("message", j, 8)
           /\ Do("unlock", j) \in Item
  <1> DEFINE seg == "message"
             n7 == 7
             n8 == 8
             n9 == 9
  <1>1. Size(seg) = 8 /\ seg \in Flat \cup Nested
    BY DEF Size, Methods, Flat
  <1>2. Block("message", j)[7] = Do("unlock", j)
    BY MessageCode
  <1>3. Do("unlock", j) \in Item
    BY DEF Do, Item, Ops
  <1>4. /\ n7 \in 1..10 /\ n7 <= Size(seg) /\ n7 <= Size(seg) + 1 /\ n8 = n7 + 1
        /\ n8 \in 1..10 /\ n8 <= Size(seg) + 1
        /\ n9 \in 1..10 /\ n9 = Size(seg) + 1 /\ n9 <= Size(seg) + 1
    BY <1>1
  <1> HIDE DEF seg, n7, n8, n9
  <1>5. /\ Residue(seg, j, n7) \in Seq(Item)
        /\ Residue(seg, j, n7) = <<Block(seg, j)[n7]>> \o Residue(seg, j, n7 + 1)
    BY <1>1, <1>4, Residues
  <1>6. Residue(seg, j, n8) \in Seq(Item)
    BY <1>1, <1>4, Residues
  <1>7. Residue(seg, j, n9) = <<>>
    BY <1>1, <1>4, Residues
  <1> QED BY <1>2, <1>3, <1>4, <1>5, <1>6, <1>7 DEF seg, n7, n8, n9

\* The message a thread returns to, if any.
LEMMA Bases ==
    ASSUME NEW b \in Nat
    PROVE  /\ Base(b) \in Seq(Item) /\ (b = 0 => Base(b) = <<>>)
           /\ b # 0 => Base(b) = <<Do("unlock", b)>> \o Residue("message", b, 8)
  BY MessageEnd DEF Base

\* A frame stands for a sequence of instructions: it is empty iff the thread is
\* not at work, its head is Now and its tail the code of Advance.
LEMMA Codes ==
    ASSUME NEW m \in Nat, NEW c \in Frame(m)
    PROVE  /\ Code(c) \in Seq(Item)
           /\ ~AtWork(c) => Code(c) = <<>>
           /\ AtWork(c) => /\ Code(c) # <<>> /\ Head(Code(c)) = Now(c)
                           /\ Tail(Code(c)) = Code(Advance(c))
  <1> DEFINE seg == c.seg
             j == c.j
             n == c.n
             r == c.r
             b == c.b
             rs == Residue(seg, j, n)
             bs == Base(b)
  <1>1. /\ seg \in Flat \cup Nested /\ j \in Nat /\ n \in 1..10
        /\ n <= Size(seg) + 1 /\ r \in Seq(Item) /\ b \in Nat
        /\ j = 0 <=> seg \in Jobless
        /\ seg \in Flat /\ n <= Size(seg) => r = <<>> /\ b = 0
        /\ c = [seg |-> seg, j |-> j, n |-> n, r |-> r, b |-> b]
    BY FrameParts
  <1>2. Size(seg) \in 1..9
    BY <1>1, Sizes
  <1>3. /\ Active(c) <=> n <= Size(seg)
        /\ Code(c) = rs \o (r \o bs)
        /\ AtWork(c) <=> Active(c) \/ r # <<>> \/ b # 0
    BY DEF Active, Code, AtWork
  <1>4. Now(c) = IF Active(c) THEN Block(seg, j)[n]
                 ELSE IF r # <<>> THEN Head(r) ELSE Do("unlock", b)
    BY DEF Now
  <1>5. /\ Active(c) /\ ~(seg = "message" /\ n = 6) => Advance(c) = [c EXCEPT !.n = n + 1]
        /\ Active(c) /\ seg = "message" /\ n = 6 => Advance(c) = [c EXCEPT !.n = 9, !.b = j]
        /\ ~Active(c) /\ r # <<>> => Advance(c) = [c EXCEPT !.r = Tail(r)]
        /\ ~Active(c) /\ r = <<>> => Advance(c) =
              [seg |-> "message", j |-> b, n |-> 8, r |-> <<>>, b |-> 0]
    BY DEF Advance
  <1> HIDE DEF seg, j, n, r, b
  <1>6. rs \in Seq(Item) /\ (n = Size(seg) + 1 => rs = <<>>)
    BY <1>1, Residues
  <1>7. /\ bs \in Seq(Item) /\ (b = 0 => bs = <<>>)
        /\ b # 0 => bs = <<Do("unlock", b)>> \o Residue("message", b, 8)
    BY <1>1, Bases
  <1> HIDE DEF rs, bs
  <1>8. r \o bs \in Seq(Item) /\ Code(c) \in Seq(Item)
    <2>1. r \o bs \in Seq(Item)
      BY <1>1, <1>7, JoinType
    <2>2. rs \o (r \o bs) \in Seq(Item)
      BY <2>1, <1>6, JoinType
    <2> QED BY <2>1, <2>2, <1>3
  <1>9. ASSUME ~Active(c)  PROVE Code(c) = r \o bs
    <2>1. n = Size(seg) + 1
      BY ONLY <1>1, <1>2, <1>3, <1>9, SMTT(60)
    <2>2. <<>> \o (r \o bs) = r \o bs
      BY <1>8, JoinEmpty
    <2> QED BY <2>1, <2>2, <1>3, <1>6
  <1>10. ~AtWork(c) => Code(c) = <<>>
    BY <1>3, <1>7, <1>9
  <1>11. ASSUME Active(c)
         PROVE  /\ Code(c) # <<>> /\ Head(Code(c)) = Now(c)
                /\ Tail(Code(c)) = Residue(seg, j, n + 1) \o (r \o bs)
    <2> DEFINE u == r \o bs
    <2>1. u \in Seq(Item) /\ n <= Size(seg)
      BY <1>3, <1>8, <1>11
    <2>2. Code(c) = Residue(seg, j, n) \o u
      BY <1>3 DEF rs
    <2> HIDE DEF u
    <2>3. /\ Residue(seg, j, n) \o u # <<>>
          /\ Head(Residue(seg, j, n) \o u) = Block(seg, j)[n]
          /\ Tail(Residue(seg, j, n) \o u) = Residue(seg, j, n + 1) \o u
      BY <2>1, <1>1, BlockNow
    <2> QED BY <2>2, <2>3, <1>4, <1>11 DEF u
  <1>12. ASSUME Active(c), ~(seg = "message" /\ n = 6)
         PROVE  Code(Advance(c)) = Residue(seg, j, n + 1) \o (r \o bs)
    BY <1>1, <1>5, <1>12 DEF Code, bs
  <1>13. ASSUME Active(c), seg = "message", n = 6
         PROVE  Code(Advance(c)) = Residue(seg, j, n + 1) \o (r \o bs)
    <2>1. j # 0 /\ r = <<>> /\ b = 0 /\ bs = <<>>
      BY <1>1, <1>3, <1>7, <1>13 DEF Flat, Jobless
    <2>2. Code(Advance(c)) = Residue(seg, j, 9) \o (r \o Base(j))
      BY <1>1, <1>5, <1>13 DEF Code
    <2>3. Residue(seg, j, 9) = <<>> /\ Base(j) = Residue(seg, j, 7)
      BY <1>1, <1>13, <2>1, MessageEnd DEF Base
    <2>4. Residue(seg, j, 7) \in Seq(Item)
      BY <1>1, <1>13, MessageEnd
    <2>5. Code(Advance(c)) = Residue(seg, j, 7)
      BY <2>1, <2>2, <2>3, <2>4, JoinEmpty
    <2>6. Residue(seg, j, 7) \o (<<>> \o <<>>) = Residue(seg, j, 7)
      BY <2>4, JoinEmpty
    <2> QED BY <2>1, <2>5, <2>6, <1>13
  <1>14. ASSUME ~Active(c), r # <<>>
         PROVE  /\ Code(c) # <<>> /\ Head(Code(c)) = Now(c)
                /\ Tail(Code(c)) = Code(Advance(c))
    <2> DEFINE h == Head(r)
               q == Tail(r)
    <2>1. r = <<h>> \o q /\ h \in Item /\ q \in Seq(Item)
      BY <1>1, <1>14, Uncons
    <2>2. Now(c) = h
      BY <1>4, <1>14
    <2>3. Code(Advance(c)) = rs \o (q \o bs)
      BY <1>1, <1>5, <1>14 DEF Code, rs, bs
    <2> HIDE DEF h, q
    <2>4. rs = <<>>
      <3>1. n = Size(seg) + 1
        BY ONLY <1>1, <1>2, <1>3, <1>14, SMTT(60)
      <3> QED BY ONLY <1>6, <3>1
    <2>5. (<<h>> \o q) \o bs = <<h>> \o (q \o bs) /\ q \o bs \in Seq(Item)
      BY <2>1, <1>7, Ones, JoinAssoc, JoinType, SMTT(60)
    <2>6. <<>> \o (q \o bs) = q \o bs
      BY <2>5, JoinEmpty
    <2>7. Code(c) = <<h>> \o (q \o bs)
      BY <1>9, <1>14, <2>1, <2>5
    <2>8. Code(c) # <<>> /\ Head(Code(c)) = h /\ Tail(Code(c)) = q \o bs
      BY <2>1, <2>5, <2>7, Cons
    <2> QED BY <2>2, <2>3, <2>4, <2>6, <2>8
  <1>15. ASSUME ~Active(c), r = <<>>, b # 0
         PROVE  /\ Code(c) # <<>> /\ Head(Code(c)) = Now(c)
                /\ Tail(Code(c)) = Code(Advance(c))
    <2> DEFINE s == Residue("message", b, 8)
    <2>1. s \in Seq(Item) /\ Do("unlock", b) \in Item
      BY <1>1, MessageEnd
    <2>2. Now(c) = Do("unlock", b)
      BY <1>4, <1>15
    <2>3. Code(Advance(c)) = s \o (<<>> \o <<>>)
      <3> DEFINE d == Advance(c)
      <3>1. d.seg = "message" /\ d.j = b /\ d.n = 8 /\ d.r = <<>> /\ d.b = 0
        BY <1>5, <1>15
      <3>2. Base(0) = <<>>
        BY DEF Base
      <3> QED BY <3>1, <3>2 DEF Code
    <2>4. Code(c) = <<Do("unlock", b)>> \o s
      BY <1>7, <1>9, <1>15, JoinEmpty
    <2> HIDE DEF s
    <2>5. Code(Advance(c)) = s
      BY <2>1, <2>3, JoinEmpty
    <2>6. Code(c) # <<>> /\ Head(Code(c)) = Do("unlock", b) /\ Tail(Code(c)) = s
      BY <2>1, <2>4, Cons
    <2> QED BY <2>2, <2>5, <2>6
  <1> QED BY <1>3, <1>8, <1>10, <1>11, <1>12, <1>13, <1>14, <1>15

\* Something is put in front: single instructions, or a nested block.
Push(c, s) == [seg |-> c.seg, j |-> c.j, n |-> c.n, r |-> s \o c.r, b |-> c.b]
Into(c, seg, k) == [seg |-> seg, j |-> k, n |-> 1, r |-> c.r, b |-> c.b]

\* What a frame is put together from.
LEMMA Frames ==
    ASSUME NEW m \in Nat, NEW seg \in Flat \cup Nested, NEW j \in 0..m, NEW n \in 1..10,
           NEW r \in Seq(Calm(m)), NEW b \in 0..m,
           n <= Size(seg) + 1, j = 0 <=> seg \in Jobless,
           seg \in Flat /\ n <= Size(seg) => r = <<>> /\ b = 0,
           NEW c, c = [seg |-> seg, j |-> j, n |-> n, r |-> r, b |-> b]
    PROVE  c \in Frame(m)
  BY DEF Frame

\* A thread goes on within a frame.
LEMMA AdvanceFrame ==
    ASSUME NEW m \in Nat, NEW c \in Frame(m), AtWork(c)
    PROVE  Advance(c) \in Frame(m)
  <1> DEFINE seg == c.seg
             j == c.j
             n == c.n
             r == c.r
             b == c.b
             d == Advance(c)
  <1>1. /\ seg \in Flat \cup Nested /\ j \in 0..m /\ n \in 1..10
        /\ n <= Size(seg) + 1 /\ r \in Seq(Calm(m)) /\ b \in 0..m
        /\ j = 0 <=> seg \in Jobless
        /\ seg \in Flat /\ n <= Size(seg) => r = <<>> /\ b = 0
        /\ c = [seg |-> seg, j |-> j, n |-> n, r |-> r, b |-> b]
        /\ Size(seg) \in 1..9
    BY FrameParts, Sizes
  <1>2. "message" \in Flat \cup Nested /\ "message" \notin Jobless /\ Size("message") = 8
    BY DEF Flat, Jobless, Size, Methods
  <1>3. CASE Active(c) /\ ~(seg = "message" /\ n = 6)
    <2>1. d = [seg |-> seg, j |-> j, n |-> n + 1, r |-> r, b |-> b]
      BY <1>1, <1>3 DEF Advance
    <2>2. n + 1 \in 1..10 /\ n + 1 <= Size(seg) + 1
      <3>1. n \in 1..10 /\ n <= Size(seg) /\ Size(seg) \in 1..9
        BY <1>1, <1>3 DEF Active
      <3> HIDE DEF n, seg
      <3> QED BY ONLY <3>1
    <2>3. seg \in Flat /\ n + 1 <= Size(seg) => r = <<>> /\ b = 0
      BY <1>1, <1>3 DEF Active
    <2> DEFINE k == n + 1
    <2> HIDE DEF seg, j, n, r, b, d, k
    <2> QED BY <1>1, <2>1, <2>2, <2>3, Frames DEF k, d
  <1>4. CASE Active(c) /\ seg = "message" /\ n = 6
    <2>1. d = [seg |-> seg, j |-> j, n |-> 9, r |-> r, b |-> j]
      BY <1>1, <1>4 DEF Advance
    <2> DEFINE k == 9
    <2>2. k \in 1..10 /\ k <= Size(seg) + 1 /\ ~(k <= Size(seg))
      BY <1>2, <1>4
    <2> HIDE DEF seg, j, n, r, b, d, k
    <2> QED BY <1>1, <2>1, <2>2, Frames DEF k, d
  <1>5. CASE ~Active(c) /\ r # <<>>
    <2> DEFINE q == Tail(r)
    <2>1. d = [seg |-> seg, j |-> j, n |-> n, r |-> q, b |-> b]
      BY <1>1, <1>5 DEF Advance
    <2>2. q \in Seq(Calm(m))
      BY <1>1, <1>5
    <2>3. ~(n <= Size(seg))
      BY <1>5 DEF Active
    <2> HIDE DEF seg, j, n, r, b, d, q
    <2> QED BY <1>1, <2>1, <2>2, <2>3, Frames DEF d
  <1>6. CASE ~Active(c) /\ r = <<>>
    <2> DEFINE sg == "message"
               k == 8
               q == <<>>
               o == 0
    <2>1. d = [seg |-> sg, j |-> b, n |-> k, r |-> q, b |-> o]
      BY <1>6 DEF Advance
    <2>2. b # 0
      BY <1>6 DEF AtWork
    <2>3. q \in Seq(Calm(m)) /\ k \in 1..10 /\ k <= Size(sg) + 1 /\ o \in 0..m /\ o = 0
      BY <1>2
    <2>4. sg \in Flat \cup Nested /\ sg \notin Jobless /\ q = <<>>
      BY <1>2
    <2> HIDE DEF seg, j, n, r, b, d, k, q, o, sg
    <2> QED BY <1>1, <2>1, <2>2, <2>3, <2>4, Frames DEF d
  <1> QED BY <1>3, <1>4, <1>5, <1>6

\* Single instructions can be put in front between two blocks.
LEMMA Pushes ==
    ASSUME NEW m \in Nat, NEW c \in Frame(m), ~Active(c), NEW s \in Seq(Calm(m))
    PROVE  Push(c, s) \in Frame(m) /\ Code(Push(c, s)) = s \o Code(c)
  <1> DEFINE seg == c.seg
             j == c.j
             n == c.n
             r == c.r
             b == c.b
             d == Push(c, s)
             q == s \o r
  <1>1. /\ seg \in Flat \cup Nested /\ j \in 0..m /\ n \in 1..10
        /\ n <= Size(seg) + 1 /\ r \in Seq(Calm(m)) /\ r \in Seq(Item) /\ b \in 0..m
        /\ j = 0 <=> seg \in Jobless
        /\ c = [seg |-> seg, j |-> j, n |-> n, r |-> r, b |-> b]
        /\ ~(n <= Size(seg)) /\ Size(seg) \in 1..9
    BY FrameParts, Sizes DEF Active
  <1>2. d = [seg |-> seg, j |-> j, n |-> n, r |-> q, b |-> b]
    BY <1>1 DEF Push
  <1>3. q \in Seq(Calm(m))
    BY <1>1
  <1>4. s \in Seq(Item)
    BY Calms
  <1>5. Code(c) = Residue(seg, j, n) \o (r \o Base(b))
    BY DEF Code
  <1> HIDE DEF seg, j, n, r, b, d
  <1>6. Code(d) = Residue(seg, j, n) \o (q \o Base(b))
    <2> HIDE DEF q
    <2>1. d.seg = seg /\ d.j = j /\ d.n = n /\ d.r = q /\ d.b = b
      BY <1>2
    <2> QED BY <2>1 DEF Code
  <1>7. n = Size(seg) + 1 /\ j \in Nat /\ b \in Nat
    BY <1>1
  <1>8. Residue(seg, j, n) = <<>> /\ Base(b) \in Seq(Item)
    BY <1>1, <1>7, Residues, Bases
  <1>9. r \o Base(b) \in Seq(Item) /\ (s \o r) \o Base(b) = s \o (r \o Base(b))
    BY <1>1, <1>4, <1>8, JoinType, JoinAssoc
  <1>10. s \o (r \o Base(b)) \in Seq(Item)
    BY <1>4, <1>9, JoinType
  <1>11. Code(d) = s \o Code(c)
    BY <1>5, <1>6, <1>8, <1>9, <1>10, JoinEmpty
  <1> HIDE DEF q
  <1>12. d \in Frame(m)
    BY <1>1, <1>2, <1>3, Frames
  <1> QED BY <1>11, <1>12 DEF d

\* A nested block can be entered between two blocks.
LEMMA Intos ==
    ASSUME NEW m \in Nat, NEW c \in Frame(m), ~Active(c), NEW seg \in Nested,
           NEW k \in 0..m, k = 0 <=> seg \in Jobless
    PROVE  Into(c, seg, k) \in Frame(m) /\ Code(Into(c, seg, k)) = Block(seg, k) \o Code(c)
  <1> DEFINE r == c.r
             b == c.b
             d == Into(c, seg, k)
             one == 1
  <1>1. /\ r \in Seq(Calm(m)) /\ r \in Seq(Item) /\ b \in 0..m
        /\ c = [seg |-> c.seg, j |-> c.j, n |-> c.n, r |-> r, b |-> b]
    BY FrameParts
  <1>2. seg \in Flat \cup Nested /\ seg \notin Flat
    BY DEF Flat, Nested
  <1>3. Size(seg) \in 1..9 /\ Block(seg, k) \in Seq(Item) /\ Len(Block(seg, k)) = Size(seg)
    BY <1>2, Sizes, Blocks
  <1>4. d = [seg |-> seg, j |-> k, n |-> one, r |-> r, b |-> b]
    BY <1>1 DEF Into
  <1>5. one \in 1..10 /\ one <= Size(seg) + 1
    BY <1>3
  <1>6. Code(d) = SubSeq(Block(seg, k), 1, Size(seg)) \o (r \o Base(b))
    <2> HIDE DEF r, b, d, one
    <2>1. d.seg = seg /\ d.j = k /\ d.n = one /\ d.r = r /\ d.b = b
      BY <1>4
    <2> QED BY <2>1 DEF Code, Residue, one
  <1>7. SubSeq(Block(seg, k), 1, Size(seg)) = Block(seg, k)
    BY <1>3
  <1>8. c.n = Size(c.seg) + 1 /\ c.j \in Nat /\ c.b \in Nat /\ c.n \in 1..10
         /\ c.n <= Size(c.seg) + 1 /\ c.seg \in Flat \cup Nested
    <2>1. /\ c.n \in 1..10 /\ c.n <= Size(c.seg) + 1 /\ c.seg \in Flat \cup Nested
          /\ c.j \in 0..m /\ c.b \in 0..m
      BY ONLY m \in Nat, c \in Frame(m), FrameParts
    <2>2. Size(c.seg) \in 1..9
      BY ONLY <2>1, Sizes
    <2>3. ~(c.n <= Size(c.seg))
      BY DEF Active
    <2>4. c.n = Size(c.seg) + 1
      BY ONLY <2>1, <2>2, <2>3
    <2>5. c.j \in Nat /\ c.b \in Nat
      BY ONLY <2>1, m \in Nat
    <2> QED BY ONLY <2>1, <2>4, <2>5
  <1>9. Residue(c.seg, c.j, c.n) = <<>> /\ Base(b) \in Seq(Item)
    BY <1>8, Residues, Bases
  <1>10. Code(c) = r \o Base(b)
    BY <1>1, <1>9, JoinType, JoinEmpty DEF Code
  <1> HIDE DEF r, b, d, one
  <1>11. d \in Frame(m)
    BY <1>1, <1>2, <1>4, <1>5, Frames
  <1> QED BY <1>6, <1>7, <1>10, <1>11 DEF d

\* What a thread in a block does next.
LEMMA NowIs ==
    ASSUME NEW m \in Nat, NEW c \in Frame(m), Active(c), NEW n, n = c.n, NEW x, x = Now(c),
           NEW j, j = c.j
    PROVE  /\ c.seg = "touch" =>
              \/ (n = 1 /\ x = Do("lock", 0)) \/ (n = 2 /\ x = Do("freeze", 0))
              \/ (n = 3 /\ x = Do("unlock", 0)) \/ (n = 4 /\ x = Do("thaw", 0))
           /\ c.seg = "free" =>
              \/ (n = 1 /\ x = Do("lock", 0)) \/ (n = 2 /\ x = Do("freeze", 0))
              \/ (n = 3 /\ x = Do("free", j)) \/ (n = 4 /\ x = Do("unlock", 0))
              \/ (n = 5 /\ x = Do("thaw", 0))
           /\ c.seg = "next" =>
              \/ (n = 1 /\ x = Do("lock", 0)) \/ (n = 2 /\ x = Do("next", 0))
           /\ c.seg = "unlock" =>
              \/ (n = 1 /\ x = Do("unlock", 0))
           /\ c.seg = "send" =>
              \/ (n = 1 /\ x = Do("claim", j))
              \/ (n = 2 /\ x = Do("brief", Engine))
              \/ (n = 3 /\ x = Do("lock", j)) \/ (n = 4 /\ x = Do("freeze", j))
              \/ (n = 5 /\ x = Do("brief", Engine))
              \/ (n = 6 /\ x = Do("brief", 0))
              \/ (n = 7 /\ x = Do("send", j)) \/ (n = 8 /\ x = Do("unlock", j))
              \/ (n = 9 /\ x = Do("thaw", j))
           /\ c.seg = "create" =>
              \/ (n = 1 /\ x = Do("lock", 0)) \/ (n = 2 /\ x = Do("freeze", 0))
              \/ (n = 3 /\ x = Do("lock", Engine))
              \/ (n = 4 /\ x = Do("create", 0))
           /\ c.seg = "announce" =>
              \/ (n = 1 /\ x = Do("unlock", Engine))
              \/ (n = 2 /\ x = Do("lock", j)) \/ (n = 3 /\ x = Do("freeze", j))
              \/ (n = 4 /\ x = Do("own", j)) \/ (n = 5 /\ x = Do("unlock", j))
              \/ (n = 6 /\ x = Do("thaw", j)) \/ (n = 7 /\ x = Do("reply", j))
              \/ (n = 8 /\ x = Do("unlock", 0)) \/ (n = 9 /\ x = Do("thaw", 0))
           /\ c.seg = "pend" =>
              \/ (n = 1 /\ x = Do("brief", Engine))
              \/ (n = 2 /\ x = Do("pend", j)) \/ (n = 3 /\ x = Do("unlock", j))
              \/ (n = 4 /\ x = Do("thaw", j))
           /\ c.seg = "message" =>
              \/ (n = 1 /\ x = Do("lock", j)) \/ (n = 2 /\ x = Do("freeze", j))
              \/ (n = 3 /\ x = Do("lock", 0)) \/ (n = 4 /\ x = Do("freeze", 0))
              \/ (n = 5 /\ x = Do("unlock", 0)) \/ (n = 6 /\ x = Do("thaw", 0))
              \/ (n = 7 /\ x = Do("unlock", j)) \/ (n = 8 /\ x = Do("thaw", j))
           /\ c.seg \in Methods =>
              \/ (n = 1 /\ x = Do("lock", j)) \/ (n = 2 /\ x = Do("freeze", j))
              \/ (n = 3 /\ x = Do(c.seg, j)) \/ (n = 4 /\ x = Do("unlock", j))
              \/ (n = 5 /\ x = Do("thaw", j))
  <1> DEFINE seg == c.seg
             B == Block(seg, j)
  <1>1. seg \in Flat \cup Nested /\ j \in Nat /\ n \in 1..10 /\ n <= Size(seg) /\ x = B[n]
    BY FrameParts DEF Active, Now
  <1> HIDE DEF seg, B
  <1>2. ASSUME seg = "touch"
        PROVE  /\ n \in 1..4
               /\ B[1] = Do("lock", 0) /\ B[2] = Do("freeze", 0)
               /\ B[3] = Do("unlock", 0) /\ B[4] = Do("thaw", 0)
    BY <1>1, <1>2, TouchCode DEF B, Size, Methods
  <1>3. ASSUME seg = "free"
        PROVE  /\ n \in 1..5
               /\ B[1] = Do("lock", 0) /\ B[2] = Do("freeze", 0)
               /\ B[3] = Do("free", j) /\ B[4] = Do("unlock", 0)
               /\ B[5] = Do("thaw", 0)
    BY <1>1, <1>3, FreeCode DEF B, Size, Methods
  <1>4. ASSUME seg = "next"
        PROVE  /\ n \in 1..2
               /\ B[1] = Do("lock", 0) /\ B[2] = Do("next", 0)
    BY <1>1, <1>4, NextCode DEF B, Size, Methods
  <1>5. ASSUME seg = "unlock"
        PROVE  /\ n \in 1..1
               /\ B[1] = Do("unlock", 0)
    BY <1>1, <1>5, UnlockCode DEF B, Size, Methods
  <1>6. ASSUME seg = "send"
        PROVE  /\ n \in 1..9
               /\ B[1] = Do("claim", j) /\ B[2] = Do("brief", Engine)
               /\ B[3] = Do("lock", j) /\ B[4] = Do("freeze", j)
               /\ B[5] = Do("brief", Engine) /\ B[6] = Do("brief", 0)
               /\ B[7] = Do("send", j) /\ B[8] = Do("unlock", j)
               /\ B[9] = Do("thaw", j)
    BY <1>1, <1>6, SendCode DEF B, Size, Methods
  <1>7. ASSUME seg = "create"
        PROVE  /\ n \in 1..4
               /\ B[1] = Do("lock", 0) /\ B[2] = Do("freeze", 0)
               /\ B[3] = Do("lock", Engine) /\ B[4] = Do("create", 0)
    BY <1>1, <1>7, CreateCode DEF B, Size, Methods
  <1>8. ASSUME seg = "announce"
        PROVE  /\ n \in 1..9
               /\ B[1] = Do("unlock", Engine) /\ B[2] = Do("lock", j)
               /\ B[3] = Do("freeze", j) /\ B[4] = Do("own", j)
               /\ B[5] = Do("unlock", j) /\ B[6] = Do("thaw", j)
               /\ B[7] = Do("reply", j) /\ B[8] = Do("unlock", 0)
               /\ B[9] = Do("thaw", 0)
    BY <1>1, <1>8, AnnounceCode DEF B, Size, Methods
  <1>9. ASSUME seg = "pend"
        PROVE  /\ n \in 1..4
               /\ B[1] = Do("brief", Engine) /\ B[2] = Do("pend", j)
               /\ B[3] = Do("unlock", j) /\ B[4] = Do("thaw", j)
    BY <1>1, <1>9, PendCode DEF B, Size, Methods
  <1>10. ASSUME seg = "message"
        PROVE  /\ n \in 1..8
               /\ B[1] = Do("lock", j) /\ B[2] = Do("freeze", j)
               /\ B[3] = Do("lock", 0) /\ B[4] = Do("freeze", 0)
               /\ B[5] = Do("unlock", 0) /\ B[6] = Do("thaw", 0)
               /\ B[7] = Do("unlock", j) /\ B[8] = Do("thaw", j)
    BY <1>1, <1>10, MessageCode DEF B, Size, Methods
  <1>11. ASSUME seg \in Methods
        PROVE  /\ n \in 1..5
               /\ B[1] = Do("lock", j) /\ B[2] = Do("freeze", j)
               /\ B[3] = Do(seg, j) /\ B[4] = Do("unlock", j)
               /\ B[5] = Do("thaw", j)
    BY <1>1, <1>11, MethodCode DEF B, Size, Methods
  <1> QED BY <1>1, <1>2, <1>3, <1>4, <1>5, <1>6, <1>7, <1>8, <1>9, <1>10, <1>11 DEF seg

-----------------------------------------------------------------------------
(* What a thread holds and has frozen                                       *)

HoldsPrinter(seg, n) ==
    \/ seg = "touch" /\ n \in 2..3
    \/ seg = "free" /\ n \in 2..4
    \/ seg = "next" /\ n = 2
    \/ seg = "unlock" /\ n = 1
    \/ seg = "create" /\ n \in 2..4
    \/ seg = "announce" /\ n \in 1..8
    \/ seg = "message" /\ n \in 4..5
HoldsJob(seg, n) ==
    \/ seg = "send" /\ n \in 4..8
    \/ seg = "announce" /\ n \in 3..5
    \/ seg \in Methods /\ n \in 2..4
    \/ seg = "pend" /\ n \in 1..3
    \/ seg = "message" /\ n \in 2..7
HoldsEngine(seg, n) == (seg = "create" /\ n = 4) \/ (seg = "announce" /\ n = 1)

\* The mutexes a thread has.
Holds(c, l) ==
    \/ c.b # 0 /\ l = c.b
    \/ c.j # 0 /\ l = c.j /\ HoldsJob(c.seg, c.n)
    \/ l = 0 /\ HoldsPrinter(c.seg, c.n)
    \/ l = Engine /\ HoldsEngine(c.seg, c.n)

FreezesPrinter(seg, n) ==
    \/ seg = "touch" /\ n \in 3..4
    \/ seg = "free" /\ n \in 3..5
    \/ seg = "create" /\ n \in 3..4
    \/ seg = "announce" /\ n \in 1..9
    \/ seg = "message" /\ n \in 5..6
FreezesJob(seg, n) ==
    \/ seg = "send" /\ n \in 5..9
    \/ seg = "announce" /\ n \in 4..6
    \/ seg \in Methods /\ n \in 3..5
    \/ seg = "pend" /\ n \in 1..4
    \/ seg = "message" /\ n \in 3..8

\* The objects it has frozen.
Froze(c, o) ==
    \/ c.b # 0 /\ o = c.b
    \/ c.j # 0 /\ o = c.j /\ FreezesJob(c.seg, c.n)
    \/ o = 0 /\ FreezesPrinter(c.seg, c.n)

\* It is not in a block of the job whose message it handles.
Apart(c) == c.b # 0 /\ Active(c) => c.j # c.b

\* A step changes what a thread holds and has frozen as its instruction says.
Holding(c, d, x) ==
    /\ x.op = "lock" => \A l \in Nat : Holds(d, l) <=> Holds(c, l) \/ l = x.on
    /\ x.op = "unlock" => Holds(c, x.on) /\ \A l \in Nat : Holds(d, l) <=> Holds(c, l) /\ l # x.on
    /\ x.op \notin {"lock", "unlock"} => \A l \in Nat : Holds(d, l) <=> Holds(c, l)
Freezing(c, d, x) ==
    /\ x.op = "freeze" => ~Froze(c, x.on) /\ \A o \in Nat : Froze(d, o) <=> Froze(c, o) \/ o = x.on
    /\ x.op = "thaw" => Froze(c, x.on) /\ \A o \in Nat : Froze(d, o) <=> Froze(c, o) /\ o # x.on
    /\ x.op \notin {"freeze", "thaw"} => \A o \in Nat : Froze(d, o) <=> Froze(c, o)

\* The four ways to go on: within a block, from a message into the handlers it
\* caused, to the next single instruction, and back to the message.
LEMMA AdvanceFields ==
    ASSUME NEW m \in Nat, NEW c \in Frame(m), NEW d, d = Advance(c)
    PROVE  /\ Active(c) /\ ~(c.seg = "message" /\ c.n = 6) =>
                d.seg = c.seg /\ d.j = c.j /\ d.n = c.n + 1 /\ d.r = c.r /\ d.b = c.b
           /\ Active(c) /\ c.seg = "message" /\ c.n = 6 =>
                d.seg = c.seg /\ d.j = c.j /\ d.n = 9 /\ d.r = c.r /\ d.b = c.j
           /\ ~Active(c) /\ c.r # <<>> =>
                d.seg = c.seg /\ d.j = c.j /\ d.n = c.n /\ d.r = Tail(c.r) /\ d.b = c.b
           /\ ~Active(c) /\ c.r = <<>> =>
                d.seg = "message" /\ d.j = c.b /\ d.n = 8 /\ d.r = <<>> /\ d.b = 0
  <1>1. c = [seg |-> c.seg, j |-> c.j, n |-> c.n, r |-> c.r, b |-> c.b]
    BY FrameParts
  <1> QED BY <1>1 DEF Advance

\* An instruction takes or releases the lock, freezes or thaws the object, it says,
\* and nothing else.
LEMMA AdvanceHolds ==
    ASSUME NEW m \in Nat, m <= MaxJobs, NEW c \in Frame(m), AtWork(c), Apart(c),
           NEW x, x = Now(c), x.op \notin {"next", "create"}
    PROVE  Holding(c, Advance(c), x) /\ Freezing(c, Advance(c), x)
  <1> DEFINE d == Advance(c)
             seg == c.seg
             j == c.j
             n == c.n
             b == c.b
  <1>1. /\ seg \in Flat \cup Nested /\ j \in 0..m /\ n \in 1..10 /\ b \in 0..m
        /\ n <= Size(seg) + 1 /\ (j = 0 <=> seg \in Jobless)
        /\ seg \in Flat /\ n <= Size(seg) => b = 0
        /\ Active(c) <=> n <= Size(seg)
        /\ Active(c) /\ b # 0 => j # b
    BY FrameParts DEF Active, Apart
  <1>2. MaxJobs \in Nat /\ Engine = MaxJobs + 1
    BY ThreadsAssumption DEF Engine
  <1>3. ASSUME Active(c), ~(seg = "message" /\ n = 6)
        PROVE  Holding(c, d, x) /\ Freezing(c, d, x)
    <2>1. d.seg = seg /\ d.j = j /\ d.n = n + 1 /\ d.b = b
      BY <1>3, AdvanceFields
    <2> HIDE DEF d, seg, j, n, b
    <2>2. \A l \in Nat : Holds(c, l) <=> \/ b # 0 /\ l = b
                                         \/ j # 0 /\ l = j /\ HoldsJob(seg, n)
                                         \/ l = 0 /\ HoldsPrinter(seg, n)
                                         \/ l = Engine /\ HoldsEngine(seg, n)
      BY DEF Holds, b, j, seg, n
    <2>3. \A l \in Nat : Holds(d, l) <=> \/ b # 0 /\ l = b
                                         \/ j # 0 /\ l = j /\ HoldsJob(seg, n + 1)
                                         \/ l = 0 /\ HoldsPrinter(seg, n + 1)
                                         \/ l = Engine /\ HoldsEngine(seg, n + 1)
      BY <2>1 DEF Holds
    <2>4. \A l \in Nat : Froze(c, l) <=> \/ b # 0 /\ l = b
                                         \/ j # 0 /\ l = j /\ FreezesJob(seg, n)
                                         \/ l = 0 /\ FreezesPrinter(seg, n)
      BY DEF Froze, b, j, seg, n
    <2>5. \A l \in Nat : Froze(d, l) <=> \/ b # 0 /\ l = b
                                         \/ j # 0 /\ l = j /\ FreezesJob(seg, n + 1)
                                         \/ l = 0 /\ FreezesPrinter(seg, n + 1)
      BY <2>1 DEF Froze
    <2>6. ASSUME seg = "touch" PROVE Holding(c, d, x) /\ Freezing(c, d, x)
      BY <2>2, <2>3, <2>4, <2>5, <1>1, <1>2, <1>3, <2>6, NowIs
         DEF Holding, HoldsPrinter, HoldsJob, HoldsEngine, Freezing, FreezesJob,
             FreezesPrinter, Do, Jobless, Methods, seg, n, j
    <2>7. ASSUME seg = "free" PROVE Holding(c, d, x) /\ Freezing(c, d, x)
      BY <2>2, <2>3, <2>4, <2>5, <1>1, <1>2, <1>3, <2>7, NowIs
         DEF Holding, HoldsPrinter, HoldsJob, HoldsEngine, Freezing, FreezesJob,
             FreezesPrinter, Do, Jobless, Methods, seg, n, j
    <2>8. ASSUME seg = "next" PROVE Holding(c, d, x) /\ Freezing(c, d, x)
      BY <2>2, <2>3, <2>4, <2>5, <1>1, <1>2, <1>3, <2>8, NowIs
         DEF Holding, HoldsPrinter, HoldsJob, HoldsEngine, Freezing, FreezesJob,
             FreezesPrinter, Do, Jobless, Methods, seg, n, j
    <2>9. ASSUME seg = "unlock" PROVE Holding(c, d, x) /\ Freezing(c, d, x)
      BY <2>2, <2>3, <2>4, <2>5, <1>1, <1>2, <1>3, <2>9, NowIs
         DEF Holding, HoldsPrinter, HoldsJob, HoldsEngine, Freezing, FreezesJob,
             FreezesPrinter, Do, Jobless, Methods, seg, n, j
    <2>10. ASSUME seg = "send" PROVE Holding(c, d, x) /\ Freezing(c, d, x)
      BY <2>2, <2>3, <2>4, <2>5, <1>1, <1>2, <1>3, <2>10, NowIs
         DEF Holding, HoldsPrinter, HoldsJob, HoldsEngine, Freezing, FreezesJob,
             FreezesPrinter, Do, Jobless, Methods, seg, n, j
    <2>11. ASSUME seg = "create" PROVE Holding(c, d, x) /\ Freezing(c, d, x)
      BY <2>2, <2>3, <2>4, <2>5, <1>1, <1>2, <1>3, <2>11, NowIs
         DEF Holding, HoldsPrinter, HoldsJob, HoldsEngine, Freezing, FreezesJob,
             FreezesPrinter, Do, Jobless, Methods, seg, n, j
    <2>12. ASSUME seg = "announce" PROVE Holding(c, d, x) /\ Freezing(c, d, x)
      BY <2>2, <2>3, <2>4, <2>5, <1>1, <1>2, <1>3, <2>12, NowIs
         DEF Holding, HoldsPrinter, HoldsJob, HoldsEngine, Freezing, FreezesJob,
             FreezesPrinter, Do, Jobless, Methods, seg, n, j
    <2>13. ASSUME seg = "pend" PROVE Holding(c, d, x) /\ Freezing(c, d, x)
      BY <2>2, <2>3, <2>4, <2>5, <1>1, <1>2, <1>3, <2>13, NowIs
         DEF Holding, HoldsPrinter, HoldsJob, HoldsEngine, Freezing, FreezesJob,
             FreezesPrinter, Do, Jobless, Methods, seg, n, j
    <2>14. ASSUME seg = "message" PROVE Holding(c, d, x) /\ Freezing(c, d, x)
      BY <2>2, <2>3, <2>4, <2>5, <1>1, <1>2, <1>3, <2>14, NowIs
         DEF Holding, HoldsPrinter, HoldsJob, HoldsEngine, Freezing, FreezesJob,
             FreezesPrinter, Do, Jobless, Methods, seg, n, j
    <2>15. ASSUME seg \in Methods PROVE Holding(c, d, x) /\ Freezing(c, d, x)
      BY <2>2, <2>3, <2>4, <2>5, <1>1, <1>2, <1>3, <2>15, NowIs
         DEF Holding, HoldsPrinter, HoldsJob, HoldsEngine, Freezing, FreezesJob,
             FreezesPrinter, Do, Jobless, Methods, seg, n, j
    <2> QED BY <2>6, <2>7, <2>8, <2>9, <2>10, <2>11, <2>12, <2>13, <2>14, <2>15, <1>1
            DEF Flat, Nested, Methods
  <1>4. ASSUME Active(c), seg = "message", n = 6
        PROVE  Holding(c, d, x) /\ Freezing(c, d, x)
    <2>1. d.seg = seg /\ d.j = j /\ d.n = 9 /\ d.b = j
      BY <1>4, AdvanceFields
    <2> HIDE DEF d
    <2>2. x = Do("thaw", 0) /\ b = 0 /\ j # 0
      BY <1>1, <1>4, NowIs DEF Flat, Jobless
    <2>3. x.op = "thaw" /\ x.on = 0
      BY <2>2 DEF Do
    <2>4. /\ \A l \in Nat : Holds(c, l) <=> l = j
          /\ \A l \in Nat : Froze(c, l) <=> l = j \/ l = 0
      BY <1>1, <1>4, <2>2
         DEF Holds, HoldsPrinter, HoldsJob, HoldsEngine, Froze, FreezesJob, FreezesPrinter,
             Methods
    <2>5. /\ \A l \in Nat : Holds(d, l) <=> l = j
          /\ \A l \in Nat : Froze(d, l) <=> l = j
      BY <1>1, <1>4, <2>1, <2>2
         DEF Holds, HoldsPrinter, HoldsJob, HoldsEngine, Froze, FreezesJob, FreezesPrinter,
             Methods
    <2> QED BY <1>1, <2>2, <2>3, <2>4, <2>5 DEF Holding, Freezing
  <1>5. ASSUME ~Active(c), c.r # <<>>
        PROVE  Holding(c, d, x) /\ Freezing(c, d, x)
    <2>1. d.seg = seg /\ d.j = j /\ d.n = n /\ d.b = b
      BY <1>5, AdvanceFields
    <2> HIDE DEF d
    <2>2. x.op \in Single
      <3>1. c.r \in Seq(Calm(m))
        BY FrameParts
      <3>2. x \in Calm(m)
        BY <3>1, <1>5 DEF Now
      <3> QED BY <3>2 DEF Calm
    <2>3. \A l \in Nat : (Holds(d, l) <=> Holds(c, l)) /\ (Froze(d, l) <=> Froze(c, l))
      BY <2>1 DEF Holds, Froze
    <2> QED BY <2>2, <2>3 DEF Holding, Freezing, Single
  <1>6. ASSUME ~Active(c), c.r = <<>>
        PROVE  Holding(c, d, x) /\ Freezing(c, d, x)
    <2>1. d.seg = "message" /\ d.j = b /\ d.n = 8 /\ d.b = 0
      BY <1>6, AdvanceFields
    <2> HIDE DEF d
    <2>2. x = Do("unlock", b) /\ b # 0 /\ n = Size(seg) + 1
      BY <1>1, <1>6, Sizes, SMTT(60) DEF Now, AtWork
    <2>3. x.op = "unlock" /\ x.on = b
      BY <2>2 DEF Do
    <2>4. /\ ~HoldsPrinter(seg, n) /\ ~HoldsJob(seg, n) /\ ~HoldsEngine(seg, n)
          /\ ~FreezesPrinter(seg, n) /\ ~FreezesJob(seg, n)
      BY <1>1, <2>2
         DEF HoldsPrinter, HoldsJob, HoldsEngine, FreezesJob, FreezesPrinter, Size, Methods
    <2>5. \A l \in Nat : (Holds(c, l) <=> l = b) /\ (Froze(c, l) <=> l = b)
      BY <2>2, <2>4 DEF Holds, Froze
    <2>6. \A l \in Nat : ~Holds(d, l) /\ (Froze(d, l) <=> l = b)
      BY <2>1, <2>2
         DEF Holds, HoldsPrinter, HoldsJob, HoldsEngine, Froze, FreezesJob, FreezesPrinter,
             Methods
    <2> QED BY <1>1, <2>2, <2>3, <2>5, <2>6 DEF Holding, Freezing
  <1> QED BY <1>3, <1>4, <1>5, <1>6

\* Between two blocks a thread holds nothing but the job whose message it handles.
LEMMA IdleHolds ==
    ASSUME NEW m \in Nat, NEW c \in Frame(m), ~Active(c)
    PROVE  \A l \in Nat : /\ Holds(c, l) <=> c.b # 0 /\ l = c.b
                          /\ Froze(c, l) <=> c.b # 0 /\ l = c.b
  <1> DEFINE seg == c.seg
             n == c.n
  <1>1. seg \in Flat \cup Nested /\ n \in 1..10 /\ n = Size(seg) + 1
    <2>1. seg \in Flat \cup Nested /\ n \in 1..10 /\ n <= Size(seg) + 1
      BY FrameParts
    <2>2. ~(n <= Size(seg))
      BY DEF Active
    <2> HIDE DEF seg, n
    <2>3. Size(seg) \in 1..9
      BY ONLY <2>1, Sizes
    <2> QED BY ONLY <2>1, <2>2, <2>3
  <1> HIDE DEF seg, n
  <1>2. /\ ~HoldsPrinter(seg, n) /\ ~HoldsJob(seg, n) /\ ~HoldsEngine(seg, n)
        /\ ~FreezesPrinter(seg, n) /\ ~FreezesJob(seg, n)
    BY <1>1
       DEF HoldsPrinter, HoldsJob, HoldsEngine, FreezesJob, FreezesPrinter, Size, Methods
  <1> QED BY <1>2 DEF Holds, Froze, seg, n

\* Single instructions put in front hold nothing.
LEMMA PushHolds ==
    ASSUME NEW c, NEW s
    PROVE  \A l : (Holds(Push(c, s), l) <=> Holds(c, l)) /\ (Froze(Push(c, s), l) <=> Froze(c, l))
  BY DEF Push, Holds, Froze

\* Nor does a block at its beginning.
LEMMA IntoHolds ==
    ASSUME NEW m \in Nat, NEW c \in Frame(m), ~Active(c),
           NEW seg \in {"free", "next", "send"}, NEW k
    PROVE  \A l \in Nat : /\ Holds(Into(c, seg, k), l) <=> Holds(c, l)
                          /\ Froze(Into(c, seg, k), l) <=> Froze(c, l)
  <1> DEFINE d == Into(c, seg, k)
  <1>1. d.seg = seg /\ d.n = 1 /\ d.b = c.b
    BY DEF Into
  <1> HIDE DEF d
  <1>2. \A l \in Nat : /\ Holds(d, l) <=> c.b # 0 /\ l = c.b
                       /\ Froze(d, l) <=> c.b # 0 /\ l = c.b
    BY <1>1 DEF Holds, HoldsPrinter, HoldsJob, HoldsEngine, Froze, FreezesJob, FreezesPrinter,
             Methods
  <1> QED BY <1>2, IdleHolds DEF d

-----------------------------------------------------------------------------
(* The invariant                                                            *)

\* It will execute this single instruction.
Has(c, x) == \E i \in 1..Len(c.r) : c.r[i] = x

\* It is about something of job k, other than its creation.
About(c, k) ==
    \/ Active(c) /\ c.seg # "announce" /\ c.j = k
    \/ c.b = k
    \/ \E i \in 1..Len(c.r) : c.r[i].on = k

\* It creates job k and has not told the client.
Announces(c, k) == c.seg = "announce" /\ c.n <= 7 /\ c.j = k

\* It starts job k.
StartOps == {"assert", "busy", "process", "test"}
Starting(c, k) ==
    \/ Active(c) /\ c.seg = "send" /\ c.j = k
    \/ \E i \in 1..Len(c.r) : c.r[i].op \in StartOps /\ c.r[i].on = k

\* It tests the slot right after it has set the state.
Ordered(r, k) ==
    \A i \in 1..Len(r) :
        r[i].op = "test" /\ r[i].on = k => i > 1 /\ r[i - 1].op = "process" /\ r[i - 1].on = k

\* Start has not made job k pending yet.
ToPend(c, k) == c.seg = "pend" /\ c.n <= 2 /\ c.j = k
Early(J, c) == {k \in 1..Len(J) : ~J[k].started \/ ToPend(c, k)}

\* What thread t can be at, when the jobs are J and those in E have not been
\* made pending.
Fits(J, E, t, c) ==
    /\ c \in Frame(Len(J))
    /\ Active(c) /\ c.seg \in {"touch", "create", "announce"} => t # "main"
    /\ Active(c) /\ c.seg \in Methods \cup {"pend", "message"} => t = "main"
    /\ c.b # 0 => t = "main"
    /\ \A k \in 1..Len(J) : About(c, k) => J[k].answered
    /\ \A k \in 1..Len(J) : Announces(c, k) => ~J[k].answered
    /\ \A k \in 1..Len(J) : Starting(c, k) => k \notin E
    /\ \A k \in 1..Len(J) : J[k].state = "pending" =>
        ~(Active(c) /\ c.seg = "send" /\ c.j = k) /\ Ordered(c.r, k)
    /\ c.seg = "start" /\ c.n <= 3 => ~J[c.j].started
    /\ c.seg = "pend" /\ c.n <= 2 => J[c.j].started
    /\ Active(c) /\ c.seg = "message" => J[c.j].backend_started
    /\ c.b # 0 => /\ J[c.b].backend_started
                  /\ Active(c) => c.j # c.b
                  /\ \A i \in 1..Len(c.r) : c.r[i].on # c.b

JobRecord ==
    [state : {"pending-held", "pending", "processing"} \cup Terminal,
     owned : BOOLEAN, answered : BOOLEAN, started : BOOLEAN, own : BOOLEAN,
     watched : BOOLEAN, sending : BOOLEAN, outgoing : BOOLEAN, changed : BOOLEAN,
     backend_started : BOOLEAN, running : BOOLEAN]

TypeInv ==
    /\ jobs \in Seq(JobRecord)
    /\ owner \in [Locks -> Threads \cup {Nobody}]
    /\ frozen \in [Objects -> Nat]
    /\ queued \subseteq 0..Len(jobs)
    /\ emission \in [Objects -> {"none", "on", "restart"}]
    /\ printer \in [state : {"idle", "processing"}, job_outgoing : BOOLEAN]
    /\ up \in BOOLEAN

FrameInv(f) ==
    /\ f \in [Threads -> Frame(Len(jobs))]
    /\ todo = [t \in Threads |-> Code(f[t])]
    /\ \A t \in Threads : Fits(jobs, Early(jobs, f["main"]), t, f[t])
    /\ \A t \in Threads, u \in Threads, k \in Ids :
        Announces(f[t], k) /\ Announces(f[u], k) => t = u

\* There is room for the jobs under creation.
Creators(f) == {t \in Threads : f[t].seg = "create" /\ Active(f[t])}
RoomInv(f) == Len(jobs) + Cardinality(Creators(f)) <= MaxJobs

LockInv(f) == \A t \in Threads, l \in Locks : owner[l] = t <=> Holds(f[t], l)

Freezers(f, o) == {t \in Threads : Froze(f[t], o)}
FreezeInv(f) == \A o \in Objects : frozen[o] = Cardinality(Freezers(f, o))

\* Somebody goes on with every emission.
EmissionInv(f) ==
    \A o \in Objects : emission[o] # "none" =>
        \E t \in Threads, n \in 1..4 : Has(f[t], RunAt(o, n))

\* Nothing waits for a thaw that does not come.
NoteInv(f) ==
    /\ \A o \in queued : frozen[o] > 0
    /\ \A j \in Ids : jobs[j].changed => frozen[j] > 0
    /\ EmissionInv(f)

\* A new job is its creator's alone; a job becomes pending once, by Start, and
\* is started after that.
JobsFit(J, E, Q) ==
    \A j \in 1..Len(J) :
        /\ ~J[j].answered => /\ J[j].state = "pending-held" /\ ~J[j].started
                             /\ ~J[j].changed /\ j \notin Q
        /\ j \in E => J[j].state \notin {"pending", "processing"} /\ ~J[j].backend_started
        /\ J[j].running => J[j].backend_started
        /\ J[j].backend_started => J[j].state # "pending"
JobInv(f) == JobsFit(jobs, Early(jobs, f["main"]), queued)

Inv(f) ==
    /\ TypeInv /\ FrameInv(f) /\ RoomInv(f) /\ LockInv(f) /\ FreezeInv(f)
    /\ NoteInv(f) /\ JobInv(f)

\* The next instruction of a thread, and where it is after it.
LEMMA Executing ==
    ASSUME NEW f, Inv(f), NEW t \in Threads, NEW op, Executes(t, op), NEW c, c = f[t]
    PROVE  /\ c \in Frame(Len(jobs)) /\ AtWork(c) /\ Apart(c)
           /\ Fits(jobs, Early(jobs, f["main"]), t, c)
           /\ Head(todo[t]) = Now(c) /\ Now(c).op = op /\ On(t) = Now(c).on
           /\ Rest(t) = Code(Advance(c)) /\ Advance(c) \in Frame(Len(jobs))
           /\ Len(jobs) \in Nat /\ Len(jobs) <= MaxJobs
  <1>1. Len(jobs) \in Nat
    BY DEF Inv, TypeInv
  <1>2. c \in Frame(Len(jobs)) /\ todo[t] = Code(c)
        /\ Fits(jobs, Early(jobs, f["main"]), t, c)
    BY DEF Inv, FrameInv
  <1>3. AtWork(c)
    BY <1>1, <1>2, Codes DEF Executes
  <1>4. Head(Code(c)) = Now(c) /\ Tail(Code(c)) = Code(Advance(c))
    BY <1>1, <1>2, <1>3, Codes
  <1>5. Advance(c) \in Frame(Len(jobs))
    BY <1>1, <1>2, <1>3, AdvanceFrame
  <1>6. Apart(c)
    BY <1>2 DEF Fits, Apart
  <1>7. Len(jobs) <= MaxJobs
    <2>1. IsFiniteSet(Creators(f))
      BY FS_Subset, FS_Union, FS_Singleton, ThreadsAssumption DEF Creators, Threads
    <2> QED BY <1>1, <2>1, FS_CardinalityType, ThreadsAssumption DEF Inv, RoomInv
  <1> QED BY <1>1, <1>2, <1>3, <1>4, <1>5, <1>6, <1>7 DEF Executes, On, Rest

-----------------------------------------------------------------------------
(* Where a thread can be after a step                                       *)

\* The elements of a tail.
LEMMA Tails ==
    ASSUME NEW S, NEW r \in Seq(S), r # <<>>
    PROVE  /\ Len(r) \in Nat /\ Len(r) > 0 /\ Head(r) = r[1]
           /\ Len(Tail(r)) = Len(r) - 1
           /\ \A i \in 1..Len(Tail(r)) : i + 1 \in 1..Len(r) /\ Tail(r)[i] = r[i + 1]
  OBVIOUS

\* The elements of two sequences one after the other.
LEMMA Cats ==
    ASSUME NEW S, NEW s \in Seq(S), NEW r \in Seq(S), NEW q, q = s \o r
    PROVE  /\ Len(s) \in Nat /\ Len(r) \in Nat /\ Len(q) = Len(s) + Len(r)
           /\ \A i \in 1..Len(s) : i \in 1..Len(q) /\ q[i] = s[i]
           /\ \A i \in 1..Len(r) : i + Len(s) \in 1..Len(q) /\ q[i + Len(s)] = r[i]
           /\ \A i \in 1..Len(q) : \/ i \in 1..Len(s)
                                   \/ i - Len(s) \in 1..Len(r) /\ i = (i - Len(s)) + Len(s)
  OBVIOUS

\* A thread that goes on still fits the jobs.
LEMMA AdvanceFits ==
    ASSUME NEW J, NEW E, NEW t, NEW c, Len(J) \in Nat, Fits(J, E, t, c), AtWork(c),
           NEW x, x = Now(c),
           x.op = "process" => (x.on \in 1..Len(J) => J[x.on].state # "pending")
    PROVE  Fits(J, E, t, Advance(c))
  <1> DEFINE d == Advance(c)
             m == Len(J)
  <1>1. /\ c \in Frame(m) /\ d \in Frame(m)
        /\ c.seg \in Flat \cup Nested /\ c.j \in 0..m /\ c.n \in 1..10 /\ c.b \in 0..m
        /\ c.r \in Seq(Calm(m)) /\ c.n <= Size(c.seg) + 1
        /\ c.j = 0 <=> c.seg \in Jobless
        /\ c.seg \in Flat /\ c.n <= Size(c.seg) => c.r = <<>> /\ c.b = 0
    BY AdvanceFrame, FrameParts DEF Fits
  <1>2. Size(c.seg) \in 1..9
    BY <1>1, Sizes
  <1>3. ASSUME Active(c), ~(c.seg = "message" /\ c.n = 6)
        PROVE  Fits(J, E, t, d)
    <2>1. d.seg = c.seg /\ d.j = c.j /\ d.n = c.n + 1 /\ d.r = c.r /\ d.b = c.b
      BY <1>1, <1>3, AdvanceFields
    <2> HIDE DEF d
    <2>2. (Active(d) => Active(c)) /\ (d.n <= 2 => c.n <= 2) /\ (d.n <= 3 => c.n <= 3)
            /\ (d.n <= 7 => c.n <= 7)
      <3>1. c.n \in 1..10 /\ Size(c.seg) \in 1..9 /\ d.n = c.n + 1 /\ d.seg = c.seg
        BY ONLY <1>1, <1>2, <2>1
      <3> QED BY ONLY <3>1 DEF Active
    <2>3. \A k \in 1..Len(J) : /\ About(d, k) => About(c, k)
                               /\ Announces(d, k) => Announces(c, k)
                               /\ Starting(d, k) => Starting(c, k)
      BY <2>1, <2>2 DEF About, Announces, Starting
    <2> QED BY <1>1, <2>1, <2>2, <2>3 DEF Fits
  <1>4. ASSUME Active(c), c.seg = "message", c.n = 6
        PROVE  Fits(J, E, t, d)
    <2>1. d.seg = c.seg /\ d.j = c.j /\ d.n = 9 /\ d.r = <<>> /\ d.b = c.j
      BY <1>1, <1>4, AdvanceFields DEF Flat, Active
    <2> HIDE DEF d
    <2>2. ~Active(d)
      BY <1>4, <2>1 DEF Active, Size, Methods
    <2>3. \A k \in 1..Len(J) : /\ About(d, k) => About(c, k)
                               /\ ~Announces(d, k) /\ ~Starting(d, k) /\ Ordered(d.r, k)
      BY <1>4, <2>1, <2>2 DEF About, Announces, Starting, Ordered
    <2>4. t = "main" /\ J[c.j].backend_started
      BY <1>4 DEF Fits
    <2> QED BY <1>1, <1>4, <2>1, <2>2, <2>3, <2>4 DEF Fits, Methods
  <1>5. ASSUME ~Active(c), c.r # <<>>
        PROVE  Fits(J, E, t, d)
    <2>1. d.seg = c.seg /\ d.j = c.j /\ d.n = c.n /\ d.r = Tail(c.r) /\ d.b = c.b
      BY <1>1, <1>5, AdvanceFields
    <2>2. /\ Len(c.r) \in Nat /\ Len(c.r) > 0 /\ x = c.r[1]
          /\ Len(d.r) = Len(c.r) - 1
          /\ \A i \in 1..Len(d.r) : i + 1 \in 1..Len(c.r) /\ d.r[i] = c.r[i + 1]
      BY <1>1, <1>5, <2>1, Tails DEF Now
    <2> HIDE DEF d
    <2>3. ~Active(d)
      BY <1>5, <2>1 DEF Active
    <2>4. \A k \in 1..Len(J) : /\ About(d, k) => About(c, k)
                               /\ Announces(d, k) => Announces(c, k)
                               /\ Starting(d, k) => Starting(c, k)
      BY <2>1, <2>2, <2>3 DEF About, Announces, Starting
    <2>5. ASSUME NEW k \in 1..Len(J), J[k].state = "pending"  PROVE Ordered(d.r, k)
      <3>1. Ordered(c.r, k)
        BY <2>5 DEF Fits
      <3>2. ~(x.op = "process" /\ x.on = k)
        BY <2>5
      <3> SUFFICES ASSUME NEW i \in 1..Len(d.r), d.r[i].op = "test", d.r[i].on = k
                   PROVE  i > 1 /\ d.r[i - 1].op = "process" /\ d.r[i - 1].on = k
        BY DEF Ordered
      <3>3. i + 1 \in 1..Len(c.r) /\ c.r[i + 1].op = "test" /\ c.r[i + 1].on = k
        BY <2>2
      <3>4. c.r[(i + 1) - 1].op = "process" /\ c.r[(i + 1) - 1].on = k
        BY <3>1, <3>3 DEF Ordered
      <3>0. i \in Nat /\ i >= 1 /\ i <= Len(d.r) /\ Len(d.r) \in Nat
        BY ONLY <2>2, i \in 1..Len(d.r)
      <3>5. (i + 1) - 1 = i /\ i # 1
        <4>1. (i + 1) - 1 = i
          BY ONLY <3>0
        <4> QED BY <3>2, <3>4, <2>2, <4>1
      <3>6. i - 1 \in 1..Len(d.r) /\ (i - 1) + 1 = i
        BY ONLY <3>0, <3>5
      <3>7. d.r[i - 1] = c.r[i]
        BY ONLY <3>6, <2>2
      <3> QED BY <3>4, <3>5, <3>7
    <2> QED BY <1>1, <2>1, <2>2, <2>3, <2>4, <2>5 DEF Fits
  <1>6. ASSUME ~Active(c), c.r = <<>>
        PROVE  Fits(J, E, t, d)
    <2>1. d.seg = "message" /\ d.j = c.b /\ d.n = 8 /\ d.r = <<>> /\ d.b = 0 /\ c.b # 0
      BY <1>1, <1>6, AdvanceFields DEF AtWork
    <2> HIDE DEF d
    <2>2. \A k \in 1..Len(J) : /\ About(d, k) => About(c, k)
                               /\ ~Announces(d, k) /\ ~Starting(d, k) /\ Ordered(d.r, k)
      BY <2>1 DEF About, Announces, Starting, Ordered
    <2>3. t = "main" /\ J[c.b].backend_started
      BY <2>1 DEF Fits
    <2> QED BY <1>1, <2>1, <2>2, <2>3 DEF Fits, Methods
  <1> QED BY <1>3, <1>4, <1>5, <1>6

\* So does one with single instructions put in front, if they fit.
LEMMA PushFits ==
    ASSUME NEW J, NEW E, NEW t, NEW e, Len(J) \in Nat, Fits(J, E, t, e), ~Active(e),
           NEW s \in Seq(Calm(Len(J))),
           \A i \in 1..Len(s) : /\ s[i].on \in 1..Len(J) => J[s[i].on].answered
                                /\ e.b # 0 => s[i].on # e.b
                                /\ s[i].op \in StartOps => s[i].on \notin E,
           \A k \in 1..Len(J) : J[k].state = "pending" => Ordered(s, k)
    PROVE  Fits(J, E, t, Push(e, s))
  <1> DEFINE d == Push(e, s)
             m == Len(J)
             r == e.r
             q == d.r
  <1>1. e \in Frame(m) /\ d \in Frame(m) /\ r \in Seq(Calm(m))
    BY Pushes, FrameParts DEF Fits
  <1>2. d.seg = e.seg /\ d.j = e.j /\ d.n = e.n /\ q = s \o r /\ d.b = e.b
    BY DEF Push
  <1> HIDE DEF d
  <1>3. /\ Len(s) \in Nat /\ Len(r) \in Nat /\ Len(q) = Len(s) + Len(r)
        /\ \A i \in 1..Len(s) : i \in 1..Len(q) /\ q[i] = s[i]
        /\ \A i \in 1..Len(r) : i + Len(s) \in 1..Len(q) /\ q[i + Len(s)] = r[i]
        /\ \A i \in 1..Len(q) : \/ i \in 1..Len(s)
                                \/ i - Len(s) \in 1..Len(r) /\ i = (i - Len(s)) + Len(s)
    <2> HIDE DEF q, r
    <2> QED BY <1>1, <1>2, Cats
  <1>4. ~Active(d)
    BY <1>2 DEF Active
  <1> HIDE DEF q, r
  <1>5. \A i \in 1..Len(q) : \/ \E h \in 1..Len(s) : q[i] = s[h]
                             \/ \E h \in 1..Len(r) : q[i] = r[h]
    BY <1>3, ZenonT(60)
  <1>6. \A k \in 1..m : About(d, k) => J[k].answered
    <2>1. /\ \A i \in 1..Len(r) : r[i].on \in 1..m => J[r[i].on].answered
          /\ e.b \in 1..m => J[e.b].answered
      BY DEF Fits, About, r
    <2>2. \A i \in 1..Len(q) : q[i].on \in 1..m => J[q[i].on].answered
      BY <1>5, <2>1
    <2> QED BY <1>2, <1>4, <2>1, <2>2 DEF About, q
  <1>7. \A k \in 1..m : Starting(d, k) => k \notin E
    <2>1. \A i \in 1..Len(r) : r[i].on \in 1..m /\ r[i].op \in StartOps => r[i].on \notin E
      BY DEF Fits, Starting, r
    <2>2. \A i \in 1..Len(q) : q[i].on \in 1..m /\ q[i].op \in StartOps => q[i].on \notin E
      BY <1>5, <2>1
    <2> QED BY <1>2, <1>4, <2>2 DEF Starting, q
  <1>8. \A k \in 1..m : Announces(d, k) => ~J[k].answered
    BY <1>2 DEF Announces, Fits
  <1>9. ASSUME NEW k \in 1..m, J[k].state = "pending"  PROVE Ordered(q, k)
    <2>1. Ordered(s, k) /\ Ordered(r, k)
      BY <1>9 DEF Fits, r
    <2> SUFFICES ASSUME NEW i \in 1..Len(q), q[i].op = "test", q[i].on = k
                 PROVE  i > 1 /\ q[i - 1].op = "process" /\ q[i - 1].on = k
      BY DEF Ordered
    <2>2. CASE i \in 1..Len(s)
      <3>1. i > 1 /\ s[i - 1].op = "process" /\ s[i - 1].on = k
        BY <2>1, <2>2, <1>3 DEF Ordered
      <3>2. i - 1 \in 1..Len(s)
        BY <3>1, <2>2, <1>3
      <3> QED BY <3>1, <3>2, <1>3
    <2>3. CASE i - Len(s) \in 1..Len(r) /\ i = (i - Len(s)) + Len(s)
      <3> DEFINE h == i - Len(s)
      <3>1. r[h].op = "test" /\ r[h].on = k /\ h \in 1..Len(r)
        BY <2>3, <1>3
      <3>2. h > 1 /\ r[h - 1].op = "process" /\ r[h - 1].on = k
        BY <3>1, <2>1, <1>3 DEF Ordered
      <3>3. h - 1 \in 1..Len(r) /\ (h - 1) + Len(s) = i - 1 /\ i > 1
        BY <3>1, <3>2, <1>3, <2>3
      <3>4. q[i - 1] = r[h - 1]
        BY <3>3, <1>3
      <3> QED BY <3>2, <3>3, <3>4
    <2> QED BY <2>2, <2>3, <1>3
  <1>10. e.b # 0 => \A i \in 1..Len(q) : q[i].on # e.b
    <2>1. e.b # 0 => \A i \in 1..Len(r) : r[i].on # e.b
      BY DEF Fits, r
    <2>2. e.b # 0 => \A i \in 1..Len(s) : s[i].on # e.b
      OBVIOUS
    <2> QED BY ONLY <1>5, <2>1, <2>2
  <1>11. /\ e.b # 0 => t = "main" /\ J[e.b].backend_started
         /\ e.seg = "start" /\ e.n <= 3 => ~J[e.j].started
         /\ e.seg = "pend" /\ e.n <= 2 => J[e.j].started
    BY DEF Fits
  <1>12. Fits(J, E, t, d)
    BY <1>1, <1>2, <1>4, <1>6, <1>7, <1>8, <1>9, <1>10, <1>11 DEF Fits, q
  <1> QED BY <1>12 DEF d

\* So does one that enters a nested block of a job it may be about.
LEMMA IntoFits ==
    ASSUME NEW J, NEW E, NEW t, NEW e, Len(J) \in Nat, Fits(J, E, t, e), ~Active(e),
           NEW seg \in Nested, NEW k \in 0..Len(J), k = 0 <=> seg \in Jobless,
           k # 0 => J[k].answered, e.b # 0 => k # e.b,
           seg = "send" => k \notin E /\ J[k].state # "pending"
    PROVE  Fits(J, E, t, Into(e, seg, k))
  <1> DEFINE d == Into(e, seg, k)
             m == Len(J)
  <1>1. e \in Frame(m) /\ d \in Frame(m)
    BY Intos DEF Fits
  <1>2. d.seg = seg /\ d.j = k /\ d.n = 1 /\ d.r = e.r /\ d.b = e.b
    BY DEF Into
  <1> HIDE DEF d
  <1>3. seg \notin {"touch", "create", "announce", "pend", "message", "start", "cancel", "exit"}
    BY DEF Nested
  <1>4. \A i \in 1..m : About(d, i) => J[i].answered
    BY <1>2 DEF About, Fits
  <1>5. \A i \in 1..m : Starting(d, i) => i \notin E
    BY <1>2 DEF Starting, Fits
  <1>6. \A i \in 1..m : ~Announces(d, i)
    BY <1>2, <1>3 DEF Announces
  <1>7. \A i \in 1..m : J[i].state = "pending" =>
          ~(Active(d) /\ d.seg = "send" /\ d.j = i) /\ Ordered(d.r, i)
    BY <1>2 DEF Fits
  <1>8. e.b # 0 => /\ t = "main" /\ J[e.b].backend_started
                   /\ \A i \in 1..Len(e.r) : e.r[i].on # e.b
    BY DEF Fits
  <1>9. /\ ~(d.seg \in {"touch", "create", "announce"})
        /\ ~(d.seg \in Methods \cup {"pend", "message"})
        /\ d.seg # "start" /\ d.seg # "pend" /\ d.seg # "message"
    BY <1>2, <1>3 DEF Methods
  <1>10. Fits(J, E, t, d)
    BY <1>1, <1>2, <1>4, <1>5, <1>6, <1>7, <1>8, <1>9 DEF Fits
  <1> QED BY <1>10 DEF d

\* The jobs change in ways that do not matter to the other threads.
Kept(J, K) ==
    /\ Len(K) = Len(J)
    /\ \A k \in 1..Len(J) : /\ K[k].answered = J[k].answered
                            /\ K[k].started = J[k].started
                            /\ J[k].backend_started => K[k].backend_started
                            /\ K[k].state = "pending" => J[k].state = "pending"

\* A change of the jobs that keeps what matters leaves every thread fitting.
LEMMA KeptFits ==
    ASSUME NEW J, NEW K, NEW E, NEW F, NEW t, NEW c, Len(J) \in Nat,
           Fits(J, E, t, c), Kept(J, K), F \subseteq E
    PROVE  Fits(K, F, t, c)
  <1>1. Len(K) = Len(J) /\ c.j \in 0..Len(J) /\ c.b \in 0..Len(J) /\ (c.j = 0 <=> c.seg \in Jobless)
    BY FrameParts DEF Fits, Kept
  <1>2. "start" \notin Jobless /\ "pend" \notin Jobless /\ "message" \notin Jobless
    BY DEF Jobless
  <1>3. \A k \in 1..Len(K) : /\ About(c, k) => K[k].answered
                             /\ Announces(c, k) => ~K[k].answered
                             /\ Starting(c, k) => k \notin F
                             /\ K[k].state = "pending" =>
                                  ~(Active(c) /\ c.seg = "send" /\ c.j = k) /\ Ordered(c.r, k)
    BY <1>1 DEF Fits, Kept
  <1>4. /\ c.seg = "start" /\ c.n <= 3 => ~K[c.j].started
        /\ c.seg = "pend" /\ c.n <= 2 => K[c.j].started
        /\ Active(c) /\ c.seg = "message" => K[c.j].backend_started
        /\ c.b # 0 => K[c.b].backend_started
    BY <1>1, <1>2 DEF Fits, Kept
  <1> QED BY <1>1, <1>3, <1>4 DEF Fits

-----------------------------------------------------------------------------
(* Steps of one thread                                                      *)

\* Thread t has come to frame d.
Moved(f, t, d, g) == g = [f EXCEPT ![t] = d]

\* The thread does not come to create anything, or to make a job pending.
NoneNew(c, d) ==
    /\ \A k \in Nat : Announces(d, k) => Announces(c, k)
    /\ d.seg = "create" /\ Active(d) => c.seg = "create" /\ Active(c)
Follows(c, d) == NoneNew(c, d) /\ \A k \in Nat : ToPend(d, k) => ToPend(c, k)

\* Going on creates no job and makes none pending.
LEMMA AdvanceFollows ==
    ASSUME NEW m \in Nat, NEW c \in Frame(m), AtWork(c)
    PROVE  Follows(c, Advance(c))
  <1> DEFINE d == Advance(c)
  <1>1. c.seg \in Flat \cup Nested /\ c.n \in 1..10 /\ Size(c.seg) \in 1..9
    BY FrameParts, Sizes
  <1>2. \/ d.seg = c.seg /\ d.j = c.j /\ (d.n = c.n + 1 \/ d.n = c.n)
        \/ d.seg = "message"
    BY AdvanceFields
  <1> HIDE DEF d
  <1>3. CASE d.seg = "message"
    BY <1>3 DEF Follows, NoneNew, ToPend, Announces, d
  <1>4. CASE d.seg = c.seg /\ d.j = c.j /\ (d.n = c.n + 1 \/ d.n = c.n)
    BY <1>1, <1>4 DEF Follows, NoneNew, ToPend, Announces, Active, d
  <1> QED BY <1>2, <1>3, <1>4

\* Nor does putting single instructions in front.
LEMMA PushFollows ==
    ASSUME NEW c, NEW e, NEW s, Follows(c, e)
    PROVE  Follows(c, Push(e, s))
  <1> DEFINE d == Push(e, s)
  <1>1. d.seg = e.seg /\ d.j = e.j /\ d.n = e.n
    BY DEF Push
  <1> HIDE DEF d
  <1> QED BY <1>1 DEF Follows, NoneNew, ToPend, Announces, Active, d

\* Nor does entering a nested block.
LEMMA IntoFollows ==
    ASSUME NEW c, NEW e, NEW seg \in Nested, NEW k
    PROVE  Follows(c, Into(e, seg, k))
  <1> DEFINE d == Into(e, seg, k)
  <1>1. d.seg \in Nested
    BY DEF Into
  <1> HIDE DEF d
  <1> QED BY <1>1 DEF Follows, NoneNew, ToPend, Announces, Nested, d

\* There are finitely many threads.
LEMMA Finite == IsFiniteSet(Threads)
  BY FS_Union, FS_Singleton, ThreadsAssumption DEF Threads

\* The other threads still fit after a step that keeps what matters of the jobs.
LEMMA Stays ==
    ASSUME NEW f, Inv(f), NEW t \in Threads, NEW d, NEW g, Moved(f, t, d, g),
           Follows(f[t], d), Kept(jobs, jobs'), NEW E, E = Early(jobs', g["main"])
    PROVE  /\ E \subseteq Early(jobs, f["main"])
           /\ \A u \in Threads : Fits(jobs', E, u, f[u])
  <1>1. f \in [Threads -> Frame(Len(jobs))] /\ "main" \in Threads /\ Len(jobs) \in Nat
    BY DEF Inv, FrameInv, TypeInv, Threads
  <1>2. \A k \in Nat : ToPend(g["main"], k) => ToPend(f["main"], k)
    BY <1>1 DEF Follows, Moved
  <1>3. E \subseteq Early(jobs, f["main"])
    BY <1>1, <1>2 DEF Early, Kept
  <1>4. ASSUME NEW u \in Threads  PROVE Fits(jobs', E, u, f[u])
    <2>1. Fits(jobs, Early(jobs, f["main"]), u, f[u])
      BY DEF Inv, FrameInv
    <2> QED BY <2>1, <1>1, <1>3, KeptFits
  <1> QED BY <1>3, <1>4

\* One thread moves, the others fit: the frames describe the threads again.
LEMMA FrameStep ==
    ASSUME NEW f, Inv(f), NEW t \in Threads, NEW d, NEW g, Moved(f, t, d, g),
           Len(jobs') = Len(jobs), todo' = [todo EXCEPT ![t] = Code(d)],
           NoneNew(f[t], d), NEW E, E = Early(jobs', g["main"]),
           \A u \in Threads \ {t} : Fits(jobs', E, u, f[u]), Fits(jobs', E, t, d)
    PROVE  FrameInv(g)' /\ RoomInv(g)'
  <1>1. /\ f \in [Threads -> Frame(Len(jobs))] /\ Len(jobs) \in Nat
        /\ todo = [u \in Threads |-> Code(f[u])]
        /\ \A u \in Threads, v \in Threads, k \in Ids :
            Announces(f[u], k) /\ Announces(f[v], k) => u = v
    BY DEF Inv, FrameInv, TypeInv
  <1>2. d \in Frame(Len(jobs'))
    BY DEF Fits
  <1>3. g \in [Threads -> Frame(Len(jobs'))]
    BY <1>1, <1>2 DEF Moved
  <1>4. todo' = [u \in Threads |-> Code(g[u])]
    BY <1>1 DEF Moved
  <1>5. \A u \in Threads : Fits(jobs', E, u, g[u])
    BY <1>1 DEF Moved
  <1>6. \A u \in Threads, k \in Nat : Announces(g[u], k) => Announces(f[u], k)
    BY <1>1 DEF NoneNew, Moved
  <1>7. FrameInv(g)'
    BY <1>1, <1>3, <1>4, <1>5, <1>6 DEF FrameInv, Ids
  <1>8. RoomInv(g)'
    <2>1. Creators(g) \subseteq Creators(f)
      BY <1>1 DEF Creators, NoneNew, Moved
    <2>2. IsFiniteSet(Creators(f))
      BY Finite, FS_Subset DEF Creators
    <2>3. /\ Cardinality(Creators(g)) <= Cardinality(Creators(f))
          /\ Cardinality(Creators(g)) \in Nat /\ Cardinality(Creators(f)) \in Nat
      BY <2>1, <2>2, FS_Subset, FS_CardinalityType
    <2> QED BY <1>1, <2>3, ThreadsAssumption DEF Inv, RoomInv, Creators
  <1> QED BY <1>7, <1>8

\* The locks are those of the objects and the engine's.
LEMMA Mutexes == Locks \subseteq Nat /\ Objects \subseteq Locks /\ Engine \in Locks
                 /\ Nobody \notin Threads
  BY ThreadsAssumption DEF Locks, Objects, Engine, Nobody, Threads

\* A thread takes one lock, releases one or neither.
LEMMA LockStep ==
    ASSUME NEW f, Inv(f), NEW t \in Threads, NEW d, NEW g, Moved(f, t, d, g),
           \/ owner' = owner /\ \A l \in Nat : Holds(d, l) <=> Holds(f[t], l)
           \/ \E x \in Locks : /\ owner[x] = Nobody /\ owner' = [owner EXCEPT ![x] = t]
                               /\ \A l \in Nat : Holds(d, l) <=> Holds(f[t], l) \/ l = x
           \/ \E x \in Locks : /\ Holds(f[t], x) /\ owner' = [owner EXCEPT ![x] = Nobody]
                               /\ \A l \in Nat : Holds(d, l) <=> Holds(f[t], l) /\ l # x
    PROVE  LockInv(g)'
  <1>1. /\ owner \in [Locks -> Threads \cup {Nobody}]
        /\ \A u \in Threads, l \in Locks : owner[l] = u <=> Holds(f[u], l)
        /\ g[t] = d /\ \A u \in Threads : u # t => g[u] = f[u]
    BY DEF Inv, TypeInv, LockInv, FrameInv, Moved
  <1>2. LockInv(g)' <=> \A u \in Threads, l \in Locks : owner'[l] = u <=> Holds(g[u], l)
    BY DEF LockInv
  <1>3. CASE owner' = owner /\ \A l \in Nat : Holds(d, l) <=> Holds(f[t], l)
    BY <1>1, <1>2, <1>3, Mutexes
  <1>4. ASSUME NEW x \in Locks, owner[x] = Nobody, owner' = [owner EXCEPT ![x] = t],
               \A l \in Nat : Holds(d, l) <=> Holds(f[t], l) \/ l = x
        PROVE  LockInv(g)'
    BY <1>1, <1>2, <1>4, Mutexes
  <1>5. ASSUME NEW x \in Locks, Holds(f[t], x), owner' = [owner EXCEPT ![x] = Nobody],
               \A l \in Nat : Holds(d, l) <=> Holds(f[t], l) /\ l # x
        PROVE  LockInv(g)'
    BY <1>1, <1>2, <1>5, Mutexes
  <1> QED BY <1>3, <1>4, <1>5

\* A thread freezes one object, thaws one or neither: the count changes with the
\* number of threads that have it frozen.
LEMMA FreezeStep ==
    ASSUME NEW f, Inv(f), NEW t \in Threads, NEW d, NEW g, Moved(f, t, d, g),
           \/ frozen' = frozen /\ \A l \in Nat : Froze(d, l) <=> Froze(f[t], l)
           \/ \E x \in Objects :
                /\ ~Froze(f[t], x) /\ frozen' = [frozen EXCEPT ![x] = @ + 1]
                /\ \A l \in Nat : Froze(d, l) <=> Froze(f[t], l) \/ l = x
           \/ \E x \in Objects :
                /\ Froze(f[t], x) /\ frozen' = [frozen EXCEPT ![x] = @ - 1]
                /\ \A l \in Nat : Froze(d, l) <=> Froze(f[t], l) /\ l # x
    PROVE  FreezeInv(g)' /\ frozen' \in [Objects -> Nat]
  <1>1. /\ frozen \in [Objects -> Nat] /\ Objects \subseteq Nat
        /\ \A o \in Objects : frozen[o] = Cardinality(Freezers(f, o))
        /\ g[t] = d /\ \A u \in Threads : u # t => g[u] = f[u]
    BY Mutexes DEF Inv, TypeInv, FreezeInv, FrameInv, Moved
  <1>2. \A o : IsFiniteSet(Freezers(f, o)) /\ Cardinality(Freezers(f, o)) \in Nat
    BY Finite, FS_Subset, FS_CardinalityType DEF Freezers
  <1>3. FreezeInv(g)' <=> \A o \in Objects : frozen'[o] = Cardinality(Freezers(g, o))
    BY DEF FreezeInv, Freezers
  <1>4. CASE frozen' = frozen /\ \A l \in Nat : Froze(d, l) <=> Froze(f[t], l)
    <2>1. \A o \in Objects : Freezers(g, o) = Freezers(f, o)
      BY <1>1, <1>4 DEF Freezers
    <2> QED BY <1>1, <1>3, <1>4, <2>1
  <1>5. ASSUME NEW x \in Objects, ~Froze(f[t], x), frozen' = [frozen EXCEPT ![x] = @ + 1],
               \A l \in Nat : Froze(d, l) <=> Froze(f[t], l) \/ l = x
        PROVE  FreezeInv(g)' /\ frozen' \in [Objects -> Nat]
    <2>1. \A o \in Objects \ {x} : Freezers(g, o) = Freezers(f, o)
      BY <1>1, <1>5 DEF Freezers
    <2>2. Freezers(g, x) = Freezers(f, x) \cup {t} /\ t \notin Freezers(f, x)
      BY <1>1, <1>5 DEF Freezers
    <2>3. Cardinality(Freezers(g, x)) = Cardinality(Freezers(f, x)) + 1
      BY <1>2, <2>2, FS_AddElement
    <2>4. frozen'[x] = frozen[x] + 1 /\ \A o \in Objects \ {x} : frozen'[o] = frozen[o]
      BY <1>1, <1>5
    <2>5. frozen[x] + 1 \in Nat
      BY <1>1
    <2>6. frozen' \in [Objects -> Nat]
      BY <1>1, <1>5, <2>5
    <2> QED BY <1>1, <1>3, <2>1, <2>3, <2>4, <2>6
  <1>6. ASSUME NEW x \in Objects, Froze(f[t], x), frozen' = [frozen EXCEPT ![x] = @ - 1],
               \A l \in Nat : Froze(d, l) <=> Froze(f[t], l) /\ l # x
        PROVE  FreezeInv(g)' /\ frozen' \in [Objects -> Nat]
    <2>1. \A o \in Objects \ {x} : Freezers(g, o) = Freezers(f, o)
      BY <1>1, <1>6 DEF Freezers
    <2>2. Freezers(g, x) = Freezers(f, x) \ {t} /\ t \in Freezers(f, x)
      BY <1>1, <1>6 DEF Freezers
    <2>3. /\ Cardinality(Freezers(g, x)) = Cardinality(Freezers(f, x)) - 1
          /\ Cardinality(Freezers(g, x)) \in Nat
      <3>1. IsFiniteSet(Freezers(g, x))
        BY <1>2, <2>2, FS_Subset
      <3> QED BY <1>2, <2>2, <3>1, FS_RemoveElement, FS_CardinalityType
    <2> QED BY <1>1, <1>2, <1>3, <1>6, <2>1, <2>3
  <1> QED BY <1>1, <1>4, <1>5, <1>6

\* A thread that has frozen an object keeps its notifications back.
LEMMA FrozenBy ==
    ASSUME NEW f, Inv(f), NEW t \in Threads, NEW o \in Objects, Froze(f[t], o)
    PROVE  frozen[o] > 0
  <1>1. t \in Freezers(f, o) /\ IsFiniteSet(Freezers(f, o))
    BY Finite, FS_Subset DEF Freezers
  <1>2. Cardinality(Freezers(f, o)) \in Nat /\ Cardinality(Freezers(f, o)) # 0
    BY <1>1, FS_EmptySet, FS_CardinalityType
  <1> QED BY <1>2 DEF Inv, FreezeInv

\* A thread forgets nothing but the instruction it executes.
LEMMA AdvanceHas ==
    ASSUME NEW m \in Nat, NEW c \in Frame(m), AtWork(c), NEW y, Has(c, y)
    PROVE  (~Active(c) /\ y = Now(c)) \/ Has(Advance(c), y)
  <1> DEFINE d == Advance(c)
  <1>1. c.r \in Seq(Calm(m))
    BY FrameParts
  <1>2. CASE Active(c)
    <2>1. d.r = c.r
      BY <1>2, AdvanceFields
    <2> QED BY <2>1 DEF Has
  <1>3. CASE ~Active(c) /\ c.r # <<>>
    <2>1. d.r = Tail(c.r) /\ Now(c) = c.r[1]
      BY <1>1, <1>3, AdvanceFields, Tails DEF Now
    <2> HIDE DEF d
    <2>2. PICK i \in 1..Len(c.r) : c.r[i] = y
      BY DEF Has
    <2>3. ASSUME i # 1 PROVE Has(d, y)
      <3>1. Len(c.r) \in Nat /\ Len(d.r) = Len(c.r) - 1
        BY <1>1, <1>3, <2>1, Tails
      <3>2. i - 1 \in 1..Len(d.r) /\ (i - 1) + 1 = i
        BY <2>2, <2>3, <3>1
      <3>3. d.r[i - 1] = c.r[i]
        BY <1>1, <1>3, <2>1, <3>2, Tails
      <3> QED BY <2>2, <3>2, <3>3 DEF Has
    <2> QED BY <1>3, <2>1, <2>2, <2>3 DEF d
  <1>4. CASE ~Active(c) /\ c.r = <<>>
    BY <1>4 DEF Has
  <1> QED BY <1>2, <1>3, <1>4

\* What a thread has ahead after instructions were put in front.
LEMMA PushHas ==
    ASSUME NEW m \in Nat, NEW c \in Frame(m), NEW s \in Seq(Calm(m)), NEW y
    PROVE  Has(Push(c, s), y) <=> Has(c, y) \/ \E i \in 1..Len(s) : s[i] = y
  <1> DEFINE d == Push(c, s)
             q == d.r
             r == c.r
  <1>1. r \in Seq(Calm(m)) /\ q = s \o r
    BY FrameParts DEF Push
  <1> HIDE DEF d
  <1>2. /\ Len(s) \in Nat /\ Len(r) \in Nat /\ Len(q) = Len(s) + Len(r)
        /\ \A i \in 1..Len(s) : i \in 1..Len(q) /\ q[i] = s[i]
        /\ \A i \in 1..Len(r) : i + Len(s) \in 1..Len(q) /\ q[i + Len(s)] = r[i]
        /\ \A i \in 1..Len(q) : \/ i \in 1..Len(s)
                                \/ i - Len(s) \in 1..Len(r) /\ i = (i - Len(s)) + Len(s)
    <2> HIDE DEF q, r
    <2> QED BY <1>1, Cats
  <1> HIDE DEF q, r
  <1>3. (\E i \in 1..Len(q) : q[i] = y)
           <=> (\E i \in 1..Len(r) : r[i] = y) \/ \E i \in 1..Len(s) : s[i] = y
    <2>1. ASSUME NEW i \in 1..Len(q), q[i] = y
          PROVE  (\E h \in 1..Len(r) : r[h] = y) \/ \E h \in 1..Len(s) : s[h] = y
      <3>1. CASE i \in 1..Len(s)
        <4>1. s[i] = y
          BY ONLY <1>2, <2>1, <3>1
        <4> QED BY ONLY <3>1, <4>1
      <3>2. CASE i - Len(s) \in 1..Len(r) /\ i = (i - Len(s)) + Len(s)
        <4>1. q[(i - Len(s)) + Len(s)] = r[i - Len(s)]
          BY ONLY <1>2, <3>2
        <4>2. r[i - Len(s)] = y
          BY ONLY <2>1, <3>2, <4>1
        <4> QED BY ONLY <3>2, <4>2
      <3> QED BY ONLY <1>2, i \in 1..Len(q), <3>1, <3>2
    <2>2. ASSUME NEW i \in 1..Len(r), r[i] = y
          PROVE  \E h \in 1..Len(q) : q[h] = y
      <3>1. i + Len(s) \in 1..Len(q) /\ q[i + Len(s)] = y
        BY ONLY <1>2, i \in 1..Len(r), <2>2
      <3> QED BY ONLY <3>1
    <2>3. ASSUME NEW i \in 1..Len(s), s[i] = y
          PROVE  \E h \in 1..Len(q) : q[h] = y
      BY ONLY <1>2, i \in 1..Len(s), <2>3
    <2> QED BY ONLY <2>1, <2>2, <2>3
  <1> QED BY <1>3 DEF Has, q, r, d

\* A nested block does not change what is ahead after it.
LEMMA IntoHas == ASSUME NEW c, NEW seg, NEW k, NEW y
                 PROVE  Has(Into(c, seg, k), y) <=> Has(c, y)
  BY DEF Has, Into

-----------------------------------------------------------------------------
(* Where a thread is, by the instruction it executes                        *)

\* A single instruction.
LEMMA AtSingle ==
    ASSUME NEW m \in Nat, NEW c \in Frame(m), AtWork(c), NEW x, x = Now(c), x.op \in Single
    PROVE  /\ ~Active(c) /\ c.r # <<>> /\ x = c.r[1] /\ 1 \in 1..Len(c.r) /\ x \in Calm(m)
           /\ x.op \notin {"run", "look"} => x.on \in 1..m /\ x = Do(x.op, x.on)
           /\ x.op = "run" => x.on \in 0..m /\ x.handler \in 1..4 /\ x = RunAt(x.on, x.handler)
           /\ x.op = "look" => x.on = 0
           /\ ~Active(Advance(c)) /\ Advance(c).b = c.b
  <1> DEFINE n == c.n
             j == c.j
  <1>0. c.seg \in Flat \cup Nested /\ c.r \in Seq(Calm(m))
    BY FrameParts
  <1>1. ~Active(c)
    <2> SUFFICES ASSUME Active(c)  PROVE FALSE
      OBVIOUS
    <2> HIDE DEF n, j
    <2> QED BY <1>0, NowIs DEF Do, Single, Flat, Nested, Methods, n, j
  <1>2. c.r # <<>>
    BY <1>1 DEF Now, Do, Single
  <1>3. x = c.r[1] /\ 1 \in 1..Len(c.r) /\ x \in Calm(m)
    BY <1>0, <1>1, <1>2, Tails DEF Now
  <1>4. /\ x \in [op : Single, on : 0..m, handler : 0..4]
        /\ x.op = "run" <=> x.handler # 0
        /\ x.op = "look" => x.on = 0
        /\ x.on = 0 => x.op \in {"look", "run"}
    BY <1>3 DEF Calm
  <1>5. /\ x.op \notin {"run", "look"} => x.on \in 1..m /\ x = Do(x.op, x.on)
        /\ x.op = "run" => x.on \in 0..m /\ x.handler \in 1..4 /\ x = RunAt(x.on, x.handler)
        /\ x.op = "look" => x.on = 0
    BY <1>4 DEF Do, RunAt
  <1>6. ~Active(Advance(c)) /\ Advance(c).b = c.b
    BY <1>1, <1>2, AdvanceFields DEF Active
  <1> QED BY <1>1, <1>2, <1>3, <1>5, <1>6

\* An instruction of a block.
LEMMA AtBlock ==
    ASSUME NEW m \in Nat, m <= MaxJobs, NEW c \in Frame(m), AtWork(c), NEW x, x = Now(c),
           x.op \notin Single
    PROVE  /\ x.op \in {"lock", "brief"} => x.on \in Locks /\ Active(c)
           /\ x.op = "unlock" => x.on \in Locks
           /\ x.op \in {"freeze", "thaw"} => x.on \in 0..m /\ x.on \in Objects /\ Active(c)
           /\ x.op = "free" => x.on = c.j /\ Active(c) /\ c.seg = "free" /\ c.n = 3
           /\ x.op = "next" => Active(c) /\ c.seg = "next" /\ c.n = 2
           /\ x.op = "claim" => x.on = c.j /\ Active(c) /\ c.seg = "send" /\ c.n = 1
           /\ x.op = "send" => x.on = c.j /\ Active(c) /\ c.seg = "send" /\ c.n = 7
           /\ x.op = "create" => Active(c) /\ c.seg = "create" /\ c.n = 4
           /\ x.op = "own" => x.on = c.j /\ Active(c) /\ c.seg = "announce" /\ c.n = 4
           /\ x.op = "reply" => x.on = c.j /\ Active(c) /\ c.seg = "announce" /\ c.n = 7
           /\ x.op = "pend" => x.on = c.j /\ Active(c) /\ c.seg = "pend" /\ c.n = 2
           /\ x.op \in Methods => x.on = c.j /\ Active(c) /\ c.seg = x.op /\ c.n = 3
           /\ c.j = 0 <=> c.seg \in Jobless
           /\ c.j \in 0..m
  <1> DEFINE n == c.n
             j == c.j
             b == c.b
  <1>0. /\ c.seg \in Flat \cup Nested /\ j \in 0..m /\ b \in 0..m /\ c.r \in Seq(Calm(m))
        /\ j = 0 <=> c.seg \in Jobless
    BY FrameParts
  <1>1. \A o \in 0..m : o \in Locks /\ o \in Objects
    BY ThreadsAssumption DEF Locks, Objects
  <1>2. 0 \in 0..m
    OBVIOUS
  <1> HIDE DEF n, j, b
  <1>3. CASE Active(c)
    <2> DEFINE Goal ==
           /\ x.op \in {"lock", "brief"} => x.on \in Locks /\ Active(c)
           /\ x.op = "unlock" => x.on \in Locks
           /\ x.op \in {"freeze", "thaw"} => x.on \in 0..m /\ x.on \in Objects /\ Active(c)
           /\ x.op = "free" => x.on = j /\ Active(c) /\ c.seg = "free" /\ n = 3
           /\ x.op = "next" => Active(c) /\ c.seg = "next" /\ n = 2
           /\ x.op = "claim" => x.on = j /\ Active(c) /\ c.seg = "send" /\ n = 1
           /\ x.op = "send" => x.on = j /\ Active(c) /\ c.seg = "send" /\ n = 7
           /\ x.op = "create" => Active(c) /\ c.seg = "create" /\ n = 4
           /\ x.op = "own" => x.on = j /\ Active(c) /\ c.seg = "announce" /\ n = 4
           /\ x.op = "reply" => x.on = j /\ Active(c) /\ c.seg = "announce" /\ n = 7
           /\ x.op = "pend" => x.on = j /\ Active(c) /\ c.seg = "pend" /\ n = 2
           /\ x.op \in Methods => x.on = j /\ Active(c) /\ c.seg = x.op /\ n = 3
    <2>1. CASE c.seg \in {"touch", "free", "next", "unlock"}
      BY <1>0, <1>1, <1>2, <1>3, <2>1, NowIs DEF Do, Methods, n, j
    <2>2. CASE c.seg = "send"
      BY <1>0, <1>1, <1>2, <1>3, <2>2, NowIs, Mutexes, SMTT(60) DEF Do, Methods, n, j
    <2>3. CASE c.seg = "create"
      BY <1>0, <1>1, <1>2, <1>3, <2>3, NowIs, Mutexes DEF Do, Methods, n, j
    <2>4. CASE c.seg = "announce"
      BY <1>0, <1>1, <1>2, <1>3, <2>4, NowIs, Mutexes DEF Do, Methods, n, j
    <2>5. CASE c.seg = "pend"
      BY <1>0, <1>1, <1>2, <1>3, <2>5, NowIs, Mutexes DEF Do, Methods, n, j
    <2>6. CASE c.seg = "message"
      BY <1>0, <1>1, <1>2, <1>3, <2>6, NowIs DEF Do, Methods, n, j
    <2>7. CASE c.seg \in Methods
      BY <1>0, <1>1, <1>2, <1>3, <2>7, NowIs DEF Do, Methods, n, j
    <2>8. Goal
      BY <2>1, <2>2, <2>3, <2>4, <2>5, <2>6, <2>7, <1>0 DEF Flat, Nested, Methods, n, j
    <2> QED BY <2>8, <1>0 DEF n, j
  <1>4. CASE ~Active(c) /\ c.r = <<>>
    <2>1. x.op = "unlock" /\ x.on = b
      BY <1>4 DEF Now, Do, b
    <2> QED BY <2>1, <1>0, <1>1 DEF Methods, j
  <1>5. ~(~Active(c) /\ c.r # <<>>)
    <2> SUFFICES ASSUME ~Active(c), c.r # <<>>  PROVE FALSE
      OBVIOUS
    <2>1. x \in Calm(m)
      BY <1>0, Tails DEF Now
    <2> QED BY <2>1 DEF Calm
  <1> QED BY <1>3, <1>4, <1>5

-----------------------------------------------------------------------------
(* A step that goes on, perhaps with something in front                     *)

\* Putting nothing in front.
LEMMA PushNone ==
    ASSUME NEW m \in Nat, NEW e \in Frame(m)
    PROVE  Push(e, <<>>) = e /\ Code(e) = <<>> \o Code(e)
  <1>1. e = [seg |-> e.seg, j |-> e.j, n |-> e.n, r |-> e.r, b |-> e.b] /\ e.r \in Seq(Item)
    BY FrameParts
  <1>2. <<>> \o e.r = e.r
    BY <1>1, JoinEmpty
  <1>3. Code(e) \in Seq(Item)
    BY Codes
  <1> QED BY <1>1, <1>2, <1>3, JoinEmpty DEF Push

\* What t does next, in f, and where it is after it, with s in front.
Onward(f, t, s) == Push(Advance(f[t]), s)

\* Single instructions that can be put in front of what frame e does.
Puts(J, E, e, s) ==
    /\ s \in Seq(Calm(Len(J)))
    /\ \A i \in 1..Len(s) : /\ s[i].on \in 1..Len(J) => J[s[i].on].answered
                            /\ e.b # 0 => s[i].on # e.b
                            /\ s[i].op \in StartOps => s[i].on \notin E
    /\ \A k \in 1..Len(J) : J[k].state = "pending" => Ordered(s, k)

\* What such a step does to the invariant.
Proceeds(f, t, x, d) ==
    /\ Holding(f[t], d, x) /\ Freezing(f[t], d, x)
    /\ \A y : Has(f[t], y) => Has(d, y) \/ (~Active(f[t]) /\ y = x)

\* A step that puts single instructions in front of what is left.
LEMMA Pushing ==
    ASSUME NEW f, Inv(f), NEW t \in Threads, NEW op, Executes(t, op), op \notin {"next", "create"},
           NEW s, Goes(t, s \o Rest(t)), NEW g, g = [f EXCEPT ![t] = Onward(f, t, s)],
           Kept(jobs, jobs'), op = "process" => jobs'[On(t)].state # "pending",
           s # <<>> => /\ ~Active(Advance(f[t]))
                       /\ Puts(jobs', Early(jobs, f["main"]), Advance(f[t]), s)
    PROVE  /\ FrameInv(g)' /\ RoomInv(g)'
           /\ Early(jobs', g["main"]) \subseteq Early(jobs, f["main"])
           /\ Proceeds(f, t, Now(f[t]), Onward(f, t, s))
           /\ \A i \in 1..Len(s) : Has(Onward(f, t, s), s[i])
  <1> DEFINE c == f[t]
             e == Advance(c)
             d == Push(e, s)
             x == Now(c)
             m == Len(jobs)
             E == Early(jobs', g["main"])
  <1>1. /\ c \in Frame(m) /\ AtWork(c) /\ Apart(c) /\ x.op = op /\ On(t) = x.on
        /\ Rest(t) = Code(e) /\ e \in Frame(m) /\ m \in Nat /\ m <= MaxJobs
    BY Executing
  <1>2. Len(jobs') = m
    BY DEF Kept
  <1>3. s = <<>> => d = e /\ Code(d) = <<>> \o Code(e)
    BY <1>1, PushNone
  <1>4. s # <<>> => s \in Seq(Calm(m)) /\ Code(d) = s \o Code(e)
    BY <1>1, <1>2, Pushes DEF Puts
  <1>5. Follows(c, d) /\ NoneNew(c, d)
    BY <1>1, AdvanceFollows, PushFollows DEF Follows
  <1>6. Moved(f, t, d, g)
    BY DEF Onward, Moved
  <1> HIDE DEF d, E
  <1>7. /\ E \subseteq Early(jobs, f["main"])
        /\ \A u \in Threads : Fits(jobs', E, u, f[u])
    BY <1>5, <1>6, Stays DEF E
  <1>8. Fits(jobs', E, t, e)
    BY <1>1, <1>2, <1>7, AdvanceFits
  <1>9. Fits(jobs', E, t, d)
    <2>1. CASE s = <<>>
      BY <2>1, <1>3, <1>8
    <2>2. CASE s # <<>>
      <3>1. Puts(jobs', E, e, s)
        BY <2>2, <1>7 DEF Puts
      <3> HIDE DEF e, c, E
      <3> QED BY <2>2, <3>1, <1>1, <1>2, <1>8, PushFits DEF Puts, d, e, c
    <2> QED BY <2>1, <2>2
  <1>10. todo' = [todo EXCEPT ![t] = Code(d)]
    BY <1>1, <1>3, <1>4 DEF Goes
  <1>11. FrameInv(g)' /\ RoomInv(g)'
    BY <1>2, <1>5, <1>6, <1>7, <1>9, <1>10, FrameStep DEF E
  <1>12. Holding(c, e, x) /\ Freezing(c, e, x)
    BY <1>1, AdvanceHolds
  <1>13. \A l \in Nat : (Holds(d, l) <=> Holds(e, l)) /\ (Froze(d, l) <=> Froze(e, l))
    BY PushHolds DEF d
  <1>14. Holding(c, d, x) /\ Freezing(c, d, x)
    <2> HIDE DEF c, e, x
    <2> QED BY <1>12, <1>13 DEF Holding, Freezing
  <1>15. \A y : Has(c, y) => Has(e, y) \/ (~Active(c) /\ y = x)
    BY <1>1, AdvanceHas
  <1>16. \A y : Has(e, y) => Has(d, y)
    BY <1>1, <1>3, <1>4, PushHas DEF d
  <1>17. \A i \in 1..Len(s) : Has(d, s[i])
    BY <1>1, <1>4, PushHas DEF d
  <1> QED BY <1>7, <1>11, <1>14, <1>15, <1>16, <1>17 DEF Proceeds, Onward, d, E

\* ... with nothing in front.
LEMMA Advancing ==
    ASSUME NEW f, Inv(f), NEW t \in Threads, NEW op, Executes(t, op), op \notin {"next", "create"},
           Goes(t, Rest(t)), NEW g, g = [f EXCEPT ![t] = Advance(f[t])],
           Kept(jobs, jobs'), op = "process" => jobs'[On(t)].state # "pending"
    PROVE  /\ FrameInv(g)' /\ RoomInv(g)'
           /\ Early(jobs', g["main"]) \subseteq Early(jobs, f["main"])
           /\ Proceeds(f, t, Now(f[t]), Advance(f[t]))
  <1> DEFINE e == Advance(f[t])
             s == <<>>
             d == Onward(f, t, s)
  <1>1. Rest(t) = Code(e) /\ e \in Frame(Len(jobs)) /\ Len(jobs) \in Nat
    BY Executing
  <1>2. d = e /\ Code(e) = s \o Code(e)
    BY <1>1, PushNone DEF Onward
  <1>3. Goes(t, s \o Rest(t)) /\ g = [f EXCEPT ![t] = d]
    BY <1>1, <1>2
  <1>4. s = <<>>
    OBVIOUS
  <1> HIDE DEF s, d
  <1>5. /\ FrameInv(g)' /\ RoomInv(g)'
        /\ Early(jobs', g["main"]) \subseteq Early(jobs, f["main"])
        /\ Proceeds(f, t, Now(f[t]), Onward(f, t, s))
    BY <1>3, <1>4, Pushing DEF d
  <1> QED BY <1>2, <1>5 DEF d

\* Who is in an emission stays in it.
LEMMA EmissionStep ==
    ASSUME NEW f, Inv(f), NEW t \in Threads, NEW d, NEW g, Moved(f, t, d, g),
           \A o \in Objects, n \in 1..4 : Has(f[t], RunAt(o, n)) =>
                emission'[o] = "none" \/ \E i \in 1..4 : Has(d, RunAt(o, i)),
           \A o \in Objects : emission'[o] # "none" =>
                emission[o] # "none" \/ Has(d, RunAt(o, 1))
    PROVE  EmissionInv(g)'
  <1>1. /\ \A o \in Objects : emission[o] # "none" =>
            \E u \in Threads, n \in 1..4 : Has(f[u], RunAt(o, n))
        /\ g[t] = d /\ \A u \in Threads : u # t => g[u] = f[u]
    BY DEF Inv, NoteInv, EmissionInv, FrameInv, Moved
  <1> SUFFICES ASSUME NEW o \in Objects, emission'[o] # "none"
               PROVE  \E u \in Threads, n \in 1..4 : Has(g[u], RunAt(o, n))
    BY DEF EmissionInv
  <1>2. CASE Has(d, RunAt(o, 1))
    BY <1>1, <1>2
  <1>3. CASE emission[o] # "none"
    <2>1. PICK u \in Threads, n \in 1..4 : Has(f[u], RunAt(o, n))
      BY <1>1, <1>3
    <2>2. CASE u = t
      BY <1>1, <2>1, <2>2
    <2>3. CASE u # t
      BY <1>1, <2>1, <2>3
    <2> QED BY <2>2, <2>3
  <1> QED BY <1>2, <1>3

\* The emissions that begin are put in front.
Begun(s) ==
    \A o \in Objects : emission'[o] # "none" =>
        emission[o] # "none" \/ \E i \in 1..Len(s) : s[i] = RunAt(o, 1)

\* A step that takes no lock and freezes nothing.
LEMMA QuietStep ==
    ASSUME NEW f, Inv(f), NEW t \in Threads, NEW op, Executes(t, op),
           op \notin {"lock", "unlock", "freeze", "thaw", "next", "create", "run"},
           NEW s, Goes(t, s \o Rest(t)), NEW g, g = [f EXCEPT ![t] = Onward(f, t, s)],
           Kept(jobs, jobs'), op = "process" => jobs'[On(t)].state # "pending",
           s # <<>> => /\ ~Active(Advance(f[t]))
                       /\ Puts(jobs', Early(jobs, f["main"]), Advance(f[t]), s),
           UNCHANGED <<owner, frozen>>, TypeInv', \A o \in queued' : frozen[o] > 0,
           Begun(s),
           \A j \in Ids : jobs'[j].changed => frozen[j] > 0,
           JobsFit(jobs', Early(jobs, f["main"]), queued')
    PROVE  Inv(g)'
  <1> DEFINE d == Onward(f, t, s)
             x == Now(f[t])
  <1>1. /\ FrameInv(g)' /\ RoomInv(g)'
        /\ Early(jobs', g["main"]) \subseteq Early(jobs, f["main"])
        /\ Proceeds(f, t, x, d)
        /\ \A i \in 1..Len(s) : Has(d, s[i])
    BY Pushing
  <1>2. x.op = op
    BY Executing
  <1> HIDE DEF d, x
  <1>3. /\ \A l \in Nat : Holds(d, l) <=> Holds(f[t], l)
        /\ \A l \in Nat : Froze(d, l) <=> Froze(f[t], l)
    BY <1>1, <1>2 DEF Proceeds, Holding, Freezing
  <1>4. LockInv(g)' /\ FreezeInv(g)'
    <2>1. Moved(f, t, d, g)
      BY DEF d, Moved
    <2> QED BY <1>3, <2>1, LockStep, FreezeStep
  <1>5. \A o \in Objects, n \in 1..4 : Has(f[t], RunAt(o, n)) => Has(d, RunAt(o, n))
    BY <1>1, <1>2 DEF Proceeds, RunAt
  <1>6. EmissionInv(g)'
    <2>1. \A o \in Objects, n \in 1..4 : Has(f[t], RunAt(o, n)) =>
             emission'[o] = "none" \/ \E i \in 1..4 : Has(d, RunAt(o, i))
      BY <1>5
    <2>2. \A o \in Objects : emission'[o] # "none" =>
             emission[o] # "none" \/ Has(d, RunAt(o, 1))
      BY <1>1 DEF Begun
    <2>3. Moved(f, t, d, g)
      BY DEF d, Moved
    <2> QED BY <2>1, <2>2, <2>3, EmissionStep
  <1>7. NoteInv(g)'
    BY <1>6 DEF NoteInv, Kept, Ids
  <1>8. JobInv(g)'
    BY <1>1 DEF JobInv, JobsFit
  <1> QED BY <1>1, <1>4, <1>7, <1>8 DEF Inv

\* ... and puts nothing in front.
LEMMA QuietAdvance ==
    ASSUME NEW f, Inv(f), NEW t \in Threads, NEW op, Executes(t, op),
           op \notin {"lock", "unlock", "freeze", "thaw", "next", "create", "run"},
           Goes(t, Rest(t)), NEW g, g = [f EXCEPT ![t] = Advance(f[t])],
           Kept(jobs, jobs'), op = "process" => jobs'[On(t)].state # "pending",
           UNCHANGED <<owner, frozen, emission>>, TypeInv', \A o \in queued' : frozen[o] > 0,
           \A j \in Ids : jobs'[j].changed => frozen[j] > 0,
           JobsFit(jobs', Early(jobs, f["main"]), queued')
    PROVE  Inv(g)'
  <1> DEFINE e == Advance(f[t])
             s == <<>>
             d == Onward(f, t, s)
  <1>1. Rest(t) = Code(e) /\ e \in Frame(Len(jobs)) /\ Len(jobs) \in Nat
    BY Executing
  <1>2. d = e /\ Code(e) = s \o Code(e)
    BY <1>1, PushNone DEF Onward
  <1>3. Goes(t, s \o Rest(t)) /\ g = [f EXCEPT ![t] = d]
    BY <1>1, <1>2
  <1>4. s = <<>> /\ Begun(s)
    BY DEF Begun
  <1> HIDE DEF s, d
  <1> QED BY <1>3, <1>4, QuietStep DEF d

\* Jobs that do not change keep what matters.
LEMMA KeptSame == ASSUME NEW J PROVE Kept(J, J)
  BY DEF Kept

-----------------------------------------------------------------------------
(* Mutexes and freezes                                                      *)

\* A step that changes nothing but a mutex or a freeze count.
LEMMA SyncStep ==
    ASSUME NEW f, Inv(f), NEW t \in Threads, NEW op, Executes(t, op),
           op \in {"lock", "brief", "unlock", "freeze"},
           Goes(t, Rest(t)), UNCHANGED <<queued, emission, printer, jobs, up>>,
           NEW g, g = [f EXCEPT ![t] = Advance(f[t])]
    PROVE  /\ FrameInv(g)' /\ RoomInv(g)' /\ JobInv(g)'
           /\ Holding(f[t], Advance(f[t]), Now(f[t])) /\ Freezing(f[t], Advance(f[t]), Now(f[t]))
           /\ EmissionInv(g)'
           /\ Now(f[t]).op = op /\ On(t) = Now(f[t]).on
           /\ op # "freeze" => On(t) \in Locks
           /\ op = "freeze" => On(t) \in Objects
  <1> DEFINE e == Advance(f[t])
             c == f[t]
             x == Now(f[t])
             m == Len(jobs)
  <1>1. /\ c \in Frame(m) /\ AtWork(c) /\ x.op = op /\ On(t) = x.on /\ m \in Nat /\ m <= MaxJobs
    BY Executing
  <1>2. Kept(jobs, jobs')
    BY KeptSame
  <1>3. /\ FrameInv(g)' /\ RoomInv(g)'
        /\ Early(jobs', g["main"]) \subseteq Early(jobs, f["main"])
        /\ Proceeds(f, t, x, e)
    BY <1>2, Advancing
  <1>4. JobInv(g)'
    BY <1>3 DEF JobInv, JobsFit, Inv
  <1> HIDE DEF e, x
  <1>5. \A o \in Objects, n \in 1..4 : Has(f[t], RunAt(o, n)) =>
             emission'[o] = "none" \/ \E i \in 1..4 : Has(e, RunAt(o, i))
    BY <1>1, <1>3 DEF Proceeds, RunAt
  <1>6. \A o \in Objects : emission'[o] # "none" =>
             emission[o] # "none" \/ Has(e, RunAt(o, 1))
    OBVIOUS
  <1>7. Moved(f, t, e, g)
    BY DEF e, Moved
  <1>8. EmissionInv(g)'
    BY <1>5, <1>6, <1>7, EmissionStep
  <1>9. (op # "freeze" => On(t) \in Locks) /\ (op = "freeze" => On(t) \in Objects)
    BY <1>1, AtBlock DEF x, Single
  <1> QED BY <1>1, <1>3, <1>4, <1>8, <1>9 DEF Proceeds, e, x

\* g_mutex_lock
LEMMA AcquiresInv ==
    ASSUME NEW f, Inv(f), NEW t \in Threads, Acquires(t),
           NEW g, g = [f EXCEPT ![t] = Advance(f[t])]
    PROVE  Inv(g)'
  <1> DEFINE e == Advance(f[t])
             c == f[t]
             x == Now(f[t])
  <1>1. /\ FrameInv(g)' /\ RoomInv(g)' /\ JobInv(g)'
        /\ Holding(c, e, x) /\ Freezing(c, e, x)
        /\ EmissionInv(g)'
        /\ x.op = "lock" /\ On(t) = x.on /\ On(t) \in Locks
    <2> DEFINE op == "lock"
    <2>1. Executes(t, op) /\ Goes(t, Rest(t)) /\ UNCHANGED <<queued, emission, printer, jobs, up>>
      BY DEF Acquires, notes
    <2>2. op \in {"lock", "brief", "unlock", "freeze"} /\ op # "freeze"
      OBVIOUS
    <2> HIDE DEF op, e, c, x
    <2>3. /\ FrameInv(g)' /\ RoomInv(g)' /\ JobInv(g)' /\ Holding(f[t], e, x)
          /\ Freezing(f[t], e, x) /\ EmissionInv(g)' /\ x.op = op /\ On(t) = x.on
          /\ On(t) \in Locks
      BY <2>1, <2>2, SyncStep DEF e, x
    <2> QED BY <2>3 DEF c, op
  <1>2. Moved(f, t, e, g)
    BY DEF Moved
  <1> HIDE DEF e, c, x
  <1>3. (\A l \in Nat : Holds(e, l) <=> Holds(f[t], l) \/ l = On(t))
        /\ \A l \in Nat : Froze(e, l) <=> Froze(f[t], l)
    BY <1>1 DEF Holding, Freezing, c
  <1>4. owner[On(t)] = Nobody /\ owner' = [owner EXCEPT ![On(t)] = t] /\ frozen' = frozen
    BY DEF Acquires, notes
  <1>5. LockInv(g)'
    BY <1>1, <1>2, <1>3, <1>4, LockStep
  <1>6. FreezeInv(g)'
    BY <1>2, <1>3, <1>4, FreezeStep
  <1>7. TypeInv'
    BY <1>4 DEF Inv, TypeInv, Acquires, notes
  <1>8. NoteInv(g)'
    BY <1>1 DEF Inv, NoteInv, Acquires, notes, Ids
  <1> QED BY <1>1, <1>5, <1>6, <1>7, <1>8 DEF Inv

\* A look-up under a lock.
LEMMA AcquiresBrieflyInv ==
    ASSUME NEW f, Inv(f), NEW t \in Threads, AcquiresBriefly(t),
           NEW g, g = [f EXCEPT ![t] = Advance(f[t])]
    PROVE  Inv(g)'
  <1> DEFINE e == Advance(f[t])
             c == f[t]
             x == Now(f[t])
  <1>1. /\ FrameInv(g)' /\ RoomInv(g)' /\ JobInv(g)'
        /\ Holding(c, e, x) /\ Freezing(c, e, x)
        /\ EmissionInv(g)'
        /\ x.op = "brief"
    <2>1. Executes(t, "brief") /\ Goes(t, Rest(t))
          /\ UNCHANGED <<queued, emission, printer, jobs, up>>
      BY DEF AcquiresBriefly, notes, locks
    <2> QED BY <2>1, SyncStep, ZenonT(60)
  <1>2. Moved(f, t, e, g)
    BY DEF Moved
  <1> HIDE DEF e, c, x
  <1>3. (\A l \in Nat : Holds(e, l) <=> Holds(f[t], l))
        /\ \A l \in Nat : Froze(e, l) <=> Froze(f[t], l)
    BY <1>1 DEF Holding, Freezing, c
  <1>4. owner' = owner /\ frozen' = frozen
    BY DEF AcquiresBriefly, notes, locks
  <1>5. LockInv(g)'
    BY <1>2, <1>3, <1>4, LockStep
  <1>6. FreezeInv(g)'
    BY <1>2, <1>3, <1>4, FreezeStep
  <1>7. TypeInv'
    BY <1>4 DEF Inv, TypeInv, AcquiresBriefly, notes, locks
  <1>8. NoteInv(g)'
    BY <1>1 DEF Inv, NoteInv, AcquiresBriefly, notes, locks, Ids
  <1> QED BY <1>1, <1>5, <1>6, <1>7, <1>8 DEF Inv

\* g_mutex_unlock
LEMMA ReleasesInv ==
    ASSUME NEW f, Inv(f), NEW t \in Threads, Releases(t),
           NEW g, g = [f EXCEPT ![t] = Advance(f[t])]
    PROVE  Inv(g)'
  <1> DEFINE e == Advance(f[t])
             c == f[t]
             x == Now(f[t])
  <1>1. /\ FrameInv(g)' /\ RoomInv(g)' /\ JobInv(g)'
        /\ Holding(c, e, x) /\ Freezing(c, e, x)
        /\ EmissionInv(g)'
        /\ x.op = "unlock" /\ On(t) = x.on /\ On(t) \in Locks
    <2> DEFINE op == "unlock"
    <2>1. Executes(t, op) /\ Goes(t, Rest(t)) /\ UNCHANGED <<queued, emission, printer, jobs, up>>
      BY DEF Releases, notes
    <2>2. op \in {"lock", "brief", "unlock", "freeze"} /\ op # "freeze"
      OBVIOUS
    <2> HIDE DEF op, e, c, x
    <2>3. /\ FrameInv(g)' /\ RoomInv(g)' /\ JobInv(g)' /\ Holding(f[t], e, x)
          /\ Freezing(f[t], e, x) /\ EmissionInv(g)' /\ x.op = op /\ On(t) = x.on
          /\ On(t) \in Locks
      BY <2>1, <2>2, SyncStep DEF e, x
    <2> QED BY <2>3 DEF c, op
  <1>2. Moved(f, t, e, g)
    BY DEF Moved
  <1> HIDE DEF e, c, x
  <1>3. Holds(f[t], On(t)) /\ (\A l \in Nat : Holds(e, l) <=> Holds(f[t], l) /\ l # On(t))
        /\ \A l \in Nat : Froze(e, l) <=> Froze(f[t], l)
    BY <1>1 DEF Holding, Freezing, c
  <1>4. owner' = [owner EXCEPT ![On(t)] = Nobody] /\ frozen' = frozen
    BY DEF Releases, notes
  <1>5. LockInv(g)'
    BY <1>1, <1>2, <1>3, <1>4, LockStep
  <1>6. FreezeInv(g)'
    BY <1>2, <1>3, <1>4, FreezeStep
  <1>7. TypeInv'
    BY <1>4 DEF Inv, TypeInv, Releases, notes
  <1>8. NoteInv(g)'
    BY <1>1 DEF Inv, NoteInv, Releases, notes, Ids
  <1> QED BY <1>1, <1>5, <1>6, <1>7, <1>8 DEF Inv

\* g_object_freeze_notify
LEMMA FreezesInv ==
    ASSUME NEW f, Inv(f), NEW t \in Threads, Freezes(t),
           NEW g, g = [f EXCEPT ![t] = Advance(f[t])]
    PROVE  Inv(g)'
  <1> DEFINE e == Advance(f[t])
             c == f[t]
             x == Now(f[t])
  <1>1. /\ FrameInv(g)' /\ RoomInv(g)' /\ JobInv(g)'
        /\ Holding(c, e, x) /\ Freezing(c, e, x)
        /\ EmissionInv(g)'
        /\ x.op = "freeze" /\ On(t) = x.on /\ On(t) \in Objects
    <2>1. Executes(t, "freeze") /\ Goes(t, Rest(t))
          /\ UNCHANGED <<queued, emission, printer, jobs, up>>
      BY DEF Freezes, locks
    <2> QED BY <2>1, SyncStep, ZenonT(60)
  <1>2. Moved(f, t, e, g)
    BY DEF Moved
  <1> HIDE DEF e, c, x
  <1>3. (\A l \in Nat : Holds(e, l) <=> Holds(f[t], l)) /\ ~Froze(f[t], On(t))
        /\ \A l \in Nat : Froze(e, l) <=> Froze(f[t], l) \/ l = On(t)
    BY <1>1 DEF Holding, Freezing, c
  <1>4. owner' = owner /\ frozen' = [frozen EXCEPT ![On(t)] = @ + 1]
    BY DEF Freezes, locks
  <1>5. LockInv(g)'
    BY <1>2, <1>3, <1>4, LockStep
  <1>6. FreezeInv(g)' /\ frozen' \in [Objects -> Nat]
    BY <1>1, <1>2, <1>3, <1>4, FreezeStep
  <1>7. TypeInv'
    BY <1>4, <1>6 DEF Inv, TypeInv, Freezes, locks
  <1>8. \A o \in Objects : frozen[o] > 0 => frozen'[o] > 0
    BY <1>1, <1>4 DEF Inv, TypeInv
  <1>9. queued \subseteq Objects /\ Ids \subseteq Objects
    <2>1. Len(jobs) \in Nat /\ Len(jobs) <= MaxJobs
      BY Executing DEF Freezes
    <2> QED BY <2>1, ThreadsAssumption DEF Inv, TypeInv, Objects, Ids
  <1>10. NoteInv(g)'
    BY <1>1, <1>8, <1>9 DEF Inv, NoteInv, Freezes, locks, Ids
  <1> QED BY <1>1, <1>5, <1>6, <1>7, <1>10 DEF Inv

-----------------------------------------------------------------------------
(* Steps that only change properties                                        *)

JobOps == {"reasons", "tidy", "engine", "assert", "busy", "process", "test", "free",
           "claim", "send", "pend", "start", "cancel", "exit"}

\* The job an instruction is about has been announced; if it is started here,
\* it has been made pending before.
LEMMA AtJob ==
    ASSUME NEW f, Inv(f), NEW t \in Threads, NEW op, Executes(t, op), op \in JobOps,
           NEW j, j = On(t)
    PROVE  /\ j \in Ids /\ j \in 1..Len(jobs) /\ j \in Objects /\ jobs[j].answered
           /\ op \in StartOps \cup {"claim", "send"} => j \notin Early(jobs, f["main"])
           /\ op \in {"claim", "send"} => jobs[j].state # "pending"
           /\ f[t].b # 0 => j # f[t].b
           /\ j # 0
  <1> DEFINE c == f[t]
             x == Now(c)
             m == Len(jobs)
  <1>1. /\ c \in Frame(m) /\ AtWork(c) /\ x.op = op /\ j = x.on /\ m \in Nat /\ m <= MaxJobs
        /\ Fits(jobs, Early(jobs, f["main"]), t, c)
    BY Executing
  <1> HIDE DEF c, x
  <1>2. \A k \in 1..m : k \in Ids /\ k \in Objects /\ k # 0
    BY <1>1, ThreadsAssumption DEF Ids, Objects
  <1>3. CASE op \in Single
    <2>1. /\ ~Active(c) /\ c.r # <<>> /\ x = c.r[1] /\ 1 \in 1..Len(c.r)
          /\ j \in 1..m
      BY <1>1, <1>3, AtSingle DEF JobOps, x
    <2>2. About(c, j) /\ (op \in StartOps => Starting(c, j))
      BY <1>1, <2>1 DEF About, Starting
    <2>3. c.b # 0 => j # c.b
      BY <1>1, <2>1 DEF Fits
    <2>4. jobs[j].answered /\ (op \in StartOps => j \notin Early(jobs, f["main"]))
      BY <1>1, <2>1, <2>2 DEF Fits
    <2> QED BY <1>2, <1>3, <2>1, <2>3, <2>4 DEF Single, c
  <1>4. CASE op \notin Single
    <2>1. /\ j = c.j /\ Active(c) /\ c.j \in 0..m /\ (c.j = 0 <=> c.seg \in Jobless)
          /\ c.seg \in {"free", "send", "pend", "start", "cancel", "exit"}
          /\ op \in {"claim", "send"} => c.seg = "send"
      <3>1. op \in {"free", "claim", "send", "pend"} \cup Methods
        BY <1>4 DEF JobOps, Single, Methods
      <3> QED BY <3>1, <1>1, <1>4, AtBlock DEF x, Methods
    <2>2. j \in 1..m
      BY <1>1, <2>1 DEF Jobless
    <2>3. About(c, j) /\ (op \in {"claim", "send"} => Starting(c, j))
      BY <1>1, <2>1 DEF About, Starting
    <2>4. c.b # 0 => j # c.b
      BY <1>1, <2>1 DEF Fits
    <2>5. /\ jobs[j].answered
          /\ op \in {"claim", "send"} => /\ j \notin Early(jobs, f["main"])
                                         /\ jobs[j].state # "pending"
      BY <1>1, <2>1, <2>2, <2>3 DEF Fits
    <2> QED BY <1>2, <1>4, <2>2, <2>4, <2>5 DEF Single, StartOps, c
  <1> QED BY <1>3, <1>4

\* What an instruction under a freeze of its own object finds.
LEMMA AtFrozen ==
    ASSUME NEW f, Inv(f), NEW t \in Threads, NEW op, Executes(t, op), NEW j, j = On(t)
    PROVE  /\ op \in {"send", "pend", "start", "cancel", "exit"} => frozen[j] > 0
           /\ op = "free" => frozen[0] > 0
  <1> DEFINE c == f[t]
             x == Now(c)
             m == Len(jobs)
  <1>1. /\ c \in Frame(m) /\ AtWork(c) /\ x.op = op /\ j = x.on /\ m \in Nat /\ m <= MaxJobs
    BY Executing
  <1>2. 0 \in Objects
    BY ThreadsAssumption DEF Objects
  <1> HIDE DEF c, x
  <1>3. ASSUME op = "free" PROVE frozen[0] > 0
    <2>1. c.seg = "free" /\ c.n = 3
      BY <1>1, <1>3, AtBlock DEF x, Single
    <2>2. Froze(c, 0)
      BY <2>1 DEF Froze, FreezesPrinter
    <2> QED BY <2>2, <1>2, FrozenBy DEF c
  <1>4. ASSUME op \in {"send", "pend", "start", "cancel", "exit"} PROVE frozen[j] > 0
    <2>1. /\ j = c.j
          /\ \/ c.seg = "send" /\ c.n = 7
             \/ c.seg = "pend" /\ c.n = 2
             \/ c.seg \in Methods /\ c.n = 3
      BY <1>1, <1>4, AtBlock DEF x, Single, Methods
    <2>2. j \in Objects /\ j # 0
      BY <1>4, AtJob DEF JobOps
    <2>3. Froze(c, j)
      BY <2>1, <2>2 DEF Froze, FreezesJob, Methods
    <2> QED BY <2>2, <2>3, FrozenBy DEF c
  <1> QED BY <1>3, <1>4

\* One job is changed.
Alters(K, j) ==
    /\ K \in Seq(JobRecord) /\ Len(K) = Len(jobs)
    /\ \A k \in 1..Len(jobs) : k # j => K[k] = jobs[k]

\* One job changes, the others do not.
LEMMA Alter ==
    ASSUME jobs \in Seq(JobRecord), NEW j \in 1..Len(jobs), NEW r \in JobRecord,
           NEW K, K = [jobs EXCEPT ![j] = r]
    PROVE  Alters(K, j) /\ K[j] = r
  BY DEF Alters

\* g_assert
LEMMA AssertsInv ==
    ASSUME NEW f, Inv(f), NEW t \in Threads, Asserts(t),
           NEW g, g = [f EXCEPT ![t] = Advance(f[t])]
    PROVE  Inv(g)'
  <1> DEFINE op == "assert"
  <1>1. /\ Executes(t, op) /\ Goes(t, Rest(t)) /\ up' \in BOOLEAN
        /\ UNCHANGED <<owner, frozen, queued, emission, printer, jobs>>
    BY DEF Asserts, notes
  <1>2. TypeInv' /\ Kept(jobs, jobs')
    BY <1>1, KeptSame DEF Inv, TypeInv
  <1>3. /\ \A o \in queued' : frozen[o] > 0
        /\ \A j \in Ids : jobs'[j].changed => frozen[j] > 0
        /\ JobsFit(jobs', Early(jobs, f["main"]), queued')
    BY <1>1 DEF Inv, NoteInv, JobInv
  <1>4. op \notin {"lock", "unlock", "freeze", "thaw", "next", "create", "run", "process"}
    OBVIOUS
  <1> HIDE DEF op
  <1> QED BY <1>1, <1>2, <1>3, <1>4, QuietAdvance

\* What may become of job j.
JobStep(f, j, r) ==
    /\ r.answered = jobs[j].answered /\ r.started = jobs[j].started
    /\ jobs[j].backend_started => r.backend_started
    /\ r.state = "pending" => jobs[j].state = "pending"
    /\ r.changed => frozen[j] > 0
    /\ ~jobs[j].answered => r.state = jobs[j].state /\ ~r.changed
    /\ j \in Early(jobs, f["main"]) =>
        r.state \notin {"pending", "processing"} /\ ~r.backend_started
    /\ r.running => r.backend_started
    /\ r.backend_started => r.state # "pending"

\* A change of one job that JobStep allows keeps what matters.
LEMMA AlterFits ==
    ASSUME NEW f, Inv(f), NEW j \in 1..Len(jobs), NEW r \in JobRecord,
           jobs' = [jobs EXCEPT ![j] = r], JobStep(f, j, r),
           \A k \in queued' : k \in 1..Len(jobs) => k \in queued \/ jobs[k].answered
    PROVE  /\ Kept(jobs, jobs') /\ Alters(jobs', j) /\ jobs'[j] = r
           /\ \A k \in Ids : jobs'[k].changed => frozen[k] > 0
           /\ JobsFit(jobs', Early(jobs, f["main"]), queued')
  <1>1. jobs \in Seq(JobRecord)
    BY DEF Inv, TypeInv
  <1>2. Alters(jobs', j) /\ jobs'[j] = r
    BY <1>1, Alter
  <1>3. Kept(jobs, jobs')
    BY <1>2 DEF Kept, Alters, JobStep
  <1>4. \A k \in Ids : jobs'[k].changed => frozen[k] > 0
    BY <1>2 DEF Inv, NoteInv, Alters, Ids, JobStep
  <1>5. ASSUME NEW k \in 1..Len(jobs')
        PROVE  /\ ~jobs'[k].answered => /\ jobs'[k].state = "pending-held" /\ ~jobs'[k].started
                                        /\ ~jobs'[k].changed /\ k \notin queued'
               /\ k \in Early(jobs, f["main"]) =>
                    jobs'[k].state \notin {"pending", "processing"} /\ ~jobs'[k].backend_started
               /\ jobs'[k].running => jobs'[k].backend_started
               /\ jobs'[k].backend_started => jobs'[k].state # "pending"
    <2>1. k \in 1..Len(jobs)
      BY <1>2 DEF Alters
    <2>2. /\ ~jobs[k].answered => /\ jobs[k].state = "pending-held" /\ ~jobs[k].started
                                  /\ ~jobs[k].changed /\ k \notin queued
          /\ k \in Early(jobs, f["main"]) =>
                jobs[k].state \notin {"pending", "processing"} /\ ~jobs[k].backend_started
          /\ jobs[k].running => jobs[k].backend_started
          /\ jobs[k].backend_started => jobs[k].state # "pending"
      BY <2>1 DEF Inv, JobInv, JobsFit
    <2>3. CASE k = j
      BY <1>2, <2>1, <2>2, <2>3 DEF JobStep
    <2>4. CASE k # j
      BY <1>2, <2>1, <2>2, <2>4 DEF Alters
    <2> QED BY <2>3, <2>4
  <1>6. JobsFit(jobs', Early(jobs, f["main"]), queued')
    BY <1>5 DEF JobsFit
  <1> QED BY <1>2, <1>3, <1>4, <1>6

\* What is true of every job.
LEMMA JobFacts ==
    ASSUME NEW f, Inv(f), NEW k \in 1..Len(jobs)
    PROVE  /\ jobs[k] \in JobRecord /\ (jobs[k].changed => frozen[k] > 0)
           /\ ~jobs[k].answered => /\ jobs[k].state = "pending-held" /\ ~jobs[k].started
                                   /\ ~jobs[k].changed /\ k \notin queued
           /\ k \in Early(jobs, f["main"]) =>
                jobs[k].state \notin {"pending", "processing"} /\ ~jobs[k].backend_started
           /\ jobs[k].running => jobs[k].backend_started
           /\ jobs[k].backend_started => jobs[k].state # "pending"
  <1>1. jobs[k] \in JobRecord
    BY DEF Inv, TypeInv
  <1>2. jobs[k].changed => frozen[k] > 0
    BY DEF Inv, NoteInv, Ids
  <1> QED BY <1>1, <1>2 DEF Inv, JobInv, JobsFit

\* A job whose own handler and change are set is a job.
LEMMA SetTidy ==
    ASSUME NEW q \in JobRecord, NEW a \in BOOLEAN, NEW b \in BOOLEAN
    PROVE  [q EXCEPT !.own = a, !.changed = b] \in JobRecord
  BY DEF JobRecord

\* A change that leaves the state of the job and the progress of its backend alone is allowed.
LEMMA JobStepSame ==
    ASSUME NEW f, Inv(f), NEW j \in 1..Len(jobs), NEW r,
           r.answered = jobs[j].answered, r.started = jobs[j].started, r.state = jobs[j].state,
           r.backend_started = jobs[j].backend_started, r.running = jobs[j].running,
           r.changed => jobs[j].changed \/ (frozen[j] > 0 /\ jobs[j].answered)
    PROVE  JobStep(f, j, r)
  <1>1. /\ jobs[j].changed => frozen[j] > 0
        /\ ~jobs[j].answered => ~jobs[j].changed
        /\ j \in Early(jobs, f["main"]) =>
             jobs[j].state \notin {"pending", "processing"} /\ ~jobs[j].backend_started
        /\ jobs[j].running => jobs[j].backend_started
        /\ jobs[j].backend_started => jobs[j].state # "pending"
    BY JobFacts
  <1> QED BY <1>1 DEF JobStep

\* The slot is taken.
LEMMA ClaimsInv ==
    ASSUME NEW f, Inv(f), NEW t \in Threads, Claims(t),
           NEW g, g = [f EXCEPT ![t] = Advance(f[t])]
    PROVE  Inv(g)'
  <1> DEFINE op == "claim"
             j == On(t)
             r == [jobs[j] EXCEPT !.sending = TRUE]
  <1>1. /\ Executes(t, op) /\ Goes(t, Rest(t))
        /\ UNCHANGED <<owner, frozen, queued, emission, up>>
        /\ printer' = [printer EXCEPT !.job_outgoing = TRUE]
        /\ jobs' = [jobs EXCEPT ![j] = r]
    BY DEF Claims, notes, locks
  <1>2. j \in 1..Len(jobs)
    BY <1>1, AtJob DEF JobOps
  <1>3. r \in JobRecord /\ JobStep(f, j, r)
    <2>1. jobs[j] \in JobRecord
      BY <1>2, JobFacts
    <2>2. /\ r.answered = jobs[j].answered /\ r.started = jobs[j].started
          /\ r.state = jobs[j].state /\ r.backend_started = jobs[j].backend_started
          /\ r.running = jobs[j].running /\ r.changed = jobs[j].changed
      BY ONLY <2>1 DEF JobRecord
    <2>3. r \in JobRecord
      BY ONLY <2>1 DEF JobRecord
    <2> HIDE DEF r, j
    <2> QED BY <1>2, <2>2, <2>3, JobStepSame
  <1>4. op \notin {"lock", "unlock", "freeze", "thaw", "next", "create", "run", "process"}
    OBVIOUS
  <1> HIDE DEF op, j, r
  <1>5. /\ Kept(jobs, jobs') /\ Alters(jobs', j)
        /\ \A k \in Ids : jobs'[k].changed => frozen[k] > 0
        /\ JobsFit(jobs', Early(jobs, f["main"]), queued')
    BY <1>1, <1>2, <1>3, AlterFits
  <1>6. TypeInv' /\ \A o \in queued' : frozen[o] > 0
    BY <1>1, <1>5 DEF Inv, TypeInv, Alters, NoteInv
  <1> QED BY <1>1, <1>4, <1>5, <1>6, QuietAdvance

\* The job is sent.
LEMMA SendsInv ==
    ASSUME NEW f, Inv(f), NEW t \in Threads, Sends(t),
           NEW g, g = [f EXCEPT ![t] = Advance(f[t])]
    PROVE  Inv(g)'
  <1> DEFINE op == "send"
             j == On(t)
             r == [jobs[j] EXCEPT !.running = TRUE, !.outgoing = TRUE,
                                  !.backend_started = TRUE, !.changed = TRUE]
  <1>1. /\ Executes(t, op) /\ Goes(t, Rest(t))
        /\ UNCHANGED <<owner, frozen, queued, emission, printer, up>>
    BY DEF Sends, notes, locks
  <1>2. /\ j \in 1..Len(jobs) /\ jobs[j].answered /\ jobs[j].state # "pending"
        /\ j \notin Early(jobs, f["main"]) /\ frozen[j] > 0
    BY <1>1, AtJob, AtFrozen DEF JobOps
  <1>3. jobs' = [jobs EXCEPT ![j] = r]
    <2>1. jobs \in Seq(JobRecord) /\ jobs[j] \in JobRecord
      BY <1>2 DEF Inv, TypeInv
    <2> QED BY <1>2, <2>1 DEF Sends, JobRecord
  <1>4. r \in JobRecord /\ JobStep(f, j, r)
    <2>1. jobs[j] \in JobRecord
      BY <1>2, JobFacts
    <2>2. r \in JobRecord
      BY ONLY <2>1 DEF JobRecord
    <2>3. /\ r.answered = jobs[j].answered /\ r.started = jobs[j].started
          /\ r.state = jobs[j].state /\ r.backend_started = TRUE
      BY ONLY <2>1 DEF JobRecord
    <2> HIDE DEF r, j
    <2> QED BY <1>2, <2>2, <2>3 DEF JobStep
  <1>5. op \notin {"lock", "unlock", "freeze", "thaw", "next", "create", "run", "process"}
    OBVIOUS
  <1> HIDE DEF op, j, r
  <1>6. /\ Kept(jobs, jobs') /\ Alters(jobs', j)
        /\ \A k \in Ids : jobs'[k].changed => frozen[k] > 0
        /\ JobsFit(jobs', Early(jobs, f["main"]), queued')
    BY <1>1, <1>2, <1>3, <1>4, AlterFits
  <1>7. TypeInv' /\ \A o \in queued' : frozen[o] > 0
    BY <1>1, <1>6 DEF Inv, TypeInv, Alters, NoteInv
  <1> QED BY <1>1, <1>5, <1>6, <1>7, QuietAdvance

\* pd_engine_job_state_reasons_notify
LEMMA ReasonsInv ==
    ASSUME NEW f, Inv(f), NEW t \in Threads, Reasons(t),
           NEW g, g = [f EXCEPT ![t] = Advance(f[t])]
    PROVE  Inv(g)'
  <1> DEFINE op == "reasons"
             j == On(t)
             gone == NoLongerOutgoing(j)
             r == [jobs[j] EXCEPT !.sending = @ /\ ~gone]
  <1>1. /\ Executes(t, op) /\ Goes(t, Rest(t))
        /\ UNCHANGED <<owner, frozen, queued, emission, up>>
        /\ printer' = [printer EXCEPT !.job_outgoing = @ /\ ~gone]
        /\ jobs' = [jobs EXCEPT ![j] = r]
    BY DEF Reasons, notes, locks
  <1>2. j \in 1..Len(jobs)
    BY <1>1, AtJob DEF JobOps
  <1>3. r \in JobRecord /\ JobStep(f, j, r)
    <2>1. jobs[j] \in JobRecord
      BY <1>2, JobFacts
    <2>2. /\ r.answered = jobs[j].answered /\ r.started = jobs[j].started
          /\ r.state = jobs[j].state /\ r.backend_started = jobs[j].backend_started
          /\ r.running = jobs[j].running /\ r.changed = jobs[j].changed
      BY ONLY <2>1 DEF JobRecord
    <2>3. r \in JobRecord
      BY ONLY <2>1 DEF JobRecord
    <2> HIDE DEF r, j
    <2> QED BY <1>2, <2>2, <2>3, JobStepSame
  <1>4. op \notin {"lock", "unlock", "freeze", "thaw", "next", "create", "run", "process"}
    OBVIOUS
  <1>5. printer' \in [state : {"idle", "processing"}, job_outgoing : BOOLEAN]
    BY <1>1 DEF Inv, TypeInv
  <1> HIDE DEF op, j, r
  <1>6. /\ Kept(jobs, jobs') /\ Alters(jobs', j)
        /\ \A k \in Ids : jobs'[k].changed => frozen[k] > 0
        /\ JobsFit(jobs', Early(jobs, f["main"]), queued')
    BY <1>1, <1>2, <1>3, AlterFits
  <1>7. TypeInv' /\ \A o \in queued' : frozen[o] > 0
    BY <1>1, <1>5, <1>6 DEF Inv, TypeInv, Alters, NoteInv
  <1> QED BY <1>1, <1>4, <1>6, <1>7, QuietAdvance

\* The owner is set.
LEMMA OwnsInv ==
    ASSUME NEW f, Inv(f), NEW t \in Threads, Owns(t),
           NEW g, g = [f EXCEPT ![t] = Advance(f[t])]
    PROVE  Inv(g)'
  <1> DEFINE op == "own"
             j == On(t)
             r == [jobs[j] EXCEPT !.owned = TRUE]
  <1>1. /\ Executes(t, op) /\ Goes(t, Rest(t))
        /\ UNCHANGED <<owner, frozen, queued, emission, printer, up>>
        /\ jobs' = [jobs EXCEPT ![j] = r]
    BY DEF Owns, notes, locks
  <1>2. j \in 1..Len(jobs)
    BY <1>1, Executing, AtBlock DEF Single, Jobless
  <1>3. r \in JobRecord /\ JobStep(f, j, r)
    <2>1. jobs[j] \in JobRecord
      BY <1>2, JobFacts
    <2>2. /\ r.answered = jobs[j].answered /\ r.started = jobs[j].started
          /\ r.state = jobs[j].state /\ r.backend_started = jobs[j].backend_started
          /\ r.running = jobs[j].running /\ r.changed = jobs[j].changed
      BY ONLY <2>1 DEF JobRecord
    <2>3. r \in JobRecord
      BY ONLY <2>1 DEF JobRecord
    <2> HIDE DEF r, j
    <2> QED BY <1>2, <2>2, <2>3, JobStepSame
  <1>4. op \notin {"lock", "unlock", "freeze", "thaw", "next", "create", "run", "process"}
    OBVIOUS
  <1> HIDE DEF op, j, r
  <1>5. /\ Kept(jobs, jobs') /\ Alters(jobs', j)
        /\ \A k \in Ids : jobs'[k].changed => frozen[k] > 0
        /\ JobsFit(jobs', Early(jobs, f["main"]), queued')
    BY <1>1, <1>2, <1>3, AlterFits
  <1>6. TypeInv' /\ \A o \in queued' : frozen[o] > 0
    BY <1>1, <1>5 DEF Inv, TypeInv, Alters, NoteInv
  <1> QED BY <1>1, <1>4, <1>5, <1>6, QuietAdvance

\* The emission that a change of o starts at once.
Told(o) == IF frozen[o] = 0 /\ emission[o] = "none" THEN <<RunAt(o, 1)>> ELSE <<>>

\* What setting a state does, by the freeze count and the emission.
LEMMA Notified ==
    ASSUME NEW f, Inv(f), NEW t \in Threads, NEW op, Executes(t, op), NEW o \in Objects,
           Notify(t, o, Rest(t)), NEW s, s = Told(o)
    PROVE  /\ Goes(t, s \o Rest(t)) /\ frozen' = frozen
           /\ queued' = IF frozen[o] > 0 THEN queued \cup {o} ELSE queued
           /\ emission' \in [Objects -> {"none", "on", "restart"}]
           /\ \A p \in Objects : emission'[p] # "none" =>
                emission[p] # "none" \/ (p = o /\ s = <<RunAt(o, 1)>>)
           /\ frozen[o] > 0 => s = <<>> /\ emission' = emission /\ Goes(t, Rest(t))
  <1>1. frozen[o] \in Nat /\ emission \in [Objects -> {"none", "on", "restart"}]
    BY DEF Inv, TypeInv
  <1>2. <<>> \o Rest(t) = Rest(t)
    BY Executing, Codes, JoinEmpty
  <1>3. Run(o, 1) = <<RunAt(o, 1)>>
    BY DEF Run, RunAt
  <1>4. CASE frozen[o] > 0
    <2>1. s = <<>>
      BY <1>1, <1>4 DEF Told
    <2>2. /\ Goes(t, Rest(t)) /\ frozen' = frozen /\ queued' = queued \cup {o}
          /\ emission' = emission
      BY <1>4 DEF Notify
    <2> QED BY <1>1, <1>2, <1>4, <2>1, <2>2
  <1>5. CASE ~(frozen[o] > 0) /\ emission[o] = "none"
    <2>1. s = <<RunAt(o, 1)>>
      BY <1>1, <1>5 DEF Told
    <2>2. /\ Goes(t, Run(o, 1) \o Rest(t)) /\ frozen' = frozen /\ queued' = queued
          /\ emission' = [emission EXCEPT ![o] = "on"]
      BY <1>5 DEF Notify, Emit
    <2> HIDE DEF Goes
    <2> QED BY <1>1, <1>3, <1>5, <2>1, <2>2
  <1>6. CASE ~(frozen[o] > 0) /\ emission[o] # "none"
    <2>1. s = <<>>
      BY <1>1, <1>6 DEF Told
    <2>2. /\ Goes(t, Rest(t)) /\ frozen' = frozen /\ queued' = queued
          /\ emission' = [emission EXCEPT ![o] = "restart"]
      BY <1>6 DEF Notify, Emit
    <2> HIDE DEF Goes
    <2> QED BY <1>1, <1>2, <1>6, <2>1, <2>2
  <1> QED BY <1>4, <1>5, <1>6

\* pd_printer_impl_job_state_notify
LEMMA FreesInv ==
    ASSUME NEW f, Inv(f), NEW t \in Threads, Frees(t),
           NEW g, g = [f EXCEPT ![t] = Advance(f[t])]
    PROVE  Inv(g)'
  <1> DEFINE op == "free"
  <1>1. Executes(t, op) /\ UNCHANGED <<owner, up, jobs>>
    BY DEF Frees, locks
  <1>2. frozen[0] > 0 /\ 0 \in Objects /\ 0 \in 0..Len(jobs) /\ 0 \notin 1..Len(jobs)
    <2>1. frozen[0] > 0
      BY <1>1, AtFrozen
    <2>2. Len(jobs) \in Nat /\ 0 \in Objects
      BY ThreadsAssumption DEF Objects, Inv, TypeInv
    <2> QED BY <2>1, <2>2
  <1>3. /\ Goes(t, Rest(t)) /\ UNCHANGED <<frozen, emission>>
        /\ queued' = queued \/ queued' = queued \cup {0}
        /\ printer' = printer \/ printer' = [printer EXCEPT !.state = "idle"]
    <2>1. CASE Ended(On(t)) /\ printer.state = "processing"
      BY <1>1, <1>2, <2>1, Notified DEF Frees
    <2>2. CASE ~(Ended(On(t)) /\ printer.state = "processing")
      BY <2>2 DEF Frees, notes
    <2> QED BY <2>1, <2>2
  <1>4. op \notin {"lock", "unlock", "freeze", "thaw", "next", "create", "run", "process"}
    OBVIOUS
  <1> HIDE DEF op
  <1>5. Kept(jobs, jobs')
    BY <1>1, KeptSame
  <1>6. TypeInv'
    BY <1>1, <1>2, <1>3 DEF Inv, TypeInv
  <1>7. /\ \A o \in queued' : frozen[o] > 0
        /\ \A j \in Ids : jobs'[j].changed => frozen[j] > 0
    BY <1>1, <1>2, <1>3 DEF Inv, NoteInv
  <1>8. JobsFit(jobs', Early(jobs, f["main"]), queued')
    BY <1>1, <1>2, <1>3 DEF Inv, JobInv, JobsFit
  <1> QED BY <1>1, <1>3, <1>4, <1>5, <1>6, <1>7, <1>8, QuietAdvance

\* A method ends its job, or changes the reasons.
LEMMA EndsInv ==
    ASSUME NEW f, Inv(f), NEW t \in Threads, NEW op \in {"cancel", "exit"}, Executes(t, op),
           NEW j, j = On(t), NEW r \in JobRecord, jobs' = [jobs EXCEPT ![j] = r],
           r.answered = jobs[j].answered, r.started = jobs[j].started,
           r.backend_started = jobs[j].backend_started,
           r.state \in Terminal \cup {jobs[j].state}, r.running => jobs[j].running,
           \/ Notify(t, j, Rest(t))
           \/ Goes(t, Rest(t)) /\ UNCHANGED notes,
           UNCHANGED <<owner, up, printer>>,
           NEW g, g = [f EXCEPT ![t] = Advance(f[t])]
    PROVE  Inv(g)'
  <1>1. j \in 1..Len(jobs) /\ j \in Objects /\ jobs[j].answered /\ frozen[j] > 0
    BY AtJob, AtFrozen DEF JobOps
  <1>2. /\ Goes(t, Rest(t)) /\ UNCHANGED <<frozen, emission>>
        /\ queued' = queued \/ queued' = queued \cup {j}
    BY <1>1, Notified DEF notes
  <1>3. JobStep(f, j, r)
    BY <1>1, JobFacts DEF JobRecord, JobStep, Terminal
  <1>4. op \notin {"lock", "unlock", "freeze", "thaw", "next", "create", "run", "process"}
    OBVIOUS
  <1>5. /\ Kept(jobs, jobs') /\ Alters(jobs', j)
        /\ \A k \in Ids : jobs'[k].changed => frozen[k] > 0
        /\ JobsFit(jobs', Early(jobs, f["main"]), queued')
    <2>1. \A k \in queued' : k \in 1..Len(jobs) => k \in queued \/ jobs[k].answered
      BY <1>1, <1>2
    <2> QED BY <1>1, <1>3, <2>1, AlterFits
  <1>6. TypeInv' /\ \A o \in queued' : frozen[o] > 0
    <2>1. j \in 0..Len(jobs)
      BY <1>1
    <2>2. TypeInv'
      BY <1>2, <1>5, <2>1 DEF Inv, TypeInv, Alters
    <2>3. \A o \in queued' : frozen[o] > 0
      BY <1>1, <1>2 DEF Inv, NoteInv
    <2> QED BY <2>2, <2>3
  <1> QED BY <1>2, <1>4, <1>5, <1>6, QuietAdvance

\* pd_job_impl_process_watch_cb
LEMMA ExitsInv ==
    ASSUME NEW f, Inv(f), NEW t \in Threads, Exits(t),
           NEW g, g = [f EXCEPT ![t] = Advance(f[t])]
    PROVE  Inv(g)'
  <1> DEFINE op == "exit"
             j == On(t)
             r == [jobs[j] EXCEPT !.running = FALSE, !.outgoing = FALSE, !.changed = TRUE,
                                  !.state = "completed"]
  <1>1. Executes(t, op) /\ UNCHANGED <<owner, up, printer>> /\ Notify(t, j, Rest(t))
    BY DEF Exits, locks
  <1>2. j \in 1..Len(jobs)
    BY <1>1, AtJob DEF JobOps
  <1>3. jobs \in Seq(JobRecord) /\ jobs[j] \in JobRecord
    BY <1>2 DEF Inv, TypeInv
  <1>4. jobs' = [jobs EXCEPT ![j] = r]
    BY <1>2, <1>3 DEF Exits, JobRecord
  <1>5. /\ r \in JobRecord /\ r.answered = jobs[j].answered /\ r.started = jobs[j].started
        /\ r.backend_started = jobs[j].backend_started
        /\ r.state \in Terminal \cup {jobs[j].state} /\ (r.running => jobs[j].running)
    BY <1>3 DEF JobRecord, Terminal
  <1>6. op \in {"cancel", "exit"}
    OBVIOUS
  <1> HIDE DEF op, j, r
  <1> QED BY <1>1, <1>4, <1>5, <1>6, EndsInv DEF j

\* pd_job_impl_cancel
LEMMA CancelsInv ==
    ASSUME NEW f, Inv(f), NEW t \in Threads, Cancels(t),
           NEW g, g = [f EXCEPT ![t] = Advance(f[t])]
    PROVE  Inv(g)'
  <1> DEFINE op == "cancel"
             j == On(t)
  <1>1. Executes(t, op) /\ UNCHANGED <<owner, up, printer>>
    BY DEF Cancels, locks
  <1>2. j \in 1..Len(jobs)
    BY <1>1, AtJob DEF JobOps
  <1>3. jobs \in Seq(JobRecord) /\ jobs[j] \in JobRecord
    BY <1>2 DEF Inv, TypeInv
  <1>4. op \in {"cancel", "exit"}
    OBVIOUS
  <1>5. CASE Goes(t, Rest(t)) /\ UNCHANGED <<notes, jobs>>
    <2> DEFINE r == jobs[j]
    <2>1. jobs' = [jobs EXCEPT ![j] = r] /\ r \in JobRecord
      BY <1>2, <1>3, <1>5
    <2> HIDE DEF op, j
    <2> QED BY <1>1, <1>4, <1>5, <2>1, EndsInv DEF j
  <1>6. CASE jobs' = [jobs EXCEPT ![j].changed = TRUE] /\ Goes(t, Rest(t)) /\ UNCHANGED notes
    <2> DEFINE r == [jobs[j] EXCEPT !.changed = TRUE]
    <2>1. jobs' = [jobs EXCEPT ![j] = r]
      BY <1>6
    <2>2. /\ r \in JobRecord /\ r.answered = jobs[j].answered /\ r.started = jobs[j].started
          /\ r.backend_started = jobs[j].backend_started
          /\ r.state \in Terminal \cup {jobs[j].state} /\ (r.running => jobs[j].running)
      BY <1>3 DEF JobRecord, Terminal
    <2> HIDE DEF op, j, r
    <2> QED BY <1>1, <1>4, <1>6, <2>1, <2>2, EndsInv DEF j
  <1>7. CASE SetsState(t, j, "canceled")
    <2> DEFINE r == [jobs[j] EXCEPT !.state = "canceled", !.changed = TRUE]
    <2>1. jobs' = [jobs EXCEPT ![j] = r] /\ Notify(t, j, Rest(t))
      BY <1>2, <1>3, <1>7 DEF SetsState, JobRecord
    <2>2. /\ r \in JobRecord /\ r.answered = jobs[j].answered /\ r.started = jobs[j].started
          /\ r.backend_started = jobs[j].backend_started
          /\ r.state \in Terminal \cup {jobs[j].state} /\ (r.running => jobs[j].running)
      BY <1>3 DEF JobRecord, Terminal
    <2> HIDE DEF op, j, r
    <2> QED BY <1>1, <1>4, <2>1, <2>2, EndsInv DEF j
  <1> QED BY <1>5, <1>6, <1>7 DEF Cancels

-----------------------------------------------------------------------------
(* Steps that put something in front                                        *)

\* The single instructions, by name.
LEMMA CalmItems ==
    ASSUME NEW m \in Nat
    PROVE  /\ \A o \in 0..m, n \in 1..4 : RunAt(o, n) \in Calm(m)
           /\ \A k \in 1..m, op \in Single \ {"run", "look"} : Do(op, k) \in Calm(m)
           /\ Do("look", 0) \in Calm(m)
  <1>1. \A o \in 0..m, n \in 1..4 : RunAt(o, n) \in Calm(m)
    BY DEF RunAt, Calm, Single
  <1>2. \A k \in 1..m, op \in Single \ {"run", "look"} : Do(op, k) \in Calm(m)
    BY DEF Do, Calm, Single
  <1>3. Do("look", 0) \in Calm(m)
    BY DEF Do, Calm, Single
  <1> QED BY <1>1, <1>2, <1>3

\* An instruction that starts nothing can be put in front.
May(J, e, y) ==
    /\ y \in Calm(Len(J)) /\ y.op \notin StartOps
    /\ y.on \in 1..Len(J) => J[y.on].answered
    /\ e.b # 0 => y.on # e.b

\* One instruction that may be put in front.
LEMMA PutsOne ==
    ASSUME NEW J, NEW E, NEW e, NEW y, May(J, e, y)
    PROVE  Puts(J, E, e, <<y>>)
  <1> DEFINE s == <<y>>
  <1>1. s \in Seq(Calm(Len(J))) /\ \A i \in 1..Len(s) : s[i] = y
    BY DEF May
  <1> HIDE DEF s
  <1>2. Puts(J, E, e, s)
    BY <1>1 DEF Puts, Ordered, May, StartOps
  <1> QED BY <1>2 DEF s

\* Two of them.
LEMMA PutsTwo ==
    ASSUME NEW J, NEW E, NEW e, NEW y, NEW z, May(J, e, y), May(J, e, z)
    PROVE  Puts(J, E, e, <<y>> \o <<z>>)
  <1> DEFINE s == <<y>> \o <<z>>
  <1>1. s \in Seq(Calm(Len(J))) /\ \A i \in 1..Len(s) : s[i] = y \/ s[i] = z
    BY DEF May
  <1> HIDE DEF s
  <1>2. Puts(J, E, e, s)
    BY <1>1 DEF Puts, Ordered, May, StartOps
  <1> QED BY <1>2 DEF s

\* ... and so can the start of a job that is not early.
LEMMA PutsStart ==
    ASSUME NEW J, NEW E, NEW e, Len(J) \in Nat, NEW k \in 1..Len(J), k \notin E,
           J[k].answered, e.b # 0 => k # e.b
    PROVE  /\ Puts(J, E, e, StartJob(k))
           /\ Puts(J, E, e, Instruction("assert", k) \o StartJob(k))
           /\ StartJob(k) # <<>> /\ Instruction("assert", k) \o StartJob(k) # <<>>
  <1> DEFINE x1 == Do("assert", k)
             x2 == Do("busy", k)
             x3 == Do("process", k)
             x4 == Do("test", k)
             s == <<x2>> \o <<x3>> \o <<x4>>
             q == <<x1>> \o (<<x2>> \o <<x3>> \o <<x4>>)
             C == Calm(Len(J))
  <1>1. StartJob(k) = s /\ Instruction("assert", k) \o StartJob(k) = q
    BY DEF StartJob, Instruction, Do
  <1>2. x1 \in C /\ x2 \in C /\ x3 \in C /\ x4 \in C
    BY CalmItems DEF Single
  <1>3. /\ x1.op = "assert" /\ x2.op = "busy" /\ x3.op = "process" /\ x4.op = "test"
        /\ x1.on = k /\ x2.on = k /\ x3.on = k /\ x4.on = k
    BY DEF Do
  <1> HIDE DEF x1, x2, x3, x4, C
  <1>4. s \in Seq(C) /\ Len(s) = 3 /\ s[1] = x2 /\ s[2] = x3 /\ s[3] = x4 /\ s # <<>>
    BY <1>2
  <1>5. q \in Seq(C) /\ Len(q) = 4 /\ q[1] = x1 /\ q[2] = x2 /\ q[3] = x3 /\ q[4] = x4
        /\ q # <<>>
    BY <1>2
  <1> HIDE DEF s, q
  <1>6. ASSUME NEW i \in 1..Len(s)
        PROVE  /\ s[i].on = k /\ (s[i].op = "test" => i = 3)
    BY <1>3, <1>4
  <1>7. ASSUME NEW i \in 1..Len(q)
        PROVE  /\ q[i].on = k /\ (q[i].op = "test" => i = 4)
    BY <1>3, <1>5
  <1>8. \A h \in 1..Len(J) : Ordered(s, h)
    BY <1>3, <1>4, <1>6 DEF Ordered
  <1>9. \A h \in 1..Len(J) : Ordered(q, h)
    BY <1>3, <1>5, <1>7 DEF Ordered
  <1>10. Puts(J, E, e, s)
    BY <1>4, <1>6, <1>8 DEF Puts, C
  <1>11. Puts(J, E, e, q)
    BY <1>5, <1>7, <1>9 DEF Puts, C
  <1> QED BY <1>1, <1>4, <1>5, <1>10, <1>11

\* What a single instruction on a job may put in front.
LEMMA AtSingleJob ==
    ASSUME NEW f, Inv(f), NEW t \in Threads, NEW op, Executes(t, op), op \in JobOps, op \in Single,
           NEW j, j = On(t), NEW K, Kept(jobs, K), NEW e, e = Advance(f[t])
    PROVE  /\ ~Active(e) /\ e.b = f[t].b /\ Len(K) = Len(jobs) /\ Len(jobs) \in Nat
           /\ j \in 1..Len(K) /\ K[j].answered /\ (e.b # 0 => j # e.b)
           /\ May(K, e, Do("reasons", j)) /\ May(K, e, RunAt(j, 1)) /\ May(K, e, RunAt(0, 1))
  <1> DEFINE c == f[t]
             m == Len(jobs)
  <1>1. c \in Frame(m) /\ AtWork(c) /\ Now(c).op = op /\ m \in Nat
    BY Executing
  <1>2. ~Active(e) /\ e.b = c.b
    BY <1>1, AtSingle
  <1>3. j \in 1..m /\ jobs[j].answered /\ (c.b # 0 => j # c.b)
    BY AtJob
  <1>4. Len(K) = m /\ K[j].answered
    BY <1>3 DEF Kept
  <1>5. Do("reasons", j) \in Calm(m) /\ RunAt(j, 1) \in Calm(m) /\ RunAt(0, 1) \in Calm(m)
    BY <1>1, <1>3, CalmItems DEF Single
  <1>6. May(K, e, Do("reasons", j))
    BY <1>1, <1>2, <1>3, <1>4, <1>5 DEF May, Do, StartOps
  <1>7. May(K, e, RunAt(j, 1)) /\ May(K, e, RunAt(0, 1))
    BY <1>1, <1>2, <1>3, <1>4, <1>5 DEF May, RunAt, StartOps
  <1> QED BY <1>1, <1>2, <1>3, <1>4, <1>6, <1>7

\* The job has ended and its own handler is still connected.
TidiesNow(j) == jobs[j].own /\ Ended(j)
TidyPuts(j) == IF TidiesNow(j) /\ frozen[j] = 0 THEN Instruction("reasons", j) ELSE <<>>

\* pd_job_impl_job_state_notify
LEMMA TidiesInv ==
    ASSUME NEW f, Inv(f), NEW t \in Threads, Tidies(t),
           NEW g, g = [f EXCEPT ![t] = Onward(f, t, TidyPuts(On(t)))]
    PROVE  Inv(g)'
  <1> DEFINE op == "tidy"
             j == On(t)
             s == TidyPuts(j)
             e == Advance(f[t])
             r == [jobs[j] EXCEPT !.own = @ /\ ~TidiesNow(j),
                                  !.changed = @ \/ (TidiesNow(j) /\ frozen[j] > 0)]
  <1>1. /\ Executes(t, op) /\ UNCHANGED <<owner, frozen, queued, emission, printer, up>>
        /\ Goes(t, s \o Rest(t))
    BY DEF Tidies, TidyPuts, TidiesNow, locks, notes
  <1>2. /\ op \in JobOps /\ op \in Single
        /\ op \notin {"lock", "unlock", "freeze", "thaw", "next", "create", "run", "process"}
    BY DEF JobOps, Single
  <1>3. j \in 1..Len(jobs) /\ jobs[j].answered
    BY <1>1, <1>2, AtJob
  <1>4. jobs \in Seq(JobRecord) /\ jobs[j] \in JobRecord
    BY <1>3 DEF Inv, TypeInv
  <1>5. jobs' = [jobs EXCEPT ![j] = r]
    BY <1>3, <1>4 DEF Tidies, JobRecord, TidiesNow
  <1>6. r \in JobRecord /\ JobStep(f, j, r)
    <2>1. jobs[j] \in JobRecord
      BY <1>3, JobFacts
    <2>2. /\ r.answered = jobs[j].answered /\ r.started = jobs[j].started
          /\ r.state = jobs[j].state /\ r.backend_started = jobs[j].backend_started
          /\ r.running = jobs[j].running
      BY ONLY <2>1 DEF JobRecord
    <2>3. r \in JobRecord
      <3> DEFINE a == jobs[j].own /\ ~TidiesNow(j)
                 b == jobs[j].changed \/ (TidiesNow(j) /\ frozen[j] > 0)
      <3>1. a \in BOOLEAN /\ b \in BOOLEAN
        BY ONLY <2>1 DEF JobRecord
      <3>2. r = [jobs[j] EXCEPT !.own = a, !.changed = b]
        OBVIOUS
      <3> HIDE DEF a, b, r
      <3> QED BY ONLY <2>1, <3>1, <3>2, SetTidy
    <2>4. r.changed <=> jobs[j].changed \/ (TidiesNow(j) /\ frozen[j] > 0)
      BY ONLY <2>1 DEF JobRecord
    <2> HIDE DEF r, j
    <2> QED BY <1>3, <2>2, <2>3, <2>4, JobStepSame
  <1>7. s # <<>> => s = <<Do("reasons", j)>>
    BY DEF TidyPuts, Instruction, Do
  <1>8. g = [f EXCEPT ![t] = Onward(f, t, s)]
    OBVIOUS
  <1> HIDE DEF op, j, r, s
  <1>9. /\ Kept(jobs, jobs') /\ Alters(jobs', j)
        /\ \A k \in Ids : jobs'[k].changed => frozen[k] > 0
        /\ JobsFit(jobs', Early(jobs, f["main"]), queued')
    BY <1>1, <1>3, <1>5, <1>6, AlterFits
  <1>10. TypeInv' /\ \A o \in queued' : frozen[o] > 0
    BY <1>1, <1>9 DEF Inv, TypeInv, Alters, NoteInv
  <1>11. ~Active(e) /\ May(jobs', e, Do("reasons", j))
    BY <1>1, <1>2, <1>9, AtSingleJob DEF j
  <1>12. s # <<>> => ~Active(e) /\ Puts(jobs', Early(jobs, f["main"]), e, s)
    BY <1>7, <1>11, PutsOne
  <1> QED BY <1>1, <1>2, <1>8, <1>9, <1>10, <1>12, QuietStep DEF Begun

\* The job is the next one, and the printer is idle.
StartsNow(j) == jobs[j].watched /\ jobs[j].state = "pending" /\ printer.state = "idle"
EnginePuts(j) == IF StartsNow(j) THEN StartJob(j) ELSE <<>>

\* pd_engine_job_state_notify
LEMMA EnginesInv ==
    ASSUME NEW f, Inv(f), NEW t \in Threads, Engines(t),
           NEW g, g = [f EXCEPT ![t] = Onward(f, t, EnginePuts(On(t)))]
    PROVE  Inv(g)'
  <1> DEFINE op == "engine"
             j == On(t)
             s == EnginePuts(j)
             e == Advance(f[t])
             r == [jobs[j] EXCEPT !.watched = @ /\ ~StartsNow(j)
                                        /\ jobs[j].state \in {"pending", "pending-held"}]
  <1>1. /\ Executes(t, op) /\ UNCHANGED <<owner, frozen, queued, emission, printer, up>>
        /\ Goes(t, s \o Rest(t))
    BY DEF Engines, EnginePuts, StartsNow, locks, notes
  <1>2. /\ op \in JobOps /\ op \in Single
        /\ op \notin {"lock", "unlock", "freeze", "thaw", "next", "create", "run", "process"}
    BY DEF JobOps, Single
  <1>3. j \in 1..Len(jobs) /\ jobs[j].answered
    BY <1>1, <1>2, AtJob
  <1>4. jobs \in Seq(JobRecord) /\ jobs[j] \in JobRecord
    BY <1>3 DEF Inv, TypeInv
  <1>5. jobs' = [jobs EXCEPT ![j] = r]
    BY <1>3, <1>4 DEF Engines, JobRecord, StartsNow
  <1>6. r \in JobRecord /\ JobStep(f, j, r)
    <2>1. jobs[j] \in JobRecord
      BY <1>3, JobFacts
    <2>2. /\ r.answered = jobs[j].answered /\ r.started = jobs[j].started
          /\ r.state = jobs[j].state /\ r.backend_started = jobs[j].backend_started
          /\ r.running = jobs[j].running /\ r.changed = jobs[j].changed
      BY ONLY <2>1 DEF JobRecord
    <2>3. r \in JobRecord
      BY ONLY <2>1 DEF JobRecord
    <2> HIDE DEF r, j
    <2> QED BY <1>3, <2>2, <2>3, JobStepSame
  <1>7. s # <<>> => s = StartJob(j) /\ j \notin Early(jobs, f["main"])
    BY <1>3, JobFacts DEF EnginePuts, StartsNow
  <1>8. g = [f EXCEPT ![t] = Onward(f, t, s)]
    OBVIOUS
  <1> HIDE DEF op, j, r, s
  <1>9. /\ Kept(jobs, jobs') /\ Alters(jobs', j)
        /\ \A k \in Ids : jobs'[k].changed => frozen[k] > 0
        /\ JobsFit(jobs', Early(jobs, f["main"]), queued')
    BY <1>1, <1>3, <1>5, <1>6, AlterFits
  <1>10. TypeInv' /\ \A o \in queued' : frozen[o] > 0
    BY <1>1, <1>9 DEF Inv, TypeInv, Alters, NoteInv
  <1>11. /\ ~Active(e) /\ j \in 1..Len(jobs') /\ jobs'[j].answered /\ (e.b # 0 => j # e.b)
         /\ Len(jobs') \in Nat
    BY <1>1, <1>2, <1>9, AtSingleJob DEF j
  <1>12. s # <<>> => ~Active(e) /\ Puts(jobs', Early(jobs, f["main"]), e, s)
    BY <1>7, <1>11, PutsStart
  <1> QED BY <1>1, <1>2, <1>8, <1>9, <1>10, <1>12, QuietStep DEF Begun

\* pd_engine_start_job makes the printer busy ...
LEMMA BusiesInv ==
    ASSUME NEW f, Inv(f), NEW t \in Threads, Busies(t),
           NEW g, g = [f EXCEPT ![t] = Onward(f, t, Told(0))]
    PROVE  Inv(g)'
  <1> DEFINE op == "busy"
             s == Told(0)
             e == Advance(f[t])
  <1>1. /\ Executes(t, op) /\ UNCHANGED <<owner, jobs, up>> /\ Notify(t, 0, Rest(t))
        /\ printer' = [printer EXCEPT !.state = "processing"]
    BY DEF Busies, locks
  <1>2. /\ op \in JobOps /\ op \in Single
        /\ op \notin {"lock", "unlock", "freeze", "thaw", "next", "create", "run", "process"}
    BY DEF JobOps, Single
  <1>3. 0 \in Objects /\ 0 \in 0..Len(jobs) /\ 0 \notin 1..Len(jobs) /\ frozen[0] \in Nat
    BY ThreadsAssumption DEF Objects, Inv, TypeInv
  <1>4. /\ Goes(t, s \o Rest(t)) /\ frozen' = frozen
        /\ queued' = IF frozen[0] > 0 THEN queued \cup {0} ELSE queued
        /\ emission' \in [Objects -> {"none", "on", "restart"}]
        /\ \A p \in Objects : emission'[p] # "none" =>
             emission[p] # "none" \/ (p = 0 /\ s = <<RunAt(0, 1)>>)
    BY <1>1, <1>3, Notified
  <1>5. s # <<>> => s = <<RunAt(0, 1)>>
    BY DEF Told
  <1>6. g = [f EXCEPT ![t] = Onward(f, t, s)]
    OBVIOUS
  <1> HIDE DEF op, s
  <1>7. Kept(jobs, jobs')
    BY <1>1, KeptSame
  <1>8. TypeInv'
    BY <1>1, <1>3, <1>4 DEF Inv, TypeInv
  <1>9. /\ \A o \in queued' : frozen[o] > 0
        /\ \A j \in Ids : jobs'[j].changed => frozen[j] > 0
    BY <1>1, <1>3, <1>4 DEF Inv, NoteInv
  <1>10. JobsFit(jobs', Early(jobs, f["main"]), queued')
    BY <1>1, <1>3, <1>4 DEF Inv, JobInv, JobsFit
  <1>11. ~Active(e) /\ May(jobs', e, RunAt(0, 1))
    BY <1>1, <1>2, <1>7, AtSingleJob
  <1>12. s # <<>> => ~Active(e) /\ Puts(jobs', Early(jobs, f["main"]), e, s)
    BY <1>5, <1>11, PutsOne
  <1>13. Begun(s) /\ UNCHANGED <<owner, frozen>>
    BY <1>1, <1>4 DEF Begun
  <1> QED BY <1>1, <1>2, <1>4, <1>6, <1>7, <1>8, <1>9, <1>10, <1>12, <1>13, QuietStep

\* ... and the job processing.
LEMMA ProcessesInv ==
    ASSUME NEW f, Inv(f), NEW t \in Threads, Processes(t),
           NEW g, g = [f EXCEPT ![t] = Onward(f, t, Told(On(t)))]
    PROVE  Inv(g)'
  <1> DEFINE op == "process"
             j == On(t)
             s == Told(j)
             e == Advance(f[t])
             r == [jobs[j] EXCEPT !.state = "processing"]
  <1>1. /\ Executes(t, op) /\ UNCHANGED <<owner, printer, up>> /\ Notify(t, j, Rest(t))
        /\ jobs' = [jobs EXCEPT ![j] = r]
    BY DEF Processes, locks
  <1>2. /\ op \in JobOps /\ op \in Single /\ op \in StartOps
        /\ op \notin {"lock", "unlock", "freeze", "thaw", "next", "create", "run"}
    BY DEF JobOps, Single, StartOps
  <1>3. /\ j \in 1..Len(jobs) /\ jobs[j].answered /\ j \in Objects
        /\ j \notin Early(jobs, f["main"])
    BY <1>1, <1>2, AtJob
  <1>4. /\ Goes(t, s \o Rest(t)) /\ frozen' = frozen
        /\ queued' = IF frozen[j] > 0 THEN queued \cup {j} ELSE queued
        /\ emission' \in [Objects -> {"none", "on", "restart"}]
        /\ \A p \in Objects : emission'[p] # "none" =>
             emission[p] # "none" \/ (p = j /\ s = <<RunAt(j, 1)>>)
    BY <1>1, <1>3, Notified
  <1>5. s # <<>> => s = <<RunAt(j, 1)>>
    BY DEF Told
  <1>6. r \in JobRecord /\ JobStep(f, j, r) /\ r.state = "processing"
    BY <1>3, JobFacts DEF JobRecord, JobStep
  <1>7. g = [f EXCEPT ![t] = Onward(f, t, s)]
    OBVIOUS
  <1> HIDE DEF op, s, j, r
  <1>8. /\ Kept(jobs, jobs') /\ Alters(jobs', j) /\ jobs'[j] = r
        /\ \A k \in Ids : jobs'[k].changed => frozen[k] > 0
        /\ JobsFit(jobs', Early(jobs, f["main"]), queued')
    <2>1. \A k \in queued' : k \in 1..Len(jobs) => k \in queued \/ jobs[k].answered
      BY <1>3, <1>4
    <2> QED BY <1>1, <1>3, <1>6, <2>1, AlterFits
  <1>9. TypeInv'
    <2>1. j \in 0..Len(jobs)
      BY <1>3
    <2> QED BY <1>1, <1>4, <1>8, <2>1 DEF Inv, TypeInv, Alters
  <1>10. \A o \in queued' : frozen[o] > 0
    BY <1>3, <1>4 DEF Inv, NoteInv
  <1>11. ~Active(e) /\ May(jobs', e, RunAt(j, 1))
    BY <1>1, <1>2, <1>8, AtSingleJob DEF j
  <1>12. s # <<>> => ~Active(e) /\ Puts(jobs', Early(jobs, f["main"]), e, s)
    BY <1>5, <1>11, PutsOne
  <1>13. Begun(s) /\ UNCHANGED <<owner, frozen>>
    BY <1>1, <1>4 DEF Begun
  <1>14. jobs'[On(t)].state # "pending"
    BY <1>6, <1>8 DEF j
  <1> QED BY <1>1, <1>2, <1>4, <1>7, <1>8, <1>9, <1>10, <1>12, <1>13, <1>14, QuietStep

-----------------------------------------------------------------------------
(* Steps into a nested block                                                *)

Inward(f, t, s, seg, k) == Into(Onward(f, t, s), seg, k)
Inside(f, t, s, seg, k, d) == d = Inward(f, t, s, seg, k)

\* The thread holds what it held, and remembers what it had to do.
Same(f, t, s, d) ==
    /\ \A l \in Nat : Holds(d, l) <=> Holds(f[t], l)
    /\ \A l \in Nat : Froze(d, l) <=> Froze(f[t], l)
    /\ \A y : Has(f[t], y) => y = Now(f[t]) \/ Has(d, y)
    /\ \A i \in 1..Len(s) : Has(d, s[i])

\* A step that calls a nested block.
LEMMA IntoStep ==
    ASSUME NEW f, Inv(f), NEW t \in Threads, NEW op, Executes(t, op), op # "process",
           ~Active(Advance(f[t])), NEW s,
           s # <<>> => Puts(jobs, Early(jobs, f["main"]), Advance(f[t]), s),
           NEW seg \in Nested, NEW k \in 0..Len(jobs), k = 0 <=> seg \in Jobless,
           k # 0 => jobs[k].answered, Advance(f[t]).b # 0 => k # Advance(f[t]).b,
           seg = "send" => k \notin Early(jobs, f["main"]) /\ jobs[k].state # "pending",
           Goes(t, Block(seg, k) \o (s \o Rest(t))),
           UNCHANGED <<owner, frozen, queued, emission, printer, jobs, up>>,
           NEW d, Inside(f, t, s, seg, k, d), NEW g, Moved(f, t, d, g), Same(f, t, s, d),
           op = "run" => \E i \in 1..4 : Has(d, RunAt(On(t), i))
    PROVE  Inv(g)'
  <1> DEFINE c == f[t]
             e == Advance(c)
             p == Push(e, s)
             m == Len(jobs)
             E == Early(jobs', g["main"])
  <1>1. /\ c \in Frame(m) /\ AtWork(c) /\ Now(c).op = op
        /\ Rest(t) = Code(e) /\ e \in Frame(m) /\ m \in Nat /\ On(t) = Now(c).on
    BY Executing
  <1>2. d = Into(p, seg, k) /\ p.b = e.b /\ ~Active(p)
    BY DEF Inward, Onward, Push, Active, Inside
  <1>3. p \in Frame(m) /\ Code(p) = s \o Rest(t)
    <2>1. CASE s = <<>>
      BY <2>1, <1>1, PushNone
    <2>2. CASE s # <<>>
      BY <2>2, <1>1, Pushes DEF Puts
    <2> QED BY <2>1, <2>2
  <1> HIDE DEF p, E
  <1>4. d \in Frame(m) /\ Code(d) = Block(seg, k) \o Code(p)
    BY <1>1, <1>2, <1>3, Intos
  <1>5. Follows(c, d) /\ NoneNew(c, d)
    BY <1>2, IntoFollows DEF Follows
  <1>6. Kept(jobs, jobs') /\ Len(jobs') = Len(jobs)
    BY KeptSame
  <1>7. /\ E \subseteq Early(jobs, f["main"])
        /\ \A u \in Threads : Fits(jobs', E, u, f[u])
    BY <1>5, <1>6, Stays DEF E
  <1>8. Fits(jobs', E, t, e)
    BY <1>1, <1>6, <1>7, AdvanceFits
  <1>9. Fits(jobs', E, t, p)
    <2>1. CASE s = <<>>
      BY <2>1, <1>1, <1>8, PushNone DEF p
    <2>2. CASE s # <<>>
      <3>1. Puts(jobs', E, e, s)
        BY <2>2, <1>7 DEF Puts
      <3> HIDE DEF e, c
      <3> QED BY <3>1, <1>1, <1>6, <1>8, PushFits DEF Puts, p, e, c
    <2> QED BY <2>1, <2>2
  <1>10. Fits(jobs', E, t, d)
    <2>1. /\ k \in 0..Len(jobs') /\ (k # 0 => jobs'[k].answered) /\ (p.b # 0 => k # p.b)
          /\ seg = "send" => k \notin E /\ jobs'[k].state # "pending"
          /\ Len(jobs') \in Nat
      BY <1>1, <1>2, <1>6, <1>7
    <2> QED BY <2>1, <1>2, <1>9, IntoFits
  <1>11. todo' = [todo EXCEPT ![t] = Code(d)]
    BY <1>3, <1>4 DEF Goes
  <1>12. FrameInv(g)' /\ RoomInv(g)'
    BY <1>5, <1>6, <1>7, <1>10, <1>11, FrameStep DEF E
  <1>13. LockInv(g)' /\ FreezeInv(g)'
    BY LockStep, FreezeStep DEF Same
  <1>14. EmissionInv(g)'
    <2>1. /\ \A o \in Objects, n \in 1..4 : Has(f[t], RunAt(o, n)) =>
                emission'[o] = "none" \/ \E i \in 1..4 : Has(d, RunAt(o, i))
          /\ \A o \in Objects : emission'[o] # "none" =>
                emission[o] # "none" \/ Has(d, RunAt(o, 1))
      BY <1>1 DEF Same, RunAt
    <2> QED BY <2>1, EmissionStep
  <1>15. NoteInv(g)' /\ TypeInv'
    BY <1>14 DEF Inv, NoteInv, TypeInv, Ids
  <1>16. JobInv(g)'
    BY <1>7 DEF Inv, JobInv, JobsFit, E
  <1> QED BY <1>12, <1>13, <1>15, <1>16 DEF Inv

\* A single instruction that calls a block leaves what is held as it was.
LEMMA IntoSame ==
    ASSUME NEW f, Inv(f), NEW t \in Threads, NEW op, Executes(t, op), op \in Single,
           NEW s, s = <<>> \/ s \in Seq(Calm(Len(jobs))),
           NEW seg \in {"free", "next", "send"}, NEW k, NEW d, Inside(f, t, s, seg, k, d)
    PROVE  ~Active(Advance(f[t])) /\ Advance(f[t]).b = f[t].b /\ Same(f, t, s, d)
  <1> DEFINE c == f[t]
             e == Advance(c)
             p == Push(e, s)
             m == Len(jobs)
             x == Now(c)
  <1>1. /\ c \in Frame(m) /\ AtWork(c) /\ Apart(c) /\ x.op = op
        /\ e \in Frame(m) /\ m \in Nat /\ m <= MaxJobs
    BY Executing
  <1>2. ~Active(e) /\ e.b = c.b
    BY <1>1, AtSingle
  <1>3. d = Into(p, seg, k) /\ ~Active(p)
    BY <1>2 DEF Inward, Onward, Push, Active, Inside
  <1>4. p \in Frame(m)
    <2>1. CASE s = <<>>
      BY <2>1, <1>1, PushNone
    <2>2. CASE s \in Seq(Calm(m))
      BY <2>2, <1>1, <1>2, Pushes
    <2> QED BY <2>1, <2>2
  <1>5. \A y : (Has(e, y) => Has(p, y)) /\ \A i \in 1..Len(s) : Has(p, s[i])
    <2>1. CASE s = <<>>
      BY <2>1, <1>1, PushNone
    <2>2. CASE s \in Seq(Calm(m))
      BY <2>2, <1>1, PushHas
    <2> QED BY <2>1, <2>2
  <1>6. op \notin {"lock", "unlock", "freeze", "thaw", "next", "create"}
    BY DEF Single
  <1>7. Holding(c, e, x) /\ Freezing(c, e, x)
    BY <1>1, <1>6, AdvanceHolds
  <1>8. \A l \in Nat : (Holds(p, l) <=> Holds(e, l)) /\ (Froze(p, l) <=> Froze(e, l))
    BY PushHolds
  <1>9. \A y : Has(c, y) => y = x \/ Has(e, y)
    BY <1>1, AdvanceHas
  <1> HIDE DEF p, e, c, x
  <1>10. \A l \in Nat : (Holds(d, l) <=> Holds(p, l)) /\ (Froze(d, l) <=> Froze(p, l))
    BY <1>1, <1>3, <1>4, IntoHolds
  <1>11. \A y : Has(d, y) <=> Has(p, y)
    BY <1>3, IntoHas
  <1>12. \A l \in Nat : (Holds(d, l) <=> Holds(c, l)) /\ (Froze(d, l) <=> Froze(c, l))
    BY <1>1, <1>6, <1>7, <1>8, <1>10 DEF Holding, Freezing
  <1> QED BY <1>2, <1>5, <1>9, <1>11, <1>12 DEF c, x, e, Same

LooksTo(f, t) == IF printer.state = "idle" THEN Inward(f, t, <<>>, "next", 0)
                 ELSE Advance(f[t])

\* pd_engine_printer_state_notify
LEMMA LooksInv ==
    ASSUME NEW f, Inv(f), NEW t \in Threads, Looks(t),
           NEW g, g = [f EXCEPT ![t] = LooksTo(f, t)]
    PROVE  Inv(g)'
  <1> DEFINE op == "look"
             e == Advance(f[t])
  <1>1. /\ Executes(t, op)
        /\ UNCHANGED <<owner, frozen, queued, emission, printer, jobs, up>>
        /\ Goes(t, (IF printer.state = "idle" THEN NextJob ELSE <<>>) \o Rest(t))
    BY DEF Looks, locks, notes
  <1>2. /\ op \in Single /\ op # "process" /\ op # "run"
        /\ op \notin {"lock", "unlock", "freeze", "thaw", "next", "create", "run", "process"}
    BY DEF Single
  <1>3. <<>> \o Rest(t) = Rest(t) /\ Len(jobs) \in Nat
    BY <1>1, Executing, Codes, JoinEmpty
  <1> HIDE DEF op
  <1>4. CASE printer.state = "idle"
    <2> DEFINE s == <<>>
               seg == "next"
               k == 0
               d == Inward(f, t, s, seg, k)
    <2>1. /\ seg \in Nested /\ seg \in {"free", "next", "send"} /\ k \in 0..Len(jobs)
          /\ k = 0 /\ seg \in Jobless /\ seg # "send" /\ s = <<>>
      BY <1>3 DEF Nested, Jobless
    <2>2. Moved(f, t, d, g) /\ Inside(f, t, s, seg, k, d)
      BY <1>4 DEF Inside, Moved, LooksTo
    <2>3. Block(seg, k) = NextJob
      BY DEF Block
    <2>4. Goes(t, Block(seg, k) \o (s \o Rest(t)))
      BY <1>1, <1>3, <1>4, <2>3
    <2> HIDE DEF s, seg, k, d
    <2>5. ~Active(e) /\ e.b = f[t].b /\ Same(f, t, s, d)
      BY <1>1, <1>2, <2>1, <2>2, IntoSame
    <2> QED BY <1>1, <1>2, <2>1, <2>2, <2>4, <2>5, IntoStep
  <1>5. CASE printer.state # "idle"
    <2>1. Goes(t, Rest(t)) /\ g = [f EXCEPT ![t] = e]
      BY <1>1, <1>3, <1>5 DEF LooksTo
    <2>2. TypeInv' /\ Kept(jobs, jobs')
      BY <1>1, KeptSame DEF Inv, TypeInv
    <2>3. /\ \A o \in queued' : frozen[o] > 0
          /\ \A j \in Ids : jobs'[j].changed => frozen[j] > 0
          /\ JobsFit(jobs', Early(jobs, f["main"]), queued')
      BY <1>1 DEF Inv, NoteInv, JobInv
    <2> QED BY <1>1, <1>2, <2>1, <2>2, <2>3, QuietAdvance
  <1> QED BY <1>4, <1>5

TestsTo(f, t) == IF printer.job_outgoing THEN Advance(f[t])
                 ELSE Inward(f, t, <<>>, "send", On(t))

\* A job that is tested has been made processing.
LEMMA TestedJob ==
    ASSUME NEW f, Inv(f), NEW t \in Threads, Executes(t, "test"), NEW j, j = On(t),
           j \in 1..Len(jobs)
    PROVE  jobs[j].state # "pending"
  <1> DEFINE c == f[t]
             x == Now(c)
             op == "test"
  <1>1. /\ c \in Frame(Len(jobs)) /\ AtWork(c) /\ x.op = op /\ j = x.on
        /\ Fits(jobs, Early(jobs, f["main"]), t, c) /\ Len(jobs) \in Nat
    BY Executing
  <1>2. op \in Single /\ op = "test"
    BY DEF Single
  <1> HIDE DEF op, c, x
  <1>3. x = c.r[1] /\ 1 \in 1..Len(c.r)
    <2>1. x = Now(c)
      BY DEF x
    <2> QED BY <1>1, <1>2, <2>1, AtSingle
  <1>4. ~Ordered(c.r, j)
    BY <1>1, <1>2, <1>3 DEF Ordered
  <1>5. jobs[j].state = "pending" => Ordered(c.r, j)
    BY <1>1 DEF Fits
  <1> QED BY <1>4, <1>5

\* The slot is looked at.
LEMMA TestsInv ==
    ASSUME NEW f, Inv(f), NEW t \in Threads, Tests(t),
           NEW g, g = [f EXCEPT ![t] = TestsTo(f, t)]
    PROVE  Inv(g)'
  <1> DEFINE op == "test"
             k == On(t)
             e == Advance(f[t])
  <1>1. /\ Executes(t, op)
        /\ UNCHANGED <<owner, frozen, queued, emission, printer, jobs, up>>
        /\ Goes(t, (IF printer.job_outgoing THEN <<>>
                    ELSE Instruction("claim", k) \o StartSending(k)) \o Rest(t))
    BY DEF Tests, locks, notes
  <1>2. /\ op \in Single /\ op # "process" /\ op # "run" /\ op \in JobOps /\ op \in StartOps
        /\ op \notin {"lock", "unlock", "freeze", "thaw", "next", "create", "run"}
    BY DEF Single, JobOps, StartOps
  <1>3. <<>> \o Rest(t) = Rest(t) /\ Len(jobs) \in Nat
    BY <1>1, Executing, Codes, JoinEmpty
  <1>4. /\ k \in 1..Len(jobs) /\ jobs[k].answered /\ k \notin Early(jobs, f["main"])
        /\ f[t].b # 0 => k # f[t].b
    BY <1>1, <1>2, AtJob
  <1>5. jobs[k].state # "pending"
    BY <1>1, <1>4, TestedJob
  <1>6. k \in 0..Len(jobs) /\ k # 0
    BY <1>3, <1>4
  <1>7. TestsTo(f, t) = IF printer.job_outgoing THEN e ELSE Inward(f, t, <<>>, "send", k)
    BY DEF TestsTo
  <1> HIDE DEF op, k
  <1>8. CASE ~printer.job_outgoing
    <2> DEFINE s == <<>>
               seg == "send"
               d == Inward(f, t, s, seg, k)
    <2>1. /\ seg \in Nested /\ seg \in {"free", "next", "send"}
          /\ seg \notin Jobless /\ s = <<>>
      BY DEF Nested, Jobless
    <2>2. Moved(f, t, d, g) /\ Inside(f, t, s, seg, k, d)
      BY <1>7, <1>8 DEF Inside, Moved
    <2>3. Block(seg, k) = Instruction("claim", k) \o StartSending(k)
      BY DEF Block
    <2>4. Goes(t, Block(seg, k) \o (s \o Rest(t)))
      BY <1>1, <1>3, <1>8, <2>3
    <2> HIDE DEF s, seg, d
    <2>5. ~Active(e) /\ e.b = f[t].b /\ Same(f, t, s, d)
      BY <1>1, <1>2, <2>1, <2>2, IntoSame
    <2>6. e.b # 0 => k # e.b
      BY <1>4, <2>5
    <2> QED BY <1>1, <1>2, <1>4, <1>5, <1>6, <2>1, <2>2, <2>4, <2>5, <2>6, IntoStep
  <1>9. CASE printer.job_outgoing
    <2>1. Goes(t, Rest(t)) /\ g = [f EXCEPT ![t] = e]
      BY <1>1, <1>3, <1>7, <1>9
    <2>2. TypeInv' /\ Kept(jobs, jobs')
      BY <1>1, KeptSame DEF Inv, TypeInv
    <2>3. /\ \A o \in queued' : frozen[o] > 0
          /\ \A i \in Ids : jobs'[i].changed => frozen[i] > 0
          /\ JobsFit(jobs', Early(jobs, f["main"]), queued')
      BY <1>1 DEF Inv, NoteInv, JobInv
    <2> QED BY <1>1, <1>2, <2>1, <2>2, <2>3, QuietAdvance
  <1> QED BY <1>8, <1>9


\* What the engine does with the next job, if there is one.
NextPuts(s) ==
    \/ Pending = {} /\ s = <<>>
    \/ \E k \in Pending : /\ \A i \in Pending : k <= i
                          /\ s = Instruction("assert", k) \o StartJob(k)

\* The next job, if any, is asserted and started after the lock is released.
LEMMA NextsGoes ==
    ASSUME NEW f, Inv(f), NEW t \in Threads, Nexts(t)
    PROVE  \E s : NextPuts(s) /\ Goes(t, Unlock(0) \o (s \o Rest(t)))
  <1>1. /\ Executes(t, "next") /\ Rest(t) \in Seq(Item)
        /\ Len(jobs) \in Nat
    BY Executing, Codes DEF Nexts
  <1>2. Unlock(0) \in Seq(Item)
    BY DEF Unlock, Instruction, Item, Ops
  <1>3. CASE Pending = {} /\ Goes(t, Unlock(0) \o Rest(t))
    <2>1. <<>> \o Rest(t) = Rest(t)
      BY <1>1, JoinEmpty
    <2> QED BY <1>3, <2>1 DEF NextPuts
  <1>4. CASE \E k \in Pending :
                /\ \A i \in Pending : k <= i
                /\ Goes(t, Unlock(0) \o Instruction("assert", k) \o StartJob(k) \o Rest(t))
    <2>1. PICK k \in Pending :
                /\ \A i \in Pending : k <= i
                /\ Goes(t, Unlock(0) \o Instruction("assert", k) \o StartJob(k) \o Rest(t))
      BY <1>4
    <2> DEFINE a == Instruction("assert", k)
               b == StartJob(k)
               u == Unlock(0)
               r == Rest(t)
    <2>2. a \in Seq(Item) /\ b \in Seq(Item)
      <3>1. k \in Nat
        BY <1>1 DEF Pending, Ids
      <3>2. a \in Seq(Item)
        BY <3>1 DEF Instruction, Item, Ops, Single
      <3>3. b \in Seq(Item)
        BY <3>1 DEF StartJob, Instruction, Item, Ops, Single
      <3> QED BY <3>2, <3>3
    <2>3. u \in Seq(Item) /\ r \in Seq(Item)
      BY <1>1, <1>2
    <2>4. Goes(t, ((u \o a) \o b) \o r)
      BY <2>1
    <2>5. NextPuts(a \o b)
      BY <2>1 DEF NextPuts
    <2> HIDE DEF a, b, u, r
    <2>6. ((u \o a) \o b) \o r = u \o ((a \o b) \o r)
      <3>1. u \o a \in Seq(Item) /\ b \o r \in Seq(Item)
        BY <2>2, <2>3, JoinType
      <3>2. ((u \o a) \o b) \o r = (u \o a) \o (b \o r)
        <4> DEFINE v == u \o a
        <4>1. v \in Seq(Item)
          BY <3>1
        <4> HIDE DEF v
        <4>2. (v \o b) \o r = v \o (b \o r)
          BY ONLY <2>2, <2>3, <4>1, SMTT(60)
        <4> QED BY <4>2 DEF v
      <3>3. (u \o a) \o (b \o r) = u \o (a \o (b \o r))
        <4> DEFINE v == b \o r
        <4>1. v \in Seq(Item)
          BY <3>1
        <4> HIDE DEF v
        <4>2. (u \o a) \o v = u \o (a \o v)
          BY ONLY <2>2, <2>3, <4>1, SMTT(60)
        <4> QED BY <4>2 DEF v
      <3>4. (a \o b) \o r = a \o (b \o r)
        BY ONLY <2>2, <2>3, SMTT(60)
      <3> QED BY <3>2, <3>3, <3>4
    <2> QED BY <2>4, <2>5, <2>6 DEF u, r
  <1> QED BY <1>3, <1>4 DEF Nexts

\* Whether there is one or not, the printer's lock stays held until then.
LEMMA NextSame ==
    ASSUME NEW f, Inv(f), NEW t \in Threads, Executes(t, "next"),
           NEW s, s = <<>> \/ s \in Seq(Calm(Len(jobs))),
           NEW d, Inside(f, t, s, "unlock", 0, d)
    PROVE  ~Active(Advance(f[t])) /\ Advance(f[t]).b = f[t].b /\ Same(f, t, s, d)
  <1> DEFINE c == f[t]
             e == Advance(c)
             p == Push(e, s)
             m == Len(jobs)
             x == Now(c)
  <1>1. /\ c \in Frame(m) /\ AtWork(c) /\ x.op = "next" /\ x = Now(c)
        /\ e \in Frame(m) /\ e = Advance(c) /\ m \in Nat /\ m <= MaxJobs
    BY Executing
  <1>2. d = Into(p, "unlock", 0) /\ p = Push(e, s)
    BY DEF Inward, Onward, Inside
  <1> HIDE DEF c, e, p, m, x
  <1>3. Active(c) /\ c.seg = "next" /\ c.n = 2 /\ c.j = 0
    BY <1>1, AtBlock DEF Single, Jobless
  <1>4. e.seg = c.seg /\ e.j = c.j /\ e.n = 3 /\ e.r = c.r /\ e.b = c.b
    BY <1>1, <1>3, AdvanceFields
  <1>5. ~Active(e)
    BY <1>3, <1>4 DEF Active, Size, Methods
  <1>6. d.seg = "unlock" /\ d.j = 0 /\ d.n = 1 /\ d.b = c.b
    BY <1>2, <1>4 DEF Into, Push
  <1>7. \A l \in Nat : (Holds(d, l) <=> Holds(c, l)) /\ (Froze(d, l) <=> Froze(c, l))
    BY <1>3, <1>6 DEF Holds, Froze, HoldsPrinter, HoldsEngine, FreezesPrinter, FreezesJob,
                      HoldsJob, Methods
  <1>8. \A y : (Has(e, y) => Has(p, y)) /\ \A i \in 1..Len(s) : Has(p, s[i])
    <2>1. CASE s = <<>>
      BY <2>1, <1>1, <1>2, PushNone
    <2>2. CASE s \in Seq(Calm(m))
      BY <2>2, <1>1, <1>2, PushHas
    <2> QED BY <2>1, <2>2 DEF m
  <1>9. \A y : Has(c, y) <=> Has(e, y)
    BY <1>4 DEF Has
  <1>10. \A y : Has(d, y) <=> Has(p, y)
    BY <1>2, IntoHas
  <1> QED BY <1>4, <1>5, <1>7, <1>8, <1>9, <1>10 DEF c, e, Same

\* pd_printer_impl_get_next_job
LEMMA NextsInv ==
    ASSUME NEW f, Inv(f), NEW t \in Threads, Nexts(t), NEW s, NextPuts(s),
           Goes(t, Unlock(0) \o (s \o Rest(t))),
           NEW g, g = [f EXCEPT ![t] = Inward(f, t, s, "unlock", 0)]
    PROVE  Inv(g)'
  <1> DEFINE op == "next"
             seg == "unlock"
             k == 0
             E == Early(jobs, f["main"])
             d == Inward(f, t, s, seg, k)
             e == Advance(f[t])
  <1>1. /\ Executes(t, op)
        /\ UNCHANGED <<owner, frozen, queued, emission, printer, jobs, up>>
    BY DEF Nexts, locks, notes
  <1>2. /\ op # "process" /\ op # "run" /\ seg \in Nested /\ seg \in Jobless /\ seg # "send"
        /\ k = 0 /\ k \in 0..Len(jobs) /\ Len(jobs) \in Nat
    BY <1>1, Executing DEF Nested, Jobless
  <1>3. Block(seg, k) = Unlock(0)
    BY DEF Block
  <1>4. Goes(t, Block(seg, k) \o (s \o Rest(t)))
    BY <1>3
  <1>5. Moved(f, t, d, g) /\ Inside(f, t, s, seg, k, d)
    BY DEF Moved, Inside
  <1>6. s # <<>> => Puts(jobs, E, e, s)
    <2>1. CASE s = <<>>
      BY <2>1
    <2>2. CASE s # <<>>
      <3>1. PICK i \in Pending : s = Instruction("assert", i) \o StartJob(i)
        BY <2>2 DEF NextPuts
      <3>2. i \in 1..Len(jobs) /\ jobs[i].state = "pending"
        BY <3>1 DEF Pending, Ids
      <3>3. jobs[i].answered /\ i \notin E /\ ~jobs[i].backend_started
        BY <3>2, JobFacts
      <3>4. f[t].b # 0 => i # f[t].b
        <4>1. Fits(jobs, E, t, f[t])
          BY <1>1, Executing
        <4> QED BY <3>3, <4>1 DEF Fits
      <3>5. e.b = f[t].b
        <4> DEFINE c == f[t]
                   x == Now(c)
        <4>1. c \in Frame(Len(jobs)) /\ AtWork(c) /\ x.op = op /\ x = Now(c)
              /\ Len(jobs) <= MaxJobs
          BY <1>1, Executing
        <4>2. e = Advance(c)
          OBVIOUS
        <4> HIDE DEF c, x, e
        <4>3. Active(c) /\ c.seg = "next" /\ c.n = 2
          BY <1>2, <4>1, AtBlock DEF Single
        <4> QED BY <1>2, <4>1, <4>2, <4>3, AdvanceFields DEF c
      <3> HIDE DEF E, e
      <3>6. Puts(jobs, E, e, Instruction("assert", i) \o StartJob(i))
        BY <1>2, <3>2, <3>3, <3>4, <3>5, PutsStart
      <3> QED BY <3>1, <3>6
    <2> QED BY <2>1, <2>2
  <1>7. s = <<>> \/ s \in Seq(Calm(Len(jobs)))
    BY <1>6 DEF Puts
  <1>8. ~Active(e) /\ e.b = f[t].b /\ Same(f, t, s, d)
    BY <1>1, <1>5, <1>7, NextSame
  <1>9. e.b # 0 => k # e.b
    BY <1>2
  <1> HIDE DEF op, seg, k, d
  <1> QED BY <1>1, <1>2, <1>4, <1>5, <1>6, <1>8, <1>9, IntoStep


-----------------------------------------------------------------------------
(* Emissions                                                                *)

\* An emission is of the printer or of a job that is known, and never of the one
\* whose message the thread handles.
LEMMA AtRun ==
    ASSUME NEW f, Inv(f), NEW t \in Threads, Executes(t, "run"), NEW o, o = On(t),
           NEW n, n = Head(todo[t]).handler, NEW e, e = Advance(f[t])
    PROVE  /\ Now(f[t]) = RunAt(o, n) /\ n \in 1..4 /\ o \in 0..Len(jobs) /\ o \in Objects
           /\ ~Active(f[t]) /\ ~Active(e) /\ e.b = f[t].b /\ Len(jobs) \in Nat
           /\ o # 0 => o \in 1..Len(jobs) /\ jobs[o].answered
           /\ e.b # 0 => o # e.b
           /\ \A i \in 1..4 : May(jobs, e, RunAt(o, i))
           /\ o # 0 => May(jobs, e, Do("tidy", o)) /\ May(jobs, e, Do("engine", o))
           /\ o = 0 => May(jobs, e, Do("look", 0))
           /\ Rest(t) \in Seq(Item)
  <1> DEFINE c == f[t]
             x == Now(c)
             m == Len(jobs)
             op == "run"
  <1>1. /\ c \in Frame(m) /\ AtWork(c) /\ x.op = op /\ o = x.on /\ n = x.handler
        /\ Fits(jobs, Early(jobs, f["main"]), t, c) /\ m \in Nat /\ x = Now(c)
        /\ m <= MaxJobs /\ Rest(t) \in Seq(Item)
    BY Executing, Codes
  <1>2. op \in Single /\ op = "run"
    BY DEF Single
  <1>3. c = f[t] /\ m = Len(jobs) /\ e = Advance(c)
    OBVIOUS
  <1> HIDE DEF op, c, x, m
  <1>4. /\ ~Active(c) /\ x = c.r[1] /\ 1 \in 1..Len(c.r) /\ o \in 0..m /\ n \in 1..4
        /\ x = RunAt(o, n) /\ ~Active(e) /\ e.b = c.b
    BY <1>1, <1>2, <1>3, AtSingle
  <1>5. o # 0 => o \in 1..m /\ jobs[o].answered
    <2>1. o # 0 => o \in 1..m
      BY <1>1, <1>4
    <2>2. About(c, o)
      BY <1>1, <1>4 DEF About
    <2> QED BY <1>1, <2>1, <2>2 DEF Fits, m
  <1>6. e.b # 0 => o # e.b
    BY <1>1, <1>4 DEF Fits
  <1>7. \A i \in 1..4 : May(jobs, e, RunAt(o, i))
    <2> SUFFICES ASSUME NEW i \in 1..4
                 PROVE  May(jobs, e, RunAt(o, i))
      OBVIOUS
    <2>1. RunAt(o, i) \in Calm(m) /\ RunAt(o, i).op = "run" /\ RunAt(o, i).on = o
      BY <1>1, <1>4, CalmItems DEF RunAt
    <2> QED BY <1>3, <1>5, <1>6, <2>1 DEF May, StartOps
  <1>8. o # 0 => May(jobs, e, Do("tidy", o)) /\ May(jobs, e, Do("engine", o))
    <2> SUFFICES ASSUME o # 0, NEW h \in {"tidy", "engine"}
                 PROVE  May(jobs, e, Do(h, o))
      OBVIOUS
    <2>1. Do(h, o) \in Calm(m) /\ Do(h, o).op = h /\ Do(h, o).on = o
      BY <1>1, <1>5, CalmItems DEF Do, Single
    <2> QED BY <1>3, <1>5, <1>6, <2>1 DEF May, StartOps
  <1>9. o = 0 => May(jobs, e, Do("look", 0))
    <2> SUFFICES ASSUME o = 0
                 PROVE  May(jobs, e, Do("look", 0))
      OBVIOUS
    <2>1. Do("look", 0) \in Calm(m) /\ Do("look", 0).op = "look" /\ Do("look", 0).on = 0
      BY <1>1, CalmItems DEF Do
    <2> QED BY <1>1, <1>3, <2>1 DEF May, StartOps
  <1>10. o \in Objects
    BY <1>1, <1>4, ThreadsAssumption DEF Objects
  <1> QED BY <1>1, <1>3, <1>4, <1>5, <1>6, <1>7, <1>8, <1>9, <1>10

\* The emission goes on with s in front, or ends.
LEMMA RunStep ==
    ASSUME NEW f, Inv(f), NEW t \in Threads, Executes(t, "run"), NEW o, o = On(t),
           NEW s, Goes(t, s \o Rest(t)), NEW d, d = Onward(f, t, s), NEW g, Moved(f, t, d, g),
           s # <<>> => Puts(jobs, Early(jobs, f["main"]), Advance(f[t]), s),
           UNCHANGED <<owner, frozen, queued, printer, jobs, up>>,
           emission' \in [Objects -> {"none", "on", "restart"}],
           \A p \in Objects : emission'[p] # "none" => emission[p] # "none",
           emission'[o] = "none" \/ \E i \in 1..4, h \in 1..Len(s) : s[h] = RunAt(o, i)
    PROVE  Inv(g)'
  <1> DEFINE x == Now(f[t])
             n == Head(todo[t]).handler
             op == "run"
  <1>0. g = [f EXCEPT ![t] = Onward(f, t, s)]
    BY DEF Moved
  <1>1. /\ x = RunAt(o, n) /\ n \in 1..4 /\ ~Active(Advance(f[t])) /\ o \in Objects
    BY AtRun
  <1>2. op \notin {"next", "create"} /\ op # "process" /\ Executes(t, op) /\ Kept(jobs, jobs')
    BY KeptSame
  <1>3. Puts(jobs', Early(jobs, f["main"]), Advance(f[t]), s) \/ s = <<>>
    OBVIOUS
  <1> HIDE DEF op
  <1>4. /\ FrameInv(g)' /\ RoomInv(g)'
        /\ Early(jobs', g["main"]) \subseteq Early(jobs, f["main"])
        /\ Proceeds(f, t, x, d)
        /\ \A i \in 1..Len(s) : Has(d, s[i])
    BY <1>0, <1>1, <1>2, <1>3, Pushing, ZenonT(60)
  <1>5. x.op = "run"
    BY <1>1 DEF RunAt
  <1> HIDE DEF x, n
  <1>7. /\ \A l \in Nat : Holds(d, l) <=> Holds(f[t], l)
        /\ \A l \in Nat : Froze(d, l) <=> Froze(f[t], l)
    BY <1>4, <1>5 DEF Proceeds, Holding, Freezing
  <1>8. LockInv(g)' /\ FreezeInv(g)'
    BY <1>7, LockStep, FreezeStep
  <1>9. EmissionInv(g)'
    <2>1. ASSUME NEW p \in Objects, NEW i \in 1..4, Has(f[t], RunAt(p, i))
          PROVE  emission'[p] = "none" \/ \E h \in 1..4 : Has(d, RunAt(p, h))
      <3>1. CASE p # o
        <4>1. RunAt(p, i) # x
          BY <1>1, <3>1 DEF RunAt
        <4> QED BY <1>4, <2>1, <4>1 DEF Proceeds
      <3>2. CASE p = o
        BY <1>4, <3>2
      <3> QED BY <3>1, <3>2
    <2> QED BY <2>1, EmissionStep
  <1>10. NoteInv(g)'
    BY <1>9 DEF NoteInv, Inv, Ids
  <1>11. JobInv(g)'
    BY <1>4 DEF JobInv, JobsFit, Inv
  <1>12. TypeInv'
    BY DEF Inv, TypeInv
  <1> QED BY <1>4, <1>8, <1>10, <1>11, <1>12 DEF Inv


\* The handlers, one by one.
LEMMA HandlersAre ==
    ASSUME NEW o, NEW H, H = Handlers(o)
    PROVE  /\ o = 0 => Len(H) = 1 /\ H[1] = <<Do("look", 0)>>
           /\ o # 0 => /\ Len(H) = 3 /\ H[1] = <<Do("tidy", o)>> /\ H[2] = <<Do("engine", o)>>
                       /\ H[3] = Block("free", o)
  <1> DEFINE h1 == Instruction("tidy", o)
             h2 == Instruction("engine", o)
             h3 == Enter(0) \o Instruction("free", o) \o Leave(0)
             h == Instruction("look", o)
  <1>1. (o = 0 => H = <<h>>) /\ (o # 0 => H = <<h1, h2, h3>>)
    BY DEF Handlers
  <1>2. h1 = <<Do("tidy", o)>> /\ h2 = <<Do("engine", o)>> /\ h = <<Do("look", o)>>
    BY DEF Instruction, Do
  <1>3. h3 = Block("free", o)
    BY DEF Block
  <1> HIDE DEF h1, h2, h3, h
  <1>4. /\ o = 0 => Len(H) = 1 /\ H[1] = h
        /\ o # 0 => Len(H) = 3 /\ H[1] = h1 /\ H[2] = h2 /\ H[3] = h3
    BY <1>1
  <1> QED BY <1>2, <1>3, <1>4

\* What an emission at handler n of o comes to.
RunPuts(o, n) ==
    CASE emission[o] = "restart"                        -> <<RunAt(o, 1)>>
      [] emission[o] # "restart" /\ o = 0 /\ n = 1      -> <<Do("look", 0)>> \o <<RunAt(0, 2)>>
      [] emission[o] # "restart" /\ o # 0 /\ n = 1      -> <<Do("tidy", o)>> \o <<RunAt(o, 2)>>
      [] emission[o] # "restart" /\ o # 0 /\ n = 2      -> <<Do("engine", o)>> \o <<RunAt(o, 3)>>
      [] emission[o] # "restart" /\ o # 0 /\ n = 3      -> <<RunAt(o, 4)>>
      [] OTHER                                          -> <<>>
ToFree(o, n) == emission[o] # "restart" /\ o # 0 /\ n = 3
RunsTo(f, t, o, n) == IF ToFree(o, n) THEN Inward(f, t, RunPuts(o, n), "free", o)
                      ELSE Onward(f, t, RunPuts(o, n))

\* What an emission puts in front, branch by branch.
LEMMA RunPutsCases ==
    ASSUME NEW o, NEW n
    PROVE  /\ emission[o] = "restart" => RunPuts(o, n) = <<RunAt(o, 1)>>
           /\ emission[o] # "restart" /\ o = 0 /\ n = 1 =>
                RunPuts(o, n) = <<Do("look", 0)>> \o <<RunAt(0, 2)>>
           /\ emission[o] # "restart" /\ o # 0 /\ n = 1 =>
                RunPuts(o, n) = <<Do("tidy", o)>> \o <<RunAt(o, 2)>>
           /\ emission[o] # "restart" /\ o # 0 /\ n = 2 =>
                RunPuts(o, n) = <<Do("engine", o)>> \o <<RunAt(o, 3)>>
           /\ emission[o] # "restart" /\ o # 0 /\ n = 3 => RunPuts(o, n) = <<RunAt(o, 4)>>
           /\ emission[o] # "restart" /\ ~(o = 0 /\ n = 1) /\ ~(o # 0 /\ n \in 1..3) =>
                RunPuts(o, n) = <<>>
  <1> DEFINE q == RunPuts(o, n)
             s1 == <<RunAt(o, 1)>>
             s2 == <<Do("look", 0)>> \o <<RunAt(0, 2)>>
             s3 == <<Do("tidy", o)>> \o <<RunAt(o, 2)>>
             s4 == <<Do("engine", o)>> \o <<RunAt(o, 3)>>
             s5 == <<RunAt(o, 4)>>
             again == emission[o] = "restart"
  <1>1. q = CASE again                            -> s1
              [] ~again /\ o = 0 /\ n = 1         -> s2
              [] ~again /\ o # 0 /\ n = 1         -> s3
              [] ~again /\ o # 0 /\ n = 2         -> s4
              [] ~again /\ o # 0 /\ n = 3         -> s5
              [] OTHER                            -> <<>>
    BY DEF RunPuts
  <1> HIDE DEF q, s1, s2, s3, s4, s5, again
  <1>2. again => q = s1
    BY ONLY <1>1
  <1>3. ~again /\ o = 0 /\ n = 1 => q = s2
    BY ONLY <1>1
  <1>4. ~again /\ o # 0 /\ n = 1 => q = s3
    BY ONLY <1>1
  <1>5. ~again /\ o # 0 /\ n = 2 => q = s4
    BY ONLY <1>1
  <1>6. ~again /\ o # 0 /\ n = 3 => q = s5
    BY ONLY <1>1
  <1>7. ~again /\ ~(o = 0 /\ n = 1) /\ ~(o # 0 /\ n \in 1..3) => q = <<>>
    BY ONLY <1>1
  <1> QED BY ONLY <1>2, <1>3, <1>4, <1>5, <1>6, <1>7 DEF q, s1, s2, s3, s4, s5, again

\* What an emission does next.
LEMMA RunsGoes ==
    ASSUME NEW f, Inv(f), NEW t \in Threads, Runs(t), NEW o, o = On(t),
           NEW n, n = Head(todo[t]).handler, NEW s, s = RunPuts(o, n)
    PROVE  /\ Executes(t, "run") /\ UNCHANGED <<owner, frozen, queued, printer, jobs, up>>
           /\ ToFree(o, n) => Goes(t, Block("free", o) \o (s \o Rest(t)))
           /\ ~ToFree(o, n) => Goes(t, s \o Rest(t))
           /\ emission' \in [Objects -> {"none", "on", "restart"}]
           /\ \A p \in Objects : emission'[p] # "none" => emission[p] # "none"
           /\ s = <<>> => emission'[o] = "none"
           /\ ToFree(o, n) => UNCHANGED emission
  <1>1. /\ Executes(t, "run")
        /\ IF emission[o] = "restart"
           THEN /\ emission' = [emission EXCEPT ![o] = "on"]
                /\ Goes(t, Run(o, 1) \o Rest(t))
           ELSE IF n <= Len(Handlers(o))
           THEN /\ Goes(t, Handlers(o)[n] \o Run(o, n + 1) \o Rest(t))
                /\ UNCHANGED emission
           ELSE /\ emission' = [emission EXCEPT ![o] = "none"]
                /\ Goes(t, Rest(t))
        /\ UNCHANGED <<owner, frozen, queued, printer, jobs, up>>
    BY DEF Runs, locks
  <1>2. o \in Objects /\ n \in 1..4 /\ Rest(t) \in Seq(Item) /\ o \in Nat
    BY <1>1, AtRun DEF Objects
  <1>3. emission \in [Objects -> {"none", "on", "restart"}]
    BY DEF Inv, TypeInv
  <1>4. /\ o = 0 => Len(Handlers(o)) = 1 /\ Handlers(o)[1] = <<Do("look", 0)>>
        /\ o # 0 => /\ Len(Handlers(o)) = 3 /\ Handlers(o)[1] = <<Do("tidy", o)>>
                    /\ Handlers(o)[2] = <<Do("engine", o)>>
                    /\ Handlers(o)[3] = Block("free", o)
    BY HandlersAre
  <1>5. \A i : Run(o, i) = <<RunAt(o, i)>>
    BY DEF Run, RunAt
  <1> DEFINE r == Rest(t)
             B == Block("free", o)
  <1>6. CASE emission[o] = "restart"
    <2> DEFINE y == RunAt(o, 1)
    <2>1. s = <<y>> /\ ~ToFree(o, n)
      BY <1>6, RunPutsCases DEF ToFree
    <2> HIDE DEF y
    <2>2. s # <<>>
      BY ONLY <2>1
    <2>3. emission' = [emission EXCEPT ![o] = "on"] /\ Goes(t, <<y>> \o Rest(t))
      BY <1>1, <1>5, <1>6 DEF y
    <2> QED BY <1>1, <1>2, <1>3, <2>1, <2>2, <2>3
  <1>7. CASE emission[o] # "restart" /\ n > Len(Handlers(o))
    <2>1. s = <<>> /\ ~ToFree(o, n)
      <3>1. ~(o = 0 /\ n = 1) /\ ~(o # 0 /\ n \in 1..3)
        <4>1. o = 0 => n > 1
          BY ONLY <1>4, <1>7
        <4>2. o # 0 => n > 3
          BY ONLY <1>4, <1>7
        <4> QED BY ONLY <1>2, <4>1, <4>2
      <3>2. RunPuts(o, n) = <<>>
        BY <1>7, <3>1, RunPutsCases
      <3> QED BY <1>2, <3>1, <3>2 DEF ToFree
    <2>2. s \o r = r
      BY <1>2, <2>1, JoinEmpty
    <2>3. emission' = [emission EXCEPT ![o] = "none"] /\ Goes(t, r)
      BY <1>1, <1>2, <1>4, <1>7
    <2>4. Goes(t, s \o r)
      BY <2>2, <2>3
    <2> QED BY <1>1, <1>2, <1>3, <2>1, <2>3, <2>4
  <1>8. CASE emission[o] # "restart" /\ n <= Len(Handlers(o)) /\ ~ToFree(o, n)
    <2> DEFINE H == Handlers(o)[n]
    <2>2. /\ s = H \o <<RunAt(o, n + 1)>>
          /\ H = <<Do("look", 0)>> \/ H = <<Do("tidy", o)>> \/ H = <<Do("engine", o)>>
      <3>1. CASE o = 0
        <4>1. n = 1 /\ H = <<Do("look", 0)>> /\ n + 1 = 2
          <5>1. Len(Handlers(o)) = 1 /\ Handlers(o)[1] = <<Do("look", 0)>>
            BY ONLY <1>4, <3>1
          <5>2. n <= 1
            BY ONLY <1>8, <5>1
          <5>3. n = 1
            BY ONLY <1>2, <5>2
          <5> QED BY ONLY <5>1, <5>3
        <4>2. s = <<Do("look", 0)>> \o <<RunAt(0, 2)>>
          BY <1>8, <3>1, <4>1, RunPutsCases
        <4> HIDE DEF H
        <4> QED BY ONLY <3>1, <4>1, <4>2
      <3>2. CASE o # 0 /\ n = 1
        <4>1. H = <<Do("tidy", o)>> /\ n + 1 = 2
          BY ONLY <1>4, <3>2
        <4>2. s = <<Do("tidy", o)>> \o <<RunAt(o, 2)>>
          BY <1>8, <3>2, RunPutsCases
        <4> HIDE DEF H
        <4> QED BY ONLY <4>1, <4>2
      <3>3. CASE o # 0 /\ n = 2
        <4>1. H = <<Do("engine", o)>> /\ n + 1 = 3
          BY ONLY <1>4, <3>3
        <4>2. s = <<Do("engine", o)>> \o <<RunAt(o, 3)>>
          BY <1>8, <3>3, RunPutsCases
        <4> HIDE DEF H
        <4> QED BY ONLY <4>1, <4>2
      <3>4. o # 0 => n = 1 \/ n = 2
        <4>1. o # 0 => n <= 3
          BY ONLY <1>4, <1>8
        <4>2. o # 0 => n # 3
          BY <1>8 DEF ToFree
        <4> QED BY ONLY <1>2, <4>1, <4>2
      <3> HIDE DEF H
      <3> QED BY <3>1, <3>2, <3>3, <3>4
    <2>3. s # <<>>
      <3> DEFINE y == RunAt(o, n + 1)
                 z1 == Do("look", 0)
                 z2 == Do("tidy", o)
                 z3 == Do("engine", o)
      <3> HIDE DEF y, z1, z2, z3
      <3> HIDE DEF H
      <3>1. \A z : <<z>> \o <<y>> # <<>>
        <4> TAKE z
        <4>1. Len(<<z>> \o <<y>>) = 2
          OBVIOUS
        <4> QED BY ONLY <4>1
      <3>2. /\ s = H \o <<y>>
            /\ H = <<z1>> \/ H = <<z2>> \/ H = <<z3>>
        BY ONLY <2>2 DEF y, z1, z2, z3
      <3> QED BY ONLY <3>1, <3>2
    <2>4. Goes(t, s \o r) /\ UNCHANGED emission
      <3>1. Goes(t, (H \o Run(o, n + 1)) \o r) /\ UNCHANGED emission
        BY ONLY <1>1, <1>8
      <3>2. Run(o, n + 1) = <<RunAt(o, n + 1)>>
        BY ONLY <1>5
      <3>3. s = H \o Run(o, n + 1)
        BY ONLY <2>2, <3>2
      <3> HIDE DEF H, r
      <3> QED BY ONLY <3>1, <3>3
    <2> HIDE DEF r
    <2> QED BY <1>1, <1>2, <1>3, <1>8, <2>3, <2>4 DEF r
  <1>9. CASE ToFree(o, n)
    <2>1. n = 3 /\ o # 0 /\ s = <<RunAt(o, 4)>> /\ emission[o] # "restart"
      BY <1>9, RunPutsCases DEF ToFree
    <2>2. Goes(t, (B \o s) \o r) /\ UNCHANGED emission
      <3>1. n <= Len(Handlers(o)) /\ Handlers(o)[n] = B /\ n + 1 = 4
        BY ONLY <1>4, <2>1
      <3>2. Goes(t, (Handlers(o)[n] \o Run(o, n + 1)) \o r) /\ UNCHANGED emission
        BY ONLY <1>1, <2>1, <3>1
      <3>3. Run(o, n + 1) = s
        BY ONLY <1>5, <2>1, <3>1
      <3> HIDE DEF B, r
      <3> QED BY ONLY <3>1, <3>2, <3>3
    <2>3. B \in Seq(Item) /\ r \in Seq(Item) /\ s \in Seq(Item) /\ s # <<>>
      <3>1. RunAt(o, 4) \in Item
        BY <1>2 DEF RunAt, Item, Ops, Single
      <3>2. B \in Seq(Item)
        BY <1>2, Blocks DEF Nested
      <3> DEFINE y == RunAt(o, 4)
      <3> HIDE DEF y, B
      <3>3. <<y>> \in Seq(Item) /\ <<y>> # <<>>
        BY <3>1 DEF y
      <3> QED BY <1>2, <2>1, <3>2, <3>3 DEF y
    <2> HIDE DEF B, r
    <2>4. (B \o s) \o r = B \o (s \o r)
      BY ONLY <2>3, SMTT(60)
    <2> QED BY <1>1, <1>3, <1>9, <2>2, <2>3, <2>4 DEF B, r
  <1>10. n <= Len(Handlers(o)) \/ n > Len(Handlers(o))
    BY <1>2, <1>4
  <1> QED BY <1>6, <1>7, <1>8, <1>9, <1>10


\* A handler is called, or the emission restarted or ended.
LEMMA RunsInv ==
    ASSUME NEW f, Inv(f), NEW t \in Threads, Runs(t), NEW o, o = On(t),
           NEW n, n = Head(todo[t]).handler,
           NEW g, g = [f EXCEPT ![t] = RunsTo(f, t, o, n)]
    PROVE  Inv(g)'
  <1> DEFINE s == RunPuts(o, n)
             E == Early(jobs, f["main"])
             e == Advance(f[t])
             op == "run"
  <1>1. /\ Executes(t, "run") /\ UNCHANGED <<owner, frozen, queued, printer, jobs, up>>
        /\ ToFree(o, n) => Goes(t, Block("free", o) \o (s \o Rest(t)))
        /\ ~ToFree(o, n) => Goes(t, s \o Rest(t))
        /\ emission' \in [Objects -> {"none", "on", "restart"}]
        /\ \A p \in Objects : emission'[p] # "none" => emission[p] # "none"
        /\ s = <<>> => emission'[o] = "none"
        /\ ToFree(o, n) => UNCHANGED emission
    BY RunsGoes
  <1>2. /\ Now(f[t]) = RunAt(o, n) /\ n \in 1..4 /\ o \in 0..Len(jobs) /\ o \in Objects
        /\ ~Active(e) /\ e.b = f[t].b /\ Len(jobs) \in Nat
        /\ o # 0 => o \in 1..Len(jobs) /\ jobs[o].answered
        /\ e.b # 0 => o # e.b
        /\ \A i \in 1..4 : May(jobs, e, RunAt(o, i))
        /\ o # 0 => May(jobs, e, Do("tidy", o)) /\ May(jobs, e, Do("engine", o))
        /\ o = 0 => May(jobs, e, Do("look", 0))
    BY <1>1, AtRun
  <1> HIDE DEF E, e
  <1>3. \/ s = <<>> 
        \/ /\ Puts(jobs, E, e, s) /\ s \in Seq(Calm(Len(jobs)))
           /\ \E i \in 1..4, h \in 1..Len(s) : s[h] = RunAt(o, i)
    <2>1. ASSUME NEW i \in 1..4, NEW q, q = <<RunAt(o, i)>>
          PROVE  Puts(jobs, E, e, q) /\ \E h \in 1..Len(q) : q[h] = RunAt(o, i)
      <3> DEFINE y == RunAt(o, i)
      <3>1. May(jobs, e, y) /\ q = <<y>>
        BY <1>2, <2>1
      <3> HIDE DEF y
      <3>2. Len(q) = 1 /\ q[1] = y
        BY ONLY <3>1
      <3> QED BY <3>1, <3>2, PutsOne DEF y
    <2>2. ASSUME NEW i \in 1..4, NEW z, May(jobs, e, z), NEW q, q = <<z>> \o <<RunAt(o, i)>>
          PROVE  Puts(jobs, E, e, q) /\ \E h \in 1..Len(q) : q[h] = RunAt(o, i)
      <3> DEFINE y == RunAt(o, i)
      <3>1. May(jobs, e, y) /\ q = <<z>> \o <<y>>
        BY <1>2, <2>2
      <3> HIDE DEF y
      <3>2. Len(q) = 2 /\ q[2] = y
        BY ONLY <3>1
      <3> QED BY <2>2, <3>1, <3>2, PutsTwo DEF y
    <2>3. \/ s = <<>> \/ s = <<RunAt(o, 1)>> \/ s = <<RunAt(o, 4)>>
          \/ o = 0 /\ s = <<Do("look", 0)>> \o <<RunAt(o, 2)>>
          \/ o # 0 /\ s = <<Do("tidy", o)>> \o <<RunAt(o, 2)>>
          \/ o # 0 /\ s = <<Do("engine", o)>> \o <<RunAt(o, 3)>>
      <3>1. \/ o = 0 /\ n = 1
            \/ o # 0 /\ n = 1
            \/ o # 0 /\ n = 2
            \/ o # 0 /\ n = 3
            \/ ~(o = 0 /\ n = 1) /\ ~(o # 0 /\ n \in 1..3)
        BY ONLY <1>2
      <3>2. CASE emission[o] = "restart"
        BY <3>2, RunPutsCases
      <3>3. CASE emission[o] # "restart" /\ o = 0 /\ n = 1
        BY <3>3, RunPutsCases
      <3>4. CASE emission[o] # "restart" /\ o # 0 /\ n = 1
        BY <3>4, RunPutsCases
      <3>5. CASE emission[o] # "restart" /\ o # 0 /\ n = 2
        BY <3>5, RunPutsCases
      <3>6. CASE emission[o] # "restart" /\ o # 0 /\ n = 3
        BY <3>6, RunPutsCases
      <3>7. CASE emission[o] # "restart" /\ ~(o = 0 /\ n = 1) /\ ~(o # 0 /\ n \in 1..3)
        BY <3>7, RunPutsCases
      <3> HIDE DEF s
      <3> QED BY <3>1, <3>2, <3>3, <3>4, <3>5, <3>6, <3>7
    <2> HIDE DEF s
    <2>4. s = <<>> \/ (Puts(jobs, E, e, s) /\ \E i \in 1..4, h \in 1..Len(s) : s[h] = RunAt(o, i))
      <3>1. CASE s = <<RunAt(o, 1)>> \/ s = <<RunAt(o, 4)>>
        BY <2>1, <3>1
      <3>2. CASE o = 0 /\ s = <<Do("look", 0)>> \o <<RunAt(o, 2)>>
        <4> DEFINE z == Do("look", 0)
                   i == 2
        <4>1. May(jobs, e, z) /\ s = <<z>> \o <<RunAt(o, i)>> /\ i \in 1..4
          BY <1>2, <3>2
        <4> HIDE DEF z, i
        <4>2. Puts(jobs, E, e, s) /\ \E h \in 1..Len(s) : s[h] = RunAt(o, i)
          BY <2>2, <4>1
        <4> QED BY <4>1, <4>2
      <3>3. CASE o # 0 /\ s = <<Do("tidy", o)>> \o <<RunAt(o, 2)>>
        <4> DEFINE z == Do("tidy", o)
                   i == 2
        <4>1. May(jobs, e, z) /\ s = <<z>> \o <<RunAt(o, i)>> /\ i \in 1..4
          BY <1>2, <3>3
        <4> HIDE DEF z, i
        <4>2. Puts(jobs, E, e, s) /\ \E h \in 1..Len(s) : s[h] = RunAt(o, i)
          BY <2>2, <4>1
        <4> QED BY <4>1, <4>2
      <3>4. CASE o # 0 /\ s = <<Do("engine", o)>> \o <<RunAt(o, 3)>>
        <4> DEFINE z == Do("engine", o)
                   i == 3
        <4>1. May(jobs, e, z) /\ s = <<z>> \o <<RunAt(o, i)>> /\ i \in 1..4
          BY <1>2, <3>4
        <4> HIDE DEF z, i
        <4>2. Puts(jobs, E, e, s) /\ \E h \in 1..Len(s) : s[h] = RunAt(o, i)
          BY <2>2, <4>1
        <4> QED BY <4>1, <4>2
      <3> QED BY <2>3, <3>1, <3>2, <3>3, <3>4
    <2> QED BY <2>4 DEF Puts
  <1>4. CASE ~ToFree(o, n)
    <2> DEFINE d == Onward(f, t, s)
    <2>1. Moved(f, t, d, g) /\ d = Onward(f, t, s)
      BY <1>4 DEF RunsTo, Moved
    <2> HIDE DEF s, d
    <2>2. s # <<>> => Puts(jobs, Early(jobs, f["main"]), Advance(f[t]), s)
      BY <1>3 DEF E, e
    <2>3. emission'[o] = "none" \/ \E i \in 1..4, h \in 1..Len(s) : s[h] = RunAt(o, i)
      BY <1>1, <1>3
    <2>4. Goes(t, s \o Rest(t))
      BY <1>1, <1>4
    <2> QED BY <1>1, <2>1, <2>2, <2>3, <2>4, RunStep
  <1>5. CASE ToFree(o, n)
    <2> DEFINE seg == "free"
               d == Inward(f, t, s, seg, o)
    <2>1. s # <<>> /\ o # 0
      <3>1. s = <<RunAt(o, 4)>> /\ o # 0
        BY <1>5, RunPutsCases DEF ToFree
      <3> DEFINE y == RunAt(o, 4)
      <3> HIDE DEF y
      <3>2. <<y>> # <<>>
        OBVIOUS
      <3> QED BY <3>1, <3>2 DEF y
    <2>2. Moved(f, t, d, g) /\ Inside(f, t, s, seg, o, d)
      BY <1>5 DEF Moved, Inside, RunsTo
    <2>3. seg \in Nested /\ seg \notin Jobless /\ seg # "send" /\ seg \in {"free", "next", "send"}
          /\ op # "process" /\ Executes(t, op) /\ op = "run" /\ op \in Single
      BY <1>1 DEF Nested, Jobless, Single
    <2>4. Goes(t, Block(seg, o) \o (s \o Rest(t)))
      BY <1>1, <1>5
    <2> HIDE DEF s, seg, d, op
    <2>5. Same(f, t, s, d)
      BY <1>3, <2>1, <2>2, <2>3, IntoSame
    <2>6. \E i \in 1..4 : Has(d, RunAt(On(t), i))
      BY <1>3, <2>1, <2>5 DEF Same
    <2>7. UNCHANGED <<owner, frozen, queued, emission, printer, jobs, up>>
      BY <1>1, <1>5
    <2>8. Puts(jobs, Early(jobs, f["main"]), Advance(f[t]), s) /\ ~Active(Advance(f[t]))
          /\ (Advance(f[t]).b # 0 => o # Advance(f[t]).b)
      BY <1>2, <1>3, <2>1 DEF E, e
    <2> QED BY <1>2, <2>1, <2>2, <2>3, <2>4, <2>5, <2>6, <2>7, <2>8, IntoStep
  <1> QED BY <1>4, <1>5


-----------------------------------------------------------------------------
(* Thaws                                                                    *)

\* A thaw is of an object that is frozen, and, unless the job is new, comes after
\* everything else the block does.
LEMMA AtThaw ==
    ASSUME NEW f, Inv(f), NEW t \in Threads, Executes(t, "thaw"), NEW o, o = On(t),
           NEW e, e = Advance(f[t])
    PROVE  /\ o \in 0..Len(jobs) /\ o \in Objects /\ frozen[o] > 0 /\ Len(jobs) \in Nat
           /\ \/ /\ ~Active(e) /\ (e.b # 0 => o # e.b)
                 /\ o # 0 => o \in 1..Len(jobs) /\ jobs[o].answered
              \/ o \in 1..Len(jobs) /\ ~jobs[o].answered
  <1> DEFINE c == f[t]
             x == Now(c)
             m == Len(jobs)
  <1>1. /\ c \in Frame(m) /\ AtWork(c) /\ x.op = "thaw" /\ o = x.on /\ Apart(c)
        /\ Fits(jobs, Early(jobs, f["main"]), t, c) /\ m \in Nat /\ x = Now(c)
        /\ m <= MaxJobs
    BY Executing
  <1>2. c = f[t] /\ m = Len(jobs) /\ e = Advance(c)
    OBVIOUS
  <1> HIDE DEF c, x, m
  <1>3. o \in 0..m /\ o \in Objects /\ Active(c)
    BY <1>1, AtBlock DEF Single
  <1>4. Froze(c, o)
    <2>1. Freezing(c, e, x)
      BY <1>1, <1>2, AdvanceHolds
    <2> QED BY <1>1, <2>1 DEF Freezing
  <1>5. frozen[o] > 0
    BY <1>2, <1>3, <1>4, FrozenBy
  <1>6. \/ o = 0 /\ c.seg = "touch" /\ c.n = 4
        \/ o = 0 /\ c.seg = "free" /\ c.n = 5
        \/ o = c.j /\ c.seg = "send" /\ c.n = 9
        \/ o = c.j /\ c.seg = "announce" /\ c.n = 6
        \/ o = 0 /\ c.seg = "announce" /\ c.n = 9
        \/ o = c.j /\ c.seg = "pend" /\ c.n = 4
        \/ o = 0 /\ c.seg = "message" /\ c.n = 6
        \/ o = c.j /\ c.seg = "message" /\ c.n = 8
        \/ o = c.j /\ c.seg \in Methods /\ c.n = 5
    <2>1. c.seg \in Flat \cup Nested
      BY <1>1, FrameParts
    <2> USE DEF Do
    <2>2. CASE c.seg \in {"touch", "free", "send"}
      BY <1>1, <1>3, <2>2, NowIs
    <2>3. CASE c.seg \in {"announce", "pend"}
      BY <1>1, <1>3, <2>3, NowIs
    <2>4. CASE c.seg = "message"
      BY <1>1, <1>3, <2>4, NowIs
    <2>5. CASE c.seg \in {"next", "unlock", "create"}
      BY <1>1, <1>3, <2>5, NowIs
    <2>6. CASE c.seg \in Methods
      BY <1>1, <1>3, <2>6, NowIs DEF Methods
    <2> QED BY <2>1, <2>2, <2>3, <2>4, <2>5, <2>6 DEF Flat, Nested, Methods
  <1>7. c.j \in 0..m /\ (c.j = 0 <=> c.seg \in Jobless)
        /\ (c.seg \in Flat /\ c.n <= Size(c.seg) => c.b = 0)
    BY <1>1, FrameParts
  <1>8. CASE c.seg = "announce" /\ c.n = 6
    <2>1. o = c.j
      BY <1>6, <1>8 DEF Methods
    <2>2. o \in 1..m
      BY <1>1, <1>7, <1>8, <2>1 DEF Jobless
    <2>3. ~jobs[o].answered
      BY <1>1, <1>2, <1>8, <2>1, <2>2 DEF Fits, Announces
    <2> QED BY <1>1, <1>2, <1>3, <1>5, <2>2, <2>3
  <1>9. CASE ~(c.seg = "announce" /\ c.n = 6)
    <2>1. ~Active(e) /\ (e.b # 0 => o # e.b)
      <3>1. CASE c.seg = "message" /\ c.n = 6
        <4>1. e.seg = c.seg /\ e.j = c.j /\ e.n = 9 /\ e.b = c.j
          BY <1>1, <1>2, <1>3, <3>1, AdvanceFields
        <4>2. o = 0
          BY <1>6, <3>1 DEF Methods
        <4> QED BY <1>7, <3>1, <4>1, <4>2 DEF Active, Size, Methods
      <3>2. CASE ~(c.seg = "message" /\ c.n = 6)
        <4>1. e.seg = c.seg /\ e.j = c.j /\ e.n = c.n + 1 /\ e.b = c.b
          BY <1>1, <1>2, <1>3, <3>2, AdvanceFields
        <4>2. ~Active(e)
          BY <1>6, <1>9, <3>2, <4>1 DEF Active, Size, Methods
        <4>3. c.b # 0 => c.seg \notin Flat
          BY <1>3, <1>7 DEF Active
        <4>4. c.b # 0 => o # c.b
          BY <1>1, <1>3, <1>6, <4>3 DEF Apart, Flat, Methods
        <4> QED BY <4>1, <4>2, <4>4
      <3> QED BY <3>1, <3>2
    <2>2. o # 0 => o \in 1..m /\ jobs[o].answered
      <3>1. o # 0 => o \in 1..m
        BY <1>1, <1>3
      <3>2. o # 0 => About(c, o)
        BY <1>3, <1>6, <1>9 DEF About, Methods
      <3> QED BY <1>1, <1>2, <3>1, <3>2 DEF Fits
    <2> QED BY <1>1, <1>2, <1>3, <1>5, <2>1, <2>2
  <1> QED BY <1>8, <1>9

\* What the last thaw of o announces.
TellsState(o) == frozen[o] = 1 /\ o \in queued
TellsReasons(o) == frozen[o] = 1 /\ o \in Ids /\ jobs[o].changed
ThawPuts(o) ==
    LET state == TellsState(o) /\ emission[o] = "none"
    IN  CASE state /\ TellsReasons(o)   -> <<RunAt(o, 1)>> \o <<Do("reasons", o)>>
          [] state /\ ~TellsReasons(o)  -> <<RunAt(o, 1)>>
          [] ~state /\ TellsReasons(o)  -> <<Do("reasons", o)>>
          [] ~state /\ ~TellsReasons(o) -> <<>>

\* What a thaw announces.
LEMMA ThawsGoes ==
    ASSUME NEW f, Inv(f), NEW t \in Threads, Thaws(t), NEW o, o = On(t),
           NEW s, s = ThawPuts(o)
    PROVE  /\ Executes(t, "thaw") /\ UNCHANGED <<owner, printer, up>>
           /\ Goes(t, s \o Rest(t))
           /\ frozen' = [frozen EXCEPT ![o] = @ - 1]
           /\ jobs' = IF TellsReasons(o) THEN [jobs EXCEPT ![o].changed = FALSE] ELSE jobs
           /\ queued' = IF TellsState(o) THEN queued \ {o} ELSE queued
           /\ emission' = IF TellsState(o)
                          THEN [emission EXCEPT ![o] = IF @ = "none" THEN "on" ELSE "restart"]
                          ELSE emission
  <1> DEFINE q == IF TellsReasons(o) THEN Instruction("reasons", o) ELSE <<>>
             r == Rest(t)
             a == Run(o, 1)
  <1>1. /\ Executes(t, "thaw") /\ UNCHANGED <<owner, printer, up>>
        /\ frozen' = [frozen EXCEPT ![o] = @ - 1]
        /\ jobs' = IF TellsReasons(o) THEN [jobs EXCEPT ![o].changed = FALSE] ELSE jobs
        /\ IF TellsState(o)
           THEN queued' = queued \ {o} /\ Emit(t, o, q \o r)
           ELSE Goes(t, q \o r) /\ UNCHANGED <<queued, emission>>
    BY DEF Thaws, locks, TellsReasons, TellsState
  <1>2. r \in Seq(Item) /\ o \in Objects /\ o \in Nat
    BY <1>1, Executing, Codes, AtThaw DEF Objects
  <1>3. emission \in [Objects -> {"none", "on", "restart"}]
    BY DEF Inv, TypeInv
  <1>4. /\ queued' = IF TellsState(o) THEN queued \ {o} ELSE queued
        /\ emission' = IF TellsState(o)
                       THEN [emission EXCEPT ![o] = IF @ = "none" THEN "on" ELSE "restart"]
                       ELSE emission
    BY <1>1, <1>2, <1>3 DEF Emit
  <1>5. q \in Seq(Item) /\ a \in Seq(Item)
    <2>1. Instruction("reasons", o) \in Seq(Item)
      BY <1>2 DEF Instruction, Item, Ops, Single
    <2>2. <<>> \in Seq(Item)
      OBVIOUS
    <2>3. a \in Seq(Item)
      BY <1>2 DEF Run, Item, Ops, Single
    <2> QED BY <2>1, <2>2, <2>3
  <1>6. Goes(t, s \o r)
    <2>1. CASE TellsState(o) /\ emission[o] = "none"
      <3>1. Goes(t, a \o (q \o r))
        BY <1>1, <2>1 DEF Emit
      <3>2. s = a \o q
        <4>1. a = <<RunAt(o, 1)>> /\ Instruction("reasons", o) = <<Do("reasons", o)>>
          BY DEF Run, RunAt, Instruction, Do
        <4>2. CASE TellsReasons(o)
          BY <2>1, <4>1, <4>2 DEF ThawPuts
        <4>3. CASE ~TellsReasons(o)
          <5>1. q = <<>> /\ s = <<RunAt(o, 1)>>
            BY <2>1, <4>3 DEF ThawPuts
          <5>2. a \o <<>> = a
            BY <1>5, JoinEmpty
          <5> QED BY <4>1, <5>1, <5>2
        <4> QED BY <4>2, <4>3
      <3> HIDE DEF a, q, r
      <3>3. (a \o q) \o r = a \o (q \o r)
        BY <1>2, <1>5, JoinAssoc
      <3> QED BY <3>1, <3>2, <3>3
    <2>2. CASE ~(TellsState(o) /\ emission[o] = "none")
      <3>1. Goes(t, q \o r)
        BY <1>1, <2>2 DEF Emit
      <3>2. s = q
        BY <2>2 DEF ThawPuts, Instruction, Do
      <3> QED BY <3>1, <3>2
    <2> QED BY <2>1, <2>2
  <1> QED BY <1>1, <1>4, <1>6


\* g_object_thaw_notify
LEMMA ThawsInv ==
    ASSUME NEW f, Inv(f), NEW t \in Threads, Thaws(t), NEW o, o = On(t),
           NEW g, g = [f EXCEPT ![t] = Onward(f, t, ThawPuts(o))]
    PROVE  Inv(g)'
  <1> DEFINE s == ThawPuts(o)
             E == Early(jobs, f["main"])
             e == Advance(f[t])
             op == "thaw"
             d == Onward(f, t, s)
             x == Now(f[t])
  <1>1. /\ Executes(t, "thaw") /\ UNCHANGED <<owner, printer, up>>
        /\ Goes(t, s \o Rest(t))
        /\ frozen' = [frozen EXCEPT ![o] = @ - 1]
        /\ jobs' = IF TellsReasons(o) THEN [jobs EXCEPT ![o].changed = FALSE] ELSE jobs
        /\ queued' = IF TellsState(o) THEN queued \ {o} ELSE queued
        /\ emission' = IF TellsState(o)
                       THEN [emission EXCEPT ![o] = IF @ = "none" THEN "on" ELSE "restart"]
                       ELSE emission
    BY ThawsGoes
  <1>2. /\ o \in 0..Len(jobs) /\ o \in Objects /\ frozen[o] > 0 /\ Len(jobs) \in Nat
        /\ \/ /\ ~Active(e) /\ (e.b # 0 => o # e.b)
              /\ o # 0 => o \in 1..Len(jobs) /\ jobs[o].answered
           \/ o \in 1..Len(jobs) /\ ~jobs[o].answered
    BY <1>1, AtThaw
  <1>3. /\ jobs \in Seq(JobRecord) /\ frozen \in [Objects -> Nat] /\ queued \subseteq 0..Len(jobs)
        /\ emission \in [Objects -> {"none", "on", "restart"}]
        /\ JobsFit(jobs, E, queued) /\ \A p \in queued : frozen[p] > 0
        /\ \A j \in 1..Len(jobs) : jobs[j].changed => frozen[j] > 0
        /\ Len(jobs) <= MaxJobs
    <2>1. Len(jobs) <= MaxJobs
      BY <1>1, Executing
    <2> QED BY <2>1 DEF Inv, TypeInv, JobInv, NoteInv, Ids
  <1> HIDE DEF s, E, e, d, x
  <1>4. /\ Kept(jobs, jobs') /\ JobsFit(jobs', E, queued') /\ jobs' \in Seq(JobRecord)
        /\ \A j \in 1..Len(jobs) : jobs'[j].changed =>
              jobs[j].changed /\ (j = o => frozen[o] # 1)
    <2>1. CASE TellsReasons(o)
      <3> DEFINE r == [jobs[o] EXCEPT !.changed = FALSE]
      <3>1. o \in 1..Len(jobs) /\ jobs[o].changed
        BY <2>1 DEF TellsReasons, Ids
      <3>2. jobs[o] \in JobRecord
        BY <1>3, <3>1
      <3>3. r \in JobRecord /\ jobs' = [jobs EXCEPT ![o] = r]
        BY <1>1, <2>1, <3>1, <3>2 DEF JobRecord
      <3>4. /\ r.answered = jobs[o].answered /\ r.started = jobs[o].started /\ ~r.changed
            /\ r.state = jobs[o].state /\ r.running = jobs[o].running
            /\ r.backend_started = jobs[o].backend_started
        BY <3>2 DEF JobRecord
      <3> HIDE DEF r
      <3>5. JobStep(f, o, r)
        BY <1>3, <3>1, <3>4 DEF JobStep, JobsFit, E
      <3>6. \A k \in queued' : k \in 1..Len(jobs) => k \in queued \/ jobs[k].answered
        BY <1>1
      <3>7. /\ Kept(jobs, jobs') /\ Alters(jobs', o) /\ jobs'[o] = r
            /\ JobsFit(jobs', E, queued')
        BY <3>1, <3>3, <3>5, <3>6, AlterFits DEF E
      <3> QED BY <3>4, <3>7 DEF Alters
    <2>2. CASE ~TellsReasons(o)
      <3>1. jobs' = jobs /\ queued' \subseteq queued
        BY <1>1, <2>2
      <3>2. Kept(jobs, jobs') /\ jobs' \in Seq(JobRecord)
        BY <1>3, <3>1, KeptSame
      <3>3. JobsFit(jobs', E, queued')
        BY <1>3, <3>1 DEF JobsFit
      <3>4. \A j \in 1..Len(jobs) : jobs'[j].changed =>
               jobs[j].changed /\ (j = o => frozen[o] # 1)
        BY <2>2, <3>1 DEF TellsReasons, Ids
      <3> QED BY <3>2, <3>3, <3>4
    <2> QED BY <2>1, <2>2
  <1>5. /\ s # <<>> => ~Active(e) /\ Puts(jobs', E, e, s)
        /\ TellsState(o) /\ emission[o] = "none" => \E i \in 1..Len(s) : s[i] = RunAt(o, 1)
    <2> DEFINE y == RunAt(o, 1)
               z == Do("reasons", o)
    <2>1. CASE o \in 1..Len(jobs) /\ ~jobs[o].answered
      <3>1. ~jobs[o].changed /\ o \notin queued
        BY <1>3, <2>1 DEF JobsFit
      <3>2. s = <<>> /\ ~TellsState(o)
        BY <3>1 DEF s, ThawPuts, TellsState, TellsReasons
      <3> QED BY <3>2
    <2>2. CASE /\ ~Active(e) /\ (e.b # 0 => o # e.b)
               /\ o # 0 => o \in 1..Len(jobs) /\ jobs[o].answered
      <3>1. May(jobs', e, y) /\ (o # 0 => May(jobs', e, z))
        <4>1. Len(jobs') = Len(jobs) /\ (o # 0 => o \in 1..Len(jobs') /\ jobs'[o].answered)
          BY <1>4, <2>2 DEF Kept
        <4>2. y \in Calm(Len(jobs')) /\ y.op = "run" /\ y.on = o
          <5>1. RunAt(o, 1) \in Calm(Len(jobs))
            BY <1>2, CalmItems
          <5> QED BY <4>1, <5>1 DEF RunAt
        <4>3. o # 0 => z \in Calm(Len(jobs')) /\ z.op = "reasons" /\ z.on = o
          BY <1>2, <4>1, CalmItems DEF Do, Single
        <4>4. May(jobs', e, y)
          BY <1>2, <2>2, <4>1, <4>2 DEF May, StartOps
        <4>5. o # 0 => May(jobs', e, z)
          BY <1>2, <2>2, <4>1, <4>3 DEF May, StartOps
        <4> QED BY <4>4, <4>5
      <3>2. TellsReasons(o) => o # 0
        BY DEF TellsReasons, Ids
      <3>3. /\ TellsState(o) /\ emission[o] = "none" /\ TellsReasons(o) => s = <<y>> \o <<z>>
            /\ TellsState(o) /\ emission[o] = "none" /\ ~TellsReasons(o) => s = <<y>>
            /\ ~(TellsState(o) /\ emission[o] = "none") /\ TellsReasons(o) => s = <<z>>
            /\ ~(TellsState(o) /\ emission[o] = "none") /\ ~TellsReasons(o) => s = <<>>
        BY DEF s, ThawPuts
      <3> HIDE DEF y, z
      <3>4. CASE s = <<y>> \o <<z>> /\ o # 0
        <4>1. Len(s) = 2 /\ s[1] = y
          BY <3>4
        <4>2. Puts(jobs', E, e, s)
          BY <3>1, <3>4, PutsTwo
        <4> QED BY <2>2, <4>1, <4>2 DEF y
      <3>5. CASE s = <<y>>
        <4>1. Len(s) = 1 /\ s[1] = y
          BY <3>5
        <4>2. Puts(jobs', E, e, s)
          BY <3>1, <3>5, PutsOne
        <4> QED BY <2>2, <4>1, <4>2 DEF y
      <3>6. CASE s = <<z>> /\ o # 0 /\ ~(TellsState(o) /\ emission[o] = "none")
        <4>1. Puts(jobs', E, e, s)
          BY <3>1, <3>6, PutsOne
        <4> QED BY <2>2, <3>6, <4>1
      <3>7. CASE s = <<>> /\ ~(TellsState(o) /\ emission[o] = "none")
        BY <3>7
      <3> QED BY <3>2, <3>3, <3>4, <3>5, <3>6, <3>7
    <2> QED BY <1>2, <2>1, <2>2
  <1>6. op \notin {"next", "create"} /\ op # "process" /\ Executes(t, op)
    BY <1>1
  <1>7. g = [f EXCEPT ![t] = d] /\ d = Onward(f, t, s) /\ Moved(f, t, d, g) /\ x = Now(f[t])
    BY DEF d, s, Moved, x
  <1> HIDE DEF op
  <1>8. /\ FrameInv(g)' /\ RoomInv(g)'
        /\ Early(jobs', g["main"]) \subseteq E
        /\ Proceeds(f, t, x, d)
        /\ \A i \in 1..Len(s) : Has(d, s[i])
    <2>1. s # <<>> => /\ ~Active(Advance(f[t]))
                      /\ Puts(jobs', Early(jobs, f["main"]), Advance(f[t]), s)
      BY <1>5 DEF e, E
    <2>2. g = [f EXCEPT ![t] = Onward(f, t, s)]
      BY <1>7
    <2>3. /\ FrameInv(g)' /\ RoomInv(g)'
          /\ Early(jobs', g["main"]) \subseteq Early(jobs, f["main"])
          /\ Proceeds(f, t, Now(f[t]), Onward(f, t, s))
          /\ \A i \in 1..Len(s) : Has(Onward(f, t, s), s[i])
      BY <1>1, <1>4, <1>6, <2>1, <2>2, Pushing
    <2> QED BY <1>7, <2>3 DEF E
  <1>9. x.op = "thaw" /\ x.on = o
    BY <1>1, Executing DEF x
  <1>10. LockInv(g)'
    BY <1>1, <1>7, <1>8, <1>9, LockStep DEF Proceeds, Holding
  <1>11. FreezeInv(g)'
    <2>1. Froze(f[t], o) /\ \A l \in Nat : Froze(d, l) <=> Froze(f[t], l) /\ l # o
      BY <1>8, <1>9 DEF Proceeds, Freezing
    <2>2. \E p \in Objects : /\ Froze(f[t], p) /\ frozen' = [frozen EXCEPT ![p] = @ - 1]
                              /\ \A l \in Nat : Froze(d, l) <=> Froze(f[t], l) /\ l # p
      BY <1>1, <1>2, <2>1
    <2>3. Moved(f, t, d, g)
      BY <1>7
    <2> QED BY ONLY <2>2, <2>3, FreezeStep, Inv(f), t \in Threads
  <1>12. EmissionInv(g)'
    <2>1. \A p \in Objects, n \in 1..4 : Has(f[t], RunAt(p, n)) => Has(d, RunAt(p, n))
      BY <1>8, <1>9 DEF Proceeds, RunAt
    <2>2. \A p \in Objects : emission'[p] # "none" =>
             emission[p] # "none" \/ Has(d, RunAt(p, 1))
      BY <1>1, <1>2, <1>3, <1>5, <1>8
    <2>3. \A p \in Objects, n \in 1..4 : Has(f[t], RunAt(p, n)) =>
             emission'[p] = "none" \/ \E i \in 1..4 : Has(d, RunAt(p, i))
      BY <2>1
    <2> QED BY <1>7, <2>2, <2>3, EmissionStep
  <1>13. NoteInv(g)'
    <2>1. Len(jobs') = Len(jobs)
      BY <1>4 DEF Kept
    <2>2. ASSUME NEW p \in queued'
          PROVE  frozen'[p] > 0
      <3>1. p \in queued /\ p \in Objects /\ (p = o => frozen[o] # 1)
        BY <1>1, <1>2, <1>3, <2>2, ThreadsAssumption DEF TellsState, Objects
      <3> QED BY <1>1, <1>2, <1>3, <3>1
    <2>3. ASSUME NEW j \in 1..Len(jobs), jobs'[j].changed
          PROVE  frozen'[j] > 0
      <3>1. jobs[j].changed /\ j \in Objects /\ (j = o => frozen[o] # 1)
        BY <1>2, <1>3, <1>4, <2>3, ThreadsAssumption DEF Objects
      <3> QED BY <1>1, <1>2, <1>3, <3>1
    <2> QED BY <1>12, <2>1, <2>2, <2>3 DEF NoteInv, Ids
  <1>14. JobInv(g)'
    BY <1>4, <1>8 DEF JobInv, JobsFit
  <1>15. TypeInv'
    <2>1. frozen' \in [Objects -> Nat] /\ emission' \in [Objects -> {"none", "on", "restart"}]
      BY <1>1, <1>2, <1>3
    <2>2. queued' \subseteq 0..Len(jobs')
      BY <1>1, <1>3, <1>4 DEF Kept
    <2> QED BY <1>1, <1>4, <2>1, <2>2 DEF Inv, TypeInv
  <1> QED BY <1>8, <1>10, <1>11, <1>13, <1>14, <1>15 DEF Inv


-----------------------------------------------------------------------------
(* Methods                                                                  *)

\* The step of a method that has the locks it needs.
LEMMA PlainStep ==
    ASSUME NEW f, Inv(f), NEW t \in Threads, NEW d, NEW g, Moved(f, t, d, g),
           Goes(t, Code(d)), NoneNew(f[t], d), NEW E, E = Early(jobs', g["main"]),
           Len(jobs') = Len(jobs), \A u \in Threads \ {t} : Fits(jobs', E, u, f[u]),
           Fits(jobs', E, t, d),
           \A l \in Nat : Holds(d, l) <=> Holds(f[t], l),
           \A l \in Nat : Froze(d, l) <=> Froze(f[t], l), f[t].r = <<>>,
           UNCHANGED <<owner, frozen, emission>>, TypeInv',
           \A o \in queued' : frozen[o] > 0,
           \A j \in 1..Len(jobs) : jobs'[j].changed => frozen[j] > 0,
           JobsFit(jobs', E, queued')
    PROVE  Inv(g)'
  <1>1. FrameInv(g)' /\ RoomInv(g)'
    BY FrameStep DEF Goes
  <1>2. LockInv(g)'
    BY LockStep
  <1>3. FreezeInv(g)'
    BY FreezeStep
  <1>4. EmissionInv(g)'
    <2>1. \A y : ~Has(f[t], y)
      BY DEF Has
    <2> QED BY <2>1, EmissionStep
  <1>5. NoteInv(g)'
    BY <1>4 DEF NoteInv, Ids
  <1>6. JobInv(g)'
    BY DEF JobInv
  <1> QED BY <1>1, <1>2, <1>3, <1>5, <1>6 DEF Inv

\* A job is answered, and whoever announced it no longer does.
LEMMA AnsweredFits ==
    ASSUME NEW J, NEW K, NEW E, NEW t, NEW c, Len(J) \in Nat, Fits(J, E, t, c),
           NEW j \in 1..Len(J), Len(K) = Len(J), ~Announces(c, j),
           \A k \in 1..Len(J) : /\ K[k].answered <=> J[k].answered \/ k = j
                                /\ K[k].started = J[k].started
                                /\ K[k].backend_started = J[k].backend_started
                                /\ K[k].state = J[k].state
    PROVE  Fits(K, E, t, c)
  <1>1. c.j \in 0..Len(J) /\ c.b \in 0..Len(J) /\ (c.j = 0 <=> c.seg \in Jobless)
    BY FrameParts DEF Fits
  <1>2. "start" \notin Jobless /\ "pend" \notin Jobless /\ "message" \notin Jobless
    BY DEF Jobless
  <1>3. \A k \in 1..Len(K) : /\ About(c, k) => K[k].answered
                             /\ Starting(c, k) => k \notin E
                             /\ K[k].state = "pending" =>
                                  ~(Active(c) /\ c.seg = "send" /\ c.j = k) /\ Ordered(c.r, k)
    BY <1>1 DEF Fits
  <1>4. \A k \in 1..Len(K) : Announces(c, k) => ~K[k].answered
    BY <1>1 DEF Fits
  <1>5. /\ c.seg = "start" /\ c.n <= 3 => ~K[c.j].started
        /\ c.seg = "pend" /\ c.n <= 2 => K[c.j].started
        /\ Active(c) /\ c.seg = "message" => K[c.j].backend_started
        /\ c.b # 0 => K[c.b].backend_started
    BY <1>1, <1>2 DEF Fits
  <1> QED BY <1>1, <1>3, <1>4, <1>5 DEF Fits

\* The client is told of the job.
LEMMA RepliesInv ==
    ASSUME NEW f, Inv(f), NEW t \in Threads, Replies(t),
           NEW g, g = [f EXCEPT ![t] = Advance(f[t])]
    PROVE  Inv(g)'
  <1> DEFINE op == "reply"
             j == On(t)
             r == [jobs[j] EXCEPT !.answered = TRUE]
             c == f[t]
             d == Advance(c)
             m == Len(jobs)
             E == Early(jobs, f["main"])
             F == Early(jobs', g["main"])
             x == Now(c)
  <1>1. /\ Executes(t, op) /\ Goes(t, Rest(t))
        /\ UNCHANGED <<owner, frozen, queued, emission, printer, up>>
        /\ jobs' = [jobs EXCEPT ![j] = r]
    BY DEF Replies, notes, locks
  <1>2. /\ c \in Frame(m) /\ AtWork(c) /\ Apart(c) /\ Fits(jobs, E, t, c) /\ x.op = op
        /\ j = x.on /\ Rest(t) = Code(d) /\ d \in Frame(m) /\ m \in Nat /\ m <= MaxJobs
        /\ x = Now(c) /\ d = Advance(c) /\ c = f[t] /\ m = Len(jobs)
    BY <1>1, Executing
  <1>3. j = c.j /\ Active(c) /\ c.seg = "announce" /\ c.n = 7 /\ j \in 1..m
    BY <1>1, Executing, AtBlock DEF Single, Jobless
  <1>4. d.seg = c.seg /\ d.j = c.j /\ d.n = c.n + 1
    BY <1>2, <1>3, AdvanceFields
  <1>5. c.r = <<>> /\ t # "main"
    <2>1. c.r = <<>>
      BY <1>2, <1>3, FrameParts DEF Flat, Active
    <2> QED BY <1>2, <1>3, <2>1 DEF Fits
  <1>6. /\ jobs[j] \in JobRecord /\ r \in JobRecord
    <2>1. jobs[j] \in JobRecord
      BY <1>3, JobFacts
    <2> QED BY ONLY <2>1 DEF JobRecord
  <1>7. /\ jobs' \in Seq(JobRecord) /\ Len(jobs') = m
        /\ \A k \in 1..m : /\ jobs'[k].answered <=> jobs[k].answered \/ k = j
                           /\ jobs'[k].started = jobs[k].started
                           /\ jobs'[k].backend_started = jobs[k].backend_started
                           /\ jobs'[k].state = jobs[k].state
                           /\ jobs'[k].running = jobs[k].running
                           /\ jobs'[k].changed = jobs[k].changed
    <2>1. /\ r.answered = TRUE /\ r.started = jobs[j].started /\ r.state = jobs[j].state
          /\ r.backend_started = jobs[j].backend_started /\ r.running = jobs[j].running
          /\ r.changed = jobs[j].changed
      BY <1>6 DEF JobRecord
    <2>2. \A k \in 1..m : jobs[k].answered \in BOOLEAN
      BY JobFacts DEF JobRecord
    <2>3. jobs \in Seq(JobRecord)
      BY DEF Inv, TypeInv
    <2>4. jobs' = [jobs EXCEPT ![j] = r] /\ j \in 1..Len(jobs) /\ r \in JobRecord
      BY <1>1, <1>3, <1>6
    <2> HIDE DEF r, j, m
    <2>5. Alters(jobs', j) /\ jobs'[j] = r
      BY ONLY <2>3, <2>4, Alter
    <2> QED BY <2>1, <2>2, <2>5 DEF Alters, m
  <1>8. Moved(f, t, d, g) /\ g["main"] = f["main"]
    BY <1>5 DEF Moved, Inv, FrameInv, Threads
  <1>9. F = E
    BY <1>7, <1>8 DEF Early
  <1> HIDE DEF op, j, r, c, d, m, E, F, x
  <1>10. NoneNew(c, d)
    <2>1. Follows(c, d)
      BY <1>2, AdvanceFollows
    <2> QED BY <2>1 DEF Follows
  <1>11. ASSUME NEW u \in Threads \ {t}
         PROVE  Fits(jobs', F, u, f[u])
    <2>1. Fits(jobs, E, u, f[u]) /\ Announces(c, j) /\ j \in Ids
      BY <1>2, <1>3 DEF Inv, FrameInv, E, Announces, Ids
    <2>2. ~Announces(f[u], j)
      BY <1>2, <1>11, <2>1 DEF Inv, FrameInv
    <2> QED BY <1>2, <1>3, <1>7, <1>9, <2>1, <2>2, AnsweredFits
  <1>12. Fits(jobs', F, t, d)
    <2>1. Fits(jobs, E, t, d)
      BY <1>2, AdvanceFits DEF op
    <2>2. ~Announces(d, j)
      BY <1>3, <1>4 DEF Announces
    <2> QED BY <1>2, <1>3, <1>7, <1>9, <2>1, <2>2, AnsweredFits
  <1>13. /\ \A l \in Nat : Holds(d, l) <=> Holds(c, l)
         /\ \A l \in Nat : Froze(d, l) <=> Froze(c, l)
    BY <1>2, AdvanceHolds DEF Holding, Freezing, op
  <1>14. TypeInv' /\ \A o \in queued' : frozen[o] > 0
    BY <1>1, <1>7 DEF Inv, TypeInv, NoteInv, m
  <1>15. (\A k \in 1..Len(jobs) : jobs'[k].changed => frozen[k] > 0) /\ JobsFit(jobs', F, queued')
    <2>1. \A k \in 1..m : jobs[k].changed => frozen[k] > 0
      BY <1>2 DEF Inv, NoteInv, Ids
    <2>2. JobsFit(jobs, E, queued)
      BY DEF Inv, JobInv, E
    <2>3. JobsFit(jobs', F, queued')
      BY <1>1, <1>2, <1>7, <1>9, <2>2 DEF JobsFit
    <2> QED BY <1>2, <1>7, <2>1, <2>3
  <1>16. Goes(t, Code(d)) /\ Len(jobs') = Len(jobs) /\ F = Early(jobs', g["main"])
    BY <1>1, <1>2, <1>7 DEF F
  <1>17. /\ UNCHANGED <<owner, frozen, emission>> /\ f[t].r = <<>> /\ NoneNew(f[t], d)
         /\ \A l \in Nat : Holds(d, l) <=> Holds(f[t], l)
         /\ \A l \in Nat : Froze(d, l) <=> Froze(f[t], l)
         /\ Moved(f, t, d, g) /\ \A u \in Threads \ {t} : Fits(jobs', F, u, f[u])
    BY <1>1, <1>2, <1>5, <1>8, <1>10, <1>11, <1>13
  <1> QED BY ONLY <1>12, <1>14, <1>15, <1>16, <1>17, PlainStep, Inv(f), t \in Threads


\* Job j is made pending.
LEMMA PendedFits ==
    ASSUME NEW J, NEW K, NEW E, NEW F, NEW t, NEW c, Len(J) \in Nat, Fits(J, E, t, c),
           NEW j \in E, Len(K) = Len(J), F \subseteq E,
           \A k \in 1..Len(J) : /\ K[k].answered <=> J[k].answered
                                /\ K[k].started <=> J[k].started
                                /\ K[k].backend_started <=> J[k].backend_started
                                /\ k # j => K[k].state = J[k].state
    PROVE  Fits(K, F, t, c)
  <1>1. c.j \in 0..Len(J) /\ c.b \in 0..Len(J) /\ (c.j = 0 <=> c.seg \in Jobless)
    BY FrameParts DEF Fits
  <1>2. "start" \notin Jobless /\ "pend" \notin Jobless /\ "message" \notin Jobless
    BY DEF Jobless
  <1>3. \A k \in 1..Len(K) : /\ About(c, k) => K[k].answered
                             /\ Announces(c, k) => ~K[k].answered
                             /\ Starting(c, k) => k \notin F
    BY <1>1 DEF Fits
  <1>4. ASSUME NEW k \in 1..Len(K), K[k].state = "pending"
        PROVE  ~(Active(c) /\ c.seg = "send" /\ c.j = k) /\ Ordered(c.r, k)
    <2>1. CASE k = j
      <3>1. ~Starting(c, j)
        BY <2>1 DEF Fits
      <3> QED BY <2>1, <3>1 DEF Starting, Ordered, StartOps
    <2>2. CASE k # j
      BY <1>4, <2>2 DEF Fits
    <2> QED BY <2>1, <2>2
  <1>5. /\ c.seg = "start" /\ c.n <= 3 => ~K[c.j].started
        /\ c.seg = "pend" /\ c.n <= 2 => K[c.j].started
        /\ Active(c) /\ c.seg = "message" => K[c.j].backend_started
        /\ c.b # 0 => K[c.b].backend_started
    BY <1>1, <1>2 DEF Fits
  <1> QED BY <1>1, <1>3, <1>4, <1>5 DEF Fits

\* The job becomes pending.
LEMMA PendsInv ==
    ASSUME NEW f, Inv(f), NEW t \in Threads, Pends(t),
           NEW g, g = [f EXCEPT ![t] = Advance(f[t])]
    PROVE  Inv(g)'
  <1> DEFINE op == "pend"
             j == On(t)
             r == [jobs[j] EXCEPT !.state = "pending", !.changed = TRUE]
             c == f[t]
             d == Advance(c)
             m == Len(jobs)
             E == Early(jobs, f["main"])
             F == Early(jobs', g["main"])
             x == Now(c)
  <1>1. /\ Executes(t, op) /\ Notify(t, j, Rest(t)) /\ UNCHANGED <<owner, printer, up>>
        /\ jobs' = [jobs EXCEPT ![j].state = "pending", ![j].changed = TRUE]
    BY DEF Pends, SetsState, locks
  <1>2. /\ c \in Frame(m) /\ AtWork(c) /\ Apart(c) /\ Fits(jobs, E, t, c) /\ x.op = op
        /\ j = x.on /\ Rest(t) = Code(d) /\ d \in Frame(m) /\ m \in Nat /\ m <= MaxJobs
        /\ x = Now(c) /\ d = Advance(c) /\ c = f[t] /\ m = Len(jobs) /\ op = "pend"
    BY <1>1, Executing
  <1>3. j = c.j /\ Active(c) /\ c.seg = "pend" /\ c.n = 2 /\ j \in 1..m
    BY <1>1, Executing, AtBlock, SMTT(60) DEF Single, Jobless
  <1>4. d.seg = c.seg /\ d.j = c.j /\ d.n = c.n + 1
    BY <1>2, <1>3, AdvanceFields
  <1>5. c.r = <<>> /\ t = "main" /\ jobs[j].started /\ jobs[j].answered
    <2>1. c.r = <<>>
      BY <1>2, <1>3, FrameParts DEF Flat, Active
    <2>2. About(c, j)
      BY <1>3 DEF About
    <2> QED BY <1>2, <1>3, <2>1, <2>2 DEF Fits
  <1>6. /\ jobs \in Seq(JobRecord) /\ jobs[j] \in JobRecord /\ r \in JobRecord
        /\ jobs' = [jobs EXCEPT ![j] = r]
    <2>1. jobs \in Seq(JobRecord) /\ jobs[j] \in JobRecord
      BY <1>3 DEF Inv, TypeInv
    <2>2. r \in JobRecord
      BY <2>1 DEF JobRecord
    <2>3. jobs' = [jobs EXCEPT ![j] = r]
      BY <1>3, <2>1 DEF Pends, SetsState, JobRecord
    <2> QED BY <2>1, <2>2, <2>3
  <1>7. j \in Objects /\ frozen[j] > 0
    BY <1>1, <1>2, <1>3, AtFrozen, ThreadsAssumption DEF Objects
  <1>8. Moved(f, t, d, g) /\ g["main"] = d /\ f["main"] = c
    BY <1>5 DEF Moved, Inv, FrameInv, Threads
  <1>9. /\ r.answered = jobs[j].answered /\ r.started = jobs[j].started
        /\ r.backend_started = jobs[j].backend_started /\ r.running = jobs[j].running
    BY <1>6 DEF JobRecord
  <1>10. F = Early(jobs', g["main"]) /\ E = Early(jobs, f["main"])
    OBVIOUS
  <1> HIDE DEF op, j, r, c, d, m, E, F, x
  <1>11. /\ Goes(t, Rest(t)) /\ frozen' = frozen /\ queued' = queued \cup {j}
         /\ emission' = emission
    BY <1>1, <1>7, Notified
  <1>12. Alters(jobs', j) /\ jobs'[j] = r
    BY ONLY <1>2, <1>3, <1>6, Alter, ZenonT(60)
  <1>13. /\ jobs' \in Seq(JobRecord) /\ Len(jobs') = m
         /\ \A k \in 1..m : /\ jobs'[k].answered <=> jobs[k].answered
                            /\ jobs'[k].started <=> jobs[k].started
                            /\ jobs'[k].backend_started <=> jobs[k].backend_started
                            /\ jobs'[k].running <=> jobs[k].running
                            /\ k # j => jobs'[k].state = jobs[k].state
                            /\ k # j => jobs'[k].changed = jobs[k].changed
    BY <1>2, <1>9, <1>12 DEF Alters
  <1>14. F \subseteq E /\ j \notin F /\ j \in E
    <2>1. \A k \in Nat : ToPend(c, k) <=> k = j
      BY <1>3 DEF ToPend
    <2>2. \A k \in Nat : ~ToPend(d, k)
      BY <1>3, <1>4 DEF ToPend
    <2> QED BY <1>2, <1>3, <1>5, <1>8, <1>10, <1>13, <2>1, <2>2 DEF Early
  <1>15. NoneNew(c, d)
    <2>1. Follows(c, d)
      BY <1>2, AdvanceFollows
    <2> QED BY <2>1 DEF Follows
  <1>16. \A u \in Threads \ {t} : Fits(jobs', F, u, f[u])
    <2> SUFFICES ASSUME NEW u \in Threads
                 PROVE  Fits(jobs', F, u, f[u])
      OBVIOUS
    <2>1. Fits(jobs, E, u, f[u])
      BY DEF Inv, FrameInv, E
    <2> QED BY ONLY <1>2, <1>13, <1>14, <2>1, PendedFits
  <1>17. Fits(jobs', F, t, d)
    <2>1. Fits(jobs, E, t, d)
      BY <1>2, AdvanceFits
    <2> QED BY ONLY <1>2, <1>13, <1>14, <2>1, PendedFits
  <1>18. /\ \A l \in Nat : Holds(d, l) <=> Holds(c, l)
         /\ \A l \in Nat : Froze(d, l) <=> Froze(c, l)
    <2>1. /\ m \in Nat /\ c \in Frame(m) /\ AtWork(c) /\ Apart(c) /\ d = Advance(c)
          /\ Now(c).op = "pend"
      BY ONLY <1>2
    <2>2. Holding(c, d, x) /\ Freezing(c, d, x) /\ x.op = "pend"
      BY ONLY <1>2, <2>1, AdvanceHolds
    <2> QED BY ONLY <2>2 DEF Holding, Freezing
  <1>19. TypeInv' /\ \A o \in queued' : frozen[o] > 0
    <2>1. /\ TypeInv /\ UNCHANGED <<owner, frozen, emission, printer, up>>
          /\ Len(jobs) = m /\ \A o \in queued : frozen[o] > 0
      BY <1>1, <1>2, <1>11 DEF Inv, NoteInv
    <2>2. queued' \subseteq 0..Len(jobs')
      <3>1. queued \subseteq 0..m /\ j \in 0..m
        BY <1>2, <1>3, <2>1 DEF TypeInv
      <3> QED BY ONLY <1>11, <1>13, <3>1
    <2>3. TypeInv'
      BY ONLY <1>13, <2>1, <2>2 DEF TypeInv
    <2> QED BY ONLY <1>7, <1>11, <2>1, <2>3
  <1>20. (\A k \in 1..Len(jobs) : jobs'[k].changed => frozen[k] > 0) /\ JobsFit(jobs', F, queued')
    <2>1. \A k \in 1..m : jobs[k].changed => frozen[k] > 0
      BY <1>2 DEF Inv, NoteInv, Ids
    <2>2. JobsFit(jobs, E, queued)
      BY DEF Inv, JobInv, E
    <2>3. ASSUME NEW k \in 1..m
          PROVE  /\ ~jobs'[k].answered => /\ jobs'[k].state = "pending-held" /\ ~jobs'[k].started
                                          /\ ~jobs'[k].changed /\ k \notin queued'
                 /\ k \in F => /\ jobs'[k].state \notin {"pending", "processing"}
                               /\ ~jobs'[k].backend_started
                 /\ jobs'[k].running => jobs'[k].backend_started
                 /\ jobs'[k].backend_started => jobs'[k].state # "pending"
      <3>1. CASE k = j
        <4>1. ~jobs[j].backend_started /\ ~jobs[j].running
          BY <1>2, <1>3, <1>14, <2>2 DEF JobsFit
        <4> QED BY <1>3, <1>5, <1>13, <1>14, <3>1, <4>1
      <3>2. CASE k # j
        BY <1>2, <1>11, <1>13, <1>14, <2>2, <3>2 DEF JobsFit
      <3> QED BY <3>1, <3>2
    <2>4. JobsFit(jobs', F, queued')
      BY <1>13, <2>3 DEF JobsFit
    <2> QED BY <1>2, <1>7, <1>13, <2>1, <2>4
  <1>21. Goes(t, Code(d)) /\ Len(jobs') = Len(jobs) /\ F = Early(jobs', g["main"])
    BY <1>2, <1>10, <1>11, <1>13
  <1>22. /\ UNCHANGED <<owner, frozen, emission>> /\ f[t].r = <<>> /\ NoneNew(f[t], d)
         /\ \A l \in Nat : Holds(d, l) <=> Holds(f[t], l)
         /\ \A l \in Nat : Froze(d, l) <=> Froze(f[t], l)
         /\ Moved(f, t, d, g)
    BY ONLY <1>1, <1>2, <1>5, <1>8, <1>11, <1>15, <1>18, SMTT(60)
  <1> QED BY ONLY <1>16, <1>17, <1>19, <1>20, <1>21, <1>22, PlainStep, Inv(f), t \in Threads


\* Start comes to where it makes job j pending.
PendAt(j) == [seg |-> "pend", j |-> j, n |-> 1, r |-> <<>>, b |-> 0]
StartsTo(f, t) == IF Denied(t) THEN Advance(f[t]) ELSE PendAt(On(t))

\* The code of a frame is its next instruction and the code after it.
LEMMA Unfold ==
    ASSUME NEW m \in Nat, NEW c \in Frame(m), AtWork(c), NEW d, d = Advance(c), NEW x, x = Now(c)
    PROVE  Code(c) = <<x>> \o Code(d) /\ x \in Item /\ Code(d) \in Seq(Item) /\ d \in Frame(m)
  <1> DEFINE s == Code(c)
  <1>1. s \in Seq(Item) /\ s # <<>> /\ Head(s) = x /\ Tail(s) = Code(d)
    BY Codes
  <1> HIDE DEF s
  <1>2. Head(s) \in Item /\ Tail(s) \in Seq(Item) /\ s = <<Head(s)>> \o Tail(s)
    BY <1>1, Uncons
  <1> QED BY <1>1, <1>2, AdvanceFrame DEF s

\* The last two instructions of a method are those of its last part.
LEMMA LastTwo ==
    ASSUME NEW m \in Nat, NEW c \in Frame(m), NEW k, c.j = k,
           \/ c.seg = "start" /\ c.n = 4
           \/ c.seg = "pend" /\ c.n = 3
    PROVE  Code(c) = <<Do("unlock", k)>> \o (<<Do("thaw", k)>> \o <<>>)
  <1> DEFINE d == Advance(c)
             e == Advance(d)
  <1>1. d = Advance(c) /\ e = Advance(d)
    OBVIOUS
  <1> HIDE DEF d, e
  <1>2. Active(c) /\ AtWork(c)
    BY DEF Active, AtWork, Size, Methods
  <1>3. Now(c) = Do("unlock", k)
    BY <1>2, NowIs DEF Methods
  <1>4. d \in Frame(m) /\ Code(c) = <<Do("unlock", k)>> \o Code(d)
    BY <1>1, <1>2, <1>3, Unfold
  <1>5. d.seg = c.seg /\ d.n = c.n + 1 /\ d.j = k /\ d.r = <<>> /\ d.b = 0
    BY <1>1, <1>2, AdvanceFields, FrameParts DEF Flat, Active
  <1>6. Active(d) /\ AtWork(d)
    BY <1>5 DEF Active, AtWork, Size, Methods
  <1>7. Now(d) = Do("thaw", k)
    BY <1>4, <1>5, <1>6, NowIs DEF Methods
  <1>8. e \in Frame(m) /\ Code(d) = <<Do("thaw", k)>> \o Code(e)
    BY <1>1, <1>4, <1>6, <1>7, Unfold
  <1>9. e.seg = c.seg /\ e.n = c.n + 2 /\ e.r = <<>> /\ e.b = 0
    BY <1>1, <1>4, <1>5, <1>6, AdvanceFields
  <1>10. ~AtWork(e)
    BY <1>9 DEF Active, AtWork, Size, Methods
  <1>11. Code(e) = <<>>
    BY <1>8, <1>10, Codes
  <1> QED BY <1>4, <1>8, <1>11

\* The rest of pd_job_impl_start, with R after it.
PendThen(j, R) == (GetPrinter \o Instruction("pend", j)) \o R

\* Start, that was not denied, has the instructions of "pend" left.
LEMMA StartCode ==
    ASSUME NEW m \in Nat, NEW c \in Frame(m), Active(c), c.seg = "start", c.n = 3,
           NEW j, j = c.j, NEW R, R = Code(Advance(c)), NEW p, p = PendAt(j)
    PROVE  p \in Frame(m) /\ Code(p) = PendThen(j, R)
  <1> DEFINE e == Advance(c)
             q == Advance(p)
             u == Advance(q)
             i1 == Do("brief", Engine)
             i2 == Do("pend", j)
  <1>1. j \in 1..m /\ AtWork(c)
    BY FrameParts DEF Jobless, AtWork
  <1>2. p.seg = "pend" /\ p.j = j /\ p.n = 1 /\ p.r = <<>> /\ p.b = 0
    BY DEF PendAt
  <1>3. p \in Frame(m)
    <2> DEFINE seg == "pend"
               n == 1
               z == <<>>
               b == 0
    <2>1. /\ seg \in Flat \cup Nested /\ j \in 0..m /\ n \in 1..10 /\ z \in Seq(Calm(m))
          /\ b \in 0..m /\ n <= Size(seg) + 1 /\ (j = 0 <=> seg \in Jobless)
          /\ z = <<>> /\ b = 0
      BY <1>1 DEF Flat, Size, Methods, Jobless
    <2>2. p = [seg |-> seg, j |-> j, n |-> n, r |-> z, b |-> b]
      BY DEF PendAt
    <2>3. m \in Nat
      OBVIOUS
    <2> HIDE DEF seg, n, z, b
    <2> QED BY ONLY <2>1, <2>2, <2>3, Frames
  <1>4. e = Advance(c) /\ q = Advance(p) /\ u = Advance(q)
    OBVIOUS
  <1>5. GetPrinter \o Instruction("pend", j) = <<i1>> \o <<i2>>
    BY DEF GetPrinter, LockBriefly, Instruction, Do
  <1> HIDE DEF e, q, u, i1, i2
  <1>6. Active(p) /\ AtWork(p)
    BY <1>2 DEF Active, AtWork, Size, Methods
  <1>7. Now(p) = i1
    BY <1>2, <1>3, <1>6, NowIs DEF i1
  <1>8. q \in Frame(m) /\ Code(p) = <<i1>> \o Code(q) /\ i1 \in Item
    BY <1>3, <1>4, <1>6, <1>7, Unfold
  <1>9. q.seg = "pend" /\ q.n = 2 /\ q.j = j
    BY <1>2, <1>3, <1>4, <1>6, AdvanceFields
  <1>10. Active(q) /\ AtWork(q)
    BY <1>9 DEF Active, AtWork, Size, Methods
  <1>11. Now(q) = i2
    BY <1>8, <1>9, <1>10, NowIs DEF i2
  <1>12. u \in Frame(m) /\ Code(q) = <<i2>> \o Code(u) /\ i2 \in Item /\ Code(u) \in Seq(Item)
    BY <1>4, <1>8, <1>10, <1>11, Unfold
  <1>13. u.seg = "pend" /\ u.n = 3 /\ u.j = j
    BY <1>4, <1>8, <1>9, <1>10, AdvanceFields, SMTT(60)
  <1>14. e \in Frame(m) /\ e.seg = "start" /\ e.n = 4 /\ e.j = j
    BY <1>1, <1>4, AdvanceFrame, AdvanceFields
  <1>15. Code(u) = <<Do("unlock", j)>> \o (<<Do("thaw", j)>> \o <<>>)
    BY ONLY <1>12, <1>13, LastTwo, m \in Nat
  <1>16. Code(e) = <<Do("unlock", j)>> \o (<<Do("thaw", j)>> \o <<>>)
    BY ONLY <1>14, LastTwo, m \in Nat
  <1>17. Code(u) = R
    BY <1>4, <1>15, <1>16
  <1>18. <<i1>> \in Seq(Item) /\ <<i2>> \in Seq(Item)
    BY <1>8, <1>12, Ones
  <1> DEFINE a == <<i1>>
             b == <<i2>>
             v == Code(u)
  <1>19. a \in Seq(Item) /\ b \in Seq(Item) /\ v \in Seq(Item) /\ Code(p) = a \o (b \o v)
    BY <1>8, <1>12, <1>18
  <1> HIDE DEF a, b, v
  <1>20. (a \o b) \o v = a \o (b \o v)
    BY ONLY <1>19, SMTT(60)
  <1> QED BY <1>3, <1>5, <1>17, <1>19, <1>20 DEF a, b, v, PendThen

\* Start has spooled the document of job j.
LEMMA StartedFits ==
    ASSUME NEW J, NEW K, NEW E, NEW t, NEW c, Len(J) \in Nat, Fits(J, E, t, c),
           t # "main", Len(K) = Len(J),
           \A k \in 1..Len(J) : /\ K[k].answered <=> J[k].answered
                                /\ K[k].backend_started <=> J[k].backend_started
                                /\ K[k].state = J[k].state
    PROVE  Fits(K, E, t, c)
  <1>1. c.j \in 0..Len(J) /\ c.b \in 0..Len(J) /\ (c.j = 0 <=> c.seg \in Jobless)
        /\ c.n \in Nat
    BY FrameParts DEF Fits
  <1>2. \A k \in 1..Len(K) : /\ About(c, k) => K[k].answered
                             /\ Announces(c, k) => ~K[k].answered
                             /\ Starting(c, k) => k \notin E
                             /\ K[k].state = "pending" =>
                                  ~(Active(c) /\ c.seg = "send" /\ c.j = k) /\ Ordered(c.r, k)
    BY DEF Fits
  <1>3. c.b = 0 /\ ~(Active(c) /\ c.seg = "message")
    BY DEF Fits
  <1>4. ~(c.seg = "start" /\ c.n <= 3) /\ ~(c.seg = "pend" /\ c.n <= 2)
    BY <1>1 DEF Fits, Active, Size, Methods
  <1> QED BY <1>2, <1>3, <1>4 DEF Fits

\* pd_job_impl_start
LEMMA StartsInv ==
    ASSUME NEW f, Inv(f), NEW t \in Threads, Starts(t),
           NEW g, g = [f EXCEPT ![t] = StartsTo(f, t)]
    PROVE  Inv(g)'
  <1> DEFINE op == "start"
             j == On(t)
             r == [jobs[j] EXCEPT !.started = TRUE]
             c == f[t]
             e == Advance(c)
             d == PendAt(j)
             m == Len(jobs)
             E == Early(jobs, f["main"])
             F == Early(jobs', g["main"])
             x == Now(c)
  <1>1. /\ Executes(t, op) /\ UNCHANGED <<owner, frozen, queued, emission, printer, up>>
        /\ IF Denied(t) THEN Goes(t, Rest(t)) /\ UNCHANGED jobs
           ELSE /\ jobs' = [jobs EXCEPT ![j].started = TRUE]
                /\ Goes(t, GetPrinter \o Instruction("pend", j) \o Rest(t))
    BY DEF Starts, locks, notes
  <1>2. /\ c \in Frame(m) /\ AtWork(c) /\ Apart(c) /\ Fits(jobs, E, t, c) /\ x.op = op
        /\ j = x.on /\ Rest(t) = Code(e) /\ e \in Frame(m) /\ m \in Nat /\ m <= MaxJobs
        /\ x = Now(c) /\ e = Advance(c) /\ c = f[t] /\ m = Len(jobs) /\ op = "start"
    BY <1>1, Executing
  <1>3. j = c.j /\ Active(c) /\ c.seg = "start" /\ c.n = 3 /\ j \in 1..m
    BY <1>1, Executing, AtBlock DEF Single, Jobless, Methods
  <1>4. CASE Denied(t)
    <2>1. Goes(t, Rest(t)) /\ g = [f EXCEPT ![t] = e] /\ UNCHANGED jobs
      BY <1>1, <1>4 DEF StartsTo
    <2>2. TypeInv' /\ Kept(jobs, jobs')
      BY <1>1, <2>1, KeptSame DEF Inv, TypeInv
    <2>3. /\ \A o \in queued' : frozen[o] > 0
          /\ \A i \in Ids : jobs'[i].changed => frozen[i] > 0
          /\ JobsFit(jobs', Early(jobs, f["main"]), queued')
      BY <1>1, <2>1 DEF Inv, NoteInv, JobInv
    <2>4. op \notin {"lock", "unlock", "freeze", "thaw", "next", "create", "run", "process"}
      OBVIOUS
    <2> HIDE DEF op
    <2> QED BY <1>1, <2>1, <2>2, <2>3, <2>4, QuietAdvance
  <1>5. CASE ~Denied(t)
    <2>1. /\ c.r = <<>> /\ c.b = 0 /\ t = "main" /\ ~jobs[j].started /\ jobs[j].answered
      <3>1. c.r = <<>> /\ c.b = 0
        BY <1>2, <1>3, FrameParts DEF Flat, Active
      <3>2. About(c, j)
        BY <1>3 DEF About
      <3> QED BY <1>2, <1>3, <3>1, <3>2 DEF Fits, Methods
    <2>2. jobs \in Seq(JobRecord) /\ jobs[j] \in JobRecord
      BY <1>3 DEF Inv, TypeInv
    <2>3. r \in JobRecord /\ jobs' = [jobs EXCEPT ![j] = r]
      BY <1>1, <1>3, <1>5, <2>2 DEF JobRecord
    <2>4. /\ r.answered = jobs[j].answered /\ r.started = TRUE /\ r.state = jobs[j].state
          /\ r.backend_started = jobs[j].backend_started /\ r.running = jobs[j].running
          /\ r.changed = jobs[j].changed
      BY <2>2 DEF JobRecord
    <2>5. Moved(f, t, d, g) /\ g["main"] = d /\ f["main"] = c
      BY <1>5, <2>1 DEF Moved, Inv, FrameInv, Threads, StartsTo
    <2>6. F = Early(jobs', g["main"]) /\ E = Early(jobs, f["main"])
      OBVIOUS
    <2>7. /\ d.seg = "pend" /\ d.j = j /\ d.n = 1 /\ d.r = <<>> /\ d.b = 0
          /\ d = [seg |-> "pend", j |-> j, n |-> 1, r |-> <<>>, b |-> 0]
      BY DEF PendAt
    <2>8. Goes(t, Code(d))
      <3>1. Code(d) = (GetPrinter \o Instruction("pend", j)) \o Code(e)
        <4> DEFINE R == Code(e)
        <4>0. R = Code(e) /\ d = PendAt(j)
          OBVIOUS
        <4> HIDE DEF op, r, c, d, e, j, m, x, E, F, R
        <4>1. /\ m \in Nat /\ c \in Frame(m) /\ Active(c) /\ c.seg = "start" /\ c.n = 3
              /\ j = c.j /\ R = Code(Advance(c)) /\ d = PendAt(j)
          BY ONLY <1>2, <1>3, <4>0
        <4>2. Code(d) = PendThen(j, R)
          BY ONLY <4>1, StartCode
        <4> QED BY <4>2 DEF R, PendThen
      <3> QED BY <1>1, <1>2, <1>5, <3>1
    <2> HIDE DEF op, j, r, c, d, e, m, E, F, x
    <2>9. Alters(jobs', j) /\ jobs'[j] = r
      BY ONLY <1>2, <1>3, <2>2, <2>3, Alter, ZenonT(60)
    <2>10. /\ jobs' \in Seq(JobRecord) /\ Len(jobs') = m
           /\ \A k \in 1..m : /\ jobs'[k].answered <=> jobs[k].answered
                              /\ jobs'[k].started <=> jobs[k].started \/ k = j
                              /\ jobs'[k].backend_started <=> jobs[k].backend_started
                              /\ jobs'[k].running <=> jobs[k].running
                              /\ jobs'[k].state = jobs[k].state
                              /\ jobs'[k].changed <=> jobs[k].changed
      BY <1>2, <2>4, <2>9 DEF Alters
    <2>11. F = E
      <3>1. \A k \in Nat : ~ToPend(c, k) /\ (ToPend(d, k) <=> k = j)
        BY <1>3, <2>7 DEF ToPend
      <3>2. \A k \in 1..m : (~jobs'[k].started \/ ToPend(d, k))
                                <=> (~jobs[k].started \/ ToPend(c, k))
        BY <1>2, <2>1, <2>10, <3>1
      <3> QED BY <1>2, <2>5, <2>6, <2>10, <3>2 DEF Early
    <2>12. NoneNew(c, d)
      BY <2>7 DEF NoneNew, Announces
    <2>13. \A u \in Threads \ {t} : Fits(jobs', F, u, f[u])
      <3> SUFFICES ASSUME NEW u \in Threads \ {t}
                   PROVE  Fits(jobs', F, u, f[u])
        OBVIOUS
      <3>1. Fits(jobs, F, u, f[u]) /\ u # "main"
        BY <2>1, <2>11 DEF Inv, FrameInv, E
      <3> QED BY ONLY <1>2, <2>10, <3>1, StartedFits
    <2>14. Fits(jobs', F, t, d)
      <3>1. d \in Frame(m)
        <4> DEFINE seg == "pend"
                   n == 1
                   q == <<>>
                   b == 0
        <4>1. /\ seg \in Flat \cup Nested /\ j \in 0..m /\ n \in 1..10 /\ q \in Seq(Calm(m))
              /\ b \in 0..m /\ n <= Size(seg) + 1 /\ (j = 0 <=> seg \in Jobless)
              /\ q = <<>> /\ b = 0
          BY <1>2, <1>3 DEF Flat, Size, Methods, Jobless
        <4>2. d = [seg |-> seg, j |-> j, n |-> n, r |-> q, b |-> b]
          BY <2>7
        <4> HIDE DEF seg, n, q, b
        <4> QED BY ONLY <1>2, <4>1, <4>2, Frames
      <3>2. \A k \in 1..m : /\ About(d, k) => jobs'[k].answered
                            /\ ~Announces(d, k) /\ ~Starting(d, k) /\ Ordered(d.r, k)
        BY <1>2, <1>3, <2>1, <2>7, <2>10 DEF About, Announces, Starting, Ordered
      <3>3. jobs'[d.j].started
        BY <1>3, <2>7, <2>10
      <3> QED BY <2>1, <2>7, <2>10, <3>1, <3>2, <3>3 DEF Fits
    <2>15. /\ \A l \in Nat : Holds(d, l) <=> Holds(c, l)
           /\ \A l \in Nat : Froze(d, l) <=> Froze(c, l)
      BY <1>3, <2>1, <2>7 DEF Holds, Froze, HoldsPrinter, HoldsJob, HoldsEngine, FreezesPrinter,
                              FreezesJob, Methods
    <2>16. TypeInv' /\ \A o \in queued' : frozen[o] > 0
      BY <1>1, <1>2, <2>10 DEF Inv, TypeInv, NoteInv
    <2>17. (\A k \in 1..Len(jobs) : jobs'[k].changed => frozen[k] > 0) /\ JobsFit(jobs', F, queued')
      <3>1. \A k \in 1..m : jobs[k].changed => frozen[k] > 0
        BY <1>2 DEF Inv, NoteInv, Ids
      <3>2. JobsFit(jobs, E, queued)
        BY DEF Inv, JobInv, E
      <3>3. JobsFit(jobs', F, queued')
        BY <1>1, <1>2, <2>1, <2>10, <2>11, <3>2 DEF JobsFit
      <3> QED BY <1>2, <2>10, <3>1, <3>3
    <2>18. Goes(t, Code(d)) /\ Len(jobs') = Len(jobs) /\ F = Early(jobs', g["main"])
      BY <1>2, <2>6, <2>8, <2>10
    <2>19. /\ UNCHANGED <<owner, frozen, emission>> /\ f[t].r = <<>> /\ NoneNew(f[t], d)
           /\ \A l \in Nat : Holds(d, l) <=> Holds(f[t], l)
           /\ \A l \in Nat : Froze(d, l) <=> Froze(f[t], l)
           /\ Moved(f, t, d, g)
      BY <1>1, <1>2, <2>1, <2>5, <2>12, <2>15
    <2> QED BY ONLY <2>13, <2>14, <2>16, <2>17, <2>18, <2>19, PlainStep, Inv(f), t \in Threads
  <1> QED BY <1>4, <1>5


-----------------------------------------------------------------------------
(* Calls                                                                    *)

\* A thread that has nothing to do begins with a block.
Fresh(seg, j) == [seg |-> seg, j |-> j, n |-> 1, r |-> <<>>, b |-> 0]

\* A call starts at the beginning of its block.
LEMMA FreshFrame ==
    ASSUME NEW m \in Nat, NEW seg \in Flat, NEW j \in 0..m, j = 0 <=> seg \in Jobless,
           NEW d, d = Fresh(seg, j)
    PROVE  /\ d \in Frame(m) /\ Code(d) = Block(seg, j) /\ Active(d)
           /\ d.seg = seg /\ d.j = j /\ d.n = 1 /\ d.r = <<>> /\ d.b = 0
  <1> DEFINE n == 1
             z == <<>>
             b == 0
             B == Block(seg, j)
  <1>1. seg \in Flat \cup Nested
    OBVIOUS
  <1>2. Size(seg) \in 1..9 /\ B \in Seq(Item) /\ Len(B) = Size(seg)
    BY <1>1, Sizes, Blocks
  <1>3. /\ n \in 1..10 /\ z \in Seq(Calm(m)) /\ b \in 0..m /\ n <= Size(seg) + 1
        /\ z = <<>> /\ b = 0
    BY <1>2
  <1>4. d = [seg |-> seg, j |-> j, n |-> n, r |-> z, b |-> b]
    BY DEF Fresh
  <1>5. d.seg = seg /\ d.j = j /\ d.n = 1 /\ d.r = <<>> /\ d.b = 0
    BY <1>4
  <1>6. Active(d)
    BY <1>2, <1>5 DEF Active
  <1>7. Code(d) = SubSeq(B, 1, Size(seg)) \o (<<>> \o <<>>)
    BY <1>5 DEF Code, Residue, Base
  <1> HIDE DEF n, z, b, B
  <1>8. SubSeq(B, 1, Size(seg)) = B
    BY <1>2
  <1>9. <<>> \o <<>> = <<>> /\ B \o <<>> = B
    BY <1>2, JoinEmpty
  <1>10. d \in Frame(m)
    BY <1>1, <1>3, <1>4, Frames
  <1> QED BY <1>5, <1>6, <1>7, <1>8, <1>9, <1>10 DEF B

\* There is one more job.
LEMMA GrownFits ==
    ASSUME NEW J, NEW K, NEW E, NEW F, NEW t, NEW c, Len(J) \in Nat, Fits(J, E, t, c),
           Len(K) = Len(J) + 1, F = E \cup {Len(J) + 1},
           \A k \in 1..Len(J) : K[k] = J[k], K[Len(J) + 1] = NewJob
    PROVE  Fits(K, F, t, c)
  <1> DEFINE m == Len(J)
             z == Len(J) + 1
  <1>1. /\ c \in Frame(m) /\ c.j \in 0..m /\ c.b \in 0..m /\ (c.j = 0 <=> c.seg \in Jobless)
        /\ c.n \in 1..10 /\ c.r \in Seq(Calm(m)) /\ c.seg \in Flat \cup Nested
        /\ c.n <= Size(c.seg) + 1 /\ c = [seg |-> c.seg, j |-> c.j, n |-> c.n, r |-> c.r, b |-> c.b]
        /\ c.seg \in Flat /\ c.n <= Size(c.seg) => c.r = <<>> /\ c.b = 0
    BY FrameParts DEF Fits
  <1>2. \A i \in 1..Len(c.r) : c.r[i].on \in 0..m
    <2>1. \A i \in 1..Len(c.r) : c.r[i] \in Calm(m)
      BY <1>1
    <2> QED BY <2>1 DEF Calm
  <1>3. c \in Frame(z)
    <2> DEFINE seg == c.seg
               j == c.j
               n == c.n
               r == c.r
               b == c.b
    <2>1. Calm(m) \subseteq Calm(z)
      BY DEF Calm
    <2>2. r \in Seq(Calm(z))
      BY <1>1, <2>1
    <2>3. z \in Nat /\ j \in 0..z /\ b \in 0..z
      BY <1>1
    <2>4. /\ seg \in Flat \cup Nested /\ n \in 1..10 /\ n <= Size(seg) + 1
          /\ (j = 0 <=> seg \in Jobless) /\ (seg \in Flat /\ n <= Size(seg) => r = <<>> /\ b = 0)
          /\ c = [seg |-> seg, j |-> j, n |-> n, r |-> r, b |-> b]
      BY <1>1
    <2> HIDE DEF seg, j, n, r, b, z
    <2> QED BY ONLY <2>2, <2>3, <2>4, Frames
  <1>4. "start" \notin Jobless /\ "pend" \notin Jobless /\ "message" \notin Jobless
    BY DEF Jobless
  <1>5. ASSUME NEW k \in 1..Len(K)
        PROVE  /\ About(c, k) => K[k].answered
               /\ Announces(c, k) => ~K[k].answered
               /\ Starting(c, k) => k \notin F
               /\ K[k].state = "pending" =>
                     ~(Active(c) /\ c.seg = "send" /\ c.j = k) /\ Ordered(c.r, k)
    <2>1. CASE k = z
      <3>1. c.j # k /\ c.b # k /\ \A i \in 1..Len(c.r) : c.r[i].on # k
        BY <1>1, <1>2, <2>1
      <3> QED BY <3>1 DEF About, Announces, Starting, Ordered
    <2>2. CASE k # z
      BY <2>2 DEF Fits
    <2> QED BY <2>1, <2>2
  <1>6. /\ c.seg = "start" /\ c.n <= 3 => ~K[c.j].started
        /\ c.seg = "pend" /\ c.n <= 2 => K[c.j].started
        /\ Active(c) /\ c.seg = "message" => K[c.j].backend_started
        /\ c.b # 0 => K[c.b].backend_started
    BY <1>1, <1>4 DEF Fits
  <1> QED BY <1>3, <1>5, <1>6 DEF Fits

\* pd_engine_add_job
LEMMA CreatesInv ==
    ASSUME NEW f, Inv(f), NEW t \in Threads, Creates(t),
           NEW g, g = [f EXCEPT ![t] = Fresh("announce", Len(jobs) + 1)]
    PROVE  Inv(g)'
  <1> DEFINE c == f[t]
             m == Len(jobs)
             z == m + 1
             d == Fresh("announce", z)
             E == Early(jobs, f["main"])
             F == Early(jobs', g["main"])
             x == Now(c)
  <1>1. /\ Executes(t, "create") /\ UNCHANGED <<owner, frozen, queued, emission, printer, up>>
        /\ jobs' = Append(jobs, NewJob)
        /\ Goes(t, Unlock(Engine) \o Announce(z))
    BY DEF Creates, locks, notes
  <1>2. /\ c \in Frame(m) /\ AtWork(c) /\ Fits(jobs, E, t, c) /\ x.op = "create"
        /\ m \in Nat /\ m <= MaxJobs /\ z = m + 1
        /\ x = Now(c) /\ c = f[t] /\ m = Len(jobs)
    BY <1>1, Executing
  <1>3. Active(c) /\ c.seg = "create" /\ c.n = 4 /\ c.j = 0
    BY <1>1, Executing, AtBlock DEF Single, Jobless
  <1>4. c.r = <<>> /\ c.b = 0 /\ t # "main"
    <2>1. c.r = <<>> /\ c.b = 0
      BY <1>2, <1>3, FrameParts DEF Flat, Active
    <2> QED BY <1>2, <1>3, <2>1 DEF Fits
  <1>5. Moved(f, t, d, g) /\ g["main"] = f["main"] /\ g[t] = d
        /\ \A u \in Threads \ {t} : g[u] = f[u]
    BY <1>4 DEF Moved, Inv, FrameInv, Threads
  <1>6. F = Early(jobs', g["main"]) /\ E = Early(jobs, f["main"]) /\ d = Fresh("announce", z)
    OBVIOUS
  <1>7. Block("announce", z) = Unlock(Engine) \o Announce(z)
    BY DEF Block
  <1> HIDE DEF c, m, z, d, E, F, x
  <1>8. /\ d \in Frame(z) /\ Code(d) = Block("announce", z) /\ Active(d)
        /\ d.seg = "announce" /\ d.j = z /\ d.n = 1 /\ d.r = <<>> /\ d.b = 0
    <2> DEFINE seg == "announce"
    <2>1. seg \in Flat /\ z \in 0..z /\ (z = 0 <=> seg \in Jobless) /\ z \in Nat
          /\ d = Fresh(seg, z)
      BY <1>2, <1>6 DEF Flat, Jobless
    <2> HIDE DEF seg
    <2>2. /\ d \in Frame(z) /\ Code(d) = Block(seg, z) /\ Active(d)
          /\ d.seg = seg /\ d.j = z /\ d.n = 1 /\ d.r = <<>> /\ d.b = 0
      BY ONLY <2>1, FreshFrame
    <2> QED BY <2>2 DEF seg
  <1>9. /\ jobs \in Seq(JobRecord) /\ NewJob \in JobRecord
        /\ NewJob.state = "pending-held" /\ ~NewJob.answered /\ ~NewJob.started
        /\ ~NewJob.changed /\ ~NewJob.backend_started /\ ~NewJob.running
    BY DEF Inv, TypeInv, NewJob, JobRecord
  <1>10. /\ jobs' \in Seq(JobRecord) /\ Len(jobs') = z /\ jobs'[z] = NewJob
         /\ \A k \in 1..m : jobs'[k] = jobs[k]
    <2> DEFINE N == NewJob
    <2>1. N \in JobRecord /\ jobs' = Append(jobs, N)
      BY <1>1, <1>9
    <2> HIDE DEF N
    <2>2. /\ jobs' \in Seq(JobRecord) /\ Len(jobs') = z /\ jobs'[z] = N
          /\ \A k \in 1..m : jobs'[k] = jobs[k]
      BY <1>2, <1>9, <2>1
    <2> QED BY <2>2 DEF N
  <1>11. F = E \cup {z}
    <2>1. \A k \in 1..m : k \in F <=> k \in E
      BY <1>2, <1>5, <1>6, <1>10 DEF Early
    <2>2. z \in F /\ z \in Nat
      BY <1>2, <1>6, <1>9, <1>10 DEF Early
    <2>3. F \subseteq 1..z /\ E \subseteq 1..m
      BY <1>2, <1>6, <1>10 DEF Early
    <2>4. \A k \in 1..z : k \in 1..m \/ k = z
      BY <1>2
    <2>5. \A k : k \in F <=> k \in E \cup {z}
      BY <2>1, <2>2, <2>3, <2>4
    <2> QED BY <2>5
  <1>12. ASSUME NEW u \in Threads \ {t}
         PROVE  Fits(jobs', F, u, f[u])
    <2>1. Fits(jobs, E, u, f[u])
      BY <1>6 DEF Inv, FrameInv
    <2> QED BY ONLY <1>2, <1>10, <1>11, <2>1, GrownFits
  <1>13. Fits(jobs', F, t, d)
    <2>1. \A k \in 1..z : /\ ~About(d, k) /\ (Announces(d, k) => k = z) /\ ~Starting(d, k)
                          /\ ~(Active(d) /\ d.seg = "send" /\ d.j = k) /\ Ordered(d.r, k)
      BY <1>8 DEF About, Announces, Starting, Ordered
    <2> QED BY <1>4, <1>8, <1>9, <1>10, <2>1 DEF Fits, Methods
  <1>14. FrameInv(g)'
    <2>1. /\ f \in [Threads -> Frame(m)] /\ todo = [u \in Threads |-> Code(f[u])]
          /\ \A u \in Threads, v \in Threads, k \in 1..m :
                Announces(f[u], k) /\ Announces(f[v], k) => u = v
      BY <1>2 DEF Inv, FrameInv, Ids
    <2>2. \A u \in Threads : Fits(jobs', F, u, g[u])
      BY <1>5, <1>12, <1>13
    <2>3. g \in [Threads -> Frame(z)]
      <3>1. \A u \in Threads : g[u] \in Frame(z)
        BY <1>10, <2>2 DEF Fits
      <3>2. g = [u \in Threads |-> g[u]]
        BY <1>5, <2>1 DEF Moved
      <3> QED BY <3>1, <3>2
    <2>4. todo' = [u \in Threads |-> Code(g[u])]
      BY <1>1, <1>5, <1>7, <1>8, <2>1 DEF Goes
    <2>5. ASSUME NEW u \in Threads, NEW k \in 1..z, Announces(g[u], k)
          PROVE  IF u = t THEN k = z ELSE k \in 1..m /\ Announces(f[u], k)
      <3>1. CASE u = t
        BY <1>5, <1>8, <2>5, <3>1 DEF Announces
      <3>2. CASE u # t
        <4>1. g[u] = f[u] /\ f[u].j \in 0..m
          BY <1>2, <1>5, <2>1, <3>2, FrameParts
        <4> QED BY <1>2, <2>5, <3>2, <4>1 DEF Announces
      <3> QED BY <3>1, <3>2
    <2>6. \A u \in Threads, v \in Threads, k \in 1..z :
             Announces(g[u], k) /\ Announces(g[v], k) => u = v
      BY <1>2, <2>1, <2>5
    <2> QED BY <1>6, <1>10, <2>2, <2>3, <2>4, <2>6 DEF FrameInv, Ids
  <1>15. RoomInv(g)'
    <2>1. IsFiniteSet(Creators(f)) /\ t \in Creators(f)
      BY <1>2, <1>3, Finite, FS_Subset DEF Creators
    <2>2. Creators(g) = Creators(f) \ {t}
      BY <1>5, <1>8 DEF Creators
    <2>3. /\ Cardinality(Creators(f)) \in Nat
          /\ Cardinality(Creators(g)) = Cardinality(Creators(f)) - 1
      BY <2>1, <2>2, FS_RemoveElement, FS_CardinalityType
    <2>4. m + Cardinality(Creators(f)) <= MaxJobs
      BY <1>2 DEF Inv, RoomInv
    <2> QED BY <1>2, <1>10, <2>3, <2>4, ThreadsAssumption DEF RoomInv, Creators
  <1>16. /\ \A l \in Nat : Holds(d, l) <=> Holds(c, l)
         /\ \A l \in Nat : Froze(d, l) <=> Froze(c, l)
    BY <1>3, <1>4, <1>8 DEF Holds, Froze, HoldsPrinter, HoldsJob, HoldsEngine, FreezesPrinter,
                            FreezesJob, Methods
  <1>17. LockInv(g)'
    BY <1>1, <1>2, <1>5, <1>16, LockStep
  <1>18. FreezeInv(g)'
    BY <1>1, <1>2, <1>5, <1>16, FreezeStep
  <1>19. EmissionInv(g)'
    <2>1. \A y : ~Has(f[t], y)
      BY <1>2, <1>4 DEF Has
    <2> QED BY <1>1, <1>5, <2>1, EmissionStep
  <1>20. NoteInv(g)'
    <2>1. \A o \in queued' : frozen'[o] > 0
      BY <1>1 DEF Inv, NoteInv
    <2>2. \A k \in 1..m : jobs[k].changed => frozen[k] > 0
      BY <1>2 DEF Inv, NoteInv, Ids
    <2>3. \A k \in 1..z : jobs'[k].changed => frozen'[k] > 0
      BY <1>1, <1>2, <1>9, <1>10, <2>2
    <2> QED BY <1>10, <1>19, <2>1, <2>3 DEF NoteInv, Ids
  <1>21. JobInv(g)'
    <2>1. JobsFit(jobs, E, queued) /\ queued \subseteq 0..m
      BY <1>2, <1>6 DEF Inv, JobInv, TypeInv
    <2>2. JobsFit(jobs', F, queued')
      <3> SUFFICES ASSUME NEW k \in 1..z
                   PROVE  /\ ~jobs'[k].answered => /\ jobs'[k].state = "pending-held"
                                                   /\ ~jobs'[k].started
                                                   /\ ~jobs'[k].changed /\ k \notin queued'
                          /\ k \in F => /\ jobs'[k].state \notin {"pending", "processing"}
                                        /\ ~jobs'[k].backend_started
                          /\ jobs'[k].running => jobs'[k].backend_started
                          /\ jobs'[k].backend_started => jobs'[k].state # "pending"
        BY <1>10 DEF JobsFit
      <3>1. CASE k = z
        BY <1>1, <1>2, <1>9, <1>10, <2>1, <3>1
      <3>2. CASE k # z
        BY <1>1, <1>2, <1>10, <1>11, <2>1, <3>2 DEF JobsFit
      <3> QED BY <3>1, <3>2
    <2> QED BY <1>6, <2>2 DEF JobInv
  <1>22. TypeInv'
    BY <1>1, <1>2, <1>10 DEF Inv, TypeInv
  <1> QED BY <1>14, <1>15, <1>17, <1>18, <1>20, <1>21, <1>22 DEF Inv


\* What a thread without a task is at.
LEMMA AtIdle ==
    ASSUME NEW f, Inv(f), NEW t \in Threads, todo[t] = <<>>, NEW c, c = f[t]
    PROVE  /\ c \in Frame(Len(jobs)) /\ Len(jobs) \in Nat
           /\ ~AtWork(c) /\ ~Active(c) /\ c.r = <<>> /\ c.b = 0
           /\ \A l \in Nat : ~Holds(c, l) /\ ~Froze(c, l)
  <1>1. c \in Frame(Len(jobs)) /\ Len(jobs) \in Nat /\ todo[t] = Code(c)
    BY DEF Inv, FrameInv, TypeInv
  <1>2. ~AtWork(c)
    BY <1>1, Codes
  <1>3. ~Active(c) /\ c.r = <<>> /\ c.b = 0
    BY <1>2 DEF AtWork
  <1> QED BY <1>1, <1>2, <1>3, IdleHolds

\* A call or a callback arrives.
LEMMA CallStep ==
    ASSUME NEW f, Inv(f), NEW t \in Threads,
           NEW seg \in {"touch", "create", "message"} \cup Methods,
           NEW j \in 0..Len(jobs), j = 0 <=> seg \in Jobless, Begins(t, Block(seg, j)),
           seg \in {"touch", "create"} => t # "main",
           seg \in Methods \cup {"message"} => t = "main",
           j # 0 => jobs[j].answered, seg = "start" => ~jobs[j].started,
           seg = "message" => jobs[j].backend_started,
           seg = "create" => Len(jobs) + Cardinality(Creators(f)) < MaxJobs,
           NEW g, g = [f EXCEPT ![t] = Fresh(seg, j)]
    PROVE  Inv(g)'
  <1> DEFINE c == f[t]
             m == Len(jobs)
             d == Fresh(seg, j)
             E == Early(jobs, f["main"])
             F == Early(jobs', g["main"])
  <1>1. /\ todo[t] = <<>> /\ Goes(t, Block(seg, j))
        /\ UNCHANGED <<owner, frozen, queued, emission, printer, jobs, up>>
    BY DEF Begins, notes, Goes
  <1>2. /\ c \in Frame(m) /\ m \in Nat /\ ~Active(c) /\ c.r = <<>> /\ c.b = 0
        /\ c = f[t] /\ m = Len(jobs) /\ \A l \in Nat : ~Holds(c, l) /\ ~Froze(c, l)
    BY <1>1, AtIdle
  <1>3. seg \in Flat /\ seg \notin {"announce", "pend", "send"}
    BY DEF Flat, Methods
  <1>4. /\ d \in Frame(m) /\ Code(d) = Block(seg, j) /\ Active(d)
        /\ d.seg = seg /\ d.j = j /\ d.n = 1 /\ d.r = <<>> /\ d.b = 0
    BY <1>2, <1>3, FreshFrame
  <1>5. /\ Moved(f, t, d, g) /\ g[t] = d /\ \A u \in Threads \ {t} : g[u] = f[u]
        /\ "main" \in Threads
    BY DEF Moved, Inv, FrameInv, Threads
  <1>6. F = Early(jobs', g["main"]) /\ E = Early(jobs, f["main"])
    OBVIOUS
  <1> HIDE DEF c, m, d, E, F
  <1>7. F = E
    <2>1. \A k : ~ToPend(d, k) /\ ~ToPend(c, k)
      <3>1. ~(c.seg = "pend" /\ c.n <= 2)
        <4>1. ~(c.n <= Size(c.seg)) /\ c.n \in 1..10
          BY <1>2, FrameParts DEF Active
        <4>2. Size("pend") = 4
          BY DEF Size, Methods
        <4> QED BY ONLY <4>1, <4>2
      <3> QED BY <1>3, <1>4, <3>1 DEF ToPend
    <2>2. \A k : ToPend(g["main"], k) <=> ToPend(f["main"], k)
      BY <1>2, <1>5, <2>1
    <2> QED BY <1>1, <1>6, <2>2 DEF Early
  <1>8. Fits(jobs', F, t, d)
    <2>1. \A k \in 1..m : /\ About(d, k) => k = j
                          /\ ~Announces(d, k) /\ ~Starting(d, k)
                          /\ ~(Active(d) /\ d.seg = "send" /\ d.j = k) /\ Ordered(d.r, k)
      BY <1>3, <1>4 DEF About, Announces, Starting, Ordered
    <2>2. \A k \in 1..m : About(d, k) => jobs[k].answered
      BY <1>2, <2>1
    <2> QED BY <1>1, <1>2, <1>3, <1>4, <2>1, <2>2 DEF Fits
  <1>9. FrameInv(g)'
    <2>1. /\ f \in [Threads -> Frame(m)] /\ todo = [u \in Threads |-> Code(f[u])]
          /\ \A u \in Threads, v \in Threads, k \in 1..m :
                Announces(f[u], k) /\ Announces(f[v], k) => u = v
          /\ \A u \in Threads : Fits(jobs, E, u, f[u])
      BY <1>2, <1>6 DEF Inv, FrameInv, Ids
    <2>2. \A u \in Threads : Fits(jobs', F, u, g[u])
      BY <1>1, <1>5, <1>7, <1>8, <2>1
    <2>3. g \in [Threads -> Frame(m)]
      BY <1>4, <1>5, <2>1 DEF Moved
    <2>4. todo' = [u \in Threads |-> Code(g[u])]
      BY <1>1, <1>4, <1>5, <2>1 DEF Goes
    <2>5. \A u \in Threads, k \in 1..m : Announces(g[u], k) => Announces(f[u], k)
      BY <1>3, <1>4, <1>5 DEF Announces
    <2> QED BY <1>1, <1>2, <1>6, <2>1, <2>2, <2>3, <2>4, <2>5 DEF FrameInv, Ids
  <1>10. RoomInv(g)'
    <2>1. IsFiniteSet(Creators(f)) /\ t \notin Creators(f)
      BY <1>2, Finite, FS_Subset DEF Creators
    <2>2. Cardinality(Creators(f)) \in Nat
      BY <2>1, FS_CardinalityType
    <2>3. m + Cardinality(Creators(f)) <= MaxJobs
      BY <1>2 DEF Inv, RoomInv
    <2>4. CASE seg = "create"
      <3>1. Creators(g) = Creators(f) \cup {t}
        BY <1>4, <1>5, <2>4 DEF Creators
      <3>2. Cardinality(Creators(g)) = Cardinality(Creators(f)) + 1
        BY <2>1, <3>1, FS_AddElement
      <3> QED BY <1>1, <1>2, <2>2, <2>4, <3>2, ThreadsAssumption DEF RoomInv, Creators
    <2>5. CASE seg # "create"
      <3>1. Creators(g) = Creators(f)
        BY <1>2, <1>4, <1>5, <2>5 DEF Creators
      <3> QED BY <1>1, <1>2, <2>3, <3>1 DEF RoomInv, Creators
    <2> QED BY <2>4, <2>5
  <1>11. /\ \A l \in Nat : Holds(d, l) <=> Holds(c, l)
         /\ \A l \in Nat : Froze(d, l) <=> Froze(c, l)
    <2>1. \A l \in Nat : ~Holds(d, l)
      BY <1>3, <1>4 DEF Holds, HoldsPrinter, HoldsJob, HoldsEngine, Flat
    <2>2. \A l \in Nat : ~Froze(d, l)
      BY <1>3, <1>4 DEF Froze, FreezesPrinter, FreezesJob, Flat
    <2> QED BY <1>2, <2>1, <2>2
  <1>12. LockInv(g)'
    BY <1>1, <1>2, <1>5, <1>11, LockStep
  <1>13. FreezeInv(g)'
    BY <1>1, <1>2, <1>5, <1>11, FreezeStep
  <1>14. EmissionInv(g)'
    <2>1. \A y : ~Has(f[t], y)
      BY <1>2 DEF Has
    <2> QED BY <1>1, <1>5, <2>1, EmissionStep
  <1>15. NoteInv(g)' /\ JobInv(g)' /\ TypeInv'
    BY <1>1, <1>6, <1>7, <1>14 DEF Inv, NoteInv, JobInv, TypeInv, Ids
  <1> QED BY <1>9, <1>10, <1>12, <1>13, <1>15 DEF Inv

\* The end of a sequence of four.
LEMMA SuffixEnd ==
    ASSUME NEW B \in Seq(Item), Len(B) = 4, NEW n \in 1..4, NEW S, S = SubSeq(B, n, 4)
    PROVE  S \in Seq(Item) /\ Len(S) = 5 - n /\ S[5 - n] = B[4]
  <1>1. n \in Int /\ 4 \in Int /\ n <= 4
    OBVIOUS
  <1>2. ASSUME NEW i \in n .. 4  PROVE B[i] \in Item
    <2>1. i \in 1 .. Len(B)
      BY ONLY n \in 1..4, i \in n .. 4, Len(B) = 4
    <2> QED BY ONLY <2>1, B \in Seq(Item), ElementOfSeq
  <1>3. /\ S \in Seq(Item) /\ Len(S) = IF n <= 4 THEN 4 - n + 1 ELSE 0
        /\ \A i \in 1 .. 4 - n + 1 : S[i] = B[n + i - 1]
    BY <1>1, <1>2, SubSeqProperties
  <1>4. 5 - n \in 1 .. 4 - n + 1 /\ n + (5 - n) - 1 = 4 /\ 4 - n + 1 = 5 - n
    OBVIOUS
  <1>5. S[5 - n] = B[n + (5 - n) - 1]
    BY <1>3, <1>4
  <1> QED BY <1>1, <1>3, <1>4, <1>5

\* The threads that create a job are in a block that does.
LEMMA CreatorsAre ==
    ASSUME NEW f, Inv(f)
    PROVE  Creators(f) \subseteq Creating /\ IsFiniteSet(Creating)
  <1>1. IsFiniteSet(Creating)
    BY ThreadsAssumption, FS_Subset DEF Creating
  <1>2. ASSUME NEW t \in Creators(f)
        PROVE  t \in Creating
    <2> DEFINE c == f[t]
               m == Len(jobs)
               R == Residue("create", c.j, c.n)
               B == Block("create", c.j)
    <2>1. /\ t \in Threads /\ c.seg = "create" /\ Active(c) /\ c \in Frame(m) /\ m \in Nat
          /\ todo[t] = Code(c) /\ Fits(jobs, Early(jobs, f["main"]), t, c)
      BY DEF Creators, Inv, FrameInv, TypeInv
    <2>2. t \in Workers
      BY <2>1 DEF Fits, Threads
    <2>3. /\ c.j \in Nat /\ c.n \in 1..4 /\ c.r = <<>> /\ c.b = 0
      BY <2>1, FrameParts DEF Active, Size, Methods, Flat
    <2>4. B \in Seq(Item) /\ Len(B) = 4 /\ B[4] = Do("create", 0)
      BY <2>3, CreateCode DEF IsCode
    <2>5. R = SubSeq(B, c.n, 4)
      BY DEF Residue, Size, Methods
    <2>6. todo[t] = R \o (<<>> \o <<>>)
      BY <2>1, <2>3 DEF Code, Base
    <2> HIDE DEF B
    <2>7. R \in Seq(Item) /\ Len(R) = 5 - c.n /\ R[5 - c.n] = B[4]
      BY <2>3, <2>4, <2>5, SuffixEnd
    <2> HIDE DEF R
    <2>8. <<>> \o <<>> = <<>> /\ R \o <<>> = R
      BY <2>7, JoinEmpty
    <2>9. todo[t] = R
      BY <2>6, <2>8
    <2>10. 5 - c.n \in 1..Len(todo[t]) /\ todo[t][5 - c.n].op = "create"
      BY <2>3, <2>4, <2>7, <2>9 DEF Do
    <2> QED BY <2>2, <2>10 DEF Creating
  <1> QED BY <1>1, <1>2


\* No client uses a job before it has been told of it.
LEMMA CallsInv ==
    ASSUME EarlyClients = FALSE, NEW f, Inv(f),
           \/ \E w \in Workers : CallCreateJob(w) \/ CallUpdateDefaults(w)
           \/ \E j \in Ids : CallStart(j) \/ CallCancel(j) \/ BackendExits(j)
                               \/ MessageArrives(j)
    PROVE  \E t \in Threads, seg \in Flat, j \in 0..Len(jobs) :
                /\ seg # "pend" /\ Begins(t, Block(seg, j))
                /\ Inv([f EXCEPT ![t] = Fresh(seg, j)])'
  <1> DEFINE G(t, seg, j) == [f EXCEPT ![t] = Fresh(seg, j)]
             Goal(t, seg, j) == /\ t \in Threads /\ seg \in Flat /\ j \in 0..Len(jobs)
                                /\ seg # "pend" /\ Begins(t, Block(seg, j))
                                /\ Inv(G(t, seg, j))'
  <1>1. "main" \in Threads /\ Workers \subseteq Threads /\ "main" \notin Workers
        /\ 0 \in 0..Len(jobs) /\ Ids \subseteq 0..Len(jobs) /\ 0 \notin Ids
    BY ThreadsAssumption DEF Threads, Ids, Inv, TypeInv
  <1>2. ASSUME NEW j \in Ids, NEW seg \in Methods \cup {"message"},
               Begins("main", Block(seg, j)), jobs[j].answered,
               seg = "start" => ~jobs[j].started,
               seg = "message" => jobs[j].backend_started
        PROVE  Goal("main", seg, j)
    <2>1. /\ seg \in {"touch", "create", "message"} \cup Methods /\ j \in 0..Len(jobs)
          /\ (j = 0 <=> seg \in Jobless) /\ seg \notin {"touch", "create"} /\ seg \in Flat
          /\ seg # "pend"
      BY <1>1, <1>2 DEF Methods, Jobless, Flat
    <2>2. Inv(G("main", seg, j))'
      BY <1>1, <1>2, <2>1, CallStep
    <2> QED BY <1>1, <1>2, <2>1, <2>2
  <1>3. ASSUME NEW w \in Workers, NEW seg \in {"touch", "create"}, Begins(w, Block(seg, 0)),
               seg = "create" => Len(jobs) + Cardinality(Creators(f)) < MaxJobs
        PROVE  Goal(w, seg, 0)
    <2>1. /\ seg \in {"touch", "create", "message"} \cup Methods
          /\ (0 = 0 <=> seg \in Jobless) /\ seg \notin Methods \cup {"message"} /\ seg \in Flat
          /\ w \in Threads /\ w # "main" /\ seg # "pend"
      BY <1>1, <1>3 DEF Methods, Jobless, Flat
    <2>2. Inv(G(w, seg, 0))'
      BY <1>1, <1>3, <2>1, CallStep
    <2> QED BY <1>1, <1>3, <2>1, <2>2
  <1>4. ASSUME NEW w \in Workers, CallCreateJob(w)
        PROVE  Goal(w, "create", 0)
    <2>1. Begins(w, Block("create", 0)) /\ Len(jobs) + Cardinality(Creating) < MaxJobs
      BY <1>4 DEF CallCreateJob, Block
    <2>2. IsFiniteSet(Creating) /\ Creators(f) \subseteq Creating
      BY CreatorsAre
    <2>3. /\ Cardinality(Creators(f)) <= Cardinality(Creating)
          /\ Cardinality(Creators(f)) \in Nat /\ Cardinality(Creating) \in Nat
      BY <2>2, FS_Subset, FS_CardinalityType
    <2>4. Len(jobs) + Cardinality(Creators(f)) < MaxJobs
      BY <2>1, <2>3, ThreadsAssumption DEF Inv, TypeInv
    <2> QED BY <1>3, <2>1, <2>4
  <1>5. ASSUME NEW w \in Workers, CallUpdateDefaults(w)
        PROVE  Goal(w, "touch", 0)
    <2>1. Begins(w, Block("touch", 0))
      BY <1>5 DEF CallUpdateDefaults, Block
    <2> QED BY <1>3, <2>1
  <1>6. ASSUME NEW j \in Ids, CallStart(j)
        PROVE  Goal("main", "start", j)
    <2>1. Begins("main", Block("start", j)) /\ jobs[j].answered /\ ~jobs[j].started
      BY <1>6 DEF CallStart, Known, Block
    <2> QED BY <1>2, <2>1 DEF Methods
  <1>7. ASSUME NEW j \in Ids, CallCancel(j)
        PROVE  Goal("main", "cancel", j)
    <2>1. Begins("main", Block("cancel", j)) /\ jobs[j].answered
      BY <1>7 DEF CallCancel, Known, Block
    <2> QED BY <1>2, <2>1 DEF Methods
  <1>8. ASSUME NEW j \in Ids, jobs[j].running
        PROVE  jobs[j].backend_started /\ jobs[j].answered
    <2>1. j \in 1..Len(jobs)
      BY DEF Ids
    <2>2. jobs[j].backend_started
      BY <1>8, <2>1, JobFacts
    <2>3. j \notin Early(jobs, f["main"])
      BY <2>1, <2>2, JobFacts
    <2>4. jobs[j].started
      BY <2>1, <2>3 DEF Early
    <2> QED BY <2>1, <2>2, <2>4, JobFacts
  <1>9. ASSUME NEW j \in Ids, BackendExits(j)
        PROVE  Goal("main", "exit", j)
    <2>1. Begins("main", Block("exit", j)) /\ jobs[j].running
      BY <1>9 DEF BackendExits, Block
    <2> QED BY <1>2, <1>8, <2>1 DEF Methods
  <1>10. ASSUME NEW j \in Ids, MessageArrives(j)
         PROVE  Goal("main", "message", j)
    <2>1. Begins("main", Block("message", j)) /\ jobs[j].running
      BY <1>10 DEF MessageArrives, Block
    <2> QED BY <1>2, <1>8, <2>1 DEF Methods
  <1>11. \E t, seg, j : Goal(t, seg, j)
    BY <1>4, <1>5, <1>6, <1>7, <1>9, <1>10
  <1> QED BY <1>11


\* There are not more jobs than there is room for.
LEMMA Room == ASSUME NEW f, Inv(f)
              PROVE  Len(jobs) \in Nat /\ Len(jobs) <= MaxJobs
  <1>1. IsFiniteSet(Creators(f))
    BY Finite, FS_Subset DEF Creators
  <1>2. Cardinality(Creators(f)) \in Nat
    BY <1>1, FS_CardinalityType
  <1> QED BY <1>2, ThreadsAssumption DEF Inv, RoomInv, TypeInv

\* At rest nobody holds or has frozen anything, or goes on with an emission.
LEMMA RestIsQuiet ==
    ASSUME NEW f, Inv(f), AtRest
    PROVE  /\ \A t \in Threads : /\ f[t] \in Frame(Len(jobs)) /\ ~Active(f[t])
                                 /\ f[t].r = <<>> /\ \A y : ~Has(f[t], y)
           /\ \A l \in Locks : owner[l] = Nobody
           /\ \A o \in Objects : frozen[o] = 0 /\ emission[o] = "none"
           /\ queued = {} /\ \A j \in Ids : ~jobs[j].changed
  <1>1. \A t \in Threads : /\ f[t] \in Frame(Len(jobs)) /\ ~Active(f[t]) /\ f[t].r = <<>>
                           /\ \A l \in Nat : ~Holds(f[t], l) /\ ~Froze(f[t], l)
    BY AtIdle DEF AtRest
  <1>2. \A t \in Threads : \A y : ~Has(f[t], y)
    BY <1>1 DEF Has
  <1>3. Locks \subseteq Nat /\ Objects \subseteq Nat
    BY EngineLock, ThreadsAssumption DEF Locks, Objects
  <1>4. \A l \in Locks : owner[l] = Nobody
    BY <1>1, <1>3 DEF Inv, LockInv, TypeInv
  <1>5. \A o \in Objects : frozen[o] = 0
    <2> TAKE o \in Objects
    <2>1. Freezers(f, o) = {}
      BY <1>1, <1>3 DEF Freezers
    <2> QED BY <2>1, FS_EmptySet DEF Inv, FreezeInv
  <1>6. \A o \in Objects : emission[o] = "none"
    BY <1>2 DEF Inv, NoteInv, EmissionInv
  <1>7. 0..Len(jobs) \subseteq Objects
    <2>1. Len(jobs) \in Nat /\ Len(jobs) <= MaxJobs /\ MaxJobs \in Nat
      BY Room, ThreadsAssumption
    <2> QED BY <2>1 DEF Objects
  <1>8. queued = {}
    BY <1>5, <1>7 DEF Inv, NoteInv, TypeInv
  <1>9. \A j \in Ids : ~jobs[j].changed
    BY <1>5, <1>7 DEF Inv, NoteInv, Ids
  <1> QED BY <1>1, <1>2, <1>4, <1>5, <1>6, <1>8, <1>9

\* So nothing is held back.
LEMMA Quiet == ASSUME NEW f, Inv(f)  PROVE NothingHeldBack
  BY RestIsQuiet DEF NothingHeldBack


-----------------------------------------------------------------------------
(* Nobody waits for ever                                                    *)

\* A new job, which only its creator can have locked.
New(l) == l \in 1..Len(jobs) /\ ~jobs[l].answered

\* A thread that waits for the engine's lock may hold the printer's or a job's;
\* one that waits for the printer's, a job's; one that waits for a job's, that
\* of another job whose message it handles, or the printer's if the job is new.
LEMMA LockOrder ==
    ASSUME NEW f, Inv(f), NEW t \in Threads, NEW l \in Locks, Waits(t, l), NEW c, c = f[t]
    PROVE  /\ ~Holds(c, Engine)
           /\ Holds(c, 0) => l = Engine \/ New(l)
           /\ New(l) => \A u \in Threads : ~Holds(f[u], l)
           /\ l \in 1..MaxJobs => \A k \in 1..MaxJobs :
                Holds(c, k) => t = "main" /\ k = c.b /\ k # l
  <1> DEFINE m == Len(jobs)
             x == Now(c)
             n == c.n
             j == c.j
             b == c.b
  <1>1. /\ c \in Frame(m) /\ m \in Nat /\ m <= MaxJobs /\ todo[t] = Code(c) /\ m = Len(jobs)
        /\ Fits(jobs, Early(jobs, f["main"]), t, c)
    BY Room DEF Inv, FrameInv
  <1>2. AtWork(c) /\ Head(todo[t]) = x
    BY <1>1, Codes DEF Waits
  <1>3. x = Do("lock", l) \/ x = Do("brief", l)
    <2>1. Lock(l)[1] = Do("lock", l) /\ LockBriefly(l)[1] = Do("brief", l)
      BY DEF Lock, LockBriefly, Instruction, Do
    <2> QED BY <1>2, <2>1 DEF Waits
  <1>4. x.op \in {"lock", "brief"} /\ x.op \notin Single /\ x.on = l /\ x = Now(c)
    BY <1>3 DEF Do, Single
  <1> HIDE DEF m, x
  <1>5. Active(c)
    BY <1>1, <1>2, <1>4, AtBlock
  <1>6. /\ c.seg \in Flat \cup Nested /\ j \in 0..m /\ n \in 1..10 /\ b \in 0..m
        /\ (j = 0 <=> c.seg \in Jobless) /\ (c.seg \in Flat => b = 0)
    BY <1>1, <1>5, FrameParts DEF Active
  <1>7. Engine = MaxJobs + 1 /\ MaxJobs \in Nat
    BY ThreadsAssumption DEF Engine
  <1>8. /\ b # 0 => t = "main" /\ j # b
        /\ \A k \in 1..m : About(c, k) => jobs[k].answered
        /\ \A k \in 1..m : Announces(c, k) => ~jobs[k].answered
    BY <1>1, <1>5, <1>6 DEF Fits
  <1> DEFINE Place ==
        \/ l = 0 /\ c.seg \in {"touch", "free", "next", "create"} /\ n = 1
        \/ l = 0 /\ c.seg = "send" /\ n = 6
        \/ l = 0 /\ c.seg = "message" /\ n = 3
        \/ l = Engine /\ c.seg = "send" /\ n \in {2, 5}
        \/ l = Engine /\ c.seg = "create" /\ n = 3
        \/ l = Engine /\ c.seg = "pend" /\ n = 1
        \/ l = j /\ j # 0 /\ c.seg = "send" /\ n = 3
        \/ l = j /\ j # 0 /\ c.seg = "announce" /\ n = 2
        \/ l = j /\ j # 0 /\ c.seg \in Methods \cup {"message"} /\ n = 1
  <1> HIDE DEF n, j, b
  <1>9. Place
    <2>1. CASE c.seg \in {"touch", "free", "next", "unlock"}
      BY <1>1, <1>4, <1>5, <2>1, NowIs DEF Do, n, j
    <2>2. CASE c.seg = "send"
      BY <1>1, <1>4, <1>5, <1>6, <2>2, NowIs DEF Do, n, j, Jobless
    <2>3. CASE c.seg = "create"
      BY <1>1, <1>4, <1>5, <2>3, NowIs DEF Do, n, j
    <2>4. CASE c.seg = "announce"
      BY <1>1, <1>4, <1>5, <1>6, <2>4, NowIs DEF Do, n, j, Jobless
    <2>5. CASE c.seg = "pend"
      BY <1>1, <1>4, <1>5, <2>5, NowIs DEF Do, n, j
    <2>6. CASE c.seg = "message"
      BY <1>1, <1>4, <1>5, <1>6, <2>6, NowIs DEF Do, n, j, Jobless
    <2>7. CASE c.seg \in Methods
      BY <1>1, <1>4, <1>5, <1>6, <2>7, NowIs DEF Do, n, j, Jobless, Methods
    <2> QED BY <1>6, <2>1, <2>2, <2>3, <2>4, <2>5, <2>6, <2>7 DEF Flat, Nested, Methods
  <1>10. \A k \in Nat : Holds(c, k) <=>
            \/ b # 0 /\ k = b
            \/ j # 0 /\ k = j /\ HoldsJob(c.seg, n)
            \/ k = 0 /\ HoldsPrinter(c.seg, n)
            \/ k = Engine /\ HoldsEngine(c.seg, n)
    BY DEF Holds, n, j, b
  <1>11. /\ ~HoldsEngine(c.seg, n)
         /\ HoldsPrinter(c.seg, n) => l = Engine \/ (c.seg = "announce" /\ n = 2 /\ l = j /\ j # 0)
         /\ HoldsJob(c.seg, n) => l = 0 \/ l = Engine
    BY <1>9, <1>7 DEF HoldsEngine, HoldsPrinter, HoldsJob, Methods
  <1>12. ~Holds(c, Engine)
    BY <1>1, <1>6, <1>7, <1>10, <1>11
  <1>13. c.seg = "announce" /\ n = 2 /\ l = j /\ j # 0 => New(l)
    BY <1>1, <1>6, <1>8 DEF Announces, New, n, j
  <1>14. Holds(c, 0) => l = Engine \/ New(l)
    BY <1>10, <1>11, <1>13
  <1>15. ASSUME l \in 1..MaxJobs, NEW k \in 1..MaxJobs, Holds(c, k)
         PROVE  t = "main" /\ k = c.b /\ k # l
    <2>1. k = b /\ b # 0
      BY <1>7, <1>10, <1>11, <1>15
    <2>2. l = j
      BY <1>7, <1>9, <1>15
    <2> QED BY <1>8, <2>1, <2>2 DEF b, j
  <1>16. ASSUME New(l), NEW u \in Threads, Holds(f[u], l)
         PROVE  FALSE
    <2>1. l \in 1..m /\ ~jobs[l].answered /\ l # 0 /\ l # Engine
      BY <1>1, <1>7, <1>16 DEF New
    <2>2. /\ Fits(jobs, Early(jobs, f["main"]), u, f[u]) /\ f[u] \in Frame(m)
          /\ \A v \in Threads : Announces(f[v], l) /\ Announces(f[u], l) => u = v
      BY <1>1, <2>1 DEF Inv, FrameInv, Ids
    <2>3. \/ f[u].b = l
          \/ f[u].j = l /\ HoldsJob(f[u].seg, f[u].n)
      BY <1>16, <2>1 DEF Holds
    <2>4. ~About(f[u], l)
      BY <1>1, <2>1, <2>2 DEF Fits
    <2>5. f[u].b # l
      BY <2>4 DEF About
    <2>6. HoldsJob(f[u].seg, f[u].n) => Active(f[u])
      BY DEF HoldsJob, Active, Size, Methods
    <2>7. f[u].j = l /\ f[u].seg = "announce" /\ f[u].n \in 3..5
      BY <2>3, <2>4, <2>5, <2>6 DEF About, HoldsJob, Methods
    <2>8. Announces(f[u], l)
      BY <2>7 DEF Announces
    <2>9. l = j /\ j # 0
      BY <1>7, <1>9, <2>1
    <2>10. CASE c.seg = "announce" /\ n = 2
      <3>1. Announces(c, l)
        BY <2>9, <2>10 DEF Announces, n, j
      <3>2. u = t
        BY <2>2, <2>8, <3>1
      <3> QED BY <2>7, <2>10, <3>2 DEF n
    <2>11. CASE c.seg # "announce"
      <3>1. About(c, l)
        BY <1>5, <2>9, <2>11 DEF About, j
      <3> QED BY <1>8, <2>1, <3>1
    <2> QED BY <1>9, <2>1, <2>10, <2>11, <2>9 DEF Methods
  <1> QED BY <1>12, <1>14, <1>15, <1>16

\* Of threads that wait for one another none holds the engine's lock, so none holds
\* the printer's either, and all wait for jobs.  Then the main thread holds the one
\* whose message it handles and waits for another, which nobody else can hold.
LEMMA Progress == ASSUME NEW f, Inv(f)  PROVE NoDeadlock
  <1> SUFFICES ASSUME NEW T \in (SUBSET Threads) \ {{}},
                      \A t \in T : \E l \in Locks : Waits(t, l) /\ owner[l] \in T
               PROVE  FALSE
    BY DEF NoDeadlock
  <1>1. /\ Locks = (0..MaxJobs) \cup {Engine} /\ T \subseteq Threads /\ T # {}
        /\ Engine \in Locks /\ 0 \in Locks /\ MaxJobs \in Nat
    BY Mutexes, ThreadsAssumption DEF Locks, Objects
  <1>2. \A t \in Threads, l \in Locks : owner[l] = t <=> Holds(f[t], l)
    BY DEF Inv, LockInv
  <1>3. \A t \in T : \A l \in Locks : Waits(t, l) =>
           /\ ~Holds(f[t], Engine)
           /\ Holds(f[t], 0) => l = Engine \/ New(l)
           /\ New(l) => \A u \in Threads : ~Holds(f[u], l)
           /\ l \in 1..MaxJobs => \A k \in 1..MaxJobs :
                Holds(f[t], k) => t = "main" /\ k = f[t].b /\ k # l
    BY <1>1, LockOrder
  <1>4. \A t \in T : owner[Engine] # t
    BY <1>1, <1>2, <1>3
  <1>5. \A t \in T : \E l \in Locks : Waits(t, l) /\ owner[l] \in T /\ l # Engine /\ ~New(l)
    BY <1>1, <1>2, <1>3, <1>4
  <1>6. \A t \in T : owner[0] # t
    BY <1>1, <1>2, <1>3, <1>5
  <1>7. \A t \in T : \E l \in 1..MaxJobs : Waits(t, l) /\ owner[l] \in T
    <2> TAKE t \in T
    <2>1. PICK l \in Locks : Waits(t, l) /\ owner[l] \in T /\ l # Engine
      BY <1>5
    <2>2. l # 0
      BY <1>6, <2>1
    <2>3. l \in 1..MaxJobs
      BY <1>1, <2>1, <2>2
    <2> QED BY <2>1, <2>3
  <1>8. ASSUME NEW t \in T, NEW l \in 1..MaxJobs, Waits(t, l), owner[l] \in T
        PROVE  owner[l] = "main" /\ l = f["main"].b
    <2> DEFINE u == owner[l]
    <2>1. PICK k \in 1..MaxJobs : Waits(u, k)
      BY <1>7, <1>8
    <2>2. Holds(f[u], l)
      BY <1>1, <1>2, <1>8
    <2>3. k \in Locks
      BY <1>1
    <2> HIDE DEF u
    <2>4. u = "main" /\ l = f[u].b
      BY <1>3, <1>8, <2>1, <2>2, <2>3 DEF u
    <2> QED BY <2>4 DEF u
  <1>9. PICK t \in T : TRUE
    BY <1>1
  <1>10. PICK l \in 1..MaxJobs : Waits(t, l) /\ owner[l] \in T
    BY <1>7
  <1>11. owner[l] = "main" /\ l = f["main"].b /\ "main" \in T
    BY <1>8, <1>10
  <1>12. PICK k \in 1..MaxJobs : Waits("main", k) /\ owner[k] \in T
    BY <1>7, <1>11
  <1>13. k = f["main"].b
    BY <1>8, <1>11, <1>12
  <1>14. Holds(f["main"], l) /\ k \in Locks /\ l \in Locks
    BY <1>1, <1>2, <1>11
  <1>15. l # k
    BY <1>3, <1>11, <1>12, <1>14
  <1> QED BY <1>11, <1>13, <1>15


-----------------------------------------------------------------------------
(* What is still to come                                                    *)

\* A thread is in a block of job j that will make it outgoing; that will set
\* the printer idle; it is in one that will look for the next job.
Sending(c, j) == c.seg = "send" /\ c.j = j /\ c.n \in 2..7
Freeing(c, j) == c.seg = "free" /\ c.j = j /\ c.n \in 1..3
Finding(c) == c.seg = "next" /\ c.n \in 1..2
AnySending(f, j) == \E t \in Threads : Sending(f[t], j)
AnyFreeing(f, j) == \E t \in Threads : Freeing(f[t], j)
AnyFinding(f) == \E t \in Threads : Finding(f[t])

\* Whoever makes the printer busy then makes the job processing.
Paired(r) ==
    \A i \in 1..Len(r) : r[i].op = "busy" =>
        i + 1 \in 1..Len(r) /\ r[i + 1] = Do("process", r[i].on)

Ahead(f, y) == \E t \in Threads : Has(f[t], y)

\* The handlers from number n on will hear of the state o has now.
Heard(f, o, n) ==
    \/ o \in queued \/ emission[o] = "restart"
    \/ \E i \in 1..n : Ahead(f, RunAt(o, i))

\* Job j has the slot: it is or will be outgoing, or will give it back.
SlotOf(f, j) ==
    /\ jobs[j].sending
    /\ \/ jobs[j].outgoing \/ jobs[j].changed \/ Ahead(f, Do("reasons", j))
       \/ AnySending(f, j)

\* The printer is busy with job j: it is or will be processing, or the printer
\* will hear that it has ended.
BusyOf(f, j) ==
    /\ j \notin Early(jobs, f["main"])
    /\ \/ jobs[j].state = "processing" \/ Ahead(f, Do("process", j))
       \/ /\ Ended(j)
          /\ Heard(f, j, 3) \/ AnyFreeing(f, j)

\* Somebody will look for work for the idle printer, or has found some.
Looked(f) ==
    \/ Heard(f, 0, 1) \/ Ahead(f, Do("look", 0)) \/ AnyFinding(f)
    \/ \E k \in Ids : Ahead(f, Do("busy", k))

Waiting(j) == jobs[j].watched /\ jobs[j].state = "pending"

PairInv(f) == \A t \in Threads : Paired(f[t].r)
SlotInv(f) == printer.job_outgoing => \E j \in Ids : SlotOf(f, j)
BusyInv(f) == printer.state = "processing" => \E j \in Ids : BusyOf(f, j)
WakeInv(f) ==
    printer.state = "idle" => \A j \in Ids : Waiting(j) =>
        Looked(f) \/ Heard(f, j, 2) \/ Ahead(f, Do("engine", j))
Later(f) == PairInv(f) /\ SlotInv(f) /\ BusyInv(f) /\ WakeInv(f)

\* A thread that goes from c to d has forgotten nothing but the instruction x
\* it has executed.
Carries(c, d, x) ==
    /\ \A y : Has(c, y) => Has(d, y) \/ y = x
    /\ \A j : Sending(c, j) => Sending(d, j) \/ x.op = "send"
    /\ \A j : Freeing(c, j) => Freeing(d, j) \/ x.op = "free"
    /\ Finding(c) => Finding(d) \/ x.op = "next"
    /\ Paired(c.r) => Paired(d.r)

\* What was to be heard still is; an emission has come to the next handler.
HeardKept(d) ==
    \A o \in Objects : o \in queued \/ emission[o] = "restart" =>
        o \in queued' \/ emission'[o] = "restart" \/ Has(d, RunAt(o, 1))
RunKept(d, x) ==
    \A o \in Objects, i \in 1..4 : x = RunAt(o, i) =>
        /\ o # 0 /\ i <= 3 => Freeing(d, o) \/ \E k \in 1..3 : Has(d, RunAt(o, k))
        /\ o # 0 /\ i <= 2 => Has(d, Do("engine", o)) \/ \E k \in 1..2 : Has(d, RunAt(o, k))
        /\ o = 0 /\ i = 1 => Has(d, Do("look", 0)) \/ Has(d, RunAt(0, 1))

SlotKept(d, x) ==
    /\ x.op \notin {"reasons", "send"}
    /\ printer'.job_outgoing => printer.job_outgoing
    /\ \A j \in Ids : /\ jobs[j].sending => jobs'[j].sending
                      /\ jobs[j].outgoing => jobs'[j].outgoing \/ jobs'[j].changed
                      /\ jobs[j].changed => jobs'[j].changed \/ Has(d, Do("reasons", j))

BusyKept(E, F, x) ==
    /\ x.op # "free"
    /\ printer'.state = "processing" => printer.state = "processing"
    /\ \A j \in Ids : j \notin E =>
        /\ j \notin F
        /\ jobs[j].state = "processing" =>
            jobs'[j].state = "processing" \/ (jobs'[j].state \in Terminal /\ j \in queued')
        /\ Ended(j) => jobs'[j].state \in Terminal \cup {"processing"}
        /\ x = Do("process", j) => jobs'[j].state = "processing"

WakeKept(d, x) ==
    /\ x.op # "busy"
    /\ printer'.state = "idle" => printer.state = "idle" \/ 0 \in queued'
    /\ \A j \in 1..Len(jobs') : jobs'[j].watched /\ jobs'[j].state = "pending" =>
        (j \in Ids /\ Waiting(j)) \/ j \in queued'
    /\ x.op = "look" => printer'.state # "idle" \/ Finding(d)
    /\ x.op = "next" => \/ \E k \in Ids : Has(d, Do("busy", k))
                        \/ \A j \in 1..Len(jobs') : jobs'[j].state # "pending"
    /\ \A j \in Ids : x = Do("engine", j) =>
        printer'.state # "idle" \/ ~jobs'[j].watched \/ jobs'[j].state # "pending"

RunsOne(x, o, n) == \E i \in 1..n : x = RunAt(o, i)

\* What is ahead stays so.
LEMMA AheadStep ==
    ASSUME NEW f, NEW t \in Threads, NEW d, NEW g, NEW x, NEW y, Moved(f, t, d, g),
           f \in [Threads -> Frame(Len(jobs))], Carries(f[t], d, x), Ahead(f, y)
    PROVE  y = x \/ Ahead(g, y)
  <1>1. g[t] = d /\ \A u \in Threads : u # t => g[u] = f[u]
    BY DEF Moved
  <1>2. PICK u \in Threads : Has(f[u], y)
    BY DEF Ahead
  <1>3. CASE u = t
    BY <1>1, <1>2, <1>3 DEF Ahead, Carries
  <1>4. CASE u # t
    BY <1>1, <1>2, <1>4 DEF Ahead
  <1> QED BY <1>3, <1>4

\* A thread that is in a block stays there until it has done what it is there for.
LEMMA BlockStep ==
    ASSUME NEW f, NEW t \in Threads, NEW d, NEW g, NEW x, NEW j, Moved(f, t, d, g),
           f \in [Threads -> Frame(Len(jobs))], Carries(f[t], d, x)
    PROVE  /\ AnySending(f, j) =>
                x.op = "send" \/ AnySending(g, j)
           /\ AnyFreeing(f, j) =>
                x.op = "free" \/ AnyFreeing(g, j)
           /\ AnyFinding(f) =>
                x.op = "next" \/ AnyFinding(g)
           /\ (\A u \in Threads : Paired(f[u].r)) => \A u \in Threads : Paired(g[u].r)
           /\ \A y : Has(d, y) => Ahead(g, y)
           /\ Freeing(d, j) => AnyFreeing(g, j)
           /\ Finding(d) => AnyFinding(g)
  <1>1. g[t] = d /\ \A u \in Threads : u # t => g[u] = f[u]
    BY DEF Moved
  <1>2. ASSUME NEW u \in Threads, Sending(f[u], j)
        PROVE  x.op = "send" \/ AnySending(g, j)
    BY <1>1, <1>2 DEF Carries, AnySending
  <1>3. ASSUME NEW u \in Threads, Freeing(f[u], j)
        PROVE  x.op = "free" \/ AnyFreeing(g, j)
    BY <1>1, <1>3 DEF Carries, AnyFreeing
  <1>4. ASSUME NEW u \in Threads, Finding(f[u])
        PROVE  x.op = "next" \/ AnyFinding(g)
    BY <1>1, <1>4 DEF Carries, AnyFinding
  <1>5. ASSUME NEW u \in Threads, \A v \in Threads : Paired(f[v].r)
        PROVE  Paired(g[u].r)
    BY <1>1, <1>5 DEF Carries
  <1> QED BY <1>1, <1>2, <1>3, <1>4, <1>5 DEF Ahead, AnySending, AnyFreeing, AnyFinding

\* The slot is still somebody's.
LEMMA SlotStep ==
    ASSUME NEW f, SlotInv(f), NEW t \in Threads, NEW d, NEW g, NEW x, Moved(f, t, d, g),
           f \in [Threads -> Frame(Len(jobs))], Carries(f[t], d, x), SlotKept(d, x),
           Ids \subseteq Ids'
    PROVE  SlotInv(g)'
  <1> SUFFICES ASSUME printer'.job_outgoing
               PROVE  \E j \in Ids' : SlotOf(g, j)'
    BY DEF SlotInv
  <1>1. PICK j \in Ids : SlotOf(f, j)
    BY DEF SlotInv, SlotKept
  <1>2. j \in Ids' /\ jobs'[j].sending
    BY <1>1 DEF SlotOf, SlotKept
  <1>3. jobs[j].outgoing \/ jobs[j].changed =>
            jobs'[j].outgoing \/ jobs'[j].changed \/ Ahead(g, Do("reasons", j))
    <2>1. Has(d, Do("reasons", j)) => Ahead(g, Do("reasons", j))
      BY BlockStep
    <2> QED BY <2>1 DEF SlotKept
  <1>4. Ahead(f, Do("reasons", j)) => Ahead(g, Do("reasons", j))
    <2>1. Do("reasons", j) # x
      BY DEF SlotKept, Do
    <2> QED BY <2>1, AheadStep
  <1>5. AnySending(f, j) => AnySending(g, j)
    <2>1. x.op # "send"
      BY DEF SlotKept
    <2>2. AnySending(f, j) =>
                x.op = "send" \/ AnySending(g, j)
      BY BlockStep
    <2> QED BY <2>1, <2>2
  <1>6. \/ jobs'[j].outgoing \/ jobs'[j].changed \/ Ahead(g, Do("reasons", j))
        \/ AnySending(g, j)
    BY <1>1, <1>3, <1>4, <1>5 DEF SlotOf
  <1>7. SlotOf(g, j)'
    BY <1>2, <1>6 DEF SlotOf, Ahead, AnySending
  <1> QED BY <1>2, <1>7


\* The state will still be heard of, unless the handler was just called.
LEMMA HeardStep ==
    ASSUME NEW f, NEW t \in Threads, NEW d, NEW g, NEW x, NEW o \in Objects, NEW n \in 1..3,
           Moved(f, t, d, g), f \in [Threads -> Frame(Len(jobs))], Carries(f[t], d, x),
           HeardKept(d), Heard(f, o, n)
    PROVE  Heard(g, o, n)' \/ RunsOne(x, o, n)
  <1>1. \A y : Has(d, y) => Ahead(g, y)
    BY BlockStep
  <1>2. Heard(g, o, n)' <=> \/ o \in queued' \/ emission'[o] = "restart"
                            \/ \E i \in 1..n : Ahead(g, RunAt(o, i))
    BY DEF Heard, Ahead
  <1>3. CASE o \in queued \/ emission[o] = "restart"
    BY <1>1, <1>2, <1>3 DEF HeardKept
  <1>4. CASE \E i \in 1..n : Ahead(f, RunAt(o, i))
    <2>1. PICK i \in 1..n : Ahead(f, RunAt(o, i))
      BY <1>4
    <2>2. RunAt(o, i) = x \/ Ahead(g, RunAt(o, i))
      BY <2>1, AheadStep
    <2> QED BY <1>2, <2>1, <2>2 DEF RunsOne
  <1> QED BY <1>3, <1>4 DEF Heard

\* The printer is still busy with a job.
LEMMA BusyStep ==
    ASSUME NEW f, Inv(f), BusyInv(f), NEW t \in Threads, NEW d, NEW g, NEW x, Moved(f, t, d, g),
           Carries(f[t], d, x), HeardKept(d), RunKept(d, x),
           BusyKept(Early(jobs, f["main"]), Early(jobs', g["main"]), x), Ids \subseteq Ids'
    PROVE  BusyInv(g)'
  <1> SUFFICES ASSUME printer'.state = "processing"
               PROVE  \E j \in Ids' : BusyOf(g, j)'
    BY DEF BusyInv
  <1> DEFINE E == Early(jobs, f["main"])
             F == Early(jobs', g["main"])
  <1>0. f \in [Threads -> Frame(Len(jobs))]
    BY DEF Inv, FrameInv
  <1>1. printer.state = "processing"
    BY DEF BusyKept
  <1>2. PICK j \in Ids : BusyOf(f, j)
    BY <1>1 DEF BusyInv
  <1>3. j \in Objects /\ j # 0 /\ j \in Nat
    <2>1. Len(jobs) \in Nat /\ Len(jobs) <= MaxJobs /\ MaxJobs \in Nat
      BY Room, ThreadsAssumption
    <2> QED BY <2>1 DEF Objects, Ids
  <1>4. j \in Ids' /\ j \notin F /\ j \notin Early(jobs, f["main"])
    BY <1>2 DEF BusyOf, BusyKept
  <1>5. BusyOf(g, j)' <=>
            /\ j \notin F
            /\ \/ jobs'[j].state = "processing" \/ Ahead(g, Do("process", j))
               \/ /\ jobs'[j].state \in Terminal
                  /\ Heard(g, j, 3)' \/ AnyFreeing(g, j)
    BY DEF BusyOf, Ended, Ahead, AnyFreeing
  <1>6. j \in queued' => Heard(g, j, 3)'
    BY DEF Heard
  <1>7. CASE jobs[j].state = "processing"
    <2>1. jobs'[j].state = "processing" \/ (jobs'[j].state \in Terminal /\ j \in queued')
      BY <1>4, <1>7 DEF BusyKept
    <2> QED BY <1>4, <1>5, <1>6, <2>1
  <1>8. CASE Ahead(f, Do("process", j))
    <2>1. Do("process", j) = x \/ Ahead(g, Do("process", j))
      BY <1>0, <1>8, AheadStep
    <2>2. x = Do("process", j) => jobs'[j].state = "processing"
      BY <1>4 DEF BusyKept
    <2> QED BY <1>4, <1>5, <2>1, <2>2
  <1>9. CASE Ended(j) /\ Heard(f, j, 3)
    <2>1. jobs'[j].state \in Terminal \/ jobs'[j].state = "processing"
      BY <1>4, <1>9 DEF BusyKept
    <2>2. Heard(g, j, 3)' \/ RunsOne(x, j, 3)
      <3>1. j \in Objects /\ 3 \in 1..3 /\ Heard(f, j, 3)
        BY <1>3, <1>9
      <3> QED BY <1>0, <3>1, HeardStep
    <2>3. ASSUME NEW i \in 1..3, x = RunAt(j, i)
          PROVE  Heard(g, j, 3)' \/ AnyFreeing(g, j)
      <3>1. Freeing(d, j) \/ \E k \in 1..3 : Has(d, RunAt(j, k))
        BY <1>3, <2>3 DEF RunKept
      <3>2. Freeing(d, j) => AnyFreeing(g, j)
        BY <1>0, BlockStep
      <3>3. \A y : Has(d, y) => Ahead(g, y)
        BY <1>0, BlockStep
      <3>4. (\E k \in 1..3 : Ahead(g, RunAt(j, k))) => Heard(g, j, 3)'
        BY DEF Heard, Ahead
      <3> QED BY <3>1, <3>2, <3>3, <3>4
    <2>4. Heard(g, j, 3)' \/ AnyFreeing(g, j)
      BY <2>2, <2>3 DEF RunsOne
    <2> QED BY <1>4, <1>5, <2>1, <2>4
  <1>10. CASE Ended(j) /\ AnyFreeing(f, j)
    <2>1. jobs'[j].state \in Terminal \/ jobs'[j].state = "processing"
      BY <1>4, <1>10 DEF BusyKept
    <2>2. x.op = "free" \/ AnyFreeing(g, j)
      BY <1>0, <1>10, BlockStep
    <2>3. x.op # "free"
      BY DEF BusyKept
    <2> QED BY <1>4, <1>5, <2>1, <2>2, <2>3
  <1>11. \/ jobs[j].state = "processing" \/ Ahead(f, Do("process", j))
         \/ Ended(j) /\ Heard(f, j, 3)
         \/ Ended(j) /\ AnyFreeing(f, j)
    BY <1>2 DEF BusyOf
  <1> QED BY <1>7, <1>8, <1>9, <1>10, <1>11

\* The idle printer will still find what waits.
LEMMA WakeStep ==
    ASSUME NEW f, Inv(f), WakeInv(f), NEW t \in Threads, NEW d, NEW g, NEW x, Moved(f, t, d, g),
           Carries(f[t], d, x), HeardKept(d), RunKept(d, x), WakeKept(d, x), Ids \subseteq Ids'
    PROVE  WakeInv(g)'
  <1> DEFINE Goal(j) == Looked(g)' \/ Heard(g, j, 2)' \/ Ahead(g, Do("engine", j))
  <1> SUFFICES ASSUME printer'.state = "idle", NEW j \in 1..Len(jobs'),
                      jobs'[j].watched, jobs'[j].state = "pending"
               PROVE  Goal(j)
    <2>1. Ids' = 1..Len(jobs')
      BY DEF Ids
    <2> QED BY <2>1 DEF WakeInv, Waiting, Ahead
  <1>0. f \in [Threads -> Frame(Len(jobs))]
    BY DEF Inv, FrameInv
  <1>1. Looked(g)' <=>
            \/ Heard(g, 0, 1)' \/ Ahead(g, Do("look", 0)) \/ AnyFinding(g)
            \/ \E k \in Ids' : Ahead(g, Do("busy", k))
    BY DEF Looked, Ahead, AnyFinding
  <1>2. \A y : Has(d, y) => Ahead(g, y)
    BY <1>0, BlockStep
  <1>3. 0 \in Objects /\ \A k \in Ids : k \in Objects /\ k # 0
    <2>1. Len(jobs) \in Nat /\ Len(jobs) <= MaxJobs /\ MaxJobs \in Nat
      BY Room, ThreadsAssumption
    <2> QED BY <2>1 DEF Objects, Ids
  <1>4. CASE 0 \in queued'
    <2>1. Heard(g, 0, 1)'
      BY <1>4 DEF Heard
    <2> QED BY <1>1, <2>1
  <1>5. CASE j \in queued'
    <2>1. Heard(g, j, 2)'
      BY <1>5 DEF Heard
    <2> QED BY <2>1
  <1>6. ASSUME 0 \notin queued', j \notin queued'  PROVE Goal(j)
    <2>1. printer.state = "idle" /\ j \in Ids /\ Waiting(j)
      BY <1>6 DEF WakeKept
    <2>2. Looked(f) \/ Heard(f, j, 2) \/ Ahead(f, Do("engine", j))
      BY <2>1 DEF WakeInv
    <2>3. CASE Heard(f, j, 2)
      <3>1. Heard(g, j, 2)' \/ RunsOne(x, j, 2)
        <4>1. j \in Objects /\ 2 \in 1..3
          BY <1>3, <2>1
        <4> QED BY <1>0, <2>3, <4>1, HeardStep
      <3>2. ASSUME NEW i \in 1..2, x = RunAt(j, i)
            PROVE  Ahead(g, Do("engine", j)) \/ Heard(g, j, 2)'
        <4>1. Has(d, Do("engine", j)) \/ \E k \in 1..2 : Has(d, RunAt(j, k))
          BY <1>3, <2>1, <3>2 DEF RunKept
        <4>2. (\E k \in 1..2 : Ahead(g, RunAt(j, k))) => Heard(g, j, 2)'
          BY DEF Heard, Ahead
        <4> QED BY <1>2, <4>1, <4>2
      <3> QED BY <3>1, <3>2 DEF RunsOne
    <2>4. CASE Ahead(f, Do("engine", j))
      <3>1. Do("engine", j) = x \/ Ahead(g, Do("engine", j))
        BY <1>0, <2>4, AheadStep
      <3>2. x # Do("engine", j)
        BY <2>1 DEF WakeKept
      <3> QED BY <3>1, <3>2
    <2>5. CASE Heard(f, 0, 1)
      <3>1. Heard(g, 0, 1)' \/ RunsOne(x, 0, 1)
        BY <1>0, <1>3, <2>5, HeardStep
      <3>2. ASSUME x = RunAt(0, 1)
            PROVE  Ahead(g, Do("look", 0)) \/ Heard(g, 0, 1)'
        <4>1. Has(d, Do("look", 0)) \/ Has(d, RunAt(0, 1))
          BY <1>3, <3>2 DEF RunKept
        <4>2. Ahead(g, RunAt(0, 1)) => Heard(g, 0, 1)'
          BY DEF Heard, Ahead
        <4> QED BY <1>2, <4>1, <4>2
      <3>3. RunsOne(x, 0, 1) => x = RunAt(0, 1)
        BY DEF RunsOne
      <3> QED BY <1>1, <3>1, <3>2, <3>3
    <2>6. CASE Ahead(f, Do("look", 0))
      <3>1. Do("look", 0) = x \/ Ahead(g, Do("look", 0))
        BY <1>0, <2>6, AheadStep
      <3>2. x = Do("look", 0) => Finding(d)
        <4>1. x = Do("look", 0) => x.op = "look"
          BY DEF Do
        <4> QED BY <4>1 DEF WakeKept
      <3>3. Finding(d) => AnyFinding(g)
        BY <1>0, BlockStep
      <3> QED BY <1>1, <3>1, <3>2, <3>3
    <2>7. CASE AnyFinding(f)
      <3>1. x.op = "next" \/ AnyFinding(g)
        BY <1>0, <2>7, BlockStep
      <3>2. x.op = "next" => \E k \in Ids : Has(d, Do("busy", k))
        BY DEF WakeKept
      <3> QED BY <1>1, <1>2, <3>1, <3>2
    <2>8. CASE \E k \in Ids : Ahead(f, Do("busy", k))
      <3>1. PICK k \in Ids : Ahead(f, Do("busy", k))
        BY <2>8
      <3>2. Do("busy", k) = x \/ Ahead(g, Do("busy", k))
        BY <1>0, <3>1, AheadStep
      <3>3. x # Do("busy", k)
        <4>1. x.op # "busy"
          BY DEF WakeKept
        <4> QED BY <4>1 DEF Do
      <3> QED BY <1>1, <3>1, <3>2, <3>3
    <2> QED BY <2>2, <2>3, <2>4, <2>5, <2>6, <2>7, <2>8 DEF Looked
  <1> QED BY <1>4, <1>5, <1>6


\* A busy that is not the first keeps its process.
LEMMA PairedTail ==
    ASSUME NEW S, NEW r \in Seq(S), r # <<>>, Paired(r)
    PROVE  Paired(Tail(r))
  <1> DEFINE q == Tail(r)
  <1>1. /\ Len(r) \in Nat /\ Len(r) > 0 /\ Len(q) = Len(r) - 1
        /\ \A i \in 1..Len(q) : i + 1 \in 1..Len(r) /\ q[i] = r[i + 1]
    BY Tails
  <1> HIDE DEF q
  <1>2. ASSUME NEW i \in 1..Len(q), q[i].op = "busy"
        PROVE  i + 1 \in 1..Len(q) /\ q[i + 1] = Do("process", q[i].on)
    <2>1. i + 1 \in 1..Len(r) /\ r[i + 1].op = "busy" /\ r[i + 1].on = q[i].on
      BY <1>1, <1>2
    <2>2. (i + 1) + 1 \in 1..Len(r) /\ r[(i + 1) + 1] = Do("process", r[i + 1].on)
      BY <2>1 DEF Paired
    <2>3. i + 1 \in 1..Len(q)
      BY <1>1, <2>2
    <2> QED BY <1>1, <2>1, <2>2, <2>3
  <1> QED BY <1>2 DEF Paired, q

\* So it does with something in front.
LEMMA PairedCat ==
    ASSUME NEW S, NEW s \in Seq(S), NEW r \in Seq(S), Paired(s), Paired(r)
    PROVE  Paired(s \o r)
  <1> DEFINE q == s \o r
  <1>1. /\ Len(s) \in Nat /\ Len(r) \in Nat /\ Len(q) = Len(s) + Len(r)
        /\ \A i \in 1..Len(s) : i \in 1..Len(q) /\ q[i] = s[i]
        /\ \A i \in 1..Len(r) : i + Len(s) \in 1..Len(q) /\ q[i + Len(s)] = r[i]
        /\ \A i \in 1..Len(q) : \/ i \in 1..Len(s)
                                \/ i - Len(s) \in 1..Len(r) /\ i = (i - Len(s)) + Len(s)
    BY Cats, SMTT(60)
  <1> HIDE DEF q
  <1>2. ASSUME NEW i \in 1..Len(q), q[i].op = "busy"
        PROVE  i + 1 \in 1..Len(q) /\ q[i + 1] = Do("process", q[i].on)
    <2>1. CASE i \in 1..Len(s)
      <3>1. s[i].op = "busy" /\ s[i].on = q[i].on
        BY <1>1, <1>2, <2>1
      <3>2. i + 1 \in 1..Len(s) /\ s[i + 1] = Do("process", q[i].on)
        BY <2>1, <3>1 DEF Paired
      <3> QED BY <1>1, <3>2
    <2>2. CASE i \notin 1..Len(s)
      <3> DEFINE k == i - Len(s)
      <3>1. k \in 1..Len(r) /\ i = k + Len(s)
        BY <1>1, <2>2
      <3> HIDE DEF k
      <3>2. r[k].op = "busy" /\ r[k].on = q[i].on
        BY <1>1, <1>2, <3>1
      <3>3. k + 1 \in 1..Len(r) /\ r[k + 1] = Do("process", q[i].on)
        BY <3>1, <3>2 DEF Paired
      <3>4. (k + 1) + Len(s) = i + 1
        BY <1>1, <3>1
      <3> QED BY <1>1, <3>3, <3>4
    <2> QED BY <2>1, <2>2
  <1> QED BY <1>2 DEF Paired, q

\* Where the blocks that matter are left.
LEMMA CarriesAdvance ==
    ASSUME NEW m \in Nat, NEW c \in Frame(m), AtWork(c), NEW x, x = Now(c), NEW d, d = Advance(c)
    PROVE  /\ Carries(c, d, x)
           /\ \A j : Sending(c, j) => x.op \notin Single \cup {"next"}
           /\ \A j : Freeing(c, j) => x.op \notin Single \cup {"next"}
           /\ Finding(c) => x.op \notin Single
           /\ \A j : Sending(c, j) /\ x.op = "send" => x = Do("send", j) /\ d.seg = "send"
  <1> DEFINE n == c.n
  <1>1. /\ c.seg \in Flat \cup Nested /\ n \in 1..10 /\ c.r \in Seq(Calm(m))
    BY FrameParts
  <1>2. ASSUME NEW j, Sending(c, j)
        PROVE  /\ Sending(d, j) \/ x = Do("send", j)
               /\ x.op \notin Single \cup {"next"} /\ d.seg = "send"
    <2>1. Active(c) /\ c.seg = "send" /\ c.j = j /\ n \in 2..7
      BY <1>2 DEF Sending, Active, Size, Methods
    <2>2. d.seg = "send" /\ d.j = j /\ d.n = n + 1
      BY <2>1, AdvanceFields
    <2> HIDE DEF n
    <2>3. /\ n = 2 => x = Do("brief", Engine)
          /\ n = 3 => x = Do("lock", j)
          /\ n = 4 => x = Do("freeze", j)
          /\ n = 5 => x = Do("brief", Engine)
          /\ n = 6 => x = Do("brief", 0)
          /\ n = 7 => x = Do("send", j)
      BY <2>1, NowIs DEF n
    <2>4. n = 7 \/ Sending(d, j)
      BY <2>1, <2>2 DEF Sending
    <2>5. x.op \in {"brief", "lock", "freeze", "send"}
      BY <2>1, <2>3 DEF Do
    <2> QED BY <2>2, <2>3, <2>4, <2>5 DEF Single
  <1>3. ASSUME NEW j, Freeing(c, j)
        PROVE  (Freeing(d, j) \/ x.op = "free") /\ x.op \notin Single \cup {"next"}
    <2>1. Active(c) /\ c.seg = "free" /\ c.j = j /\ n \in 1..3
      BY <1>3 DEF Freeing, Active, Size
    <2>2. d.seg = "free" /\ d.j = j /\ d.n = n + 1
      BY <2>1, AdvanceFields
    <2> HIDE DEF n
    <2>3. /\ n = 1 => x = Do("lock", 0)
          /\ n = 2 => x = Do("freeze", 0)
          /\ n = 3 => x = Do("free", j)
      BY <2>1, NowIs DEF n
    <2>4. n = 3 \/ Freeing(d, j)
      BY <2>1, <2>2 DEF Freeing
    <2> QED BY <2>1, <2>3, <2>4 DEF Do, Single
  <1>4. ASSUME Finding(c)
        PROVE  (Finding(d) \/ x.op = "next") /\ x.op \notin Single
    <2>1. Active(c) /\ c.seg = "next" /\ n \in 1..2
      BY <1>4 DEF Finding, Active, Size, Methods
    <2>2. d.seg = "next" /\ d.n = n + 1
      BY <2>1, AdvanceFields
    <2> HIDE DEF n
    <2>3. /\ n = 1 => x = Do("lock", 0)
          /\ n = 2 => x = Do("next", 0)
      BY <2>1, NowIs DEF n
    <2>4. n = 2 \/ Finding(d)
      BY <2>1, <2>2 DEF Finding
    <2> QED BY <2>1, <2>3, <2>4 DEF Do, Single
  <1>5. ASSUME Paired(c.r)  PROVE Paired(d.r)
    <2>1. CASE Active(c)
      <3>1. d.r = c.r
        BY <2>1, AdvanceFields
      <3> QED BY <1>5, <3>1
    <2>2. CASE ~Active(c) /\ c.r # <<>>
      <3>1. d.r = Tail(c.r)
        BY <2>2, AdvanceFields
      <3> QED BY <1>1, <1>5, <2>2, <3>1, PairedTail
    <2>3. CASE ~Active(c) /\ c.r = <<>>
      <3>1. d.r = c.r
        BY <2>3, AdvanceFields
      <3> QED BY <1>5, <3>1
    <2> QED BY <2>1, <2>2, <2>3
  <1>6. \A y : Has(c, y) => Has(d, y) \/ y = x
    BY AdvanceHas
  <1>7. \A j : Sending(c, j) => Sending(d, j) \/ x.op = "send"
    <2> SUFFICES ASSUME NEW j, Sending(c, j)  PROVE Sending(d, j) \/ x.op = "send"
      OBVIOUS
    <2>1. Sending(d, j) \/ x = Do("send", j)
      BY <1>2
    <2> QED BY <2>1 DEF Do
  <1>8. Carries(c, d, x)
    BY <1>3, <1>4, <1>5, <1>6, <1>7 DEF Carries
  <1>9. \A j : Sending(c, j) /\ x.op = "send" => x = Do("send", j) /\ d.seg = "send"
    <2> SUFFICES ASSUME NEW j, Sending(c, j), x.op = "send"
                 PROVE  x = Do("send", j) /\ d.seg = "send"
      OBVIOUS
    <2>1. Active(c) /\ c.seg = "send" /\ c.j = j /\ n \in 2..7
      BY DEF Sending, Active, Size, Methods
    <2>2. d.seg = "send"
      BY <2>1, AdvanceFields
    <2> HIDE DEF n
    <2> QED BY <2>1, <2>2, NowIs DEF n, Do
  <1> QED BY <1>2, <1>3, <1>4, <1>8, <1>9

\* Nothing is forgotten by putting instructions in front ...
LEMMA CarriesPush ==
    ASSUME NEW m \in Nat, NEW c, NEW e \in Frame(m), NEW x, Carries(c, e, x),
           NEW s \in Seq(Calm(m)), Paired(s), NEW d, d = Push(e, s)
    PROVE  Carries(c, d, x) /\ \A i \in 1..Len(s) : Has(d, s[i])
  <1>1. d.seg = e.seg /\ d.j = e.j /\ d.n = e.n /\ d.r = s \o e.r
    BY DEF Push
  <1>2. e.r \in Seq(Calm(m))
    BY FrameParts
  <1>3. \A y : Has(d, y) <=> Has(e, y) \/ \E i \in 1..Len(s) : s[i] = y
    BY PushHas
  <1>4. Paired(e.r) => Paired(d.r)
    BY <1>1, <1>2, PairedCat
  <1>5. (\A j : Sending(e, j) <=> Sending(d, j)) /\ (\A j : Freeing(e, j) <=> Freeing(d, j))
    BY <1>1 DEF Sending, Freeing
  <1>6. Finding(e) <=> Finding(d)
    BY <1>1 DEF Finding
  <1> QED BY <1>3, <1>4, <1>5, <1>6 DEF Carries

\* ... nor by entering a block, unless the thread was in one.
LEMMA CarriesInto ==
    ASSUME NEW c, NEW e, NEW x, Carries(c, e, x), NEW seg, NEW k, NEW d, d = Into(e, seg, k),
           \A j : ~Sending(c, j) /\ ~Freeing(c, j), Finding(c) => x.op = "next"
    PROVE  Carries(c, d, x)
  <1>1. d.r = e.r
    BY DEF Into
  <1>2. \A y : Has(d, y) <=> Has(e, y)
    BY <1>1 DEF Has
  <1> QED BY <1>1, <1>2 DEF Carries


\* The four parts together.
LEMMA LaterStep ==
    ASSUME NEW f, Inv(f), Later(f), NEW t \in Threads, NEW d, NEW g, NEW x, Moved(f, t, d, g),
           Carries(f[t], d, x), HeardKept(d), RunKept(d, x), SlotKept(d, x),
           BusyKept(Early(jobs, f["main"]), Early(jobs', g["main"]), x), WakeKept(d, x),
           Ids \subseteq Ids'
    PROVE  Later(g)'
  <1>1. f \in [Threads -> Frame(Len(jobs))]
    BY DEF Inv, FrameInv
  <1>2. PairInv(f) /\ SlotInv(f) /\ BusyInv(f) /\ WakeInv(f)
    BY DEF Later
  <1>3. PairInv(g)'
    <2>1. (\A u \in Threads : Paired(f[u].r)) => \A u \in Threads : Paired(g[u].r)
      BY <1>1, BlockStep
    <2> QED BY <1>2, <2>1 DEF PairInv
  <1>4. SlotInv(g)'
    BY <1>1, <1>2, SlotStep
  <1>5. BusyInv(g)'
    BY <1>2, BusyStep
  <1>6. WakeInv(g)'
    BY <1>2, WakeStep
  <1> QED BY <1>3, <1>4, <1>5, <1>6 DEF Later

\* Instructions that change nothing somebody waits for, or queue the change.
Mild(E, j) ==
    /\ jobs[j].sending => jobs'[j].sending
    /\ jobs[j].outgoing => jobs'[j].outgoing \/ jobs'[j].changed
    /\ jobs'[j].watched => jobs[j].watched
    /\ \/ jobs'[j].state = jobs[j].state
       \/ j \in queued' /\ (j \notin E /\ jobs[j].state \in Terminal \cup {"processing"}
                                => jobs'[j].state \in Terminal)

\* A step that neither starts nor ends anything, and changes jobs only mildly.
LEMMA QuietLater ==
    ASSUME NEW f, Inv(f), Later(f), NEW t \in Threads, NEW d, NEW g, NEW x, Moved(f, t, d, g),
           Carries(f[t], d, x), HeardKept(d), RunKept(d, x),
           x.op \notin {"reasons", "send", "free", "process", "busy", "look", "next", "engine"},
           printer' = printer, NEW E, E = Early(jobs, f["main"]), Len(jobs) <= Len(jobs'),
           Len(jobs') \in Nat,
           \A j \in 1..Len(jobs) : j \notin E => j \notin Early(jobs', g["main"]),
           \A j \in 1..Len(jobs) : Mild(E, j),
           \A j \in 1..Len(jobs) : jobs[j].changed => jobs'[j].changed \/ Has(d, Do("reasons", j)),
           \A j \in 1..Len(jobs') : j > Len(jobs) => jobs'[j].state # "pending"
    PROVE  Later(g)'
  <1>0. Len(jobs) \in Nat /\ Ids = 1..Len(jobs) /\ Ids' = 1..Len(jobs')
    BY DEF Inv, TypeInv, Ids
  <1>1. Ids \subseteq Ids'
    BY <1>0
  <1>2. \A j : x # Do("process", j) /\ x # Do("engine", j)
    BY DEF Do
  <1>3. SlotKept(d, x)
    BY <1>0 DEF SlotKept, Mild
  <1>4. BusyKept(E, Early(jobs', g["main"]), x)
    BY <1>0, <1>2 DEF BusyKept, Mild, Ended, Terminal
  <1>5. WakeKept(d, x)
    <2>1. ASSUME NEW j \in 1..Len(jobs'), jobs'[j].watched, jobs'[j].state = "pending"
          PROVE  (j \in Ids /\ Waiting(j)) \/ j \in queued'
      <3>1. j \in 1..Len(jobs)
        BY <1>0, <2>1
      <3> QED BY <1>0, <2>1, <3>1 DEF Mild, Waiting
    <2> QED BY <1>0, <1>2, <2>1 DEF WakeKept
  <1> QED BY <1>1, <1>3, <1>4, <1>5, LaterStep

\* What was queued or to be restarted is when the notifications only grow.
LEMMA NothingUnheard ==
    ASSUME NEW d, queued \subseteq queued', emission' = emission
    PROVE  HeardKept(d)
  BY DEF HeardKept

\* An emission is where it was.
LEMMA NotRun ==
    ASSUME NEW d, NEW x, x.op # "run"
    PROVE  RunKept(d, x)
  BY DEF RunKept, RunAt


\* A job that has been made pending stays so.
LEMMA EarlyStep ==
    ASSUME NEW f, Inv(f), NEW t \in Threads, NEW d, NEW g, Moved(f, t, d, g), Follows(f[t], d),
           Len(jobs') \in Nat, \A j \in 1..Len(jobs) : jobs[j].started => jobs'[j].started
    PROVE  \A j \in 1..Len(jobs) :
               j \notin Early(jobs, f["main"]) => j \notin Early(jobs', g["main"])
  <1>1. f \in [Threads -> Frame(Len(jobs))] /\ "main" \in Threads /\ Len(jobs) \in Nat
    BY DEF Inv, FrameInv, TypeInv, Threads
  <1>2. \A k \in Nat : ToPend(g["main"], k) => ToPend(f["main"], k)
    BY <1>1 DEF Follows, Moved
  <1> QED BY <1>1, <1>2 DEF Early

\* An instruction that puts nothing in front, of the quiet kind.
LEMMA AdvanceLater ==
    ASSUME NEW f, Inv(f), Later(f), NEW t \in Threads, NEW op, Executes(t, op),
           op \notin {"reasons", "send", "free", "process", "busy", "look", "next", "engine",
                       "run"},
           NEW g, g = [f EXCEPT ![t] = Advance(f[t])], printer' = printer,
           queued \subseteq queued', emission' = emission, Len(jobs') = Len(jobs),
           \A j \in 1..Len(jobs) : Mild(Early(jobs, f["main"]), j),
           \A j \in 1..Len(jobs) : jobs[j].changed => jobs'[j].changed,
           \A j \in 1..Len(jobs) : jobs[j].started => jobs'[j].started
    PROVE  Later(g)'
  <1> DEFINE c == f[t]
             d == Advance(c)
             x == Now(c)
  <1>1. c \in Frame(Len(jobs)) /\ AtWork(c) /\ x.op = op /\ Len(jobs) \in Nat
    BY Executing
  <1>2. Carries(c, d, x) /\ Follows(c, d)
    BY <1>1, CarriesAdvance, AdvanceFollows
  <1>3. Moved(f, t, d, g)
    BY DEF Moved
  <1> HIDE DEF d, x
  <1>4. HeardKept(d) /\ RunKept(d, x)
    BY <1>1, NothingUnheard, NotRun
  <1>5. \A j \in 1..Len(jobs) : j \notin Early(jobs, f["main"]) => j \notin Early(jobs', g["main"])
    BY <1>1, <1>2, <1>3, EarlyStep
  <1>6. \A j \in 1..Len(jobs') : j > Len(jobs) => jobs'[j].state # "pending"
    BY <1>1
  <1>7. x.op \notin {"reasons", "send", "free", "process", "busy", "look", "next", "engine"}
    BY <1>1
  <1> DEFINE E == Early(jobs, f["main"])
  <1>8. /\ \A j \in 1..Len(jobs) : j \notin E => j \notin Early(jobs', g["main"])
        /\ \A j \in 1..Len(jobs) : Mild(E, j)
        /\ E = Early(jobs, f["main"])
    BY <1>5
  <1>9. /\ \A j \in 1..Len(jobs) : jobs[j].changed => jobs'[j].changed \/ Has(d, Do("reasons", j))
        /\ Len(jobs) <= Len(jobs') /\ Len(jobs') \in Nat /\ printer' = printer
        /\ Carries(f[t], d, x)
    BY <1>1, <1>2
  <1> HIDE DEF E, c
  <1> QED BY ONLY Inv(f), Later(f), t \in Threads, <1>3, <1>4, <1>6, <1>7, <1>8, <1>9, QuietLater

\* A change of one job.
LEMMA AlterMild ==
    ASSUME NEW f, Inv(f), NEW j \in 1..Len(jobs), NEW r \in JobRecord,
           jobs' = [jobs EXCEPT ![j] = r], NEW E,
           jobs[j].sending => r.sending, jobs[j].outgoing => r.outgoing \/ r.changed,
           r.watched => jobs[j].watched,
           \/ r.state = jobs[j].state
           \/ j \in queued' /\ (j \notin E /\ jobs[j].state \in Terminal \cup {"processing"}
                                  => r.state \in Terminal)
    PROVE  /\ Len(jobs') = Len(jobs) /\ jobs'[j] = r
           /\ \A k \in 1..Len(jobs) : k # j => jobs'[k] = jobs[k]
           /\ \A k \in 1..Len(jobs) : Mild(E, k)
  <1>1. jobs \in Seq(JobRecord)
    BY DEF Inv, TypeInv
  <1>2. Alters(jobs', j) /\ jobs'[j] = r
    BY <1>1, Alter
  <1> QED BY <1>2 DEF Alters, Mild

\* No change is mild.
LEMMA SameMild ==
    ASSUME jobs' = jobs, NEW E
    PROVE  \A j \in 1..Len(jobs) : Mild(E, j)
  BY DEF Mild

\* Locks, freezes and the assertion.
LEMMA SyncLater ==
    ASSUME NEW f, Inv(f), Later(f), NEW t \in Threads,
           Acquires(t) \/ AcquiresBriefly(t) \/ Releases(t) \/ Freezes(t) \/ Asserts(t),
           NEW g, g = [f EXCEPT ![t] = Advance(f[t])]
    PROVE  Later(g)'
  <1>1. PICK op \in {"lock", "brief", "unlock", "freeze", "assert"} :
            Executes(t, op) /\ UNCHANGED <<queued, emission, printer, jobs>>
    BY DEF Acquires, AcquiresBriefly, Releases, Freezes, Asserts, notes
  <1>2. op \notin {"reasons", "send", "free", "process", "busy", "look", "next", "engine", "run"}
    BY <1>1
  <1>3. \A j \in 1..Len(jobs) : Mild(Early(jobs, f["main"]), j)
    BY <1>1, SameMild
  <1>4. /\ queued \subseteq queued' /\ emission' = emission /\ Len(jobs') = Len(jobs)
        /\ printer' = printer
        /\ \A j \in 1..Len(jobs) : jobs[j].changed => jobs'[j].changed
        /\ \A j \in 1..Len(jobs) : jobs[j].started => jobs'[j].started
    BY <1>1
  <1> QED BY <1>1, <1>2, <1>3, <1>4, AdvanceLater

\* One job is changed, and nothing put in front.
Gentle(f, j, r) ==
    /\ jobs[j].sending => r.sending
    /\ jobs[j].outgoing => r.outgoing \/ r.changed
    /\ r.watched => jobs[j].watched
    /\ jobs[j].changed => r.changed
    /\ jobs[j].started => r.started
    /\ \/ r.state = jobs[j].state
       \/ j \in queued' /\ (/\ j \notin Early(jobs, f["main"])
                            /\ jobs[j].state \in Terminal \cup {"processing"}
                            => r.state \in Terminal)

\* One that changes one job gently.
LEMMA AlterLater ==
    ASSUME NEW f, Inv(f), Later(f), NEW t \in Threads, NEW op, Executes(t, op),
           op \notin {"reasons", "send", "free", "process", "busy", "look", "next", "engine",
                       "run"},
           NEW g, g = [f EXCEPT ![t] = Advance(f[t])], printer' = printer,
           queued \subseteq queued', emission' = emission,
           NEW j \in 1..Len(jobs), NEW r \in JobRecord, jobs' = [jobs EXCEPT ![j] = r],
           Gentle(f, j, r)
    PROVE  Later(g)'
  <1> DEFINE E == Early(jobs, f["main"])
  <1>0. /\ jobs[j].sending => r.sending
        /\ jobs[j].outgoing => r.outgoing \/ r.changed
        /\ r.watched => jobs[j].watched
        /\ \/ r.state = jobs[j].state
           \/ j \in queued' /\ (j \notin E /\ jobs[j].state \in Terminal \cup {"processing"}
                                  => r.state \in Terminal)
    BY DEF Gentle
  <1> HIDE DEF E
  <1>1. /\ Len(jobs') = Len(jobs) /\ jobs'[j] = r
        /\ \A k \in 1..Len(jobs) : k # j => jobs'[k] = jobs[k]
        /\ \A k \in 1..Len(jobs) : Mild(E, k)
    BY ONLY <1>0, Inv(f), j \in 1..Len(jobs), r \in JobRecord, jobs' = [jobs EXCEPT ![j] = r],
            AlterMild
  <1>2. /\ \A k \in 1..Len(jobs) : jobs[k].changed => jobs'[k].changed
        /\ \A k \in 1..Len(jobs) : jobs[k].started => jobs'[k].started
    BY <1>1 DEF Gentle
  <1>3. \A k \in 1..Len(jobs) : Mild(Early(jobs, f["main"]), k)
    BY <1>1 DEF E
  <1> QED BY <1>1, <1>2, <1>3, AdvanceLater

\* CreateJob after pd_engine_add_job.
LEMMA OwnsLater ==
    ASSUME NEW f, Inv(f), Later(f), NEW t \in Threads, Owns(t) \/ Replies(t),
           NEW g, g = [f EXCEPT ![t] = Advance(f[t])]
    PROVE  Later(g)'
  <1> DEFINE j == On(t)
             r1 == [jobs[j] EXCEPT !.owned = TRUE]
             r2 == [jobs[j] EXCEPT !.answered = TRUE]
  <1>1. PICK op \in {"own", "reply"} : Executes(t, op)
    BY DEF Owns, Replies
  <1>2. /\ UNCHANGED <<queued, emission, printer>>
        /\ jobs' = [jobs EXCEPT ![j] = r1] \/ jobs' = [jobs EXCEPT ![j] = r2]
    BY DEF Owns, Replies, notes
  <1>3. j \in 1..Len(jobs)
    BY <1>1, Executing, AtBlock DEF Single, Jobless
  <1>4. jobs[j] \in JobRecord
    BY <1>3, JobFacts
  <1>5. r1 \in JobRecord /\ Gentle(f, j, r1) /\ r2 \in JobRecord /\ Gentle(f, j, r2)
    BY <1>4, ZenonT(60) DEF JobRecord, Gentle
  <1>6. op \notin {"reasons", "send", "free", "process", "busy", "look", "next", "engine", "run"}
    BY <1>1
  <1>7. queued \subseteq queued' /\ emission' = emission /\ printer' = printer
    BY <1>2
  <1> HIDE DEF j, r1, r2
  <1> QED BY <1>1, <1>2, <1>3, <1>5, <1>6, <1>7, AlterLater

\* A method sets its job's state, or changes the reasons.
LEMMA SetsLater ==
    ASSUME NEW f, Inv(f), Later(f), NEW t \in Threads, NEW op \in {"pend", "cancel", "exit"},
           Executes(t, op), NEW j, j = On(t), NEW r \in JobRecord, jobs' = [jobs EXCEPT ![j] = r],
           printer' = printer, r.sending = jobs[j].sending,
           jobs[j].outgoing => r.outgoing \/ r.changed,
           r.watched = jobs[j].watched, jobs[j].changed => r.changed, r.started = jobs[j].started,
           \/ r.state = jobs[j].state /\ UNCHANGED notes
           \/ /\ Notify(t, j, Rest(t))
              /\ r.state \in Terminal \/ j \in Early(jobs, f["main"]),
           NEW g, g = [f EXCEPT ![t] = Advance(f[t])]
    PROVE  Later(g)'
  <1>1. j \in 1..Len(jobs) /\ j \in Objects
    BY AtJob DEF JobOps
  <1>2. frozen[j] > 0
    BY AtFrozen
  <1>3. Notify(t, j, Rest(t)) => queued' = queued \cup {j} /\ emission' = emission
    BY <1>2 DEF Notify
  <1>4. UNCHANGED notes => UNCHANGED <<queued, emission>>
    BY DEF notes
  <1>5. Gentle(f, j, r)
    BY <1>3 DEF Gentle
  <1>6. op \notin {"reasons", "send", "free", "process", "busy", "look", "next", "engine", "run"}
    OBVIOUS
  <1>7. queued \subseteq queued' /\ emission' = emission
    BY <1>3, <1>4
  <1> QED BY <1>1, <1>5, <1>6, <1>7, AlterLater

\* The job becomes pending: its handlers will hear of it.
LEMMA PendsLater ==
    ASSUME NEW f, Inv(f), Later(f), NEW t \in Threads, Pends(t),
           NEW g, g = [f EXCEPT ![t] = Advance(f[t])]
    PROVE  Later(g)'
  <1> DEFINE op == "pend"
             j == On(t)
             r == [jobs[j] EXCEPT !.state = "pending", !.changed = TRUE]
             c == f[t]
  <1>1. /\ Executes(t, op) /\ Notify(t, j, Rest(t)) /\ UNCHANGED printer
        /\ jobs' = [jobs EXCEPT ![j].state = "pending", ![j].changed = TRUE]
    BY DEF Pends, SetsState
  <1>2. /\ j = c.j /\ Active(c) /\ c.seg = "pend" /\ c.n = 2 /\ j \in 1..Len(jobs)
        /\ Fits(jobs, Early(jobs, f["main"]), t, c)
    BY <1>1, Executing, AtBlock, SMTT(60) DEF Single, Jobless
  <1>3. t = "main"
    BY <1>2 DEF Fits
  <1>4. j \in Early(jobs, f["main"])
    BY <1>2, <1>3 DEF Early, ToPend
  <1>5. jobs \in Seq(JobRecord) /\ jobs[j] \in JobRecord
    BY <1>2 DEF Inv, TypeInv
  <1>6. /\ r \in JobRecord /\ r.sending = jobs[j].sending
        /\ (jobs[j].outgoing => r.outgoing \/ r.changed) /\ r.watched = jobs[j].watched
        /\ (jobs[j].changed => r.changed) /\ r.started = jobs[j].started
    BY <1>5 DEF JobRecord
  <1>7. jobs' = [jobs EXCEPT ![j] = r]
    BY <1>1, <1>2, <1>5 DEF JobRecord
  <1>8. op \in {"pend", "cancel", "exit"} /\ j = On(t)
    OBVIOUS
  <1> HIDE DEF op, j, r
  <1>9. Executes(t, op) /\ printer' = printer /\ Notify(t, j, Rest(t))
    BY <1>1
  <1> QED BY ONLY Inv(f), Later(f), t \in Threads, g = [f EXCEPT ![t] = Advance(f[t])],
                  <1>4, <1>6, <1>7, <1>8, <1>9, SetsLater

\* The job ends: the printer's handler will hear of it.
LEMMA ExitsLater ==
    ASSUME NEW f, Inv(f), Later(f), NEW t \in Threads, Exits(t),
           NEW g, g = [f EXCEPT ![t] = Advance(f[t])]
    PROVE  Later(g)'
  <1> DEFINE op == "exit"
             j == On(t)
             r == [jobs[j] EXCEPT !.running = FALSE, !.outgoing = FALSE, !.changed = TRUE,
                                  !.state = "completed"]
  <1>1. Executes(t, op) /\ UNCHANGED printer /\ Notify(t, j, Rest(t))
    BY DEF Exits
  <1>2. j \in 1..Len(jobs)
    BY <1>1, AtJob DEF JobOps
  <1>3. jobs \in Seq(JobRecord) /\ jobs[j] \in JobRecord
    BY <1>2 DEF Inv, TypeInv
  <1>4. jobs' = [jobs EXCEPT ![j] = r]
    BY <1>2, <1>3 DEF Exits, JobRecord
  <1>5. /\ r \in JobRecord /\ r.sending = jobs[j].sending
        /\ (jobs[j].outgoing => r.outgoing \/ r.changed) /\ r.watched = jobs[j].watched
        /\ (jobs[j].changed => r.changed) /\ r.started = jobs[j].started
        /\ r.state \in Terminal
    BY <1>3 DEF JobRecord, Terminal
  <1>6. op \in {"pend", "cancel", "exit"} /\ j = On(t)
    OBVIOUS
  <1> HIDE DEF op, j, r
  <1> QED BY <1>1, <1>4, <1>5, <1>6, SetsLater

\* It is canceled: likewise, or with the exit of its backend.
LEMMA CancelsLater ==
    ASSUME NEW f, Inv(f), Later(f), NEW t \in Threads, Cancels(t),
           NEW g, g = [f EXCEPT ![t] = Advance(f[t])]
    PROVE  Later(g)'
  <1> DEFINE op == "cancel"
             j == On(t)
  <1>1. Executes(t, op) /\ UNCHANGED printer
    BY DEF Cancels
  <1>2. j \in 1..Len(jobs)
    BY <1>1, AtJob DEF JobOps
  <1>3. jobs \in Seq(JobRecord) /\ jobs[j] \in JobRecord
    BY <1>2 DEF Inv, TypeInv
  <1>4. op \in {"pend", "cancel", "exit"} /\ j = On(t)
    OBVIOUS
  <1>5. CASE UNCHANGED <<notes, jobs>>
    <2> DEFINE r == jobs[j]
    <2>1. jobs' = [jobs EXCEPT ![j] = r] /\ r \in JobRecord /\ UNCHANGED notes
      BY <1>2, <1>3, <1>5
    <2> HIDE DEF op, j
    <2> QED BY <1>1, <1>4, <2>1, SetsLater
  <1>6. CASE jobs' = [jobs EXCEPT ![j].changed = TRUE] /\ UNCHANGED notes
    <2> DEFINE r == [jobs[j] EXCEPT !.changed = TRUE]
    <2>1. jobs' = [jobs EXCEPT ![j] = r]
      BY <1>6
    <2>2. /\ r \in JobRecord /\ r.sending = jobs[j].sending
          /\ (jobs[j].outgoing => r.outgoing \/ r.changed) /\ r.watched = jobs[j].watched
          /\ (jobs[j].changed => r.changed) /\ r.started = jobs[j].started
          /\ r.state = jobs[j].state
      BY <1>3 DEF JobRecord
    <2> HIDE DEF op, j, r
    <2>3. Executes(t, op) /\ printer' = printer /\ UNCHANGED notes
      BY <1>1, <1>6
    <2> QED BY ONLY Inv(f), Later(f), t \in Threads, g = [f EXCEPT ![t] = Advance(f[t])],
                    <1>4, <2>1, <2>2, <2>3, SetsLater
  <1>7. CASE SetsState(t, j, "canceled")
    <2> DEFINE r == [jobs[j] EXCEPT !.state = "canceled", !.changed = TRUE]
    <2>1. jobs' = [jobs EXCEPT ![j] = r] /\ Notify(t, j, Rest(t))
      BY <1>2, <1>3, <1>7 DEF SetsState, JobRecord
    <2>2. /\ r \in JobRecord /\ r.sending = jobs[j].sending
          /\ (jobs[j].outgoing => r.outgoing \/ r.changed) /\ r.watched = jobs[j].watched
          /\ (jobs[j].changed => r.changed) /\ r.started = jobs[j].started
          /\ r.state \in Terminal
      BY <1>3 DEF JobRecord, Terminal
    <2> HIDE DEF op, j, r
    <2> QED BY <1>1, <1>4, <2>1, <2>2, SetsLater
  <1> QED BY <1>5, <1>6, <1>7 DEF Cancels


\* A thread that has nothing in front and is in none of the blocks forgets nothing.
LEMMA CarriesFresh ==
    ASSUME NEW c, NEW d, NEW x, c.r = <<>>, d.r = <<>>, ~Active(c) \/ c.seg \in {"start", "create"}
    PROVE  Carries(c, d, x)
  <1>1. \A y : ~Has(c, y)
    BY DEF Has
  <1>2. /\ \A j : ~Sending(c, j) /\ ~Freeing(c, j)
        /\ ~Finding(c)
    BY DEF Sending, Freeing, Finding, Active, Size, Methods
  <1> QED BY <1>1, <1>2 DEF Carries

\* A call has nothing ahead but its block.
LEMMA BeginsLater ==
    ASSUME NEW f, Inv(f), Later(f), NEW t \in Threads, NEW seg \in Flat, NEW j,
           Begins(t, Block(seg, j)), seg # "pend", NEW g, g = [f EXCEPT ![t] = Fresh(seg, j)]
    PROVE  Later(g)'
  <1> DEFINE c == f[t]
             d == Fresh(seg, j)
             x == Do("unlock", 0)
             E == Early(jobs, f["main"])
  <1>1. todo[t] = <<>> /\ UNCHANGED <<queued, emission, printer, jobs>>
    BY DEF Begins, notes
  <1>2. c.r = <<>> /\ ~Active(c) /\ Len(jobs) \in Nat
    BY <1>1, AtIdle
  <1>3. d.r = <<>> /\ d.seg = seg /\ x.op = "unlock" /\ Moved(f, t, d, g)
    BY DEF Fresh, Do, Moved
  <1>4. /\ \A k \in 1..Len(jobs) : Mild(E, k)
        /\ \A k \in 1..Len(jobs) : jobs[k].changed => jobs'[k].changed \/ Has(d, Do("reasons", k))
        /\ \A k \in 1..Len(jobs') : k > Len(jobs) => jobs'[k].state # "pending"
        /\ Len(jobs) <= Len(jobs') /\ Len(jobs') \in Nat /\ printer' = printer
        /\ E = Early(jobs, f["main"])
    BY <1>1, <1>2, SameMild
  <1>5. \A k \in 1..Len(jobs) : k \notin E => k \notin Early(jobs', g["main"])
    <2>1. \A k : ~ToPend(d, k)
      BY <1>3 DEF ToPend
    <2>2. g["main"] = f["main"] \/ g["main"] = d
      BY DEF Inv, FrameInv, Threads
    <2> QED BY <1>1, <2>1, <2>2 DEF Early
  <1> HIDE DEF c, d, x, E
  <1>6. Carries(c, d, x) /\ HeardKept(d) /\ RunKept(d, x)
    BY <1>1, <1>2, <1>3, CarriesFresh, NothingUnheard, NotRun
  <1>7. /\ x.op \notin {"reasons", "send", "free", "process", "busy", "look", "next", "engine"}
        /\ Carries(f[t], d, x)
    BY <1>3, <1>6 DEF c
  <1> QED BY ONLY Inv(f), Later(f), t \in Threads, <1>3, <1>4, <1>5, <1>6, <1>7, QuietLater

\* Start has not made the job pending yet.
LEMMA StartsLater ==
    ASSUME NEW f, Inv(f), Later(f), NEW t \in Threads, Starts(t),
           NEW g, g = [f EXCEPT ![t] = StartsTo(f, t)]
    PROVE  Later(g)'
  <1> DEFINE op == "start"
             j == On(t)
             c == f[t]
             x == Now(c)
             E == Early(jobs, f["main"])
             m == Len(jobs)
  <1>1. Executes(t, op) /\ UNCHANGED <<queued, emission, printer>>
    BY DEF Starts, notes
  <1>2. /\ j = c.j /\ Active(c) /\ c.seg = "start" /\ c.n = 3 /\ j \in 1..m
        /\ Fits(jobs, E, t, c) /\ c \in Frame(m) /\ m \in Nat /\ x.op = op
    BY <1>1, Executing, AtBlock DEF Single, Jobless, Methods
  <1>3. CASE Denied(t)
    <2>1. jobs' = jobs /\ g = [f EXCEPT ![t] = Advance(f[t])]
      BY <1>3 DEF Starts, StartsTo
    <2>2. \A k \in 1..Len(jobs) : Mild(Early(jobs, f["main"]), k)
      BY <2>1, SameMild
    <2>3. op \notin {"reasons", "send", "free", "process", "busy", "look", "next", "engine", "run"}
      OBVIOUS
    <2> HIDE DEF op
    <2> QED BY <1>1, <2>1, <2>2, <2>3, AdvanceLater
  <1>4. CASE ~Denied(t)
    <2> DEFINE d == PendAt(j)
               r == [jobs[j] EXCEPT !.started = TRUE]
    <2>1. jobs' = [jobs EXCEPT ![j] = r] /\ Moved(f, t, d, g)
      BY <1>4 DEF Starts, StartsTo, Moved
    <2>2. r \in JobRecord /\ Gentle(f, j, r) /\ r.watched = jobs[j].watched
          /\ r.sending = jobs[j].sending /\ r.outgoing = jobs[j].outgoing
          /\ r.state = jobs[j].state /\ r.changed = jobs[j].changed
      <3>1. jobs[j] \in JobRecord
        BY <1>2, JobFacts
      <3>2. r \in JobRecord
        BY ONLY <3>1 DEF JobRecord
      <3>3. /\ r.watched = jobs[j].watched /\ r.sending = jobs[j].sending
            /\ r.outgoing = jobs[j].outgoing /\ r.state = jobs[j].state
            /\ r.changed = jobs[j].changed /\ r.started
        BY ONLY <3>1 DEF JobRecord
      <3> HIDE DEF r
      <3> QED BY ONLY <3>2, <3>3 DEF Gentle
    <2>3. d.r = <<>> /\ d.seg = "pend" /\ d.j = j
      BY DEF PendAt
    <2>4. ~jobs[j].started /\ c.r = <<>>
      BY <1>2, FrameParts DEF Fits, Flat, Active
    <2>5. j \in E
      BY <1>2, <2>4 DEF Early
    <2> HIDE DEF d, r, x, E, op
    <2>6. /\ Len(jobs') = Len(jobs) /\ jobs'[j] = r
          /\ \A k \in 1..Len(jobs) : k # j => jobs'[k] = jobs[k]
          /\ \A k \in 1..Len(jobs) : Mild(E, k)
      <3>1. /\ j \in 1..Len(jobs) /\ jobs' = [jobs EXCEPT ![j] = r]
            /\ (jobs[j].sending => r.sending) /\ (jobs[j].outgoing => r.outgoing \/ r.changed)
            /\ (r.watched => jobs[j].watched) /\ r.state = jobs[j].state /\ r \in JobRecord
        BY <1>2, <2>1, <2>2
      <3> HIDE DEF j
      <3> QED BY ONLY Inv(f), <3>1, AlterMild
    <2>7. \A k \in 1..Len(jobs) : k \notin E => k \notin Early(jobs', g["main"])
      <3>1. \A k : ToPend(d, k) => k = j
        BY <2>3 DEF ToPend
      <3>2. g["main"] = f["main"] \/ g["main"] = d
        BY <2>1 DEF Inv, FrameInv, Threads, Moved
      <3> QED BY <2>5, <2>6, <3>1, <3>2 DEF Early, E
    <2>8. /\ \A k \in 1..Len(jobs) : jobs[k].changed => jobs'[k].changed \/ Has(d, Do("reasons", k))
          /\ \A k \in 1..Len(jobs') : k > Len(jobs) => jobs'[k].state # "pending"
          /\ Len(jobs) <= Len(jobs') /\ Len(jobs') \in Nat /\ printer' = printer
          /\ E = Early(jobs, f["main"])
      BY <1>1, <1>2, <2>2, <2>6 DEF E
    <2>9. /\ Carries(c, d, x) /\ HeardKept(d) /\ RunKept(d, x)
      BY <1>1, <1>2, <2>3, <2>4, CarriesFresh, NothingUnheard, NotRun DEF op
    <2>10. x.op \notin {"reasons", "send", "free", "process", "busy", "look", "next", "engine"}
      BY <1>2 DEF op
    <2> QED BY ONLY Inv(f), Later(f), t \in Threads, <2>1, <2>6, <2>7, <2>8, <2>9, <2>10, QuietLater
  <1> QED BY <1>3, <1>4

\* A new job is held.
LEMMA CreatesLater ==
    ASSUME NEW f, Inv(f), Later(f), NEW t \in Threads, Creates(t),
           NEW g, g = [f EXCEPT ![t] = Fresh("announce", Len(jobs) + 1)]
    PROVE  Later(g)'
  <1> DEFINE op == "create"
             c == f[t]
             x == Now(c)
             E == Early(jobs, f["main"])
             m == Len(jobs)
             d == Fresh("announce", m + 1)
             K == Append(jobs, NewJob)
  <1>1. Executes(t, op) /\ UNCHANGED <<queued, emission, printer>> /\ jobs' = K
    BY DEF Creates, notes
  <1>2. /\ Active(c) /\ c.seg = "create" /\ c \in Frame(m) /\ m \in Nat /\ x.op = op
    BY <1>1, Executing, AtBlock DEF Single, Jobless
  <1>3. c.r = <<>>
    BY <1>2, FrameParts DEF Flat, Active
  <1>4. d.r = <<>> /\ d.seg = "announce" /\ Moved(f, t, d, g)
    BY DEF Fresh, Moved
  <1>5. /\ Len(K) = m + 1 /\ K[m + 1] = NewJob
        /\ \A k \in 1..m : K[k] = jobs[k]
    BY <1>2 DEF Inv, TypeInv
  <1> HIDE DEF K
  <1>6. \A k \in 1..Len(jobs) : Mild(E, k)
    BY <1>1, <1>5 DEF Mild
  <1>7. \A k \in 1..Len(jobs) : k \notin E => k \notin Early(jobs', g["main"])
    <2>1. \A k : ~ToPend(d, k)
      BY <1>4 DEF ToPend
    <2>2. g["main"] = f["main"] \/ g["main"] = d
      BY <1>4 DEF Inv, FrameInv, Threads, Moved
    <2> QED BY <1>1, <1>5, <2>1, <2>2 DEF Early
  <1>8. NewJob.state = "pending-held"
    BY DEF NewJob
  <1>9. \A k \in 1..Len(jobs') : k > Len(jobs) => jobs'[k].state # "pending"
    <2> SUFFICES ASSUME NEW k \in 1..(m + 1), k > m  PROVE K[k].state # "pending"
      BY <1>1, <1>5
    <2>1. k = m + 1
      BY <1>2
    <2> QED BY <1>5, <1>8, <2>1
  <1>10. /\ \A k \in 1..Len(jobs) : jobs[k].changed => jobs'[k].changed \/ Has(d, Do("reasons", k))
         /\ Len(jobs) <= Len(jobs') /\ Len(jobs') \in Nat /\ printer' = printer
         /\ E = Early(jobs, f["main"])
    BY <1>1, <1>2, <1>5
  <1>11. x.op \notin {"reasons", "send", "free", "process", "busy", "look", "next", "engine"}
    BY <1>2
  <1> HIDE DEF d, x, E, m
  <1>12. Carries(c, d, x) /\ HeardKept(d) /\ RunKept(d, x)
    BY <1>1, <1>2, <1>3, <1>4, CarriesFresh, NothingUnheard, NotRun
  <1>13. Carries(f[t], d, x)
    BY <1>12
  <1> HIDE DEF c
  <1> QED BY ONLY Inv(f), Later(f), t \in Threads, <1>4, <1>6, <1>7, <1>9, <1>10, <1>11, <1>12,
                  <1>13, QuietLater

\* Instructions that start nothing, put in front.
LEMMA PairedOne ==
    ASSUME NEW m \in Nat, NEW y \in Calm(m), y.op # "busy", NEW s, s = <<>> \/ s = <<y>>
    PROVE  s \in Seq(Calm(m)) /\ Paired(s) /\ (s = <<y>> => Len(s) = 1 /\ s[1] = y)
  <1>1. CASE s = <<>>
    BY <1>1 DEF Paired
  <1>2. CASE s = <<y>>
    <2>1. s \in Seq(Calm(m)) /\ Len(s) = 1 /\ s[1] = y
      BY <1>2
    <2>2. \A i \in 1..Len(s) : s[i].op # "busy"
      BY <2>1
    <2> QED BY <2>1, <2>2 DEF Paired
  <1> QED BY <1>1, <1>2

\* A start makes the printer busy and then the job processing.
LEMMA PairedStart ==
    ASSUME NEW m \in Nat, NEW k \in 1..m,
           NEW s, s = StartJob(k) \/ s = Instruction("assert", k) \o StartJob(k)
    PROVE  /\ s \in Seq(Calm(m)) /\ Paired(s)
           /\ \E i \in 1..Len(s) : s[i] = Do("busy", k)
  <1> DEFINE x1 == Do("assert", k)
             x2 == Do("busy", k)
             x3 == Do("process", k)
             x4 == Do("test", k)
             p == <<x2>> \o <<x3>> \o <<x4>>
             q == <<x1>> \o (<<x2>> \o <<x3>> \o <<x4>>)
             C == Calm(m)
  <1>1. StartJob(k) = p /\ Instruction("assert", k) \o StartJob(k) = q
    BY DEF StartJob, Instruction, Do
  <1>2. x1 \in C /\ x2 \in C /\ x3 \in C /\ x4 \in C
    BY CalmItems DEF Single
  <1>3. /\ x1.op = "assert" /\ x2.op = "busy" /\ x3.op = "process" /\ x4.op = "test"
        /\ x2.on = k /\ x3 = Do("process", x2.on)
    BY DEF Do
  <1> HIDE DEF x1, x2, x3, x4, C
  <1>4. p \in Seq(C) /\ Len(p) = 3 /\ p[1] = x2 /\ p[2] = x3 /\ p[3] = x4
    BY <1>2
  <1>5. q \in Seq(C) /\ Len(q) = 4 /\ q[1] = x1 /\ q[2] = x2 /\ q[3] = x3 /\ q[4] = x4
    BY <1>2
  <1> HIDE DEF p, q
  <1>6. \A i \in 1..Len(p) : p[i].op = "busy" => i = 1
    BY <1>3, <1>4
  <1>7. \A i \in 1..Len(q) : q[i].op = "busy" => i = 2
    BY <1>3, <1>5
  <1>8. p \in Seq(C) /\ Paired(p) /\ \E i \in 1..Len(p) : p[i] = x2
    BY <1>3, <1>4, <1>6 DEF Paired
  <1>9. q \in Seq(C) /\ Paired(q) /\ \E i \in 1..Len(q) : q[i] = x2
    BY <1>3, <1>5, <1>7 DEF Paired
  <1> QED BY <1>1, <1>8, <1>9 DEF C, x2

\* Thread t executes x and goes on with d.
Keeps(f, t, d, x) ==
    /\ Carries(f[t], d, x) /\ Follows(f[t], d)
    /\ x.on = On(t)

\* A thread with instructions put in front has forgotten nothing.
LEMMA OnwardKeeps ==
    ASSUME NEW f, Inv(f), NEW t \in Threads, NEW op, Executes(t, op),
           NEW s \in Seq(Calm(Len(jobs))), Paired(s), NEW d, d = Onward(f, t, s),
           NEW x, x = Now(f[t])
    PROVE  /\ Keeps(f, t, d, x) /\ x.op = op
           /\ \A i \in 1..Len(s) : Has(d, s[i])
  <1> DEFINE c == f[t]
             e == Advance(c)
             m == Len(jobs)
  <1>1. /\ c \in Frame(m) /\ AtWork(c) /\ x.op = op /\ x.on = On(t) /\ m \in Nat
        /\ e \in Frame(m)
    BY Executing
  <1>2. Carries(c, e, x) /\ Follows(c, e)
    BY <1>1, CarriesAdvance, AdvanceFollows
  <1>3. d = Push(e, s)
    BY DEF Onward
  <1> HIDE DEF e, c, m
  <1>4. Carries(c, d, x) /\ \A i \in 1..Len(s) : Has(d, s[i])
    BY <1>1, <1>2, <1>3, CarriesPush DEF m
  <1>5. Follows(c, d)
    BY <1>2, <1>3, PushFollows
  <1> QED BY <1>1, <1>4, <1>5 DEF Keeps, c

\* Nor has one that entered a block.
LEMMA InwardKeeps ==
    ASSUME NEW f, Inv(f), NEW t \in Threads, NEW op \in Single \cup {"next"}, Executes(t, op),
           NEW s \in Seq(Calm(Len(jobs))), Paired(s), NEW seg \in Nested, NEW k,
           NEW d, d = Inward(f, t, s, seg, k), NEW x, x = Now(f[t])
    PROVE  /\ Keeps(f, t, d, x) /\ x.op = op
           /\ \A i \in 1..Len(s) : Has(d, s[i])
           /\ d.seg = seg /\ d.j = k /\ d.n = 1
  <1> DEFINE c == f[t]
             e == Onward(f, t, s)
             m == Len(jobs)
  <1>1. /\ c \in Frame(m) /\ AtWork(c) /\ m \in Nat
    BY Executing
  <1>2. Keeps(f, t, e, x) /\ x.op = op /\ \A i \in 1..Len(s) : Has(e, s[i])
    BY OnwardKeeps
  <1>3. d = Into(e, seg, k)
    BY DEF Inward
  <1>4. /\ \A j : ~Sending(c, j) /\ ~Freeing(c, j)
        /\ Finding(c) => x.op = "next"
    BY <1>1, <1>2, CarriesAdvance
  <1>5. Follows(c, d)
    BY <1>3, IntoFollows
  <1> HIDE DEF e, c, m
  <1>6. Carries(c, d, x)
    BY <1>2, <1>3, <1>4, CarriesInto DEF Keeps, c
  <1>7. d.seg = seg /\ d.j = k /\ d.n = 1 /\ d.r = e.r
    BY <1>3 DEF Into
  <1>8. \A y : Has(e, y) => Has(d, y)
    BY <1>7 DEF Has
  <1> QED BY <1>2, <1>5, <1>6, <1>7, <1>8 DEF Keeps, c


\* No job changes in a way that somebody waits for.
Milds(f, d) ==
    /\ Len(jobs') = Len(jobs)
    /\ \A j \in 1..Len(jobs) : Mild(Early(jobs, f["main"]), j)
    /\ \A j \in 1..Len(jobs) : jobs[j].changed => jobs'[j].changed \/ Has(d, Do("reasons", j))
    /\ \A j \in 1..Len(jobs) : jobs[j].started => jobs'[j].started

\* QuietLater, for threads that have something put in front.
LEMMA KeepsLater ==
    ASSUME NEW f, Inv(f), Later(f), NEW t \in Threads, NEW d, NEW g, NEW x, Moved(f, t, d, g),
           Keeps(f, t, d, x), HeardKept(d), RunKept(d, x),
           x.op \notin {"reasons", "send", "free", "process", "busy", "look", "next", "engine"},
           printer' = printer, Milds(f, d)
    PROVE  Later(g)'
  <1> DEFINE E == Early(jobs, f["main"])
  <1>1. Len(jobs) \in Nat /\ Len(jobs') = Len(jobs)
    BY DEF Inv, TypeInv, Milds
  <1>2. Carries(f[t], d, x) /\ Follows(f[t], d)
    BY DEF Keeps
  <1>3. \A j \in 1..Len(jobs) : jobs[j].started => jobs'[j].started
    BY DEF Milds
  <1>4. \A j \in 1..Len(jobs) : j \notin E => j \notin Early(jobs', g["main"])
    BY <1>1, <1>2, <1>3, EarlyStep
  <1>5. /\ \A j \in 1..Len(jobs) : Mild(E, j)
        /\ \A j \in 1..Len(jobs) : jobs[j].changed => jobs'[j].changed \/ Has(d, Do("reasons", j))
        /\ \A j \in 1..Len(jobs') : j > Len(jobs) => jobs'[j].state # "pending"
        /\ Len(jobs) <= Len(jobs') /\ Len(jobs') \in Nat /\ printer' = printer
        /\ E = Early(jobs, f["main"])
    BY <1>1 DEF Milds
  <1>6. /\ x.op \notin {"reasons", "send", "free", "process", "busy", "look", "next", "engine"}
        /\ Moved(f, t, d, g) /\ HeardKept(d) /\ RunKept(d, x)
    OBVIOUS
  <1> HIDE DEF E
  <1> QED BY ONLY Inv(f), Later(f), t \in Threads, <1>2, <1>4, <1>5, <1>6, QuietLater

\* No change is mild, whatever is put in front.
LEMMA SameMilds ==
    ASSUME NEW f, NEW d, jobs' = jobs
    PROVE  Milds(f, d)
  BY SameMild DEF Milds

\* The reasons that changed are notified now or with the thaw.
LEMMA TidiesLater ==
    ASSUME NEW f, Inv(f), Later(f), NEW t \in Threads, Tidies(t),
           NEW g, g = [f EXCEPT ![t] = Onward(f, t, TidyPuts(On(t)))]
    PROVE  Later(g)'
  <1> DEFINE op == "tidy"
             j == On(t)
             s == TidyPuts(j)
             x == Now(f[t])
             d == Onward(f, t, s)
             m == Len(jobs)
             E == Early(jobs, f["main"])
             r == [jobs[j] EXCEPT !.own = @ /\ ~TidiesNow(j),
                                  !.changed = @ \/ (TidiesNow(j) /\ frozen[j] > 0)]
  <1>1. Executes(t, op) /\ UNCHANGED <<queued, emission, printer>>
    BY DEF Tidies, notes
  <1>2. j \in 1..m /\ m \in Nat
    BY <1>1, AtJob, Executing DEF JobOps
  <1>3. jobs \in Seq(JobRecord) /\ jobs[j] \in JobRecord
    BY <1>2 DEF Inv, TypeInv
  <1>4. jobs' = [jobs EXCEPT ![j] = r]
    BY <1>2, <1>3 DEF Tidies, JobRecord, TidiesNow
  <1>5. /\ r \in JobRecord /\ (jobs[j].sending => r.sending)
        /\ (jobs[j].outgoing => r.outgoing \/ r.changed) /\ (r.watched => jobs[j].watched)
        /\ r.state = jobs[j].state /\ (jobs[j].started => r.started)
        /\ (jobs[j].changed => r.changed)
    <2>1. r \in JobRecord /\ (jobs[j].changed => r.changed)
      <3>1. r \in JobRecord
        <4> DEFINE a == jobs[j].own /\ ~TidiesNow(j)
                   b == jobs[j].changed \/ (TidiesNow(j) /\ frozen[j] > 0)
        <4>1. a \in BOOLEAN /\ b \in BOOLEAN
          BY ONLY <1>3 DEF JobRecord
        <4>2. r = [jobs[j] EXCEPT !.own = a, !.changed = b]
          OBVIOUS
        <4> HIDE DEF a, b, r
        <4> QED BY ONLY <1>3, <4>1, <4>2, SetTidy
      <3>2. r.changed <=> jobs[j].changed \/ (TidiesNow(j) /\ frozen[j] > 0)
        BY ONLY <1>3 DEF JobRecord
      <3> HIDE DEF r
      <3> QED BY ONLY <3>1, <3>2
    <2>2. /\ r.sending = jobs[j].sending /\ r.outgoing = jobs[j].outgoing
          /\ r.watched = jobs[j].watched /\ r.state = jobs[j].state /\ r.started = jobs[j].started
      BY <1>3 DEF JobRecord
    <2> HIDE DEF r
    <2> QED BY <2>1, <2>2
  <1>6. s \in Seq(Calm(m)) /\ Paired(s)
    <2> DEFINE y == Do("reasons", j)
    <2>1. y \in Calm(m) /\ y.op # "busy"
      BY <1>2, CalmItems DEF Single, Do
    <2>2. s = <<>> \/ s = <<y>>
      BY DEF TidyPuts, Instruction, Do
    <2> HIDE DEF y, s
    <2> QED BY <1>2, <2>1, <2>2, PairedOne
  <1>7. Moved(f, t, d, g)
    BY DEF Moved
  <1> HIDE DEF s, x, d, m, E, r, op
  <1>8. Keeps(f, t, d, x) /\ x.op = op
    BY <1>1, <1>6, OnwardKeeps DEF d, x, m
  <1> HIDE DEF j
  <1>9. /\ Len(jobs') = Len(jobs) /\ jobs'[j] = r
        /\ \A k \in 1..Len(jobs) : k # j => jobs'[k] = jobs[k]
        /\ \A k \in 1..Len(jobs) : Mild(E, k)
    BY ONLY Inv(f), <1>2, <1>4, <1>5, AlterMild DEF m
  <1>10. Milds(f, d)
    BY <1>2, <1>5, <1>9 DEF Milds, E
  <1>11. HeardKept(d) /\ RunKept(d, x)
    BY <1>1, <1>8, NothingUnheard, NotRun DEF op
  <1>12. /\ x.op \notin {"reasons", "send", "free", "process", "busy", "look", "next", "engine"}
         /\ printer' = printer
    BY <1>1, <1>8 DEF op
  <1> QED BY ONLY Inv(f), Later(f), t \in Threads, <1>7, <1>8, <1>10, <1>11, <1>12, KeepsLater

\* Whoever finds the slot free goes on to take it.
LEMMA TestsLater ==
    ASSUME NEW f, Inv(f), Later(f), NEW t \in Threads, Tests(t),
           NEW g, g = [f EXCEPT ![t] = TestsTo(f, t)]
    PROVE  Later(g)'
  <1> DEFINE op == "test"
             j == On(t)
             x == Now(f[t])
             d == TestsTo(f, t)
             s == <<>>
             seg == "send"
  <1>1. Executes(t, op) /\ UNCHANGED <<queued, emission, printer, jobs>>
    BY DEF Tests, notes
  <1>2. op \in Single /\ seg \in Nested /\ op \notin {"run"}
    BY DEF Single, Nested
  <1>3. s \in Seq(Calm(Len(jobs))) /\ Paired(s)
    BY DEF Paired
  <1>4. Moved(f, t, d, g)
    BY DEF Moved
  <1>5. d = Advance(f[t]) \/ d = Inward(f, t, s, seg, j)
    BY DEF TestsTo
  <1> HIDE DEF op, s, seg, d
  <1>6. Keeps(f, t, d, x) /\ x.op = op
    <2>1. CASE d = Inward(f, t, s, seg, j)
      BY <1>1, <1>2, <1>3, <2>1, InwardKeeps
    <2>2. CASE d = Advance(f[t])
      <3>1. f[t] \in Frame(Len(jobs)) /\ AtWork(f[t]) /\ Len(jobs) \in Nat /\ x.op = op
            /\ x.on = On(t)
        BY <1>1, Executing
      <3> QED BY <2>2, <3>1, CarriesAdvance, AdvanceFollows DEF Keeps
    <2> QED BY <1>5, <2>1, <2>2
  <1> HIDE DEF x
  <1>7. HeardKept(d) /\ RunKept(d, x) /\ Milds(f, d)
    BY <1>1, <1>6, NothingUnheard, NotRun, SameMilds DEF op
  <1>8. /\ x.op \notin {"reasons", "send", "free", "process", "busy", "look", "next", "engine"}
        /\ printer' = printer
    BY <1>1, <1>6 DEF op
  <1> QED BY ONLY Inv(f), Later(f), t \in Threads, <1>4, <1>6, <1>7, <1>8, KeepsLater

\* What was queued is emitted or has the emission restarted.
LEMMA ThawsLater ==
    ASSUME NEW f, Inv(f), Later(f), NEW t \in Threads, Thaws(t), NEW o, o = On(t),
           NEW g, g = [f EXCEPT ![t] = Onward(f, t, ThawPuts(o))]
    PROVE  Later(g)'
  <1> DEFINE op == "thaw"
             s == ThawPuts(o)
             x == Now(f[t])
             d == Onward(f, t, s)
             m == Len(jobs)
             y == RunAt(o, 1)
             z == Do("reasons", o)
             tells == TellsState(o) /\ emission[o] = "none"
  <1>1. /\ Executes(t, "thaw") /\ printer' = printer
        /\ jobs' = IF TellsReasons(o) THEN [jobs EXCEPT ![o].changed = FALSE] ELSE jobs
        /\ queued' = IF TellsState(o) THEN queued \ {o} ELSE queued
        /\ emission' = IF TellsState(o)
                       THEN [emission EXCEPT ![o] = IF @ = "none" THEN "on" ELSE "restart"]
                       ELSE emission
    BY ThawsGoes
  <1>2. o \in 0..m /\ o \in Objects /\ m \in Nat
    BY <1>1, AtThaw
  <1>3. TellsReasons(o) => o \in 1..m
    BY DEF TellsReasons, Ids
  <1>4. /\ y \in Calm(m) /\ y.op # "busy"
        /\ TellsReasons(o) => z \in Calm(m) /\ z.op # "busy"
    <2>1. y \in Calm(m) /\ y.op = "run"
      <3>1. RunAt(o, 1) \in Calm(m) /\ 1 \in 1..4
        BY <1>2, CalmItems
      <3> QED BY <3>1 DEF RunAt
    <2>2. TellsReasons(o) => z \in Calm(m) /\ z.op = "reasons"
      BY <1>2, <1>3, CalmItems DEF Do, Single
    <2> HIDE DEF y, z
    <2> QED BY <2>1, <2>2
  <1>5. /\ tells /\ TellsReasons(o) => s = <<y>> \o <<z>>
        /\ tells /\ ~TellsReasons(o) => s = <<y>>
        /\ ~tells /\ TellsReasons(o) => s = <<z>>
        /\ ~tells /\ ~TellsReasons(o) => s = <<>>
    BY DEF ThawPuts
  <1>6. Moved(f, t, d, g)
    BY DEF Moved
  <1> HIDE DEF s, x, d, y, z, op
  <1>7. /\ s \in Seq(Calm(m)) /\ Paired(s)
        /\ tells => \E i \in 1..Len(s) : s[i] = y
        /\ TellsReasons(o) => \E i \in 1..Len(s) : s[i] = z
    <2>1. CASE tells /\ TellsReasons(o)
      <3>1. s = <<y>> \o <<z>>
        BY <1>5, <2>1
      <3>2. y \in Calm(m) /\ y.op # "busy" /\ z \in Calm(m) /\ z.op # "busy" /\ m \in Nat
        BY <1>2, <1>4, <2>1
      <3>3. s \in Seq(Calm(m)) /\ Len(s) = 2 /\ s[1] = y /\ s[2] = z
        BY <3>1, <3>2
      <3>4. \A i \in 1..Len(s) : s[i].op # "busy"
        BY <3>2, <3>3
      <3>5. Paired(s)
        BY <3>4 DEF Paired
      <3> QED BY <3>3, <3>5
    <2>2. CASE tells /\ ~TellsReasons(o)
      <3>1. s \in Seq(Calm(m)) /\ Paired(s) /\ Len(s) = 1 /\ s[1] = y
        BY <1>2, <1>4, <1>5, <2>2, PairedOne
      <3> QED BY <2>2, <3>1
    <2>3. CASE ~tells /\ TellsReasons(o)
      <3>1. s \in Seq(Calm(m)) /\ Paired(s) /\ Len(s) = 1 /\ s[1] = z
        BY <1>2, <1>4, <1>5, <2>3, PairedOne
      <3> QED BY <2>3, <3>1
    <2>4. CASE ~tells /\ ~TellsReasons(o)
      BY <1>2, <1>4, <1>5, <2>4, PairedOne
    <2> QED BY <2>1, <2>2, <2>3, <2>4
  <1>8. Keeps(f, t, d, x) /\ x.op = "thaw" /\ \A i \in 1..Len(s) : Has(d, s[i])
    BY <1>1, <1>7, OnwardKeeps DEF d, x
  <1>9. (tells => Has(d, y)) /\ (TellsReasons(o) => Has(d, z))
    BY <1>7, <1>8
  <1>10. HeardKept(d)
    <2>1. emission \in [Objects -> {"none", "on", "restart"}]
      BY DEF Inv, TypeInv
    <2> SUFFICES ASSUME NEW p \in Objects, p \in queued \/ emission[p] = "restart"
                 PROVE  p \in queued' \/ emission'[p] = "restart" \/ Has(d, RunAt(p, 1))
      BY DEF HeardKept
    <2>2. CASE p # o \/ ~TellsState(o)
      BY <1>1, <1>2, <2>1, <2>2
    <2>3. CASE p = o /\ TellsState(o)
      <3>1. emission[o] # "none" => emission'[o] = "restart"
        BY <1>1, <1>2, <2>1, <2>3
      <3> QED BY <1>9, <2>3, <3>1 DEF y
    <2> QED BY <2>2, <2>3
  <1>11. Milds(f, d)
    <2>1. CASE ~TellsReasons(o)
      BY <1>1, <2>1, SameMilds
    <2>2. CASE TellsReasons(o)
      <3> DEFINE r == [jobs[o] EXCEPT !.changed = FALSE]
                 E == Early(jobs, f["main"])
      <3>1. o \in 1..Len(jobs) /\ jobs \in Seq(JobRecord) /\ jobs[o] \in JobRecord
        BY <1>3, <2>2 DEF Inv, TypeInv
      <3>2. jobs' = [jobs EXCEPT ![o] = r]
        BY <1>1, <2>2, <3>1 DEF JobRecord
      <3>3. /\ r \in JobRecord /\ r.sending = jobs[o].sending /\ r.outgoing = jobs[o].outgoing
            /\ r.watched = jobs[o].watched /\ r.state = jobs[o].state
            /\ r.started = jobs[o].started
        <4>1. r \in JobRecord
          BY ONLY <3>1 DEF JobRecord
        <4>2. r.sending = jobs[o].sending /\ r.outgoing = jobs[o].outgoing
          BY ONLY <3>1 DEF JobRecord
        <4>3. /\ r.watched = jobs[o].watched /\ r.state = jobs[o].state
              /\ r.started = jobs[o].started
          BY ONLY <3>1 DEF JobRecord
        <4> HIDE DEF r
        <4> QED BY ONLY <4>1, <4>2, <4>3
      <3> HIDE DEF r, E
      <3>4. /\ Len(jobs') = Len(jobs) /\ jobs'[o] = r
            /\ \A k \in 1..Len(jobs) : k # o => jobs'[k] = jobs[k]
            /\ \A k \in 1..Len(jobs) : Mild(E, k)
        <4>1. /\ r \in JobRecord /\ (jobs[o].sending => r.sending)
              /\ (jobs[o].outgoing => r.outgoing \/ r.changed)
              /\ (r.watched => jobs[o].watched) /\ r.state = jobs[o].state
          BY ONLY <3>3
        <4> QED BY ONLY Inv(f), <3>1, <3>2, <4>1, AlterMild
      <3> QED BY <1>9, <2>2, <3>3, <3>4 DEF Milds, E, z
    <2> QED BY <2>1, <2>2
  <1>12. /\ x.op \notin {"reasons", "send", "free", "process", "busy", "look", "next", "engine"}
         /\ printer' = printer /\ RunKept(d, x)
    BY <1>1, <1>8, NotRun
  <1> QED BY ONLY Inv(f), Later(f), t \in Threads, <1>6, <1>8, <1>10, <1>11, <1>12, KeepsLater


Amid(s, y) == \E i \in 1..Len(s) : s[i] = y

\* What an emission puts in front, one by one.
LEMMA RunPutsAre ==
    ASSUME NEW m \in Nat, NEW o \in 0..m, NEW n \in 1..4, NEW s, s = RunPuts(o, n)
    PROVE  /\ s \in Seq(Calm(m)) /\ Paired(s)
           /\ emission[o] = "restart" => Amid(s, RunAt(o, 1))
           /\ emission[o] # "restart" /\ o = 0 /\ n = 1 => Amid(s, Do("look", 0))
           /\ emission[o] # "restart" /\ o # 0 /\ n = 1 => Amid(s, RunAt(o, 2))
           /\ emission[o] # "restart" /\ o # 0 /\ n = 2 => Amid(s, Do("engine", o))
           /\ emission[o] # "restart" /\ o # 0 /\ n = 2 => Amid(s, RunAt(o, 3))
  <1> DEFINE r1 == RunAt(o, 1)
             r2 == RunAt(o, 2)
             r3 == RunAt(o, 3)
             r4 == RunAt(o, 4)
             ti == Do("tidy", o)
             en == Do("engine", o)
             lo == Do("look", 0)
             restart == emission[o] = "restart"
  <1>1. r1 \in Calm(m) /\ r2 \in Calm(m) /\ r3 \in Calm(m) /\ r4 \in Calm(m) /\ lo \in Calm(m)
    BY CalmItems
  <1>2. o # 0 => o \in 1..m /\ ti \in Calm(m) /\ en \in Calm(m)
    BY CalmItems DEF Single
  <1>3. /\ r1.op # "busy" /\ r2.op # "busy" /\ r3.op # "busy" /\ r4.op # "busy"
        /\ ti.op # "busy" /\ en.op # "busy" /\ lo.op # "busy"
    BY SMTT(60) DEF RunAt, Do
  <1>4. /\ restart => s = <<r1>>
        /\ ~restart /\ o = 0 /\ n = 1 => s = <<lo>> \o <<r2>>
        /\ ~restart /\ o # 0 /\ n = 1 => s = <<ti>> \o <<r2>>
        /\ ~restart /\ o # 0 /\ n = 2 => s = <<en>> \o <<r3>>
        /\ ~restart /\ o # 0 /\ n = 3 => s = <<r4>>
        /\ ~restart /\ ~(o = 0 /\ n = 1) /\ ~(o # 0 /\ n \in 1..3) => s = <<>>
    <2>1. restart => s = <<r1>>
      BY RunPutsCases
    <2>2. ~restart /\ o = 0 /\ n = 1 => s = <<lo>> \o <<r2>>
      BY RunPutsCases
    <2>3. ~restart /\ o # 0 /\ n = 1 => s = <<ti>> \o <<r2>>
      BY RunPutsCases
    <2>4. ~restart /\ o # 0 /\ n = 2 => s = <<en>> \o <<r3>>
      BY RunPutsCases
    <2>5. ~restart /\ o # 0 /\ n = 3 => s = <<r4>>
      BY RunPutsCases
    <2>6. ~restart /\ ~(o = 0 /\ n = 1) /\ ~(o # 0 /\ n \in 1..3) => s = <<>>
      BY RunPutsCases
    <2> HIDE DEF r1, r2, r3, r4, ti, en, lo, restart
    <2> QED BY ONLY <2>1, <2>2, <2>3, <2>4, <2>5, <2>6
  <1> HIDE DEF r1, r2, r3, r4, ti, en, lo, restart
  <1>5. ASSUME NEW y \in Calm(m), y.op # "busy", NEW z \in Calm(m), z.op # "busy",
               s = <<y>> \o <<z>>
        PROVE  /\ s \in Seq(Calm(m)) /\ Paired(s)
               /\ (Amid(s, y)) /\ Amid(s, z)
    <2>1. s \in Seq(Calm(m)) /\ Len(s) = 2 /\ s[1] = y /\ s[2] = z
      BY <1>5
    <2>2. \A i \in 1..Len(s) : s[i].op # "busy"
      BY <1>5, <2>1
    <2>3. Paired(s)
      BY <2>2 DEF Paired
    <2> QED BY <2>1, <2>3 DEF Amid
  <1>6. ASSUME NEW y \in Calm(m), y.op # "busy", s = <<y>>
        PROVE  s \in Seq(Calm(m)) /\ Paired(s) /\ Amid(s, y)
    <2>1. s \in Seq(Calm(m)) /\ Paired(s) /\ Len(s) = 1 /\ s[1] = y
      BY <1>6, PairedOne
    <2> QED BY <2>1 DEF Amid
  <1>7. CASE restart
    BY <1>1, <1>3, <1>4, <1>6, <1>7 DEF restart, r1
  <1>8. CASE ~restart /\ o = 0 /\ n = 1
    <2>1. s = <<lo>> \o <<r2>>
      BY <1>4, <1>8
    <2>2. /\ s \in Seq(Calm(m)) /\ Paired(s) /\ Amid(s, lo)
      BY <1>1, <1>3, <1>5, <2>1
    <2> QED BY <1>8, <2>2 DEF restart, lo
  <1>9. CASE ~restart /\ o # 0 /\ n = 1
    <2>1. s = <<ti>> \o <<r2>>
      BY <1>4, <1>9
    <2>2. /\ s \in Seq(Calm(m)) /\ Paired(s) /\ Amid(s, r2)
      BY <1>1, <1>2, <1>3, <1>5, <1>9, <2>1
    <2> QED BY <1>9, <2>2 DEF restart, r2
  <1>10. CASE ~restart /\ o # 0 /\ n = 2
    <2>1. s = <<en>> \o <<r3>>
      BY <1>4, <1>10
    <2>2. /\ s \in Seq(Calm(m)) /\ Paired(s)
          /\ (Amid(s, en)) /\ Amid(s, r3)
      BY <1>1, <1>2, <1>3, <1>5, <1>10, <2>1
    <2> QED BY <1>10, <2>2 DEF restart, r3, en
  <1>11. CASE ~restart /\ o # 0 /\ n = 3
    <2>1. s \in Seq(Calm(m)) /\ Paired(s)
      BY <1>1, <1>3, <1>4, <1>6, <1>11
    <2> QED BY <1>11, <2>1 DEF restart
  <1>12. CASE ~restart /\ ~(o = 0 /\ n = 1) /\ ~(o # 0 /\ n \in 1..3)
    <2>1. s = <<>>
      BY <1>4, <1>12
    <2>2. s \in Seq(Calm(m)) /\ Paired(s)
      BY <2>1 DEF Paired
    <2> QED BY <1>12, <2>2 DEF restart
  <1> QED BY <1>7, <1>8, <1>9, <1>10, <1>11, <1>12

\* The handlers come one after the other; a restart begins with the first.
LEMMA RunsLater ==
    ASSUME NEW f, Inv(f), Later(f), NEW t \in Threads, Runs(t), NEW o, o = On(t),
           NEW n, n = Head(todo[t]).handler,
           NEW g, g = [f EXCEPT ![t] = RunsTo(f, t, o, n)]
    PROVE  Later(g)'
  <1> DEFINE op == "run"
             s == RunPuts(o, n)
             x == Now(f[t])
             d == RunsTo(f, t, o, n)
             m == Len(jobs)
             seg == "free"
             restart == emission[o] = "restart"
  <1>1. /\ Executes(t, op) /\ UNCHANGED <<queued, printer, jobs>>
        /\ \/ emission' = emission /\ ~restart
           \/ emission' = [emission EXCEPT ![o] = "on"] /\ restart
           \/ emission' = [emission EXCEPT ![o] = "none"] /\ ~restart
    BY DEF Runs
  <1>2. x = RunAt(o, n) /\ n \in 1..4 /\ o \in 0..m /\ o \in Objects /\ m \in Nat
    BY <1>1, AtRun
  <1> HIDE DEF s
  <1>3. /\ s \in Seq(Calm(m)) /\ Paired(s)
        /\ restart => Amid(s, RunAt(o, 1))
        /\ ~restart /\ o = 0 /\ n = 1 => Amid(s, Do("look", 0))
        /\ ~restart /\ o # 0 /\ n = 1 => Amid(s, RunAt(o, 2))
        /\ ~restart /\ o # 0 /\ n = 2 => Amid(s, Do("engine", o))
        /\ ~restart /\ o # 0 /\ n = 2 => Amid(s, RunAt(o, 3))
    BY <1>2, RunPutsAre DEF s
  <1>4. op \in Single /\ seg \in Nested /\ op \in Single \cup {"next"}
    BY DEF Single, Nested
  <1>5. Moved(f, t, d, g) /\ (ToFree(o, n) => d = Inward(f, t, s, seg, o))
        /\ (~ToFree(o, n) => d = Onward(f, t, s))
    BY DEF Moved, RunsTo, s
  <1> HIDE DEF op, x, d, seg
  <1>6. /\ Keeps(f, t, d, x) /\ x.op = op
        /\ \A i \in 1..Len(s) : Has(d, s[i])
        /\ ToFree(o, n) => Freeing(d, o)
    <2>1. CASE ToFree(o, n)
      <3>1. d = Inward(f, t, s, seg, o)
        BY <1>5, <2>1
      <3>2. /\ Keeps(f, t, d, x) /\ x.op = op /\ (\A i \in 1..Len(s) : Has(d, s[i]))
            /\ d.seg = seg /\ d.j = o /\ d.n = 1
        BY <1>1, <1>3, <1>4, <3>1, InwardKeeps DEF x
      <3> QED BY <3>2 DEF Freeing, seg
    <2>2. CASE ~ToFree(o, n)
      <3>1. d = Onward(f, t, s)
        BY <1>5, <2>2
      <3> QED BY <1>1, <1>3, <2>2, <3>1, OnwardKeeps DEF x
    <2> QED BY <2>1, <2>2
  <1>7. HeardKept(d)
    <2>1. emission \in [Objects -> {"none", "on", "restart"}]
      BY DEF Inv, TypeInv
    <2>2. restart => Has(d, RunAt(o, 1))
      BY <1>3, <1>6 DEF Amid
    <2> SUFFICES ASSUME NEW p \in Objects, p \in queued \/ emission[p] = "restart"
                 PROVE  p \in queued' \/ emission'[p] = "restart" \/ Has(d, RunAt(p, 1))
      BY DEF HeardKept
    <2>3. CASE p = o
      BY <1>1, <2>2, <2>3
    <2>4. CASE p # o
      BY <1>1, <2>1, <2>4
    <2> QED BY <2>3, <2>4
  <1>8. RunKept(d, x)
    <2> SUFFICES ASSUME NEW p \in Objects, NEW i \in 1..4, x = RunAt(p, i)
                 PROVE  /\ p # 0 /\ i <= 3 =>
                             Freeing(d, p) \/ \E k \in 1..3 : Has(d, RunAt(p, k))
                        /\ p # 0 /\ i <= 2 =>
                             Has(d, Do("engine", p)) \/ \E k \in 1..2 : Has(d, RunAt(p, k))
                        /\ p = 0 /\ i = 1 => Has(d, Do("look", 0)) \/ Has(d, RunAt(0, 1))
      BY DEF RunKept
    <2>1. p = o /\ i = n
      BY <1>2 DEF RunAt
    <2>2. /\ restart => Has(d, RunAt(o, 1))
          /\ ~restart /\ o = 0 /\ n = 1 => Has(d, Do("look", 0))
          /\ ~restart /\ o # 0 /\ n = 1 => Has(d, RunAt(o, 2))
          /\ ~restart /\ o # 0 /\ n = 2 => Has(d, Do("engine", o))
          /\ ~restart /\ o # 0 /\ n = 2 => Has(d, RunAt(o, 3))
      BY <1>3, <1>6 DEF Amid
    <2>3. ~restart /\ o # 0 /\ n = 3 => Freeing(d, o)
      BY <1>6 DEF ToFree
    <2> HIDE DEF restart
    <2> QED BY <1>2, <2>1, <2>2, <2>3
  <1>9. /\ x.op \notin {"reasons", "send", "free", "process", "busy", "look", "next", "engine"}
        /\ printer' = printer /\ Milds(f, d)
    BY <1>1, <1>6, SameMilds DEF op
  <1> QED BY ONLY Inv(f), Later(f), t \in Threads, <1>5, <1>6, <1>7, <1>8, <1>9, KeepsLater


-----------------------------------------------------------------------------
(* The slot, taken and given back                                           *)

\* Going on forgets nothing but the instruction.
LEMMA AdvanceKeeps ==
    ASSUME NEW f, Inv(f), NEW t \in Threads, NEW op, Executes(t, op), NEW d, d = Advance(f[t]),
           NEW x, x = Now(f[t])
    PROVE  Keeps(f, t, d, x) /\ x.op = op
  <1>1. f[t] \in Frame(Len(jobs)) /\ AtWork(f[t]) /\ Len(jobs) \in Nat /\ x.op = op /\ x.on = On(t)
    BY Executing
  <1> QED BY <1>1, CarriesAdvance, AdvanceFollows DEF Keeps

\* Busy and process stay together.
LEMMA PairStep ==
    ASSUME NEW f, Inv(f), Later(f), NEW t \in Threads, NEW d, NEW g, NEW x, Moved(f, t, d, g),
           Keeps(f, t, d, x)
    PROVE  PairInv(g)'
  <1>1. f \in [Threads -> Frame(Len(jobs))] /\ PairInv(f) /\ Carries(f[t], d, x)
    BY DEF Inv, FrameInv, Later, Keeps
  <1>2. (\A u \in Threads : Paired(f[u].r)) => \A u \in Threads : Paired(g[u].r)
    BY <1>1, BlockStep
  <1> QED BY <1>1, <1>2 DEF PairInv

\* The states of the jobs and of the printer are as before.
SameStates ==
    /\ Len(jobs') = Len(jobs) /\ printer'.state = printer.state
    /\ UNCHANGED <<queued, emission>>
    /\ \A j \in 1..Len(jobs) : /\ jobs'[j].state = jobs[j].state
                               /\ jobs'[j].watched = jobs[j].watched
                               /\ jobs'[j].started = jobs[j].started

\* An instruction that is only about the slot.
LEMMA SlotLater ==
    ASSUME NEW f, Inv(f), Later(f), NEW t \in Threads, NEW d, NEW g, NEW x, Moved(f, t, d, g),
           Keeps(f, t, d, x), x.op \in {"claim", "send", "reasons"}, SameStates, SlotInv(g)'
    PROVE  Later(g)'
  <1> DEFINE E == Early(jobs, f["main"])
             F == Early(jobs', g["main"])
  <1>1. Len(jobs) \in Nat /\ Len(jobs') = Len(jobs) /\ Ids = 1..Len(jobs) /\ Ids' = 1..Len(jobs')
    BY DEF Inv, TypeInv, SameStates, Ids
  <1>2. Carries(f[t], d, x) /\ Follows(f[t], d)
    BY DEF Keeps
  <1>3. \A j \in 1..Len(jobs) : jobs[j].started => jobs'[j].started
    BY DEF SameStates
  <1>4. \A j \in 1..Len(jobs) : j \notin E => j \notin F
    BY <1>1, <1>2, <1>3, EarlyStep
  <1>5. HeardKept(d) /\ RunKept(d, x)
    <2>1. queued \subseteq queued' /\ emission' = emission
      BY DEF SameStates
    <2> QED BY <2>1, NothingUnheard, NotRun
  <1>6. \A j : x # Do("process", j) /\ x # Do("engine", j)
    BY DEF Do
  <1>7. BusyKept(E, F, x)
    <2> HIDE DEF E, F
    <2> QED BY <1>1, <1>4, <1>6 DEF BusyKept, SameStates, Ended
  <1>8. WakeKept(d, x)
    BY <1>1, <1>6 DEF WakeKept, SameStates, Waiting
  <1>9. BusyInv(f) /\ WakeInv(f) /\ Ids \subseteq Ids'
    BY <1>1 DEF Later
  <1>10. BusyInv(g)'
    BY <1>2, <1>5, <1>7, <1>9, BusyStep
  <1>11. WakeInv(g)'
    BY <1>2, <1>5, <1>8, <1>9, WakeStep
  <1>12. PairInv(g)'
    BY PairStep
  <1> QED BY <1>10, <1>11, <1>12 DEF Later

\* The job has the slot and will be outgoing.
LEMMA ClaimsLater ==
    ASSUME NEW f, Inv(f), Later(f), NEW t \in Threads, Claims(t),
           NEW g, g = [f EXCEPT ![t] = Advance(f[t])]
    PROVE  Later(g)'
  <1>0. PICK j : j = On(t)
    OBVIOUS
  <1> DEFINE op == "claim"
             c == f[t]
             x == Now(c)
             d == Advance(c)
             m == Len(jobs)
             r == [jobs[j] EXCEPT !.sending = TRUE]
  <1>1. /\ Executes(t, op) /\ UNCHANGED <<queued, emission>>
        /\ printer' = [printer EXCEPT !.job_outgoing = TRUE]
        /\ jobs' = [jobs EXCEPT ![j] = r]
    BY <1>0 DEF Claims, notes
  <1>2. /\ j = c.j /\ Active(c) /\ c.seg = "send" /\ c.n = 1 /\ j \in 1..m /\ m \in Nat
        /\ c \in Frame(m) /\ f \in [Threads -> Frame(m)]
    <2>1. /\ j = c.j /\ Active(c) /\ c.seg = "send" /\ c.n = 1 /\ j \in 1..m
      BY <1>0, <1>1, Executing, AtBlock, SMTT(60) DEF Single, Jobless
    <2>2. m \in Nat /\ c \in Frame(m)
      BY <1>1, Executing
    <2>3. f \in [Threads -> Frame(m)]
      BY DEF Inv, FrameInv
    <2> QED BY ONLY <2>1, <2>2, <2>3
  <1>3. jobs[j] \in JobRecord /\ jobs \in Seq(JobRecord)
    BY <1>2 DEF Inv, TypeInv
  <1>4. /\ r \in JobRecord /\ r.sending /\ r.state = jobs[j].state
        /\ r.watched = jobs[j].watched /\ r.started = jobs[j].started
    BY <1>3 DEF JobRecord
  <1>5. Sending(d, j)
    <2>1. d.seg = "send" /\ d.j = j /\ d.n = 2
      BY <1>2, AdvanceFields
    <2> QED BY <2>1 DEF Sending
  <1>6. Moved(f, t, d, g) /\ g[t] = d
    BY <1>2 DEF Moved
  <1>7. Keeps(f, t, d, x) /\ x.op = op
    BY <1>1, AdvanceKeeps
  <1> HIDE DEF r, d
  <1>8. Alters(jobs', j) /\ jobs'[j] = r
    <2>1. /\ jobs \in Seq(JobRecord) /\ j \in 1..Len(jobs) /\ r \in JobRecord
          /\ jobs' = [jobs EXCEPT ![j] = r]
      BY <1>1, <1>2, <1>3, <1>4
    <2> QED BY ONLY <2>1, Alter
  <1>9. SameStates
    <2>1. printer'.state = printer.state
      BY <1>1 DEF Inv, TypeInv
    <2> QED BY <1>1, <1>4, <1>8, <2>1 DEF SameStates, Alters
  <1>10. SlotInv(g)'
    <2>1. j \in Ids'
      BY <1>2, <1>8 DEF Ids, Alters
    <2>2. AnySending(g, j)
      BY <1>5, <1>6 DEF AnySending
    <2>3. SlotOf(g, j)'
      BY <1>4, <1>8, <2>2 DEF SlotOf, AnySending
    <2> QED BY <2>1, <2>3 DEF SlotInv
  <1>11. x.op \in {"claim", "send", "reasons"}
    BY <1>7
  <1> QED BY ONLY Inv(f), Later(f), t \in Threads, <1>6, <1>7, <1>9, <1>10, <1>11, SlotLater

\* It is outgoing.
LEMMA SendsLater ==
    ASSUME NEW f, Inv(f), Later(f), NEW t \in Threads, Sends(t),
           NEW g, g = [f EXCEPT ![t] = Advance(f[t])]
    PROVE  Later(g)'
  <1>0. PICK j : j = On(t)
    OBVIOUS
  <1> DEFINE op == "send"
             c == f[t]
             x == Now(c)
             d == Advance(c)
             m == Len(jobs)
             r == [jobs[j] EXCEPT !.running = TRUE, !.outgoing = TRUE, !.backend_started = TRUE,
                                  !.changed = TRUE]
  <1>1. Executes(t, op) /\ UNCHANGED <<queued, emission, printer>>
    BY DEF Sends, notes
  <1>2. /\ j \in 1..m /\ m \in Nat /\ c \in Frame(m) /\ f \in [Threads -> Frame(m)]
        /\ AtWork(c) /\ x.op = op /\ x.on = j
    BY <1>0, <1>1, Executing, AtJob DEF JobOps, Inv, FrameInv
  <1>3. jobs[j] \in JobRecord /\ jobs \in Seq(JobRecord)
    BY <1>2 DEF Inv, TypeInv
  <1>4. jobs' = [jobs EXCEPT ![j] = r]
    BY <1>0, <1>2, <1>3 DEF Sends, JobRecord
  <1>5. /\ r \in JobRecord /\ r.sending = jobs[j].sending /\ r.state = jobs[j].state
        /\ r.watched = jobs[j].watched /\ r.started = jobs[j].started /\ r.outgoing
    BY <1>3 DEF JobRecord
  <1>6. Moved(f, t, d, g) /\ g[t] = d /\ \A u \in Threads : u # t => g[u] = f[u]
    BY <1>2 DEF Moved
  <1>7. Keeps(f, t, d, x)
    BY <1>1, AdvanceKeeps
  <1>8. \A k : Sending(c, k) => k = j
    <2>1. \A k : Sending(c, k) /\ x.op = "send" => x = Do("send", k)
      BY <1>2, CarriesAdvance
    <2> QED BY <1>2, <2>1 DEF Do
  <1> HIDE DEF r, d, x
  <1>9. Alters(jobs', j) /\ jobs'[j] = r
    <2>1. /\ jobs \in Seq(JobRecord) /\ j \in 1..Len(jobs) /\ r \in JobRecord
          /\ jobs' = [jobs EXCEPT ![j] = r]
      BY <1>2, <1>3, <1>4, <1>5
    <2> QED BY ONLY <2>1, Alter
  <1>10. SameStates
    BY <1>1, <1>5, <1>9 DEF SameStates, Alters
  <1>11. SlotInv(g)'
    <2> SUFFICES ASSUME printer'.job_outgoing  PROVE \E k \in Ids' : SlotOf(g, k)'
      BY DEF SlotInv
    <2>1. PICK k \in Ids : SlotOf(f, k)
      BY <1>1 DEF Later, SlotInv
    <2>2. k \in Ids' /\ k \in 1..Len(jobs)
      BY <1>9 DEF Ids, Alters
    <2>3. SlotOf(g, k)' <=>
            /\ jobs'[k].sending
            /\ \/ jobs'[k].outgoing \/ jobs'[k].changed \/ Ahead(g, Do("reasons", k))
               \/ AnySending(g, k)
      BY DEF SlotOf, Ahead, AnySending
    <2>4. CASE k = j
      BY <1>5, <1>9, <2>1, <2>2, <2>3, <2>4 DEF SlotOf
    <2>5. CASE k # j
      <3>1. jobs'[k] = jobs[k]
        BY <1>9, <2>2, <2>5 DEF Alters
      <3>2. Ahead(f, Do("reasons", k)) => Ahead(g, Do("reasons", k))
        <4>1. Do("reasons", k) # x
          BY <1>2 DEF Do
        <4> QED BY <1>2, <1>6, <1>7, <4>1, AheadStep DEF Keeps
      <3>3. AnySending(f, k) => AnySending(g, k)
        BY <1>6, <1>8, <2>5 DEF AnySending
      <3> QED BY <2>1, <2>2, <2>3, <3>1, <3>2, <3>3 DEF SlotOf
    <2> QED BY <2>4, <2>5
  <1>12. x.op \in {"claim", "send", "reasons"}
    BY <1>2
  <1> QED BY ONLY Inv(f), Later(f), t \in Threads, <1>6, <1>7, <1>10, <1>11, <1>12, SlotLater

\* It gives the slot back, or has not yet become outgoing.
LEMMA ReasonsLater ==
    ASSUME NEW f, Inv(f), Later(f), NEW t \in Threads, Reasons(t),
           NEW g, g = [f EXCEPT ![t] = Advance(f[t])]
    PROVE  Later(g)'
  <1>0. PICK j : j = On(t)
    OBVIOUS
  <1> DEFINE op == "reasons"
             c == f[t]
             x == Now(c)
             d == Advance(c)
             m == Len(jobs)
             gone == NoLongerOutgoing(j)
             r == [jobs[j] EXCEPT !.sending = @ /\ ~gone]
  <1>1. /\ Executes(t, op) /\ UNCHANGED <<queued, emission>>
        /\ printer' = [printer EXCEPT !.job_outgoing = @ /\ ~gone]
        /\ jobs' = [jobs EXCEPT ![j] = r]
    BY <1>0 DEF Reasons, notes
  <1>2. /\ j \in 1..m /\ m \in Nat /\ c \in Frame(m) /\ f \in [Threads -> Frame(m)]
        /\ AtWork(c) /\ x.op = op /\ x.on = j
    BY <1>0, <1>1, Executing, AtJob DEF JobOps, Inv, FrameInv
  <1>3. jobs[j] \in JobRecord /\ jobs \in Seq(JobRecord) /\ gone \in BOOLEAN
    BY <1>2 DEF Inv, TypeInv, NoLongerOutgoing
  <1>4. r \in JobRecord /\ (r.sending <=> jobs[j].sending /\ ~gone)
    BY <1>3 DEF JobRecord
  <1>5. /\ r.state = jobs[j].state /\ r.outgoing = jobs[j].outgoing
        /\ r.watched = jobs[j].watched /\ r.started = jobs[j].started
    BY <1>3 DEF JobRecord
  <1>6. Moved(f, t, d, g) /\ g[t] = d /\ \A u \in Threads : u # t => g[u] = f[u]
    BY <1>2 DEF Moved
  <1>7. Keeps(f, t, d, x)
    BY <1>1, AdvanceKeeps
  <1>8. /\ printer'.state = printer.state
        /\ printer'.job_outgoing => printer.job_outgoing /\ ~gone
    <2>1. printer \in [state : {"idle", "processing"}, job_outgoing : BOOLEAN]
      BY DEF Inv, TypeInv
    <2> HIDE DEF gone
    <2> QED BY <1>1, <2>1
  <1>9. gone <=> jobs[j].sending /\ ~jobs[j].outgoing
    BY DEF NoLongerOutgoing
  <1> HIDE DEF r, d, x, gone
  <1>10. Alters(jobs', j) /\ jobs'[j] = r
    <2>1. /\ jobs \in Seq(JobRecord) /\ j \in 1..Len(jobs) /\ r \in JobRecord
          /\ jobs' = [jobs EXCEPT ![j] = r]
      BY <1>1, <1>2, <1>3, <1>4
    <2> QED BY ONLY <2>1, Alter
  <1>11. SameStates
    BY <1>1, <1>5, <1>8, <1>10 DEF SameStates, Alters
  <1>12. SlotInv(g)'
    <2> SUFFICES ASSUME printer'.job_outgoing  PROVE \E k \in Ids' : SlotOf(g, k)'
      BY DEF SlotInv
    <2>1. PICK k \in Ids : SlotOf(f, k)
      BY <1>8 DEF Later, SlotInv
    <2>2. k \in Ids' /\ k \in 1..Len(jobs)
      BY <1>10 DEF Ids, Alters
    <2>3. SlotOf(g, k)' <=>
            /\ jobs'[k].sending
            /\ \/ jobs'[k].outgoing \/ jobs'[k].changed \/ Ahead(g, Do("reasons", k))
               \/ AnySending(g, k)
      BY DEF SlotOf, Ahead, AnySending
    <2>4. CASE k = j
      <3>1. jobs[j].sending
        BY <2>1, <2>4 DEF SlotOf
      <3> QED BY <1>4, <1>5, <1>8, <1>9, <1>10, <2>2, <2>3, <2>4, <3>1
    <2>5. CASE k # j
      <3>1. jobs'[k] = jobs[k]
        BY <1>10, <2>2, <2>5 DEF Alters
      <3>2. Ahead(f, Do("reasons", k)) => Ahead(g, Do("reasons", k))
        <4>1. Do("reasons", k) # x
          BY <1>2, <2>5 DEF Do
        <4> QED BY <1>2, <1>6, <1>7, <4>1, AheadStep DEF Keeps
      <3>3. AnySending(f, k) => AnySending(g, k)
        <4>1. Carries(f[t], d, x) /\ f \in [Threads -> Frame(Len(jobs))]
          BY <1>2, <1>7 DEF Keeps
        <4>2. AnySending(f, k) => x.op = "send" \/ AnySending(g, k)
          BY ONLY t \in Threads, <1>6, <4>1, BlockStep
        <4> QED BY <1>2, <4>2
      <3> QED BY <2>1, <2>2, <2>3, <3>1, <3>2, <3>3 DEF SlotOf
    <2> QED BY <2>4, <2>5
  <1>13. x.op \in {"claim", "send", "reasons"}
    BY <1>2
  <1> QED BY ONLY Inv(f), Later(f), t \in Threads, <1>6, <1>7, <1>11, <1>12, <1>13, SlotLater


-----------------------------------------------------------------------------
(* The printer looks for a job                                              *)

AnyBusy(d) == \E k \in Ids : Has(d, Do("busy", k))

\* A look at the printer or its jobs that changes nothing.
LEMMA StillLater ==
    ASSUME NEW f, Inv(f), Later(f), NEW t \in Threads, NEW d, NEW g, NEW x, Moved(f, t, d, g),
           Keeps(f, t, d, x), UNCHANGED <<queued, emission, printer, jobs>>,
           x.op \in {"look", "next"}, x.op = "look" => printer.state # "idle" \/ Finding(d),
           x.op = "next" => AnyBusy(d) \/ Pending = {}
    PROVE  Later(g)'
  <1> DEFINE E == Early(jobs, f["main"])
             F == Early(jobs', g["main"])
  <1>1. Len(jobs) \in Nat /\ Ids = 1..Len(jobs) /\ Ids \subseteq Ids'
    BY DEF Inv, TypeInv, Ids
  <1>2. Carries(f[t], d, x) /\ Follows(f[t], d)
    BY DEF Keeps
  <1>3. \A j \in 1..Len(jobs) : j \notin E => j \notin F
    BY <1>1, <1>2, EarlyStep
  <1>4. HeardKept(d) /\ RunKept(d, x)
    BY NothingUnheard, NotRun
  <1>5. \A j : x # Do("process", j) /\ x # Do("engine", j)
    BY DEF Do
  <1>6. SlotKept(d, x)
    BY DEF SlotKept
  <1>7. BusyKept(E, F, x)
    <2> HIDE DEF E, F
    <2> QED BY <1>1, <1>3, <1>5 DEF BusyKept, Ended
  <1>8. WakeKept(d, x)
    BY <1>1, <1>5 DEF WakeKept, Waiting, AnyBusy, Pending
  <1> QED BY ONLY Inv(f), Later(f), t \in Threads, Moved(f, t, d, g), <1>1, <1>2, <1>4, <1>6,
                  <1>7, <1>8, LaterStep

\* An idle printer is looked after.
LEMMA LooksLater ==
    ASSUME NEW f, Inv(f), Later(f), NEW t \in Threads, Looks(t),
           NEW g, g = [f EXCEPT ![t] = LooksTo(f, t)]
    PROVE  Later(g)'
  <1> DEFINE op == "look"
             x == Now(f[t])
             d == LooksTo(f, t)
             s == <<>>
             seg == "next"
             k == 0
  <1>1. Executes(t, op) /\ UNCHANGED <<queued, emission, printer, jobs>>
    BY DEF Looks, notes
  <1>2. op \in Single \cup {"next"} /\ seg \in Nested
    BY DEF Single, Nested
  <1>3. s \in Seq(Calm(Len(jobs))) /\ Paired(s)
    BY DEF Paired
  <1>4. Moved(f, t, d, g)
    BY DEF Moved
  <1>5. \/ d = Advance(f[t]) /\ printer.state # "idle"
        \/ d = Inward(f, t, s, seg, k)
    BY DEF LooksTo
  <1> HIDE DEF op, s, seg, d, k, x
  <1>6. /\ Keeps(f, t, d, x) /\ x.op = op
        /\ printer.state # "idle" \/ Finding(d)
    <2>1. CASE d = Inward(f, t, s, seg, k)
      <3>1. Keeps(f, t, d, x) /\ x.op = op /\ d.seg = seg /\ d.n = 1
        BY <1>1, <1>2, <1>3, <2>1, InwardKeeps DEF x
      <3> QED BY <3>1 DEF Finding, seg
    <2>2. CASE d = Advance(f[t]) /\ printer.state # "idle"
      BY <1>1, <2>2, AdvanceKeeps DEF x
    <2> QED BY <1>5, <2>1, <2>2
  <1>7. /\ x.op \in {"look", "next"} /\ (x.op = "look" => printer.state # "idle" \/ Finding(d))
        /\ x.op = "next" => AnyBusy(d) \/ Pending = {}
    BY <1>6 DEF op
  <1> QED BY ONLY Inv(f), Later(f), t \in Threads, <1>1, <1>4, <1>6, <1>7, StillLater

\* A pending job, if there is one, is found.
LEMMA NextsLater ==
    ASSUME NEW f, Inv(f), Later(f), NEW t \in Threads, Nexts(t), NEW s, NextPuts(s),
           NEW g, g = [f EXCEPT ![t] = Inward(f, t, s, "unlock", 0)]
    PROVE  Later(g)'
  <1> DEFINE op == "next"
             seg == "unlock"
             k == 0
             x == Now(f[t])
             d == Inward(f, t, s, seg, k)
             m == Len(jobs)
  <1>1. Executes(t, op) /\ UNCHANGED <<queued, emission, printer, jobs>> /\ m \in Nat
    BY DEF Nexts, notes, Inv, TypeInv
  <1>2. op \in Single \cup {"next"} /\ seg \in Nested
    BY DEF Single, Nested
  <1>3. Moved(f, t, d, g)
    BY DEF Moved
  <1> HIDE DEF op, seg, k, x, d
  <1>4. CASE s = <<>> /\ Pending = {}
    <2>1. s \in Seq(Calm(Len(jobs))) /\ Paired(s)
      BY <1>4 DEF Paired
    <2>2. Keeps(f, t, d, x) /\ x.op = op
      BY <1>1, <1>2, <2>1, InwardKeeps DEF x, d
    <2>3. /\ x.op \in {"look", "next"} /\ (x.op = "look" => printer.state # "idle" \/ Finding(d))
          /\ x.op = "next" => AnyBusy(d) \/ Pending = {}
      BY <1>4, <2>2 DEF op
    <2> QED BY ONLY Inv(f), Later(f), t \in Threads, <1>1, <1>3, <2>2, <2>3, StillLater
  <1>5. ASSUME NEW i \in Pending, s = Instruction("assert", i) \o StartJob(i)
        PROVE  Later(g)'
    <2>1. i \in Ids /\ i \in 1..Len(jobs)
      BY DEF Pending, Ids
    <2>2. s \in Seq(Calm(Len(jobs))) /\ Paired(s) /\ \E h \in 1..Len(s) : s[h] = Do("busy", i)
      BY <1>1, <1>5, <2>1, PairedStart
    <2>3. Keeps(f, t, d, x) /\ x.op = op /\ \A h \in 1..Len(s) : Has(d, s[h])
      BY <1>1, <1>2, <2>2, InwardKeeps DEF x, d
    <2>4. AnyBusy(d)
      BY <2>1, <2>2, <2>3 DEF AnyBusy
    <2>5. /\ x.op \in {"look", "next"} /\ (x.op = "look" => printer.state # "idle" \/ Finding(d))
          /\ x.op = "next" => AnyBusy(d) \/ Pending = {}
      BY <2>3, <2>4 DEF op
    <2> QED BY ONLY Inv(f), Later(f), t \in Threads, <1>1, <1>3, <2>3, <2>5, StillLater
  <1> QED BY <1>4, <1>5 DEF NextPuts

\* The job is started, or the printer is busy, or it need not be.
LEMMA EnginesLater ==
    ASSUME NEW f, Inv(f), Later(f), NEW t \in Threads, Engines(t),
           NEW g, g = [f EXCEPT ![t] = Onward(f, t, EnginePuts(On(t)))]
    PROVE  Later(g)'
  <1>0. PICK j : j = On(t)
    OBVIOUS
  <1> DEFINE op == "engine"
             s == EnginePuts(j)
             x == Now(f[t])
             d == Onward(f, t, s)
             m == Len(jobs)
             E == Early(jobs, f["main"])
             F == Early(jobs', g["main"])
             r == [jobs[j] EXCEPT !.watched = @ /\ ~StartsNow(j)
                                        /\ jobs[j].state \in {"pending", "pending-held"}]
  <1>1. Executes(t, op) /\ UNCHANGED <<queued, emission, printer>>
    BY DEF Engines, notes
  <1>2. j \in 1..m /\ m \in Nat /\ Ids = 1..m
    BY <1>0, <1>1, AtJob, Executing DEF JobOps, Ids
  <1>3. jobs \in Seq(JobRecord) /\ jobs[j] \in JobRecord
    BY <1>2 DEF Inv, TypeInv
  <1>4. jobs' = [jobs EXCEPT ![j] = r]
    BY <1>0, <1>2, <1>3 DEF Engines, JobRecord, StartsNow
  <1>5. /\ r \in JobRecord /\ (r.watched => jobs[j].watched /\ ~StartsNow(j))
    <2> DEFINE a == jobs[j].watched /\ ~StartsNow(j)
                      /\ jobs[j].state \in {"pending", "pending-held"}
    <2>1. a \in BOOLEAN /\ r = [jobs[j] EXCEPT !.watched = a]
      BY ONLY <1>3 DEF JobRecord
    <2> HIDE DEF a, r
    <2>2. r \in JobRecord /\ r.watched = a
      BY ONLY <1>3, <2>1 DEF JobRecord
    <2> QED BY ONLY <2>2 DEF a
  <1>6. /\ r.sending = jobs[j].sending /\ r.outgoing = jobs[j].outgoing
        /\ r.changed = jobs[j].changed /\ r.state = jobs[j].state /\ r.started = jobs[j].started
    BY <1>3 DEF JobRecord
  <1>7. s \in Seq(Calm(m)) /\ Paired(s)
    <2>1. s = <<>> \/ s = StartJob(j)
      BY DEF EnginePuts
    <2>2. s = <<>> => s \in Seq(Calm(m)) /\ Paired(s)
      BY DEF Paired
    <2> HIDE DEF s
    <2> QED BY <1>2, <2>1, <2>2, PairedStart
  <1>8. Moved(f, t, d, g)
    BY <1>0 DEF Moved
  <1> HIDE DEF op, s, x, d, r
  <1>9. Keeps(f, t, d, x) /\ x.op = op /\ x.on = j
    <2>1. Keeps(f, t, d, x) /\ x.op = op
      BY <1>1, <1>7, OnwardKeeps DEF x, d
    <2> QED BY <1>0, <2>1 DEF Keeps
  <1>10. Alters(jobs', j) /\ jobs'[j] = r
    <2>1. /\ jobs \in Seq(JobRecord) /\ j \in 1..Len(jobs) /\ r \in JobRecord
          /\ jobs' = [jobs EXCEPT ![j] = r]
      BY <1>2, <1>3, <1>4, <1>5
    <2> QED BY ONLY <2>1, Alter
  <1>11. /\ Len(jobs') = m
         /\ \A k \in 1..m : /\ jobs'[k].sending = jobs[k].sending
                            /\ jobs'[k].outgoing = jobs[k].outgoing
                            /\ jobs'[k].changed = jobs[k].changed
                            /\ jobs'[k].state = jobs[k].state
                            /\ jobs'[k].started = jobs[k].started
                            /\ jobs'[k].watched => jobs[k].watched
    BY <1>5, <1>6, <1>10 DEF Alters
  <1>12. Carries(f[t], d, x) /\ Follows(f[t], d)
    BY <1>9 DEF Keeps
  <1>13. \A k \in 1..m : k \notin E => k \notin F
    BY <1>2, <1>8, <1>11, <1>12, EarlyStep
  <1>14. HeardKept(d) /\ RunKept(d, x)
    BY <1>1, <1>9, NothingUnheard, NotRun DEF op
  <1>15. \A k : x # Do("process", k)
    BY <1>9 DEF Do, op
  <1>16. SlotKept(d, x)
    BY <1>1, <1>2, <1>9, <1>11 DEF SlotKept, op
  <1>17. BusyKept(E, F, x)
    <2> HIDE DEF E, F
    <2> QED BY <1>1, <1>2, <1>9, <1>11, <1>13, <1>15 DEF BusyKept, Ended, op
  <1>18. WakeKept(d, x)
    <2>1. ASSUME NEW k \in Ids, x = Do("engine", k)
          PROVE  printer'.state # "idle" \/ ~jobs'[k].watched \/ jobs'[k].state # "pending"
      <3>1. k = j
        BY <1>9, <2>1 DEF Do
      <3> QED BY <1>1, <1>5, <1>6, <1>10, <3>1 DEF StartsNow
    <2>2. \A k \in 1..Len(jobs') : jobs'[k].watched /\ jobs'[k].state = "pending" =>
              k \in Ids /\ Waiting(k)
      BY <1>2, <1>11 DEF Waiting
    <2> QED BY <1>1, <1>9, <2>1, <2>2 DEF WakeKept, op
  <1>19. Ids \subseteq Ids'
    BY <1>11 DEF Ids
  <1> QED BY ONLY Inv(f), Later(f), t \in Threads, <1>8, <1>12, <1>14, <1>16, <1>17, <1>18,
                  <1>19, LaterStep


\* A change of state leaves what is to be heard.
LEMMA NotifyHeard ==
    ASSUME NEW f, Inv(f), NEW t, NEW o \in Objects, NEW q, Notify(t, o, q), NEW d
    PROVE  HeardKept(d) /\ queued \subseteq queued'
  <1>1. emission \in [Objects -> {"none", "on", "restart"}]
    BY DEF Inv, TypeInv
  <1>2. /\ queued \subseteq queued'
        /\ \/ emission' = emission
           \/ emission' = [emission EXCEPT ![o] = "on"] /\ emission[o] = "none"
           \/ emission' = [emission EXCEPT ![o] = "restart"]
    BY DEF Notify, Emit
  <1> QED BY <1>1, <1>2 DEF HeardKept

\* The first handler is put in front, or nothing.
LEMMA ToldPuts ==
    ASSUME NEW m \in Nat, NEW o \in 0..m, NEW s, s = Told(o)
    PROVE  s \in Seq(Calm(m)) /\ Paired(s)
  <1> DEFINE y == RunAt(o, 1)
  <1>1. y \in Calm(m)
    BY CalmItems
  <1>2. y.op # "busy"
    BY DEF RunAt
  <1>3. s = <<>> \/ s = <<y>>
    BY DEF Told
  <1> HIDE DEF y
  <1> QED BY <1>1, <1>2, <1>3, PairedOne

\* The printer is busy with this job.
LEMMA ProcessesLater ==
    ASSUME NEW f, Inv(f), Later(f), NEW t \in Threads, Processes(t),
           NEW g, g = [f EXCEPT ![t] = Onward(f, t, Told(On(t)))]
    PROVE  Later(g)'
  <1>0. PICK j : j = On(t)
    OBVIOUS
  <1> DEFINE op == "process"
             s == Told(j)
             x == Now(f[t])
             d == Onward(f, t, s)
             m == Len(jobs)
             E == Early(jobs, f["main"])
             F == Early(jobs', g["main"])
             r == [jobs[j] EXCEPT !.state = "processing"]
  <1>1. /\ Executes(t, op) /\ UNCHANGED printer /\ Notify(t, j, Rest(t))
        /\ jobs' = [jobs EXCEPT ![j] = r]
    BY <1>0 DEF Processes
  <1>2. j \in 1..m /\ m \in Nat /\ Ids = 1..m /\ j \in Objects
    BY <1>0, <1>1, AtJob, Executing DEF JobOps, Ids
  <1>3. jobs \in Seq(JobRecord) /\ jobs[j] \in JobRecord
    BY <1>2 DEF Inv, TypeInv
  <1>4. /\ r.sending = jobs[j].sending /\ r.outgoing = jobs[j].outgoing /\ r \in JobRecord
        /\ r.changed = jobs[j].changed /\ r.state = "processing" /\ r.started = jobs[j].started
    BY <1>3 DEF JobRecord
  <1>5. s \in Seq(Calm(m)) /\ Paired(s)
    <2>1. j \in 0..m
      BY <1>2
    <2> HIDE DEF s
    <2> QED BY <1>2, <2>1, ToldPuts DEF s
  <1>6. Moved(f, t, d, g)
    BY <1>0 DEF Moved
  <1> HIDE DEF op, s, x, d, r
  <1>7. Keeps(f, t, d, x) /\ x.op = op /\ x.on = j
    <2>1. Keeps(f, t, d, x) /\ x.op = op
      BY <1>1, <1>5, OnwardKeeps DEF x, d
    <2> QED BY <1>0, <2>1 DEF Keeps
  <1>8. Alters(jobs', j) /\ jobs'[j] = r
    <2>1. /\ jobs \in Seq(JobRecord) /\ j \in 1..Len(jobs) /\ r \in JobRecord
          /\ jobs' = [jobs EXCEPT ![j] = r]
      BY <1>1, <1>2, <1>3, <1>4
    <2> QED BY ONLY <2>1, Alter
  <1>9. /\ Len(jobs') = m /\ jobs'[j].state = "processing"
        /\ \A k \in 1..m : /\ jobs'[k].sending = jobs[k].sending
                           /\ jobs'[k].outgoing = jobs[k].outgoing
                           /\ jobs'[k].changed = jobs[k].changed
                           /\ jobs'[k].started = jobs[k].started
        /\ \A k \in 1..m : k # j => jobs'[k] = jobs[k]
    BY <1>4, <1>8 DEF Alters
  <1>10. Carries(f[t], d, x) /\ Follows(f[t], d)
    BY <1>7 DEF Keeps
  <1>11. \A k \in 1..m : k \notin E => k \notin F
    BY <1>2, <1>6, <1>9, <1>10, EarlyStep
  <1>12. HeardKept(d) /\ RunKept(d, x)
    BY <1>1, <1>2, <1>7, NotifyHeard, NotRun DEF op
  <1>13. \A k : (x = Do("process", k) => k = j) /\ x # Do("engine", k)
    BY <1>7 DEF Do, op
  <1>14. SlotKept(d, x)
    BY <1>1, <1>2, <1>7, <1>9 DEF SlotKept, op
  <1>15. BusyKept(E, F, x)
    <2>1. ASSUME NEW k \in 1..m
          PROVE  /\ jobs[k].state = "processing" => jobs'[k].state = "processing"
                 /\ Ended(k) => jobs'[k].state \in Terminal \cup {"processing"}
                 /\ x = Do("process", k) => jobs'[k].state = "processing"
      BY <1>9, <1>13 DEF Ended
    <2> HIDE DEF E, F
    <2> QED BY <1>1, <1>2, <1>7, <1>11, <2>1 DEF BusyKept, op
  <1>16. WakeKept(d, x)
    <2>1. \A k \in 1..Len(jobs') : jobs'[k].watched /\ jobs'[k].state = "pending" =>
              k \in Ids /\ Waiting(k)
      BY <1>2, <1>9 DEF Waiting
    <2> QED BY <1>1, <1>7, <1>13, <2>1 DEF WakeKept, op
  <1>17. Ids \subseteq Ids'
    BY <1>9 DEF Ids
  <1> QED BY ONLY Inv(f), Later(f), t \in Threads, <1>6, <1>10, <1>12, <1>14, <1>15, <1>16,
                  <1>17, LaterStep

\* The printer is busy: the job will be processing right after.
LEMMA BusiesLater ==
    ASSUME NEW f, Inv(f), Later(f), NEW t \in Threads, Busies(t),
           NEW g, g = [f EXCEPT ![t] = Onward(f, t, Told(0))]
    PROVE  Later(g)'
  <1>0. PICK j : j = On(t)
    OBVIOUS
  <1> DEFINE op == "busy"
             s == Told(0)
             c == f[t]
             x == Now(c)
             d == Onward(f, t, s)
             m == Len(jobs)
  <1>1. /\ Executes(t, op) /\ UNCHANGED jobs /\ Notify(t, 0, Rest(t))
        /\ printer' = [printer EXCEPT !.state = "processing"]
    BY DEF Busies
  <1>2. /\ j \in 1..m /\ m \in Nat /\ Ids = 1..m /\ 0 \in Objects /\ 0 \in 0..m
        /\ j \notin Early(jobs, f["main"]) /\ f \in [Threads -> Frame(m)]
    BY <1>0, <1>1, AtJob, Executing, ThreadsAssumption
       DEF JobOps, StartOps, Ids, Objects, Inv, FrameInv
  <1>3. /\ printer'.state = "processing" /\ printer'.job_outgoing = printer.job_outgoing
    BY <1>1 DEF Inv, TypeInv
  <1>4. s \in Seq(Calm(m)) /\ Paired(s)
    <2> HIDE DEF s
    <2> QED BY <1>2, ToldPuts DEF s
  <1>5. Moved(f, t, d, g)
    BY DEF Moved
  <1>6. Has(c, Do("process", j))
    <2>1. c \in Frame(m) /\ AtWork(c) /\ x.op = op /\ x.on = j /\ op \in Single
      BY <1>0, <1>1, Executing DEF Single
    <2>2. x = c.r[1] /\ 1 \in 1..Len(c.r)
      BY <1>2, <2>1, AtSingle
    <2>3. Paired(c.r)
      BY DEF Later, PairInv
    <2>4. 1 + 1 \in 1..Len(c.r) /\ c.r[1 + 1] = Do("process", j)
      BY <2>1, <2>2, <2>3 DEF Paired
    <2> QED BY <2>4 DEF Has
  <1> HIDE DEF op, s, x, d
  <1>7. Keeps(f, t, d, x) /\ x.op = op
    BY <1>1, <1>4, OnwardKeeps DEF x, d
  <1>8. Carries(f[t], d, x) /\ Follows(f[t], d)
    BY <1>7 DEF Keeps
  <1>9. j \notin Early(jobs', g["main"])
    <2>1. \A k \in 1..Len(jobs) :
              k \notin Early(jobs, f["main"]) => k \notin Early(jobs', g["main"])
      <3>1. /\ Len(jobs') \in Nat
            /\ \A i \in 1..Len(jobs) : jobs[i].started => jobs'[i].started
        BY <1>1, <1>2
      <3> QED BY ONLY Inv(f), t \in Threads, <1>5, <1>8, <3>1, EarlyStep
    <2> QED BY <1>2, <2>1
  <1>10. Ahead(g, Do("process", j))
    <2>1. Do("process", j) # x
      BY <1>7 DEF op, Do
    <2>2. Has(d, Do("process", j))
      BY <1>6, <1>8, <2>1 DEF Carries
    <2>3. g[t] = d
      BY <1>2, <1>5 DEF Moved
    <2> QED BY <2>2, <2>3 DEF Ahead
  <1>11. BusyInv(g)'
    <2>1. BusyOf(g, j)'
      BY <1>9, <1>10 DEF BusyOf, Ahead
    <2>2. j \in Ids'
      BY <1>1, <1>2 DEF Ids
    <2> QED BY <2>1, <2>2 DEF BusyInv
  <1>12. WakeInv(g)'
    BY <1>3 DEF WakeInv
  <1>13. SlotInv(g)'
    <2>1. SlotKept(d, x)
      BY <1>1, <1>3, <1>7 DEF SlotKept, op
    <2>2. SlotInv(f) /\ Ids \subseteq Ids'
      BY <1>1 DEF Later, Ids
    <2> QED BY <1>2, <1>5, <1>8, <2>1, <2>2, SlotStep
  <1>14. PairInv(g)'
    BY <1>5, <1>7, PairStep
  <1> QED BY <1>11, <1>12, <1>13, <1>14 DEF Later

\* The printer is idle: it will be looked after.
LEMMA FreesLater ==
    ASSUME NEW f, Inv(f), Later(f), NEW t \in Threads, Frees(t),
           NEW g, g = [f EXCEPT ![t] = Advance(f[t])]
    PROVE  Later(g)'
  <1>0. PICK j : j = On(t)
    OBVIOUS
  <1> DEFINE op == "free"
             c == f[t]
             x == Now(c)
             d == Advance(c)
             m == Len(jobs)
  <1>1. Executes(t, op) /\ UNCHANGED jobs
    BY DEF Frees
  <1>2. /\ j = c.j /\ m \in Nat /\ m <= MaxJobs /\ Ids = 1..m /\ 0 \in Objects
        /\ f \in [Threads -> Frame(m)] /\ frozen[0] > 0
    BY <1>0, <1>1, Executing, AtBlock, AtFrozen, ThreadsAssumption
       DEF Single, Ids, Objects, Inv, FrameInv
  <1>3. /\ queued \subseteq queued' /\ emission' = emission
        /\ printer'.job_outgoing = printer.job_outgoing
        /\ \/ Ended(j) /\ printer'.state = "idle" /\ 0 \in queued'
           \/ /\ printer' = printer /\ queued' = queued
              /\ ~(Ended(j) /\ printer.state = "processing")
    <2>1. CASE Ended(j) /\ printer.state = "processing"
      <3>1. /\ printer' = [printer EXCEPT !.state = "idle"]
            /\ queued' = queued \cup {0} /\ emission' = emission
        BY <1>0, <1>2, <2>1 DEF Frees, Notify
      <3>2. printer'.job_outgoing = printer.job_outgoing /\ printer'.state = "idle"
        BY <3>1 DEF Inv, TypeInv
      <3> QED BY <2>1, <3>1, <3>2
    <2>2. CASE ~(Ended(j) /\ printer.state = "processing")
      BY <1>0, <2>2 DEF Frees, notes
    <2> QED BY <2>1, <2>2
  <1>4. Moved(f, t, d, g) /\ g[t] = d /\ \A u \in Threads : u # t => g[u] = f[u]
    BY <1>2 DEF Moved
  <1> HIDE DEF op, x, d
  <1>5. Keeps(f, t, d, x) /\ x.op = op
    BY <1>1, AdvanceKeeps DEF x, d
  <1>6. Carries(f[t], d, x) /\ Follows(f[t], d) /\ x.op = "free"
    BY <1>5 DEF Keeps, op
  <1>7. HeardKept(d) /\ RunKept(d, x) /\ Ids \subseteq Ids'
    BY <1>1, <1>3, <1>6, NothingUnheard, NotRun DEF Ids
  <1>8. \A k : x # Do("process", k) /\ x # Do("engine", k) /\ x # Do("reasons", k)
    BY <1>6 DEF Do
  <1>9. SlotInv(g)'
    <2>1. SlotKept(d, x)
      BY <1>1, <1>3, <1>6 DEF SlotKept
    <2>2. SlotInv(f)
      BY DEF Later
    <2> QED BY <1>2, <1>4, <1>6, <1>7, <2>1, <2>2, SlotStep
  <1>10. WakeInv(g)'
    <2>1. WakeKept(d, x)
      BY <1>1, <1>2, <1>3, <1>6, <1>8 DEF WakeKept, Waiting
    <2>2. WakeInv(f)
      BY DEF Later
    <2> QED BY <1>4, <1>6, <1>7, <2>1, <2>2, WakeStep
  <1>11. BusyInv(g)'
    <2> SUFFICES ASSUME printer'.state = "processing"
                 PROVE  \E k \in Ids' : BusyOf(g, k)'
      BY DEF BusyInv
    <2>1. printer' = printer /\ ~Ended(j)
      BY <1>3
    <2>2. PICK k \in Ids : BusyOf(f, k)
      BY <2>1 DEF Later, BusyInv
    <2>3. k \in Objects /\ k \in Ids' /\ k \notin Early(jobs', g["main"])
      <3>1. \A i \in 1..Len(jobs) :
                i \notin Early(jobs, f["main"]) => i \notin Early(jobs', g["main"])
        <4>1. /\ Len(jobs') \in Nat
              /\ \A i \in 1..Len(jobs) : jobs[i].started => jobs'[i].started
          BY <1>1, <1>2
        <4> QED BY ONLY Inv(f), t \in Threads, <1>4, <1>6, <4>1, EarlyStep
      <3> QED BY <1>2, <1>7, <2>2, <3>1, ThreadsAssumption DEF BusyOf, Objects
    <2>4. BusyOf(g, k)' <=>
            /\ k \notin Early(jobs', g["main"])
            /\ \/ jobs'[k].state = "processing" \/ Ahead(g, Do("process", k))
               \/ /\ jobs'[k].state \in Terminal
                  /\ Heard(g, k, 3)' \/ AnyFreeing(g, k)
      BY DEF BusyOf, Ended, Ahead, AnyFreeing
    <2>5. Ahead(f, Do("process", k)) => Ahead(g, Do("process", k))
      BY <1>2, <1>4, <1>6, <1>8, AheadStep
    <2>6. Heard(f, k, 3) => Heard(g, k, 3)'
      <3>1. ~RunsOne(x, k, 3)
        BY <1>6 DEF RunsOne, RunAt
      <3>2. 3 \in 1..3 /\ k \in Objects /\ f \in [Threads -> Frame(Len(jobs))]
        BY <1>2, <2>3
      <3>3. Heard(f, k, 3) => Heard(g, k, 3)' \/ RunsOne(x, k, 3)
        BY ONLY t \in Threads, <1>4, <1>6, <1>7, <3>2, HeardStep
      <3> QED BY <3>1, <3>3
    <2>7. Ended(k) /\ AnyFreeing(f, k) => AnyFreeing(g, k)
      <3>1. Ended(k) => k # j
        BY <2>1
      <3>2. \A u \in Threads : Ended(k) /\ Freeing(f[u], k) => u # t
        BY <1>2, <3>1 DEF Freeing
      <3> QED BY <1>4, <3>2 DEF AnyFreeing
    <2>8. \/ jobs[k].state = "processing" \/ Ahead(f, Do("process", k))
          \/ Ended(k) /\ (Heard(f, k, 3) \/ AnyFreeing(f, k))
      BY <2>2 DEF BusyOf
    <2>9. Ended(k) => jobs'[k].state \in Terminal
      BY <1>1 DEF Ended
    <2> QED BY <1>1, <2>3, <2>4, <2>5, <2>6, <2>7, <2>8, <2>9
  <1>12. PairInv(g)'
    BY <1>4, <1>5, PairStep
  <1> QED BY <1>9, <1>10, <1>11, <1>12 DEF Later


-----------------------------------------------------------------------------
(* The specification                                                        *)

Good == \E f : Inv(f) /\ Later(f)

\* At first no thread is at anything.
LEMMA InitGood == Init => Good
  <1> SUFFICES ASSUME Init  PROVE Good
    OBVIOUS
  <1> DEFINE c == [seg |-> "touch", j |-> 0, n |-> 5, r |-> <<>>, b |-> 0]
             f == [t \in Threads |-> c]
  <1>1. Len(jobs) = 0 /\ jobs = <<>> /\ 0 \in Nat /\ Ids = {} /\ "main" \in Threads
    BY DEF Init, Ids, Threads
  <1>2. <<>> \in Seq(Calm(0))
    OBVIOUS
  <1>3. /\ c.seg = "touch" /\ c.j = 0 /\ c.n = 5 /\ c.r = <<>> /\ c.b = 0 /\ Size(c.seg) = 4
        /\ c \in [seg : Flat \cup Nested, j : 0..0, n : 1..10, r : Seq(Calm(0)), b : 0..0]
    BY <1>2 DEF Size, Methods, Flat
  <1> HIDE DEF c
  <1>4. c \in Frame(0) /\ ~Active(c) /\ ~AtWork(c)
    BY <1>3 DEF Frame, Active, AtWork, Jobless, Flat
  <1>5. Code(c) = <<>>
    BY <1>1, <1>4, Codes
  <1>6. \A l \in Nat : ~Holds(c, l) /\ ~Froze(c, l)
    BY <1>1, <1>3, <1>4, IdleHolds
  <1>7. Locks \subseteq Nat /\ Objects \subseteq Nat /\ 0 <= MaxJobs
    BY EngineLock, ThreadsAssumption DEF Locks, Objects
  <1>8. \A t \in Threads : f[t] = c
    OBVIOUS
  <1>9. f \in [Threads -> Frame(0)] /\ todo = [t \in Threads |-> Code(f[t])]
    BY <1>4, <1>5, <1>8 DEF Init
  <1> HIDE DEF f
  <1>10. TypeInv
    BY <1>1 DEF Init, TypeInv
  <1>11. FrameInv(f)
    <2>1. \A E : \A t \in Threads : Fits(jobs, E, t, c)
      BY <1>1, <1>3, <1>4 DEF Fits
    <2> QED BY <1>1, <1>8, <1>9, <2>1 DEF FrameInv
  <1>12. RoomInv(f)
    <2>1. Creators(f) = {}
      BY <1>4, <1>8 DEF Creators
    <2> QED BY <1>1, <1>7, <2>1, FS_EmptySet, ThreadsAssumption DEF RoomInv
  <1>13. LockInv(f)
    <2>1. Nobody \notin Threads
      BY ThreadsAssumption DEF Nobody, Threads
    <2> QED BY <1>6, <1>7, <1>8, <2>1 DEF LockInv, Init
  <1>14. FreezeInv(f)
    <2>1. \A o \in Objects : Freezers(f, o) = {}
      BY <1>6, <1>7, <1>8 DEF Freezers
    <2> QED BY <2>1, FS_EmptySet DEF FreezeInv, Init
  <1>15. NoteInv(f)
    BY <1>1 DEF NoteInv, EmissionInv, Init
  <1>16. JobInv(f)
    BY <1>1 DEF JobInv, JobsFit
  <1>17. Later(f)
    BY <1>1, <1>3, <1>8 DEF Later, PairInv, Paired, SlotInv, BusyInv, WakeInv, Init
  <1> QED BY <1>10, <1>11, <1>12, <1>13, <1>14, <1>15, <1>16, <1>17 DEF Good, Inv

\* A thread executes one instruction.
LEMMA StepGood ==
    ASSUME NEW f, Inv(f), Later(f), NEW t \in Threads, Step(t)
    PROVE  Good'
  <1>0. ASSUME NEW g, Inv(g)', Later(g)'  PROVE Good'
    BY <1>0 DEF Good
  <1>1. CASE \/ Acquires(t) \/ AcquiresBriefly(t) \/ Releases(t) \/ Freezes(t) \/ Asserts(t)
             \/ Claims(t) \/ Sends(t) \/ Reasons(t) \/ Owns(t) \/ Frees(t) \/ Exits(t)
             \/ Cancels(t) \/ Replies(t) \/ Pends(t)
    <2>1. PICK g : g = [f EXCEPT ![t] = Advance(f[t])]
      OBVIOUS
    <2>2. Inv(g)'
      BY <1>1, <2>1, AcquiresInv, AcquiresBrieflyInv, ReleasesInv, FreezesInv, AssertsInv,
         ClaimsInv, SendsInv, ReasonsInv, OwnsInv, FreesInv, ExitsInv, CancelsInv, RepliesInv,
         PendsInv
    <2>3. Later(g)'
      BY <1>1, <2>1, SyncLater, ClaimsLater, SendsLater, ReasonsLater, OwnsLater, FreesLater,
         ExitsLater, CancelsLater, PendsLater
    <2> QED BY <1>0, <2>2, <2>3
  <1>2. CASE Thaws(t)
    <2>1. PICK o : o = On(t)
      OBVIOUS
    <2>2. PICK g : g = [f EXCEPT ![t] = Onward(f, t, ThawPuts(o))]
      OBVIOUS
    <2>3. Inv(g)' /\ Later(g)'
      BY <1>2, <2>1, <2>2, ThawsInv, ThawsLater
    <2> QED BY <1>0, <2>3
  <1>3. CASE Runs(t)
    <2>1. PICK o : o = On(t)
      OBVIOUS
    <2>2. PICK n : n = Head(todo[t]).handler
      OBVIOUS
    <2>3. PICK g : g = [f EXCEPT ![t] = RunsTo(f, t, o, n)]
      OBVIOUS
    <2>4. Inv(g)' /\ Later(g)'
      BY <1>3, <2>1, <2>2, <2>3, RunsInv, RunsLater
    <2> QED BY <1>0, <2>4
  <1>4. CASE Looks(t)
    <2>1. PICK g : g = [f EXCEPT ![t] = LooksTo(f, t)]
      OBVIOUS
    <2>2. Inv(g)' /\ Later(g)'
      BY <1>4, <2>1, LooksInv, LooksLater
    <2> QED BY <1>0, <2>2
  <1>5. CASE Nexts(t)
    <2>1. PICK s : NextPuts(s) /\ Goes(t, Unlock(0) \o (s \o Rest(t)))
      BY <1>5, NextsGoes
    <2>2. PICK g : g = [f EXCEPT ![t] = Inward(f, t, s, "unlock", 0)]
      OBVIOUS
    <2>3. Inv(g)' /\ Later(g)'
      BY <1>5, <2>1, <2>2, NextsInv, NextsLater
    <2> QED BY <1>0, <2>3
  <1>6. CASE Busies(t)
    <2>1. PICK g : g = [f EXCEPT ![t] = Onward(f, t, Told(0))]
      OBVIOUS
    <2>2. Inv(g)' /\ Later(g)'
      BY <1>6, <2>1, BusiesInv, BusiesLater
    <2> QED BY <1>0, <2>2
  <1>7. CASE Processes(t)
    <2>1. PICK g : g = [f EXCEPT ![t] = Onward(f, t, Told(On(t)))]
      OBVIOUS
    <2>2. Inv(g)' /\ Later(g)'
      BY <1>7, <2>1, ProcessesInv, ProcessesLater
    <2> QED BY <1>0, <2>2
  <1>8. CASE Tests(t)
    <2>1. PICK g : g = [f EXCEPT ![t] = TestsTo(f, t)]
      OBVIOUS
    <2>2. Inv(g)' /\ Later(g)'
      BY <1>8, <2>1, TestsInv, TestsLater
    <2> QED BY <1>0, <2>2
  <1>9. CASE Tidies(t)
    <2>1. PICK g : g = [f EXCEPT ![t] = Onward(f, t, TidyPuts(On(t)))]
      OBVIOUS
    <2>2. Inv(g)' /\ Later(g)'
      BY <1>9, <2>1, TidiesInv, TidiesLater
    <2> QED BY <1>0, <2>2
  <1>10. CASE Engines(t)
    <2>1. PICK g : g = [f EXCEPT ![t] = Onward(f, t, EnginePuts(On(t)))]
      OBVIOUS
    <2>2. Inv(g)' /\ Later(g)'
      BY <1>10, <2>1, EnginesInv, EnginesLater
    <2> QED BY <1>0, <2>2
  <1>11. CASE Creates(t)
    <2>1. PICK g : g = [f EXCEPT ![t] = Fresh("announce", Len(jobs) + 1)]
      OBVIOUS
    <2>2. Inv(g)' /\ Later(g)'
      BY <1>11, <2>1, CreatesInv, CreatesLater
    <2> QED BY <1>0, <2>2
  <1>12. CASE Starts(t)
    <2>1. PICK g : g = [f EXCEPT ![t] = StartsTo(f, t)]
      OBVIOUS
    <2>2. Inv(g)' /\ Later(g)'
      BY <1>12, <2>1, StartsInv, StartsLater
    <2> QED BY <1>0, <2>2
  <1> QED BY <1>1, <1>2, <1>3, <1>4, <1>5, <1>6, <1>7, <1>8, <1>9, <1>10, <1>11, <1>12
          DEF Step

\* Every step of the daemon, and of its clients and processes.
LEMMA NextGood ==
    ASSUME EarlyClients = FALSE, Good, [Next]_vars
    PROVE  Good'
  <1>1. PICK f : Inv(f) /\ Later(f)
    BY DEF Good
  <1>2. CASE \/ \E w \in Workers : CallCreateJob(w) \/ CallUpdateDefaults(w)
             \/ \E j \in Ids : CallStart(j) \/ CallCancel(j) \/ BackendExits(j)
                                 \/ MessageArrives(j)
    <2>1. PICK t \in Threads, seg \in Flat, j \in 0..Len(jobs) :
                 /\ seg # "pend" /\ Begins(t, Block(seg, j))
                 /\ Inv([f EXCEPT ![t] = Fresh(seg, j)])'
      BY <1>1, <1>2, CallsInv
    <2>2. PICK g : g = [f EXCEPT ![t] = Fresh(seg, j)]
      OBVIOUS
    <2>3. Inv(g)'
      BY <2>1, <2>2
    <2>4. Later(g)'
      BY <1>1, <2>1, <2>2, BeginsLater
    <2> QED BY <2>3, <2>4 DEF Good
  <1>3. CASE \E t \in Threads : Step(t)
    BY <1>1, <1>3, StepGood
  <1>4. CASE UNCHANGED vars
    <2>1. UNCHANGED <<todo, owner, calls, up, frozen, queued, emission, printer, jobs>>
      BY <1>4 DEF vars, locks, notes
    <2>2. Inv(f)'
      BY <1>1, <2>1 DEF Inv, TypeInv, FrameInv, RoomInv, LockInv, FreezeInv, NoteInv,
            EmissionInv, JobInv, Ids
    <2>3. Later(f)'
      BY <1>1, <2>1 DEF Later, PairInv, SlotInv, BusyInv, WakeInv, SlotOf, BusyOf, Looked,
            Heard, Waiting, Ended, Ids
    <2> QED BY <2>2, <2>3 DEF Good
  <1> QED BY <1>2, <1>3, <1>4 DEF Next

\* What Good says of a daemon at rest.
LEMMA GoodAtRest == Good => NoDeadlock /\ NothingHeldBack /\ NoLeakedSlot /\ BusyWithAJob
                                /\ NoLostWakeup
  <1> SUFFICES ASSUME NEW f, Inv(f), Later(f)
               PROVE  NoDeadlock /\ NothingHeldBack /\ NoLeakedSlot /\ BusyWithAJob
                          /\ NoLostWakeup
    BY DEF Good
  <1>1. NoDeadlock
    BY Progress
  <1>2. NothingHeldBack
    BY Quiet
  <1>3. ASSUME AtRest
        PROVE  /\ \A y : ~Ahead(f, y)
               /\ \A j : ~AnySending(f, j) /\ ~AnyFreeing(f, j)
               /\ ~AnyFinding(f)
               /\ \A o \in Objects : \A n : ~Heard(f, o, n)
               /\ \A j \in Ids : ~jobs[j].changed /\ j \in Objects
    <2>1. /\ \A t \in Threads : ~Active(f[t]) /\ \A y : ~Has(f[t], y)
          /\ \A o \in Objects : emission[o] = "none"
          /\ queued = {} /\ \A j \in Ids : ~jobs[j].changed
      BY <1>3, RestIsQuiet
    <2>2. \A y : ~Ahead(f, y)
      BY <2>1 DEF Ahead
    <2>3. \A t \in Threads : /\ \A j : ~Sending(f[t], j) /\ ~Freeing(f[t], j)
                             /\ ~Finding(f[t])
      BY <2>1 DEF Active, Sending, Freeing, Finding, Size, Methods
    <2>4. \A j \in Ids : j \in Objects
      BY Room, ThreadsAssumption DEF Ids, Objects
    <2> QED BY <2>1, <2>2, <2>3, <2>4 DEF AnySending, AnyFreeing, AnyFinding, Heard
  <1>4. NoLeakedSlot
    BY <1>3 DEF NoLeakedSlot, Later, SlotInv, SlotOf
  <1>5. BusyWithAJob
    BY <1>3 DEF BusyWithAJob, Later, BusyInv, BusyOf
  <1>6. NoLostWakeup
    <2>1. 0 \in Objects
      BY ThreadsAssumption DEF Objects
    <2> QED BY <1>3, <2>1 DEF NoLostWakeup, Later, WakeInv, Looked, Waiting
  <1> QED BY <1>1, <1>2, <1>4, <1>5, <1>6


\* The invariant holds for any workers and any bound on the jobs and on the
\* calls, as long as clients use a job only once CreateJob has told them of it.
\* If the owner of a job is quicker, CreateJob may run the handlers that take the
\* printer's lock while it holds that lock itself.
LEMMA AlwaysGood == ASSUME EarlyClients = FALSE  PROVE Spec => []Good
  <1>1. Good /\ [Next]_vars => Good'
    BY NextGood
  <1> QED BY <1>1, InitGood, PTL DEF Spec

\* However many workers there are, no set of threads waits for one another:
\* though the handlers of notify::state run in whichever thread thaws last and
\* take the locks of printer, jobs and engine, the locks are taken in an order,
\* the only exception being a job that no thread but its creator knows.
THEOREM NeverDeadlocked == ASSUME EarlyClients = FALSE  PROVE Spec => []NoDeadlock
  <1>1. Good => NoDeadlock
    BY GoodAtRest
  <1> QED BY <1>1, AlwaysGood, PTL

\* When the threads have nothing left to do, every mutex has been released,
\* every object thawed as often as it was frozen, every emission ended, and no
\* change of a state or of a job's reasons waits for a thaw that nobody makes.
THEOREM EverythingToldAtRest == ASSUME EarlyClients = FALSE  PROVE Spec => []NothingHeldBack
  <1>1. Good => NothingHeldBack
    BY GoodAtRest
  <1> QED BY <1>1, AlwaysGood, PTL

\* pd_engine_start_job reads job-outgoing and sets it without a lock, and the
\* slot is given back by whichever thread notifies the reasons: at rest it is
\* taken only if some job is outgoing.
THEOREM SlotNeverLeaked == ASSUME EarlyClients = FALSE  PROVE Spec => []NoLeakedSlot
  <1>1. Good => NoLeakedSlot
    BY GoodAtRest
  <1> QED BY <1>1, AlwaysGood, PTL

\* Two threads may start a job each, and a job may end while the printer is
\* being made busy with it: a printer that is busy at rest has a job in
\* processing, whose end will make it idle.
THEOREM BusyForAJob == ASSUME EarlyClients = FALSE  PROVE Spec => []BusyWithAJob
  <1>1. Good => BusyWithAJob
    BY GoodAtRest
  <1> QED BY <1>1, AlwaysGood, PTL

\* The end of a job and the arrival of another may be announced in two threads
\* at once, and an emission under way is restarted rather than repeated: at
\* rest an idle printer leaves no pending job behind.
THEOREM WakeupNeverLost == ASSUME EarlyClients = FALSE  PROVE Spec => []NoLostWakeup
  <1>1. Good => NoLostWakeup
    BY GoodAtRest
  <1> QED BY <1>1, AlwaysGood, PTL


=============================================================================
