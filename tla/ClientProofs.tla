---------------------------- MODULE ClientProofs ----------------------------
(***************************************************************************)
(* Proofs about Client, for any number of threads and changes, any delay    *)
(* and any depth of nested main loops.  IInv is the inductive invariant;    *)
(* it has one part for the initialization and one for the signal.           *)
(***************************************************************************)
EXTENDS Client, TLAPS

\* What initable_init relies on: whoever is past the lock is alone, and the
\* client has neither handlers nor an error before the first call has ended.
InitInv ==
    /\ callers \in [Callers -> {"idle", "inside", "TRUE", "FALSE"}]
    /\ client \in [is_initialized : BOOLEAN, error : BOOLEAN, connected : Nat]
    /\ \A c \in Callers : callers[c] = "inside" => ~client.is_initialized
    /\ \A c, d \in Callers : callers[c] = "inside" /\ callers[d] = "inside" => c = d
    /\ ~client.is_initialized => ~client.error /\ client.connected = 0
    /\ client.connected <= 1
    /\ InitAgrees

\* A timer always has at least as long to run as the pause that RateLimited
\* asks for.
SignalInv ==
    /\ version \in Nat /\ shown \in Nat /\ source \in Nat /\ pause \in 0..Delay
    /\ timers \in [DOMAIN timers -> 0..Delay]
    /\ frames \in Seq({"emit", "handler", "settle"})
    /\ SourceIsLive
    /\ \A i \in DOMAIN timers : pause <= timers[i]
    /\ NothingUnannounced

IInv == InitInv /\ SignalInv

-----------------------------------------------------------------------------
\* The two halves of the state are changed by different actions.
Signals == ObjectChanges \/ SettleCall \/ Dispatch \/ Tick
Initializes == \E c \in Callers : InitAgain(c) \/ InitEnters(c)
                                      \/ InitSucceeds(c) \/ InitFails(c)

\* The client starts in a state that satisfies the inductive invariant.
LEMMA InitIInv == Init => IInv
<1> SUFFICES ASSUME Init PROVE IInv
  OBVIOUS
<1>1. InitInv
  BY DEF Init, InitInv, InitAgrees
<1>2. SignalInv
  BY ClientAssumption DEF Init, SignalInv, SourceIsLive, NothingUnannounced, NULL
<1> QED BY <1>1, <1>2 DEF IInv

\* Every step of initable_init keeps the first part.
LEMMA InitStep == InitInv /\ [Initializes]_setup => InitInv'
<1> SUFFICES ASSUME InitInv, [Initializes]_setup PROVE InitInv'
  OBVIOUS
<1> USE DEF InitInv, InitAgrees
<1>1. ASSUME NEW c \in Callers, InitAgain(c) PROVE InitInv'
  BY <1>1 DEF InitAgain, InitLockFree
<1>2. ASSUME NEW c \in Callers, InitEnters(c) PROVE InitInv'
  BY <1>2 DEF InitEnters, InitLockFree
<1>3. ASSUME NEW c \in Callers, InitSucceeds(c) PROVE InitInv'
  <2>1. ~client.is_initialized /\ ~client.error /\ client.connected = 0
    BY <1>3 DEF InitSucceeds
  <2>2. client' = [client EXCEPT !.is_initialized = TRUE, !.connected = @ + 1]
    BY <1>3 DEF InitSucceeds
  <2>3. /\ client' \in [is_initialized : BOOLEAN, error : BOOLEAN, connected : Nat]
        /\ client'.is_initialized /\ ~client'.error /\ client'.connected = 1
    <3>1. client' = [is_initialized |-> TRUE, error |-> client.error,
                     connected |-> client.connected + 1]
      BY <2>2
    <3> QED BY <2>1, <3>1
  <2>4. \A d \in Callers : callers'[d] = IF d = c THEN "TRUE" ELSE callers[d]
    BY <1>3 DEF InitSucceeds
  <2>5. callers' \in [Callers -> {"idle", "inside", "TRUE", "FALSE"}]
    BY <1>3 DEF InitSucceeds
  <2>6. \A d \in Callers : callers'[d] # "inside" /\ callers'[d] # "FALSE"
    BY <1>3, <2>1, <2>4 DEF InitSucceeds
  <2> QED BY <2>3, <2>5, <2>6
<1>4. ASSUME NEW c \in Callers, InitFails(c) PROVE InitInv'
  <2>1. ~client.is_initialized /\ ~client.error /\ client.connected = 0
    BY <1>4 DEF InitFails
  <2>2. client' = [client EXCEPT !.is_initialized = TRUE, !.error = TRUE]
    BY <1>4 DEF InitFails
  <2>3. /\ client' \in [is_initialized : BOOLEAN, error : BOOLEAN, connected : Nat]
        /\ client'.is_initialized /\ client'.error /\ client'.connected = 0
    BY <2>1, <2>2
  <2>4. \A d \in Callers : callers'[d] = IF d = c THEN "FALSE" ELSE callers[d]
    BY <1>4 DEF InitFails
  <2>5. callers' \in [Callers -> {"idle", "inside", "TRUE", "FALSE"}]
    BY <1>4 DEF InitFails
  <2>6. \A d \in Callers : callers'[d] # "inside" /\ callers'[d] # "TRUE"
    BY <1>4, <2>1, <2>4 DEF InitFails
  <2> QED BY <2>3, <2>5, <2>6
<1>5. CASE UNCHANGED setup
  BY <1>5 DEF setup
<1> QED BY <1>1, <1>2, <1>3, <1>4, <1>5 DEF Initializes

-----------------------------------------------------------------------------
\* What waits for the application's attention: a timer, or an emission that
\* is about to reach its handler.
Emitting(fs) == \E i \in 1..Len(fs) : fs[i] = "emit"

Frames == {"emit", "handler", "settle"}

\* A call put on the stack is on it, with all that was there.
LEMMA EmittingPush ==
    ASSUME NEW fs \in Seq(Frames), NEW f \in Frames
    PROVE  /\ <<f>> \o fs \in Seq(Frames)
           /\ Emitting(<<f>> \o fs) <=> f = "emit" \/ Emitting(fs)
<1> DEFINE gs == <<f>> \o fs
<1>1. gs \in Seq(Frames) /\ Len(gs) = Len(fs) + 1 /\ gs[1] = f
  OBVIOUS
<1>2. \A i \in 1..Len(fs) : gs[i + 1] = fs[i]
  OBVIOUS
<1>3. ASSUME Emitting(fs) PROVE Emitting(gs)
  <2>1. PICK i \in 1..Len(fs) : fs[i] = "emit"
    BY <1>3 DEF Emitting
  <2>2. gs[i + 1] = "emit" /\ i + 1 \in 1..Len(gs)
    BY <1>1, <1>2, <2>1
  <2> QED BY <2>2 DEF Emitting
<1>4. ASSUME f = "emit" PROVE Emitting(gs)
  <2>1. 1 \in 1..Len(gs)
    BY <1>1
  <2> QED BY <1>1, <1>4, <2>1 DEF Emitting
<1>5. ASSUME Emitting(gs), f # "emit" PROVE Emitting(fs)
  <2>1. PICK i \in 1..Len(gs) : gs[i] = "emit"
    BY <1>5 DEF Emitting
  <2>2. i # 1
    BY <1>1, <1>5, <2>1
  <2>3. i - 1 \in 1..Len(fs) /\ fs[i - 1] = "emit"
    BY <1>1, <1>2, <2>1, <2>2
  <2> QED BY <2>3 DEF Emitting
<1> QED BY <1>1, <1>3, <1>4, <1>5

\* A stack is its innermost call on top of the others.
LEMMA Innermost ==
    ASSUME NEW fs \in Seq(Frames), fs # << >>
    PROVE  /\ Head(fs) \in Frames /\ Tail(fs) \in Seq(Frames)
           /\ fs = <<Head(fs)>> \o Tail(fs)
OBVIOUS

\* When a call that was not about to emit returns, nothing is forgotten.
LEMMA EmittingPop ==
    ASSUME NEW fs \in Seq(Frames), fs # << >>, Head(fs) # "emit"
    PROVE  /\ Tail(fs) \in Seq(Frames)
           /\ Emitting(fs) <=> Emitting(Tail(fs))
<1>1. /\ Head(fs) \in Frames /\ Tail(fs) \in Seq(Frames)
      /\ fs = <<Head(fs)>> \o Tail(fs)
  BY Innermost
<1>2. Emitting(<<Head(fs)>> \o Tail(fs))
        <=> Head(fs) = "emit" \/ Emitting(Tail(fs))
  BY <1>1, EmittingPush
<1> QED BY <1>1, <1>2

\* SignalInv with the stack of calls seen through Emitting.
Shape ==
    /\ version \in Nat /\ shown \in Nat /\ source \in Nat /\ pause \in 0..Delay
    /\ timers \in [DOMAIN timers -> 0..Delay] /\ frames \in Seq(Frames)
    /\ DOMAIN timers = IF source = NULL THEN {} ELSE {source}
    /\ \A i \in DOMAIN timers : pause <= timers[i]
    /\ version # shown => DOMAIN timers # {} \/ Emitting(frames)

LEMMA SignalShape == (SignalInv <=> Shape) /\ (SignalInv' <=> Shape')
BY DEF SignalInv, Shape, SourceIsLive, NothingUnannounced, Emitting, Frames

\* Every step of the signal's state machine keeps the second part.
LEMMA SignalStep ==
    SignalInv /\ [Signals]_<<version, shown, source, timers, frames, pause>>
        => SignalInv'
<1> SUFFICES ASSUME Shape,
                    [Signals]_<<version, shown, source, timers, frames, pause>>
             PROVE  Shape'
  BY SignalShape
<1> USE ClientAssumption DEF Shape
<1>1. CASE ObjectChanges
  <2>1. version' = version + 1 /\ UNCHANGED <<shown, frames, pause>>
    BY <1>1 DEF ObjectChanges
  <2>2. CASE source # NULL
    <3>1. UNCHANGED <<source, timers>>
      BY <1>1, <2>2 DEF ObjectChanges, QueueChanged
    <3>2. DOMAIN timers' # {}
      BY <2>2, <3>1
    <3> QED BY <2>1, <3>1, <3>2
  <2>3. CASE source = NULL
    <3>1. /\ source' = version + 1
          /\ timers' = [i \in DOMAIN timers \cup {version + 1} |->
                            IF i = version + 1 THEN Delay ELSE timers[i]]
      BY <1>1, <2>1, <2>3 DEF ObjectChanges, QueueChanged
    <3>2. DOMAIN timers = {}
      BY <2>3
    <3>3. DOMAIN timers' = {version + 1} /\ timers'[version + 1] = Delay
      BY <3>1, <3>2
    <3>4. timers' \in [DOMAIN timers' -> 0..Delay]
      BY <3>1, <3>2
    <3>5. source' \in Nat /\ DOMAIN timers' = IF source' = NULL THEN {} ELSE {source'}
      BY <3>1, <3>3 DEF NULL
    <3>6. \A i \in DOMAIN timers' : pause' <= timers'[i]
      BY <2>1, <3>3
    <3>7. version' \in Nat /\ DOMAIN timers' # {}
      BY <2>1, <3>3
    <3> QED BY <2>1, <3>4, <3>5, <3>6, <3>7
  <2> QED BY <2>2, <2>3
<1>2. CASE SettleCall
  <2>1. /\ frames' = <<"settle">> \o frames
        /\ UNCHANGED <<version, shown, source, timers, pause>>
    BY <1>2 DEF SettleCall, Nest
  <2>2. "settle" \in Frames
    BY DEF Frames
  <2>3. frames' \in Seq(Frames) /\ (Emitting(frames) => Emitting(frames'))
    BY <2>1, <2>2, EmittingPush
  <2> QED BY <2>1, <2>3
<1>3. ASSUME NEW i \in DOMAIN timers, TimeoutFires(i) PROVE Shape'
  <2>1. /\ source' = NULL /\ timers' = Restrict(timers, DOMAIN timers \ {i})
        /\ frames' = <<"emit">> \o frames /\ pause' = Delay
        /\ UNCHANGED <<version, shown>>
    BY <1>3 DEF TimeoutFires, TimerClears, Nest
  <2>2. timers' = [x \in DOMAIN timers \ {i} |-> timers[x]]
    BY <2>1 DEF Restrict
  <2>3. DOMAIN timers' = {} /\ timers' \in [DOMAIN timers' -> 0..Delay]
    BY <2>2
  <2>4. "emit" \in Frames
    BY DEF Frames
  <2>5. frames' \in Seq(Frames) /\ Emitting(frames')
    BY <2>1, <2>4, EmittingPush
  <2>6. source' \in Nat /\ DOMAIN timers' = IF source' = NULL THEN {} ELSE {source'}
    BY <2>1, <2>3 DEF NULL
  <2>7. pause' \in 0..Delay /\ \A k \in DOMAIN timers' : pause' <= timers'[k]
    BY <2>1, <2>3
  <2> QED BY <2>1, <2>3, <2>5, <2>6, <2>7
<1>4. CASE SettleEnds
  <2>1. frames # << >> /\ Head(frames) = "settle" /\ UNCHANGED <<version, shown>>
    BY <1>4 DEF SettleEnds, Frame
  <2>2. /\ Tail(frames) \in Seq(Frames)
        /\ Emitting(frames) <=> Emitting(Tail(frames))
    BY <2>1, EmittingPop
  <2>3. CASE source = NULL
    <3>1. frames' = Tail(frames) /\ UNCHANGED <<source, timers, pause>>
      BY <1>4, <2>3 DEF SettleEnds
    <3> QED BY <2>1, <2>2, <3>1
  <2>4. CASE source # NULL
    <3>1. /\ source' = NULL /\ timers' = Restrict(timers, DOMAIN timers \ {source})
          /\ frames' = <<"emit">> \o Tail(frames) /\ pause' = Delay
      BY <1>4, <2>4 DEF SettleEnds, DestroySource
    <3>2. timers' = [x \in DOMAIN timers \ {source} |-> timers[x]]
      BY <3>1 DEF Restrict
    <3>3. DOMAIN timers' = {} /\ timers' \in [DOMAIN timers' -> 0..Delay]
      BY <2>4, <3>2
    <3>4. "emit" \in Frames
      BY DEF Frames
    <3>5. frames' \in Seq(Frames) /\ Emitting(frames')
      BY <2>2, <3>1, <3>4, EmittingPush
    <3>6. source' \in Nat /\ DOMAIN timers' = IF source' = NULL THEN {} ELSE {source'}
      BY <3>1, <3>3 DEF NULL
    <3>7. pause' \in 0..Delay /\ \A k \in DOMAIN timers' : pause' <= timers'[k]
      BY <3>1, <3>3
    <3> QED BY <2>1, <3>3, <3>5, <3>6, <3>7
  <2> QED BY <2>3, <2>4
<1>5. CASE HandlerLooks
  <2>1. /\ frames # << >> /\ shown' = version
        /\ frames' = <<"handler">> \o Tail(frames)
        /\ UNCHANGED <<version, source, timers, pause>>
    BY <1>5 DEF HandlerLooks, Frame
  <2>2. "handler" \in Frames
    BY DEF Frames
  <2>3. frames' \in Seq(Frames)
    BY <2>1, <2>2, Innermost, EmittingPush
  <2> QED BY <2>1, <2>3
<1>6. CASE HandlerReturns
  <2>1. /\ frames # << >> /\ Head(frames) = "handler" /\ frames' = Tail(frames)
        /\ UNCHANGED <<version, shown, source, timers, pause>>
    BY <1>6 DEF HandlerReturns, Frame
  <2>2. /\ Tail(frames) \in Seq(Frames)
        /\ Emitting(frames) <=> Emitting(Tail(frames))
    BY <2>1, EmittingPop
  <2> QED BY <2>1, <2>2
<1>7. CASE Tick
  <2>1. /\ timers' = [i \in DOMAIN timers |-> Minus1(timers[i])]
        /\ pause' = Minus1(pause) /\ UNCHANGED <<version, shown, source, frames>>
    BY <1>7 DEF Tick
  <2>2. \A n \in 0..Delay : Minus1(n) \in 0..Delay
    BY DEF Minus1
  <2>3. \A n, k \in 0..Delay : n <= k => Minus1(n) <= Minus1(k)
    BY DEF Minus1
  <2>4. DOMAIN timers' = DOMAIN timers /\ timers' \in [DOMAIN timers' -> 0..Delay]
    BY <2>1, <2>2
  <2>5. \A i \in DOMAIN timers' : pause' <= timers'[i]
    BY <2>1, <2>3, <2>4
  <2> QED BY <2>1, <2>2, <2>4, <2>5
<1>8. CASE UNCHANGED <<version, shown, source, timers, frames, pause>>
  BY <1>8
<1> QED BY <1>1, <1>2, <1>3, <1>4, <1>5, <1>6, <1>7, <1>8 DEF Signals, Dispatch

-----------------------------------------------------------------------------
\* A step belongs to one of the two halves and leaves the other alone.
LEMMA Halves ==
    ASSUME [Next]_vars
    PROVE  /\ [Initializes]_setup
           /\ [Signals]_<<version, shown, source, timers, frames, pause>>
<1>1. ASSUME NEW c \in Callers,
             InitAgain(c) \/ InitEnters(c) \/ InitSucceeds(c) \/ InitFails(c)
      PROVE  UNCHANGED <<version, shown, source, timers, frames, pause>>
  BY <1>1 DEF InitAgain, InitEnters, InitSucceeds, InitFails
<1>2. ASSUME NEW i \in DOMAIN timers, TimeoutFires(i) PROVE UNCHANGED setup
  BY <1>2 DEF TimeoutFires
<1>3. ASSUME ObjectChanges \/ SettleCall \/ SettleEnds \/ HandlerLooks
                 \/ HandlerReturns \/ Tick
      PROVE  UNCHANGED setup
  BY <1>3 DEF ObjectChanges, SettleCall, SettleEnds, HandlerLooks, HandlerReturns, Tick
<1>4. CASE UNCHANGED vars
  BY <1>4 DEF vars
<1> QED BY <1>1, <1>2, <1>3, <1>4 DEF Next, Dispatch, Signals, Initializes

\* IInv is inductive.
LEMMA Invariance == Spec => []IInv
<1>1. IInv /\ [Next]_vars => IInv'
  BY Halves, InitStep, SignalStep DEF IInv
<1> QED BY InitIInv, <1>1, PTL DEF Spec

\* However many threads call initable_init, it connects the handlers at most
\* once and all of them get the same answer.
THEOREM InitCorrect == Spec => []InitAgrees
<1>1. IInv => InitAgrees
  BY DEF IInv, InitInv
<1> QED BY Invariance, <1>1, PTL

\* changed_timeout_source is the one attached timer, or NULL if there is none,
\* however deep the main loops of settle and of the handlers are nested.
THEOREM SourceCorrect == Spec => []SourceIsLive
<1>1. IInv => SourceIsLive
  BY DEF IInv, SignalInv
<1> QED BY Invariance, <1>1, PTL

\* No change is swallowed, whenever it comes.
THEOREM AnnouncementsCorrect == Spec => []NothingUnannounced
<1>1. IInv => NothingUnannounced
  BY DEF IInv, SignalInv
<1> QED BY Invariance, <1>1, PTL

\* A timer emits "changed" no earlier than 100 ms after the last emission.
THEOREM RateKept == Spec => RateLimited
<1>1. IInv => ((\E i \in DOMAIN timers : TimeoutFires(i)) => pause = 0)
  BY ClientAssumption DEF IInv, SignalInv, TimeoutFires, Due
<1> QED BY Invariance, <1>1, PTL DEF RateLimited

\* Every step of the client is a step of ChangedSignal or leaves what that
\* speaks of alone: the application is shown nothing but the latest state.
THEOREM Refinement == Spec => Changed!Init /\ [][Changed!Next]_(Changed!vars)
<1>1. Init => Changed!Init
  BY DEF Init, Changed!Init
<1>2. [Next]_vars => [Changed!Next]_(Changed!vars)
  <2> SUFFICES ASSUME [Next]_vars PROVE [Changed!Next]_(Changed!vars)
    OBVIOUS
  <2> USE DEF Changed!Next, Changed!Change, Changed!Announce, Changed!vars
  <2>1. CASE UNCHANGED <<version, shown, source, timers, frames, pause>>
    BY <2>1
  <2>2. CASE Signals
    BY <2>2 DEF Signals, Dispatch, ObjectChanges, SettleCall, TimeoutFires,
                SettleEnds, HandlerLooks, HandlerReturns, Tick
  <2> QED BY <2>1, <2>2, Halves
<1> QED BY <1>1, <1>2, PTL DEF Spec

=============================================================================
