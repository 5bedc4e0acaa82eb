------------------------------- MODULE Client -------------------------------
(***************************************************************************)
(* The client library: the initialization of a PdClient, which several      *)
(* threads may ask for, and its "changed" signal, which a timer emits       *)
(* some time after the first of a number of changes and pd_client_settle    *)
(* emits at once.                                                           *)
(*                                                                         *)
(* Changes, timers and settling all happen on the thread of the client's    *)
(* main context.  Handlers of "changed" may run that context again, so      *)
(* calls nest: `frames' is the stack of those under way, innermost first.   *)
(* A timer is known by the number of the change it was created for.         *)
(***************************************************************************)
EXTENDS Naturals, Sequences, Functions

CONSTANTS Callers,      \* threads that initialize the client
          Delay,        \* ticks of the clock in 100 ms
          MaxChanges,   \* bound on the changes
          MaxDepth      \* no call of settle is nested deeper than that

ASSUME ClientAssumption ==
    Delay \in Nat \ {0} /\ MaxChanges \in Nat /\ MaxDepth \in Nat

VARIABLES callers,      \* where each caller of initable_init is
          client,       \* is_initialized, initialization_error, connections
                        \* of the handlers to object_manager (0: it is NULL)
          version,      \* changes that have reached the handlers
          shown,        \* those a handler of "changed" has had a look at
          source,       \* changed_timeout_source, 0 for NULL
          timers,       \* attached timers, with the time they still have
          frames,
          pause         \* ticks until 100 ms have passed since "changed"

setup == <<callers, client>>
vars == <<setup, version, shown, source, timers, frames, pause>>

NULL == 0

Init == /\ callers = [c \in Callers |-> "idle"]
        /\ client = [is_initialized |-> FALSE, error |-> FALSE, connected |-> 0]
        /\ version = 0 /\ shown = 0
        /\ source = NULL /\ timers = << >> /\ frames = << >> /\ pause = 0

-----------------------------------------------------------------------------
(* initable_init                                                            *)

\* The lock is not taken.
InitUnlocked == TRUE

\* G_LOCK (init_lock): nobody is between it and G_UNLOCK.
InitLockFree == \A c \in Callers : callers[c] # "inside"

\* A second call finds the work done, or the error it ended with.
InitAgain(c) ==
    /\ callers[c] = "idle" /\ InitLockFree /\ client.is_initialized
    /\ callers' = [callers EXCEPT ![c] =
                        IF client.connected > 0 THEN "TRUE" ELSE "FALSE"]
    /\ UNCHANGED <<client, version, shown, source, timers, frames, pause>>

\* The first one waits for the bus, holding the lock.
InitEnters(c) ==
    /\ callers[c] = "idle" /\ InitLockFree /\ ~client.is_initialized
    /\ callers' = [callers EXCEPT ![c] = "inside"]
    /\ UNCHANGED <<client, version, shown, source, timers, frames, pause>>

InitSucceeds(c) ==
    /\ callers[c] = "inside"
    /\ callers' = [callers EXCEPT ![c] = "TRUE"]
    /\ client' = [client EXCEPT !.is_initialized = TRUE, !.connected = @ + 1]
    /\ UNCHANGED <<version, shown, source, timers, frames, pause>>

InitFails(c) ==
    /\ callers[c] = "inside"
    /\ callers' = [callers EXCEPT ![c] = "FALSE"]
    /\ client' = [client EXCEPT !.is_initialized = TRUE, !.error = TRUE]
    /\ UNCHANGED <<version, shown, source, timers, frames, pause>>

-----------------------------------------------------------------------------
(* The "changed" signal                                                     *)

\* The main context can dispatch something: the loop of the application, one
\* that a handler of "changed" runs, or the one in pd_client_settle.
Frame == IF frames = << >> THEN "application" ELSE Head(frames)
InLoop == Frame \in {"application", "handler", "settle"}

Nest(f) == frames' = <<f>> \o frames
Due(i) == timers[i] = 0

\* queue_changed: a timer is created unless there is one.
QueueChanged ==
    IF source # NULL THEN UNCHANGED <<source, timers>>
    ELSE /\ source' = version'
         /\ timers' = [i \in DOMAIN timers \cup {version'} |->
                           IF i = version' THEN Delay ELSE timers[i]]

\* on_object_added, on_object_removed, on_interface_added,
\* on_interface_removed, on_interface_proxy_properties_changed
ObjectChanges ==
    /\ InLoop /\ client.connected > 0 /\ version < MaxChanges
    /\ version' = version + 1
    /\ QueueChanged
    /\ UNCHANGED <<setup, shown, frames, pause>>

\* The pointer is not cleared.
TimerForgets == UNCHANGED source

\* client->changed_timeout_source = NULL, before the signal is emitted.
TimerClears == source' = NULL

\* on_changed_timeout; GLib detaches the timer.
TimeoutFires(i) ==
    /\ InLoop /\ Due(i)
    /\ TimerClears
    /\ timers' = Restrict(timers, DOMAIN timers \ {i})
    /\ Nest("emit") /\ pause' = Delay
    /\ UNCHANGED <<setup, version, shown>>

SettleCall ==
    /\ InLoop /\ client.connected > 0 /\ Len(frames) < MaxDepth
    /\ Nest("settle")
    /\ UNCHANGED <<setup, version, shown, source, timers, pause>>

\* The timer is left to its own.
DestroyNothing == UNCHANGED timers

\* g_source_destroy (client->changed_timeout_source)
DestroySource == timers' = Restrict(timers, DOMAIN timers \ {source})

\* pd_client_settle has dispatched all there was and ends with
\* maybe_emit_changed_now.
SettleEnds ==
    /\ Frame = "settle"
    /\ \A i \in DOMAIN timers : ~Due(i)
    /\ IF source = NULL
       THEN frames' = Tail(frames) /\ UNCHANGED <<source, timers, pause>>
       ELSE /\ DestroySource /\ source' = NULL
            /\ frames' = <<"emit">> \o Tail(frames) /\ pause' = Delay
    /\ UNCHANGED <<setup, version, shown>>

\* A handler of "changed", of the application, looks at the objects ...
HandlerLooks ==
    /\ Frame = "emit"
    /\ shown' = version
    /\ frames' = <<"handler">> \o Tail(frames)
    /\ UNCHANGED <<setup, version, source, timers, pause>>

\* ... and returns.
HandlerReturns ==
    /\ Frame = "handler"
    /\ frames' = Tail(frames)
    /\ UNCHANGED <<setup, version, shown, source, timers, pause>>

Minus1(n) == IF n = 0 THEN 0 ELSE n - 1

Tick == /\ timers' = [i \in DOMAIN timers |-> Minus1(timers[i])]
        /\ pause' = Minus1(pause)
        /\ UNCHANGED <<setup, version, shown, source, frames>>

-----------------------------------------------------------------------------
Dispatch == (\E i \in DOMAIN timers : TimeoutFires(i)) \/ SettleEnds
                \/ HandlerLooks \/ HandlerReturns

Next == \/ \E c \in Callers : \/ InitAgain(c) \/ InitEnters(c)
                              \/ InitSucceeds(c) \/ InitFails(c)
        \/ ObjectChanges \/ SettleCall \/ Dispatch \/ Tick

\* Time passes, and the main loop gets on with what is due.
Spec == Init /\ [][Next]_vars /\ WF_vars(Tick) /\ WF_vars(Dispatch)

-----------------------------------------------------------------------------
\* Initialization is idempotent: however many threads ask for it, the handlers
\* are connected at most once and all of them get the same answer, with an
\* error exactly when there is no object manager (the assertions of
\* initable_init).
InitAgrees ==
    /\ client.is_initialized => (client.error <=> client.connected = 0)
    /\ \A c \in Callers :
        callers[c] \in {"TRUE", "FALSE"} =>
            /\ client.is_initialized
            /\ callers[c] = "TRUE" <=> client.connected = 1

\* The client never holds a pointer to a timer that has gone, and no timer it
\* does not know of will call back a client that may be gone by then.
SourceIsLive ==
    DOMAIN timers = IF source = NULL THEN {} ELSE {source}

\* No change is swallowed: as long as the application has not seen all of
\* them, a timer is running or "changed" is about to be emitted, also when the
\* change came while a handler of "changed" was running the main loop.
NothingUnannounced ==
    version # shown =>
        DOMAIN timers # {} \/ \E i \in 1..Len(frames) : frames[i] = "emit"

\* "rate-limited to fire at most every 100ms": a timer never emits "changed"
\* earlier than that after the last time, settled or not.
RateLimited ==
    [][(\E i \in DOMAIN timers : TimeoutFires(i)) => pause = 0]_vars

\* In the end every change is announced: the client implements ChangedSignal.
Changed == INSTANCE ChangedSignal
ImplementsChangedSignal == Changed!Spec

=============================================================================
