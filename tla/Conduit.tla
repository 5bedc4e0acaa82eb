------------------------------ MODULE Conduit -------------------------------
(***************************************************************************)
(* What the data pump of a job promises the last filter and the backend,    *)
(* whatever processes, watches, cancellations and failures there are: a     *)
(* pipe of a fixed capacity that delivers all that is written before it is  *)
(* closed, unless it is cut, and delivers nothing afterwards.               *)
(***************************************************************************)
EXTENDS Naturals

CONSTANT Capacity       \* chunks that can be on their way

VARIABLES written,      \* chunks the filter has written
          delivered,    \* chunks the backend was given
          state         \* of the backend's end: "open", "closed" or "cut"

Init == written = 0 /\ delivered = 0 /\ state = "open"

Write == /\ state # "closed" /\ written - delivered < Capacity
         /\ written' = written + 1 /\ UNCHANGED <<delivered, state>>

Deliver == /\ state = "open" /\ delivered < written
           /\ delivered' = delivered + 1 /\ UNCHANGED <<written, state>>

\* The backend sees the end of its input once it has all of it.
Close == /\ state = "open" /\ delivered = written
         /\ state' = "closed" /\ UNCHANGED <<written, delivered>>

Cut == /\ state = "open"
       /\ state' = "cut" /\ UNCHANGED <<written, delivered>>

Next == Write \/ Deliver \/ Close \/ Cut

Spec == Init /\ [][Next]_<<written, delivered, state>>

=============================================================================
