--------------------------- MODULE ChangedSignal ----------------------------
(***************************************************************************)
(* What PdClient promises of its "changed" signal, without timers, nested   *)
(* main loops or start-up: whatever happened to the objects on the bus, the *)
(* application is told of it in the end.                                    *)
(***************************************************************************)
EXTENDS Naturals

VARIABLES version,      \* changes that reached the client's proxies
          shown         \* those a handler of "changed" has had a look at

Init == version = 0 /\ shown = 0

\* An object, an interface or a property changes.
Change == version' = version + 1 /\ UNCHANGED shown

\* "multiple received signals are coalesced into a single signal"
Announce == shown' = version /\ UNCHANGED version

Next == Change \/ Announce

vars == <<version, shown>>

Spec == Init /\ [][Next]_vars /\ WF_vars(Announce)

=============================================================================
