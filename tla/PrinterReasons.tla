--------------------------- MODULE PrinterReasons ---------------------------
(***************************************************************************)
(* printer-state-reasons.  Filters and backends report the condition of the *)
(* device by writing lines "STATE: +a,b" or "STATE: -a" on stderr;          *)
(* pd_job_impl_parse_stderr turns every listed reason into an               *)
(* add/remove-printer-state-reason signal, and the printer's handlers apply *)
(* each one to the printer's list in the order of the line.                 *)
(*                                                                         *)
(* `reported' is a history variable: the reasons whose latest report is a   *)
(* '+', which is what the lines, taken together, say about the device.      *)
(***************************************************************************)
EXTENDS StateReasons, SequencesExt

CONSTANTS Reasons,      \* the reasons children can report
          MaxLine       \* the most reasons on one STATE: line

ASSUME PrinterReasonsAssumption == MaxLine \in Nat

VARIABLES state_reasons,    \* the printer's list
          reported

vars == <<state_reasons, reported>>

Lines == UNION {[1..n -> Reasons] : n \in 1..MaxLine}

\* pd_printer_impl_init: no reason is set.
Init == state_reasons = <<>> /\ reported = {}

\* "STATE: +r1,r2,...": pd_printer_impl_add_state_reason for each reason.
AddReported(line) ==
    /\ state_reasons' = FoldLeft(AddReason, state_reasons, line)
    /\ reported' = reported \cup Range(line)

\* "STATE: -r1,r2,...": pd_printer_impl_remove_state_reason for each reason.
RemoveReported(line) ==
    /\ state_reasons' = FoldLeft(RemoveReason, state_reasons, line)
    /\ reported' = reported \ Range(line)

Next == \E line \in Lines : AddReported(line) \/ RemoveReported(line)

Spec == Init /\ [][Next]_vars

-----------------------------------------------------------------------------
\* The list names each reason at most once, whatever lines arrive in whatever
\* order, a reason repeated within one line included; the removal loop and
\* every search that stops at the first match rely on it.
EachReasonOnce == NoDuplicates(state_reasons)

\* The printer never shows a reason whose latest report withdrew it, and never
\* one that nobody reported (pd_printer_impl_remove_state_reason is complete).
NoStaleReason == Range(state_reasons) \subseteq reported

\* What a removal should copy: every entry but the reason, one after another.
Filtered(reasons, r) ==
    FoldLeft(LAMBDA copy, x : IF x = r THEN copy ELSE Append(copy, x), <<>>, reasons)

\* Removing a reason takes exactly that reason out of the list and keeps the
\* order of the others: the loop of add_or_remove_state_reason filters.
RemovalIsFilter ==
    \A r \in Reasons :
        RemoveReason(state_reasons, r) = Filtered(state_reasons, r)

=============================================================================
