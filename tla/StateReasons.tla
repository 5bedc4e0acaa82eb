---------------------------- MODULE StateReasons ----------------------------
(***************************************************************************)
(* The lists of state reasons that jobs and printers publish, and the one   *)
(* helper that edits them: add_or_remove_state_reason() of pd-common.c.     *)
(*                                                                         *)
(* A list is a sequence of reasons.  The helper copies the list up to the   *)
(* first occurrence of the reason; from there the two modes differ:         *)
(*   '-' skips it and copies the rest;                                      *)
(*   '+' leaves the copying loop, and returns what was copied so far.       *)
(* So '+' of a reason that is already listed does not leave the list as it  *)
(* is: it drops that reason and everything after it.                        *)
(***************************************************************************)
EXTENDS Naturals, Sequences

HasReason(reasons, r) == \E i \in 1..Len(reasons) : reasons[i] = r

\* The position where the code's loop finds the reason.  It is the only one:
\* the lists hold a reason once (NoDuplicates; EachReasonOnce, PrinterReasons).
IndexOf(reasons, r) == CHOOSE i \in 1..Len(reasons) : reasons[i] = r

\* A '+' that does not look for the reason first.
AddReasonBlindly(reasons, r) == Append(reasons, r)

\* add_or_remove_state_reason (reasons, '+', r)
AddReason(reasons, r) ==
    IF HasReason(reasons, r)
    THEN SubSeq(reasons, 1, IndexOf(reasons, r) - 1)
    ELSE Append(reasons, r)

\* A '-' that finds nothing.
RemoveReasonNever(reasons, r) == reasons

\* A '-' that stops copying at the reason, as '+' does.
RemoveReasonTruncating(reasons, r) ==
    IF HasReason(reasons, r)
    THEN SubSeq(reasons, 1, IndexOf(reasons, r) - 1)
    ELSE reasons

\* add_or_remove_state_reason (reasons, '-', r).  That this is the filter the
\* loop computes is checked by RemovalIsFilter in PrinterReasons,
\* and proved in PrinterReasonsProofs.
RemoveReason(reasons, r) ==
    IF HasReason(reasons, r)
    THEN LET i == IndexOf(reasons, r)
         IN  SubSeq(reasons, 1, i - 1) \o SubSeq(reasons, i + 1, Len(reasons))
    ELSE reasons

NoDuplicates(reasons) ==
    \A i, k \in 1..Len(reasons) : reasons[i] = reasons[k] => i = k

=============================================================================
