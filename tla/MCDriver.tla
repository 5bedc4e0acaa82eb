------------------------------ MODULE MCDriver ------------------------------
(* Four PPD files and single-attribute updates for Driver.                   *)
EXTENDS Driver

Filters(format, cost, filter) ==
    [complete |-> TRUE, format |-> format, cost |-> cost, filter |-> filter]
Incomplete == [complete |-> FALSE, format |-> "", cost |-> 0, filter |-> ""]

MCPpds == {"gone", "plain", "tie", "late"}
MCReadable == MCPpds \ {"gone"}
MCLines ==
    [p \in MCPpds |->
        CASE p = "tie"  -> << Incomplete, Filters("pdf", 10, "f1"),
                              Filters("raster", 10, "f2") >>
          [] p = "late" -> << Filters("pdf", 20, "f0"), Filters("raster", 0, "-"),
                              Filters("ps", 5, "f3") >>
          [] OTHER      -> << >>]

MCUpdates == [{"media"} -> {1, 2}] \cup [{"sides"} -> {1}]
MCDefaults == [k \in {"media"} |-> 0]

\* Of every PPD of up to three lines the first of the cheapest is found.
AllLines == {Incomplete} \cup {Filters(f, n, "f1") : f \in {"pdf", "ps"}, n \in -1..1}
ASSUME BestIsCheapest ==
    \A n \in 0..3 : \A lines \in [1..n -> AllLines] :
        LET complete == {i \in 1..n : lines[i].complete}
        IN  IF complete = {} THEN ~Best(lines).complete
            ELSE \E i \in complete : IsCheapest(lines, i) /\ Best(lines) = lines[i]

=============================================================================
