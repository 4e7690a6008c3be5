------------------------ MODULE MCStreamedOperations ------------------------
(* One new or leaving node (or the first host of a removal) and two others. *)
EXTENDS StreamedOperations, TLC
CONSTANTS n, p, q, x
MCAt == <<p>>
MCMaxFaults == [join |-> 2, leave |-> 2, removal |-> 1]
MCMaxRuns == [join |-> 1, leave |-> 2, removal |-> 2]
=============================================================================
