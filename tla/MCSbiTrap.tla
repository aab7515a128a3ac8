------------------------------- MODULE MCSbiTrap -------------------------------
(* An instance of SbiTrap: registers of two digits to the base 4, four     *)
(* hardware counters and two firmware counters.                            *)
EXTENDS SbiTrap

MCEntry(start, end, ctrs, select) == [start |-> start, end |-> end, ctrs |-> ctrs, select |-> select]

(* Event types have 8 codes.  The map takes cycles and instructions on a   *)
(* programmable counter, a range of events on both, and a raw event; what  *)
(* overlaps, or wants a fixed counter, is refused.                         *)
MCOffered ==
  <<MCEntry(1, 2, {0, 2, 3}, 0), MCEntry(3, 5, {3, 4}, 0), MCEntry(5, 9, {4}, 0), MCEntry(6, 6, {0, 4}, 0),
    MCEntry(8, 8, {4}, 0), MCEntry(16, 16, {3, 4}, 1), MCEntry(16, 16, {4}, 1)>>
MCHwEvents == {<<1, 0>>, <<3, 0>>, <<4, 0>>, <<8, 0>>, <<16, 1>>}
MCUnknown == {<<4, 0>>}

(* Requests also of no counter, and with a cbase that an int cuts to 4.    *)
MCRequests == {<<3, {3, 4}>>, <<0, {0, 2, 3}>>, <<4, {}>>, <<5, {5, 6}>>, <<6, {6}>>, <<260, {4}>>}

(* Firmware events: code 1 with a bit above the type, a code beyond the    *)
(* row of 6, and an index of all ones.                                     *)
MCFwEvents == {249, 126, 255}
MCFeatures == {{}, {"inhibit"}, {"inhibit", "sscof"}}
MCSetups ==
  {<<"timer", w, {}>> : w \in BOOLEAN} \cup {<<"hw", TRUE, f>> : f \in MCFeatures}
    \cup {<<"fw", TRUE, {}>>, <<"trap", TRUE, {}>>}
=============================================================================
