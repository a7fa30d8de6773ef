--------------------------- MODULE MCEventManager ---------------------------
(* A small instance of EventManager: two publishers with one event each and *)
(* two subscribers, so a list of up to four entries of which a publication  *)
(* matches two; one publication inside a callback of another.               *)
EXTENDS EventManager, TLC

CONSTANTS luyen_cong, noi6, manager, form

MCSources == {luyen_cong, noi6}
MCEvents == {"on-task-stop"}
MCSubscribers == {manager, form}

Symmetry == Permutations(MCSources) \cup Permutations(MCSubscribers)
=============================================================================
