----------------------------- MODULE Dictionary -----------------------------
(* What a Lua table promises: a mapping from keys to values, nil meaning    *)
(* absent, and a traversal (next) that returns every key that stays present *)
(* once, while values are changed and fields are cleared, but no new field  *)
(* is assigned.                                                             *)
CONSTANTS Keys, Vals, Nil

VARIABLES
    dict,     \* the value of every key
    seen,     \* the keys the traversal in progress has returned
    walking   \* whether a traversal is in progress

Present == {k \in Keys : dict[k] # Nil}

Init ==
    /\ dict = [k \in Keys |-> Nil]
    /\ seen = {}
    /\ walking = FALSE

(* Other keys keep their values; a traversal bars new fields. *)
Store(k, v) ==
    /\ walking => k \in Present
    /\ dict' = [dict EXCEPT ![k] = v]

BeginTraversal == walking' /\ seen' = {}

Visit(k) == walking /\ walking' /\ k \in Present \ seen /\ seen' = seen \cup {k}

EndTraversal == walking /\ ~walking' /\ Present \subseteq seen /\ seen' = {}

Next ==
    \/ /\ UNCHANGED <<seen, walking>>
       /\ \E k \in Keys, v \in Vals \cup {Nil} : Store(k, v)
    \/ /\ BeginTraversal \/ EndTraversal \/ \E k \in Keys : Visit(k)
       /\ UNCHANGED dict

Spec == Init /\ [][Next]_<<dict, seen, walking>>
=============================================================================
