----------------------------- MODULE Scheduler -----------------------------
(***************************************************************************)
(* What the task manager promises, without coroutines, callbacks and       *)
(* subscriptions: while it is on it runs at most one task at a time, and   *)
(* it begins a task only when none runs, the task is runnable and no task  *)
(* before it in the list is, except that NoiTu may go before any other.    *)
(***************************************************************************)
EXTENDS Sequences, Integers

CONSTANTS Logics, NoiTu

VARIABLES
    on,        \* the manager runs
    active,    \* the tasks that run
    order,     \* the list of tasks, by priority
    runnable   \* the tasks the game and the clock allow now

vars == <<on, active, order, runnable>>

(* The first runnable task of the list, and NoiTu if it is in the list. *)
Due == {order[k] : k \in {j \in DOMAIN order :
            /\ order[j] \in runnable
            /\ order[j] = NoiTu \/ \A i \in 1..(j - 1) : order[i] \notin runnable}}

Init == on = FALSE /\ active = {} /\ order = <<>> /\ runnable \subseteq Logics

(* The list is read when the manager is turned on; it stays off when the   *)
(* list is empty.                                                          *)
TurnOn ==
    /\ ~on /\ active = {}
    /\ order' \in Seq(Logics)
    /\ on' = (order' # <<>>)
    /\ UNCHANGED <<active, runnable>>

TurnOff == on /\ on' = FALSE /\ UNCHANGED <<active, order, runnable>>

Begin(l) ==
    /\ on /\ active = {} /\ l \in Due
    /\ active' = {l}
    /\ UNCHANGED <<on, order, runnable>>

(* A task ends by itself, because another one is due, or on TurnOff. *)
End(l) ==
    /\ active = {l} /\ active' = {}
    /\ UNCHANGED <<on, order, runnable>>

World == runnable' \in SUBSET Logics /\ UNCHANGED <<on, active, order>>

Next == TurnOn \/ TurnOff \/ World \/ \E l \in Logics : Begin(l) \/ End(l)

Spec == Init /\ [][Next]_vars
=============================================================================
