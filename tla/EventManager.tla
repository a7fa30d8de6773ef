---------------------------- MODULE EventManager ----------------------------
(***************************************************************************)
(* zdn_event_manager.lua: the publish/subscribe hub every other script     *)
(* goes through.  All of it runs on one thread, but TriggerEvent runs the  *)
(* callbacks while its own `for i, sub in pairs(SubscriberList)' loop is   *)
(* open, and a callback may call any function of this module, which        *)
(* changes the very table the suspended loop walks.  `calls' is therefore  *)
(* the stack of activations of this module, each with its loop index.      *)
(*                                                                         *)
(* `pairs' on a Lua array visits index i + 1 of the table as it is when    *)
(* the next iteration begins, and table.remove(t, i) moves the rest of the *)
(* array up one place: an entry that moves up over a suspended index is    *)
(* not visited by that loop.                                               *)
(***************************************************************************)
EXTENDS SubscriberList

CONSTANTS
    Sources,      \* scripts that publish, the argument nx_current()
    Events,       \* "on-task-stop", "on-task-interrupt", ...
    Subscribers,  \* scripts that subscribe
    MaxNesting    \* bound: callbacks nest at most this deep

ASSUME NestingAssumption == MaxNesting \in Nat \ {0}

VARIABLES
    list,   \* SubscriberList
    calls   \* activations of Unsubscribe and TriggerEvent, innermost last

vars == <<list, calls>>

Subscription == [src : Sources, ev : Events, sub : Subscribers]

UnsubscribeCall == [op : {"Unsubscribe"}, key : Subscription, i : Nat]

(* The last three fields are history: the entries called so far, in order; *)
(* the matching entries of the call's first moment that were never removed *)
(* since; and whether no entry at all was removed since.                   *)
TriggerCall ==
    [op : {"TriggerEvent"}, src : Sources, ev : Events, i : Nat, inCallback : BOOLEAN,
     called : Seq(Subscription), kept : SUBSET Subscription, intact : BOOLEAN]

TypeOK ==
    /\ list \in Seq(Subscription)
    /\ calls \in Seq(UnsubscribeCall \cup TriggerCall)

-----------------------------------------------------------------------------
Init == list = <<>> /\ calls = <<>>

Top == Last(calls)
Running(op) == calls # <<>> /\ Top.op = op
SetTop(call) == calls' = [calls EXCEPT ![Len(calls)] = call]
Return == calls' = Front(calls)

(* Other scripts call this one between bursts or from inside a callback. *)
CallerRuns == calls = <<>> \/ (Running("TriggerEvent") /\ Top.inCallback)

(* What the removal of e means to the publications under way. *)
Forget(call, e) ==
    IF call.op = "TriggerEvent"
    THEN [call EXCEPT !.kept = @ \ {e}, !.intact = FALSE]
    ELSE call

(* Mutation: Subscribe without the isSubscribing test. *)
SubscribeUnchecked(e) ==
    CallerRuns /\ list' = Append(list, e) /\ UNCHANGED calls

Subscribe(e) ==
    /\ CallerRuns
    /\ list' = Subscribed(list, e)
    /\ UNCHANGED calls

Unsubscribe(e) ==
    /\ CallerRuns
    /\ Len(calls) < MaxNesting
    /\ calls' = Append(calls, [op |-> "Unsubscribe", key |-> e, i |-> 0])
    /\ UNCHANGED list

(* Mutation: the entry is cleared in place, and leaves a hole. *)
UnsubscribeLeavesHole ==
    /\ Running("Unsubscribe")
    /\ LET i == Top.i + 1 IN
       IF i > Len(list) THEN Return /\ UNCHANGED list
       ELSE /\ list' = IF list[i] = Top.key THEN [list EXCEPT ![i] = <<>>] ELSE list
            /\ SetTop([Top EXCEPT !.i = i])

(* Mutation: the loop ends one entry early. *)
UnsubscribeMissesLast ==
    /\ Running("Unsubscribe")
    /\ LET i == Top.i + 1 IN
       IF i >= Len(list) THEN Return /\ UNCHANGED list
       ELSE IF list[i] = Top.key
       THEN list' = RemoveAt(list, i) /\ SetTop([Top EXCEPT !.i = i])
       ELSE SetTop([Top EXCEPT !.i = i]) /\ UNCHANGED list

(* One iteration of the loop of Unsubscribe: table.remove does not stop it. *)
UnsubscribeVisit ==
    /\ Running("Unsubscribe")
    /\ LET i == Top.i + 1 IN
       IF i > Len(list) THEN Return /\ UNCHANGED list
       ELSE IF list[i] = Top.key
       THEN /\ list' = RemoveAt(list, i)
            /\ calls' = [k \in DOMAIN calls |->
                           IF k = Len(calls) THEN [calls[k] EXCEPT !.i = i]
                                             ELSE Forget(calls[k], Top.key)]
       ELSE SetTop([Top EXCEPT !.i = i]) /\ UNCHANGED list

TriggerEvent(src, ev) ==
    /\ CallerRuns
    /\ Len(calls) < MaxNesting
    /\ calls' = Append(calls,
          [op |-> "TriggerEvent", src |-> src, ev |-> ev, i |-> 0, inCallback |-> FALSE,
           called |-> <<>>, intact |-> TRUE,
           kept |-> {e \in ToSet(list) : e.src = src /\ e.ev = ev}])
    /\ UNCHANGED list

(* Mutation: the loop ends at the first subscriber it finds. *)
TriggerFirstOnly ==
    /\ Running("TriggerEvent") /\ ~Top.inCallback
    /\ LET i == Top.i + 1 IN
       IF i > Len(list) THEN Return
       ELSE IF list[i].src = Top.src /\ list[i].ev = Top.ev
       THEN SetTop([Top EXCEPT !.i = Len(list), !.inCallback = TRUE, !.called = Append(@, list[i])])
       ELSE SetTop([Top EXCEPT !.i = i])
    /\ UNCHANGED list

(* One iteration of the loop of TriggerEvent, up to the entry into the     *)
(* callback.                                                               *)
TriggerVisit ==
    /\ Running("TriggerEvent") /\ ~Top.inCallback
    /\ LET i == Top.i + 1 IN
       IF i > Len(list) THEN Return
       ELSE IF list[i].src = Top.src /\ list[i].ev = Top.ev
       THEN SetTop([Top EXCEPT !.i = i, !.inCallback = TRUE, !.called = Append(@, list[i])])
       ELSE SetTop([Top EXCEPT !.i = i])
    /\ UNCHANGED list

(* Mutation: the walk begins anew after a callback that changed the list. *)
CallbackRestartsWalk ==
    /\ Running("TriggerEvent") /\ Top.inCallback
    /\ SetTop([Top EXCEPT !.inCallback = FALSE, !.i = IF Top.intact THEN @ ELSE 0])
    /\ UNCHANGED list

(* The callback returns, or pauses: nx_execute comes back either way. *)
CallbackReturns ==
    /\ Running("TriggerEvent") /\ Top.inCallback
    /\ SetTop([Top EXCEPT !.inCallback = FALSE])
    /\ UNCHANGED list

Next ==
    \/ \E e \in Subscription : Subscribe(e) \/ Unsubscribe(e)
    \/ \E src \in Sources, ev \in Events : TriggerEvent(src, ev)
    \/ UnsubscribeVisit
    \/ TriggerVisit
    \/ CallbackReturns

Spec == Init /\ [][Next]_vars

-----------------------------------------------------------------------------
(* No subscription is held twice.  Unsubscribe stops a second copy only by *)
(* luck (the entry after the removed one is not looked at), so the test in *)
(* Subscribe is what makes Unsubscribe correct.                            *)
NoDuplicates == IsInjective(list)

(* When Unsubscribe returns, the subscription is gone, wherever it stood   *)
(* and although its loop skips an entry after each removal.                *)
UnsubscribeRemoves ==
    [][(Running("Unsubscribe") /\ Len(calls') < Len(calls))
          => ~IsSubscribing(list', Top.key)]_vars

(* A subscription that is not removed while an event is published is       *)
(* called at most once for it, whatever the callbacks subscribe,           *)
(* unsubscribe and publish meanwhile.  (One that is removed and subscribed *)
(* again inside a callback may be called twice: kept forgets it.)          *)
CalledOnce ==
    \A c \in DOMAIN calls : calls[c].op = "TriggerEvent" =>
        \A a, b \in DOMAIN calls[c].called :
            (calls[c].called[a] = calls[c].called[b] /\ calls[c].called[a] \in calls[c].kept)
                => a = b

(* If no callback removes a subscription, of any event, TriggerEvent calls *)
(* every subscriber that was there when it began.                          *)
PublicationComplete ==
    [][(Running("TriggerEvent") /\ Len(calls') < Len(calls) /\ Top.intact)
          => Top.kept \subseteq ToSet(Top.called)]_vars
=============================================================================
