--------------------------- MODULE SubscriberList ---------------------------
(***************************************************************************)
(* The value kept in the local table SubscriberList of                     *)
(* zdn_event_manager.lua: a Lua array of subscriptions.  A subscription is *)
(* reduced to the three fields the code compares, [src, ev, sub]; the      *)
(* callback name and its parameters are functions of these three in every  *)
(* caller, so they carry no information of their own.                      *)
(*                                                                         *)
(* Only operators: EventManager walks the list one iteration at a time,    *)
(* TaskManager applies whole calls to it.                                  *)
(***************************************************************************)
EXTENDS Integers, Sequences, SequencesExt

(* isSubscribing: some entry has the same source, event and subscriber. *)
IsSubscribing(list, e) == Contains(list, e)

(* Mutation: Subscribe without the isSubscribing test. *)
SubscribedUnchecked(list, e) == Append(list, e)

(* Subscribe: append unless the same subscription is there already. *)
Subscribed(list, e) ==
    IF IsSubscribing(list, e) THEN list ELSE Append(list, e)

(* The position of e in a list that holds it. *)
PositionOf(list, e) == CHOOSE i \in DOMAIN list : list[i] = e

(* Unsubscribe, on a list that holds no entry twice: the one entry leaves  *)
(* and what follows it moves up one place.  The loop of the source, which  *)
(* skips the entry that moves into the hole, is EventManager's; there it   *)
(* is shown to do exactly this.                                            *)
Unsubscribed(list, e) ==
    IF IsSubscribing(list, e) THEN RemoveAt(list, PositionOf(list, e)) ELSE list

(* The places after i that TriggerEvent(src, ev) will stop at if the list  *)
(* does not change.                                                        *)
MatchesAfter(list, i, src, ev) ==
    {k \in DOMAIN list : k > i /\ list[k].src = src /\ list[k].ev = ev}
=============================================================================
