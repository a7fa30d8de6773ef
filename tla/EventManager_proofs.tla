------------------------ MODULE EventManager_proofs ------------------------
(***************************************************************************)
(* The four properties of EventManager for any publishers, events,         *)
(* subscribers and depth of nesting.  They all rest on one fact about      *)
(* positions: because no entry is in the list twice, an entry that a loop  *)
(* has dealt with and that stays in the list stays at or before the index  *)
(* of that loop, whatever the callbacks append and remove.                 *)
(***************************************************************************)
EXTENDS EventManager, SubscriberList_proofs

Call == UnsubscribeCall \cup TriggerCall

-----------------------------------------------------------------------------
(* The strengthening, first for one publication c and a list l. *)

(* What was called and not removed stands at or before the index. *)
Seen(c, l) ==
    \A a \in DOMAIN c.called : c.called[a] \in c.kept =>
        \E j \in DOMAIN l : j <= c.i /\ l[j] = c.called[a]

(* While nothing is removed, what was there and is not called yet stands   *)
(* after the index.                                                        *)
Ahead(c, l) ==
    c.intact => \A e \in c.kept :
        /\ e.src = c.src /\ e.ev = c.ev
        /\ \E j \in DOMAIN l :
              l[j] = e /\ (j <= c.i => \E a \in DOMAIN c.called : c.called[a] = e)

Once(c) ==
    \A a, b \in DOMAIN c.called :
        (c.called[a] = c.called[b] /\ c.called[a] \in c.kept) => a = b

Publication(c, l) == Seen(c, l) /\ Ahead(c, l) /\ Once(c)

(* An Unsubscribe has not left its key behind its index. *)
Scanned(c, l) == \A j \in DOMAIN l : j <= c.i => l[j] # c.key

(* Only the innermost activation can be an Unsubscribe: it calls nobody. *)
Outer(c) == c < Len(calls) => calls[c].op = "TriggerEvent"

Activations ==
    \A c \in DOMAIN calls :
        /\ Outer(c)
        /\ calls[c].op = "TriggerEvent" => Publication(calls[c], list)
        /\ calls[c].op = "Unsubscribe" => Scanned(calls[c], list)

Inv == TypeOK /\ NoDuplicates /\ Activations

-----------------------------------------------------------------------------
(* What each change of the list or of the index means to a publication. *)

(* An entry appended is after every index. *)
LEMMA PublicationGrows ==
    ASSUME NEW c \in TriggerCall, NEW l \in Seq(Subscription), NEW e \in Subscription,
           Publication(c, l)
    PROVE  Publication(c, Subscribed(l, e))
<1> DEFINE m == Subscribed(l, e)
<1>1. \A j \in DOMAIN l : j \in DOMAIN m /\ m[j] = l[j]
  BY LenProperties DEF Subscribed
<1> HIDE DEF m
<1>2. Seen(c, m)
  BY <1>1 DEF Publication, Seen
<1>3. Ahead(c, m)
  BY <1>1 DEF Publication, Ahead
<1> QED BY <1>2, <1>3 DEF Publication, m

(* The entries after a removed one move up one place, never past an index  *)
(* they stood behind.                                                      *)
LEMMA PublicationShrinks ==
    ASSUME NEW c \in TriggerCall, NEW l \in Seq(Subscription), NEW p \in 1..Len(l),
           IsInjective(l), Publication(c, l)
    PROVE  /\ Publication(Forget(c, l[p]), RemoveAt(l, p))
           /\ Forget(c, l[p]) \in TriggerCall
<1> DEFINE m == RemoveAt(l, p)
           d == Forget(c, l[p])
<1>1. /\ Len(m) = Len(l) - 1 /\ DOMAIN m = 1..(Len(l) - 1)
      /\ DOMAIN l = 1..Len(l) /\ Len(l) \in Nat
      /\ \A k \in 1..(Len(l) - 1) : m[k] = IF k < p THEN l[k] ELSE l[k + 1]
  BY RemoveAtProperties, LenProperties
<1>2. /\ d.op = "TriggerEvent" /\ d.i = c.i /\ d.i \in Nat /\ d.called = c.called
      /\ d.kept = c.kept \ {l[p]} /\ d.intact = FALSE /\ d \in TriggerCall
  BY DEF TriggerCall, Forget
<1> HIDE DEF m, d
<1>3. Seen(d, m)
  <2> SUFFICES ASSUME NEW a \in DOMAIN c.called, c.called[a] \in d.kept
               PROVE  \E j \in DOMAIN m : j <= d.i /\ m[j] = c.called[a]
    BY <1>2 DEF Seen
  <2>1. PICK j \in DOMAIN l : j <= c.i /\ l[j] = c.called[a]
    BY <1>2 DEF Publication, Seen
  <2>2. j # p /\ j \in 1..Len(l)
    BY <1>1, <1>2, <2>1
  <2>3. CASE j < p
    <3>1. j \in 1..(Len(l) - 1) /\ m[j] = l[j]
      BY <1>1, <2>2, <2>3
    <3> QED BY <1>1, <1>2, <2>1, <3>1
  <2>4. CASE j > p
    <3>1. j - 1 \in 1..(Len(l) - 1) /\ ~(j - 1 < p) /\ j - 1 + 1 = j
      BY <1>1, <2>2, <2>4
    <3>2. m[j - 1] = l[j]
      BY <1>1, <3>1
    <3>3. j - 1 <= d.i
      BY <1>2, <2>1, <2>2
    <3> QED BY <1>1, <2>1, <3>1, <3>2, <3>3
  <2> QED BY <2>2, <2>3, <2>4
<1>4. Ahead(d, m)
  BY <1>2 DEF Ahead
<1>5. Once(d)
  BY <1>2 DEF Publication, Once
<1> QED BY <1>2, <1>3, <1>4, <1>5 DEF Publication, m, d

(* A publication begins. *)
LEMMA PublicationBegins ==
    ASSUME NEW c \in TriggerCall, NEW l \in Seq(Subscription),
           c.i = 0, c.called = <<>>,
           c.kept = {e \in ToSet(l) : e.src = c.src /\ e.ev = c.ev}
    PROVE  Publication(c, l)
<1>1. Seen(c, l) /\ Once(c)
  BY DEF Seen, Once
<1>2. Ahead(c, l)
  BY LenProperties DEF Ahead, ToSet
<1> QED BY <1>1, <1>2 DEF Publication

(* The loop goes past an entry that does not match ... *)
LEMMA PublicationSkips ==
    ASSUME NEW c \in TriggerCall, NEW l \in Seq(Subscription), c.i + 1 <= Len(l),
           ~(l[c.i + 1].src = c.src /\ l[c.i + 1].ev = c.ev),
           Publication(c, l)
    PROVE  /\ Publication([c EXCEPT !.i = c.i + 1], l)
           /\ [c EXCEPT !.i = c.i + 1] \in TriggerCall
<1> DEFINE d == [c EXCEPT !.i = c.i + 1]
<1>1. /\ d.i = c.i + 1 /\ c.i \in Nat /\ d.called = c.called /\ d.kept = c.kept
      /\ d.intact = c.intact /\ d.src = c.src /\ d.ev = c.ev /\ d \in TriggerCall
  BY DEF TriggerCall
<1>2. DOMAIN l = 1..Len(l) /\ Len(l) \in Nat
  BY LenProperties
<1> HIDE DEF d
<1>3. Seen(d, l)
  BY <1>1, <1>2 DEF Publication, Seen
<1>4. Ahead(d, l)
  <2> SUFFICES ASSUME c.intact, NEW e \in c.kept
               PROVE  /\ e.src = c.src /\ e.ev = c.ev
                      /\ \E j \in DOMAIN l :
                            l[j] = e /\ (j <= d.i => \E a \in DOMAIN c.called : c.called[a] = e)
    BY <1>1 DEF Ahead
  <2>1. e.src = c.src /\ e.ev = c.ev
    BY DEF Publication, Ahead
  <2>2. PICK j \in DOMAIN l :
               l[j] = e /\ (j <= c.i => \E a \in DOMAIN c.called : c.called[a] = e)
    BY DEF Publication, Ahead
  <2>3. j # c.i + 1
    BY <2>1, <2>2
  <2> QED BY <1>1, <1>2, <2>1, <2>2, <2>3
<1>5. Once(d)
  BY <1>1 DEF Publication, Once
<1> QED BY <1>1, <1>3, <1>4, <1>5 DEF Publication, d

(* ... and calls one that does. *)
LEMMA PublicationCalls ==
    ASSUME NEW c \in TriggerCall, NEW l \in Seq(Subscription), c.i + 1 <= Len(l),
           IsInjective(l), Publication(c, l),
           NEW d \in TriggerCall, d.i = c.i + 1, d.called = Append(c.called, l[c.i + 1]),
           d.kept = c.kept, d.intact = c.intact, d.src = c.src, d.ev = c.ev
    PROVE  Publication(d, l)
<1> DEFINE e == l[c.i + 1]
           n == Len(c.called)
<1>1. /\ DOMAIN l = 1..Len(l) /\ Len(l) \in Nat /\ c.i \in Nat
      /\ c.called \in Seq(Subscription) /\ c.i + 1 \in 1..Len(l)
  BY LenProperties DEF TriggerCall
<1>2. e \in Subscription
  BY <1>1, ElementOfSeq
<1> HIDE DEF e, n
<1>3. /\ DOMAIN c.called = 1..n /\ n \in Nat /\ DOMAIN d.called = 1..(n + 1)
      /\ d.called[n + 1] = e /\ \A a \in 1..n : d.called[a] = c.called[a]
  BY <1>1, <1>2, AppendProperties, LenProperties DEF e, n
<1>4. Seen(d, l)
  <2> SUFFICES ASSUME NEW a \in DOMAIN d.called, d.called[a] \in c.kept
               PROVE  \E j \in DOMAIN l : j <= d.i /\ l[j] = d.called[a]
    BY DEF Seen
  <2>1. CASE a \in 1..n
    <3>1. PICK j \in DOMAIN l : j <= c.i /\ l[j] = c.called[a]
      BY <1>3, <2>1 DEF Publication, Seen
    <3> QED BY <1>1, <1>3, <2>1, <3>1
  <2>2. CASE a = n + 1
    BY <1>1, <1>3, <2>2 DEF e
  <2> QED BY <1>3, <2>1, <2>2
<1>5. Ahead(d, l)
  <2> SUFFICES ASSUME c.intact, NEW f \in c.kept
               PROVE  /\ f.src = c.src /\ f.ev = c.ev
                      /\ \E j \in DOMAIN l :
                            l[j] = f /\ (j <= d.i => \E a \in DOMAIN d.called : d.called[a] = f)
    BY DEF Ahead
  <2>1. f.src = c.src /\ f.ev = c.ev
    BY DEF Publication, Ahead
  <2>2. PICK j \in DOMAIN l :
               l[j] = f /\ (j <= c.i => \E a \in DOMAIN c.called : c.called[a] = f)
    BY DEF Publication, Ahead
  <2>3. CASE j <= c.i
    BY <1>3, <2>1, <2>2, <2>3
  <2>4. CASE j = c.i + 1
    BY <1>3, <2>1, <2>2, <2>4 DEF e
  <2> QED BY <1>1, <2>1, <2>2, <2>3, <2>4
<1>6. Once(d)
  <2>1. ASSUME NEW a \in 1..n, c.called[a] \in c.kept
        PROVE  c.called[a] # e
    <3>1. PICK j \in DOMAIN l : j <= c.i /\ l[j] = c.called[a]
      BY <1>3, <2>1 DEF Publication, Seen
    <3>2. j # c.i + 1 /\ c.i + 1 \in DOMAIN l
      BY <1>1, <3>1
    <3>3. l[j] # l[c.i + 1]
      BY <3>1, <3>2 DEF IsInjective
    <3> QED BY <3>1, <3>3 DEF e
  <2> QED BY <1>3, <2>1 DEF Publication, Once
<1> QED BY <1>4, <1>5, <1>6 DEF Publication

(* The record of a publication that enters a callback. *)
Entered(c, e) == [c EXCEPT !.i = c.i + 1, !.inCallback = TRUE, !.called = Append(@, e)]

(* The record that enters a callback is a publication with one more entry called. *)
LEMMA EnteredCall ==
    ASSUME NEW c \in TriggerCall, NEW e \in Subscription
    PROVE  /\ Entered(c, e) \in TriggerCall /\ Entered(c, e).op = "TriggerEvent"
           /\ Entered(c, e).i = c.i + 1 /\ Entered(c, e).called = Append(c.called, e)
           /\ Entered(c, e).kept = c.kept /\ Entered(c, e).intact = c.intact
           /\ Entered(c, e).src = c.src /\ Entered(c, e).ev = c.ev
<1> DEFINE s == Append(c.called, e)
<1>1. s \in Seq(Subscription) /\ c.i + 1 \in Nat
  BY DEF TriggerCall
<1>2. Entered(c, e) = [c EXCEPT !.i = c.i + 1, !.inCallback = TRUE, !.called = s]
  BY DEF Entered
<1> HIDE DEF s
<1> DEFINE d == [c EXCEPT !.i = c.i + 1, !.inCallback = TRUE, !.called = s]
<1>3. /\ d \in TriggerCall /\ d.op = "TriggerEvent" /\ d.i = c.i + 1 /\ d.called = s
      /\ d.kept = c.kept /\ d.intact = c.intact /\ d.src = c.src /\ d.ev = c.ev
  BY <1>1 DEF TriggerCall
<1> HIDE DEF d
<1> QED BY <1>2, <1>3 DEF s, d

(* Coming back from a callback changes nothing it speaks of. *)
LEMMA PublicationGoesOn ==
    ASSUME NEW c \in TriggerCall, NEW l, Publication(c, l)
    PROVE  /\ Publication([c EXCEPT !.inCallback = FALSE], l)
           /\ [c EXCEPT !.inCallback = FALSE] \in TriggerCall
BY DEF TriggerCall, Publication, Seen, Ahead, Once

-----------------------------------------------------------------------------
(* The steps of the module. *)

(* The innermost activation is one of the two kinds. *)
LEMMA TopCall ==
    ASSUME TypeOK, calls # <<>>
    PROVE  /\ Top = calls[Len(calls)] /\ Len(calls) \in Nat \ {0}
           /\ DOMAIN calls = 1..Len(calls) /\ Len(calls) \in DOMAIN calls
           /\ \A c \in DOMAIN calls : calls[c] \in Call
           /\ Top \in Call
           /\ Top.op = "TriggerEvent" => Top \in TriggerCall
           /\ Top.op = "Unsubscribe" => Top \in UnsubscribeCall
<1>1. /\ Len(calls) \in Nat \ {0} /\ DOMAIN calls = 1..Len(calls)
      /\ \A c \in DOMAIN calls : calls[c] \in Call
  BY EmptySeq, LenProperties, ElementOfSeq DEF TypeOK, Call
<1>2. Top = calls[Len(calls)] /\ Len(calls) \in DOMAIN calls
  BY <1>1 DEF Top, Last
<1> QED BY <1>1, <1>2 DEF Call, UnsubscribeCall, TriggerCall

(* Where another script calls, no Unsubscribe is under way. *)
LEMMA CallersPublish ==
    ASSUME Inv, CallerRuns
    PROVE  \A c \in DOMAIN calls : calls[c].op = "TriggerEvent" /\ calls[c] \in TriggerCall
<1>1. CASE calls = <<>>
  BY <1>1
<1>2. CASE calls # <<>>
  <2>1. Top.op = "TriggerEvent"
    BY <1>2 DEF CallerRuns, Running
  <2>2. \A c \in DOMAIN calls : calls[c].op = "TriggerEvent"
    BY <1>2, <2>1, TopCall DEF Inv, Activations, Outer
  <2> QED BY <1>2, <2>2, TopCall DEF Inv, Call, UnsubscribeCall, TriggerCall
<1> QED BY <1>1, <1>2

(* A new activation on top of publications. *)
LEMMA CallBegins ==
    ASSUME Inv, CallerRuns, NEW f \in Call, calls' = Append(calls, f), UNCHANGED list,
           f.op = "TriggerEvent" => Publication(f, list),
           f.op = "Unsubscribe" => Scanned(f, list)
    PROVE  Inv'
<1>1. calls \in Seq(Call)
  BY DEF Inv, TypeOK, Call
<1>2. /\ calls' \in Seq(Call) /\ Len(calls') = Len(calls) + 1 /\ Len(calls) \in Nat
      /\ DOMAIN calls = 1..Len(calls) /\ DOMAIN calls' = 1..(Len(calls) + 1)
      /\ calls'[Len(calls) + 1] = f
      /\ \A c \in 1..Len(calls) : calls'[c] = calls[c]
  BY <1>1, AppendProperties, LenProperties
<1>3. ASSUME NEW c \in DOMAIN calls'
      PROVE  /\ Outer(c)'
             /\ (calls[c].op = "TriggerEvent" => Publication(calls[c], list))'
             /\ (calls[c].op = "Unsubscribe" => Scanned(calls[c], list))'
  <2>1. CASE c = Len(calls) + 1
    BY <1>2, <2>1 DEF Outer
  <2>2. CASE c \in 1..Len(calls)
    BY <1>2, <2>2, CallersPublish DEF Inv, Activations, Outer
  <2> QED BY <1>2, <2>1, <2>2
<1>4. TypeOK' /\ NoDuplicates'
  BY <1>2 DEF Inv, TypeOK, NoDuplicates, Call
<1> QED BY <1>3, <1>4 DEF Inv, Activations

(* The innermost activation goes on. *)
LEMMA CallAdvances ==
    ASSUME Inv, calls # <<>>, NEW f \in Call, SetTop(f), UNCHANGED list,
           f.op = "TriggerEvent" => Publication(f, list),
           f.op = "Unsubscribe" => Scanned(f, list)
    PROVE  Inv'
<1>1. calls \in Seq(Call)
  BY DEF Inv, TypeOK, Call
<1>2. /\ calls' \in Seq(Call) /\ Len(calls') = Len(calls) /\ Len(calls) \in Nat \ {0}
      /\ calls'[Len(calls)] = f
      /\ \A c \in 1..(Len(calls) - 1) : calls'[c] = calls[c]
  BY <1>1, ReplaceTop DEF SetTop
<1>3. DOMAIN calls = 1..Len(calls) /\ DOMAIN calls' = 1..Len(calls)
  BY <1>1, <1>2, LenProperties
<1>4. ASSUME NEW c \in DOMAIN calls'
      PROVE  /\ Outer(c)'
             /\ (calls[c].op = "TriggerEvent" => Publication(calls[c], list))'
             /\ (calls[c].op = "Unsubscribe" => Scanned(calls[c], list))'
  <2>1. CASE c = Len(calls)
    BY <1>2, <2>1 DEF Outer
  <2>2. CASE c \in 1..(Len(calls) - 1)
    BY <1>2, <1>3, <2>2 DEF Inv, Activations, Outer
  <2> QED BY <1>2, <1>3, <2>1, <2>2
<1>5. TypeOK' /\ NoDuplicates'
  BY <1>2 DEF Inv, TypeOK, NoDuplicates, Call
<1> QED BY <1>4, <1>5 DEF Inv, Activations

(* The innermost activation returns. *)
LEMMA CallEnds ==
    ASSUME Inv, calls # <<>>, Return, UNCHANGED list
    PROVE  Inv'
<1>1. calls \in Seq(Call)
  BY DEF Inv, TypeOK, Call
<1>2. /\ calls' \in Seq(Call) /\ Len(calls') = Len(calls) - 1 /\ Len(calls) \in Nat \ {0}
      /\ \A c \in 1..(Len(calls) - 1) : calls'[c] = calls[c]
  BY <1>1, PopTop DEF Return
<1>3. DOMAIN calls = 1..Len(calls) /\ DOMAIN calls' = 1..(Len(calls) - 1)
  BY <1>1, <1>2, LenProperties
<1>4. ASSUME NEW c \in DOMAIN calls'
      PROVE  /\ Outer(c)'
             /\ (calls[c].op = "TriggerEvent" => Publication(calls[c], list))'
             /\ (calls[c].op = "Unsubscribe" => Scanned(calls[c], list))'
  BY <1>2, <1>3 DEF Inv, Activations, Outer
<1>5. TypeOK' /\ NoDuplicates'
  BY <1>2 DEF Inv, TypeOK, NoDuplicates, Call
<1> QED BY <1>4, <1>5 DEF Inv, Activations

(* Unsubscribe takes the entry at its index out of the list. *)
LEMMA EntryRemoved ==
    ASSUME Inv, Running("Unsubscribe"), Top.i + 1 <= Len(list), list[Top.i + 1] = Top.key,
           list' = RemoveAt(list, Top.i + 1),
           calls' = [k \in DOMAIN calls |->
                       IF k = Len(calls) THEN [calls[k] EXCEPT !.i = Top.i + 1]
                                         ELSE Forget(calls[k], Top.key)]
    PROVE  Inv'
<1> DEFINE p == Top.i + 1
           n == Len(calls)
           f == [Top EXCEPT !.i = p]
<1>1. /\ calls # <<>> /\ Top = calls[n] /\ n \in Nat \ {0} /\ DOMAIN calls = 1..n
      /\ Top \in UnsubscribeCall
  BY TopCall DEF Running, Inv
<1>2. list \in Seq(Subscription) /\ IsInjective(list) /\ p \in 1..Len(list) /\ Len(list) \in Nat
  BY <1>1 DEF Inv, TypeOK, NoDuplicates, UnsubscribeCall
<1>3. /\ list' \in Seq(Subscription) /\ IsInjective(list')
      /\ Len(list') = Len(list) - 1
      /\ \A k \in 1..(Len(list) - 1) : list'[k] # Top.key
  BY <1>2, RemoveAtProperties, RemoveAtInjective
<1>4. DOMAIN list' = 1..(Len(list) - 1)
  BY <1>3, LenProperties
<1>5. /\ calls'[n] \in UnsubscribeCall
      /\ calls'[n].op = "Unsubscribe" /\ calls'[n].key = Top.key
  <2>1. f \in UnsubscribeCall /\ f.op = "Unsubscribe" /\ f.key = Top.key
    BY <1>1, <1>2 DEF UnsubscribeCall
  <2>2. calls'[n] = f
    BY <1>1
  <2> QED BY <2>1, <2>2
<1>6. ASSUME NEW c \in 1..(n - 1)
      PROVE  /\ calls'[c] \in TriggerCall /\ calls'[c].op = "TriggerEvent"
             /\ Publication(calls'[c], list')
  <2>1. calls[c].op = "TriggerEvent" /\ Publication(calls[c], list) /\ calls[c] \in TriggerCall
    BY <1>1, TopCall DEF Inv, Activations, Outer, Call, UnsubscribeCall, TriggerCall
  <2>2. calls'[c] = Forget(calls[c], list[p])
    BY <1>1
  <2>3. Publication(calls'[c], list') /\ calls'[c] \in TriggerCall
    BY <1>2, <2>1, <2>2, PublicationShrinks
  <2> QED BY <2>3 DEF TriggerCall
<1>7. calls' \in Seq(Call) /\ DOMAIN calls' = 1..n /\ Len(calls') = n
  <2>1. ASSUME NEW c \in 1..n
        PROVE  calls'[c] \in Call
    <3>1. c = n \/ c \in 1..(n - 1)
      BY <1>1
    <3> QED BY <1>5, <1>6, <3>1 DEF Call
  <2>2. calls' \in [1..n -> Call]
    BY <1>1, <2>1
  <2> QED BY <1>1, <2>2, SeqDef, LenProperties
<1>8. ASSUME NEW c \in DOMAIN calls'
      PROVE  /\ Outer(c)'
             /\ (calls[c].op = "TriggerEvent" => Publication(calls[c], list))'
             /\ (calls[c].op = "Unsubscribe" => Scanned(calls[c], list))'
  <2>1. CASE c = n
    <3>1. (calls[c].op = "Unsubscribe" => Scanned(calls[c], list))'
      BY <1>3, <1>4, <1>5, <2>1 DEF Scanned
    <3>2. calls'[c].op # "TriggerEvent" /\ ~(c < Len(calls'))
      BY <1>1, <1>5, <1>7, <2>1
    <3> QED BY <3>1, <3>2 DEF Outer
  <2>2. CASE c \in 1..(n - 1)
    BY <1>6, <1>7, <2>2 DEF Outer
  <2> QED BY <1>1, <1>7, <2>1, <2>2
<1>9. TypeOK' /\ NoDuplicates'
  BY <1>3, <1>7 DEF TypeOK, NoDuplicates, Call
<1> QED BY <1>8, <1>9 DEF Inv, Activations

(* The inductive invariant holds of the empty list. *)
LEMMA InvInit == Init => Inv
BY DEF Init, Inv, TypeOK, NoDuplicates, Activations, IsInjective

(* Every step of the module keeps the inductive invariant. *)
LEMMA InvStep == Inv /\ [Next]_vars => Inv'
<1> SUFFICES ASSUME Inv, [Next]_vars PROVE Inv'
  OBVIOUS
<1>0. TypeOK /\ list \in Seq(Subscription) /\ IsInjective(list)
  BY DEF Inv, TypeOK, NoDuplicates
<1>1. ASSUME NEW e \in Subscription, Subscribe(e)
      PROVE  Inv'
  <2>1. list' \in Seq(Subscription) /\ IsInjective(list') /\ calls' = calls
    BY <1>0, <1>1, SubscribedProperties DEF Subscribe
  <2>2. ASSUME NEW c \in DOMAIN calls
        PROVE  calls[c].op = "TriggerEvent" /\ Publication(calls[c], list')
    BY <1>0, <1>1, CallersPublish, PublicationGrows DEF Subscribe, Inv, Activations
  <2> QED BY <1>0, <2>1, <2>2 DEF Inv, TypeOK, NoDuplicates, Activations, Outer
<1>2. ASSUME NEW e \in Subscription, Unsubscribe(e)
      PROVE  Inv'
  <2> DEFINE f == [op |-> "Unsubscribe", key |-> e, i |-> 0]
  <2>1. f \in Call /\ f.op = "Unsubscribe" /\ Scanned(f, list)
    BY <1>0, LenProperties DEF Call, UnsubscribeCall, Scanned
  <2> QED BY <1>2, <2>1, CallBegins DEF Unsubscribe
<1>3. ASSUME NEW src \in Sources, NEW ev \in Events, TriggerEvent(src, ev)
      PROVE  Inv'
  <2> DEFINE f == [op |-> "TriggerEvent", src |-> src, ev |-> ev, i |-> 0,
                   inCallback |-> FALSE, called |-> <<>>, intact |-> TRUE,
                   kept |-> {e \in ToSet(list) : e.src = src /\ e.ev = ev}]
  <2>1. ToSet(list) \subseteq Subscription
    BY <1>0, ElementOfSeq, LenProperties DEF ToSet
  <2>2. f \in TriggerCall
    BY <2>1 DEF TriggerCall
  <2>3. Publication(f, list)
    BY <1>0, <2>2, PublicationBegins
  <2>4. CallerRuns /\ calls' = Append(calls, f) /\ UNCHANGED list
    BY <1>3 DEF TriggerEvent
  <2>5. f \in Call /\ f.op = "TriggerEvent"
    BY <2>2 DEF Call
  <2> HIDE DEF f
  <2> QED BY <2>3, <2>4, <2>5, CallBegins
<1>4. CASE UnsubscribeVisit
  <2>1. /\ calls # <<>> /\ Top \in UnsubscribeCall /\ Top.op = "Unsubscribe"
        /\ Scanned(Top, list) /\ Top.i \in Nat
    BY <1>4, TopCall DEF UnsubscribeVisit, Running, Inv, Activations, UnsubscribeCall
  <2>2. CASE Top.i + 1 > Len(list)
    BY <1>4, <2>1, <2>2, CallEnds DEF UnsubscribeVisit
  <2>3. CASE Top.i + 1 <= Len(list) /\ list[Top.i + 1] = Top.key
    BY <1>0, <1>4, <2>1, <2>3, EntryRemoved DEF UnsubscribeVisit
  <2>4. CASE Top.i + 1 <= Len(list) /\ list[Top.i + 1] # Top.key
    <3> DEFINE f == [Top EXCEPT !.i = Top.i + 1]
    <3>1. f \in Call /\ f.op = "Unsubscribe" /\ f.i = Top.i + 1 /\ f.key = Top.key
      BY <2>1 DEF Call, UnsubscribeCall
    <3>2. SetTop(f) /\ UNCHANGED list
      BY <1>0, <1>4, <2>1, <2>4 DEF UnsubscribeVisit
    <3> HIDE DEF f
    <3>3. Scanned(f, list)
      BY <1>0, <2>1, <2>4, <3>1, LenProperties DEF Scanned
    <3> QED BY <2>1, <3>1, <3>2, <3>3, CallAdvances
  <2> QED BY <1>0, <2>1, <2>2, <2>3, <2>4
<1>5. CASE TriggerVisit
  <2>1. /\ calls # <<>> /\ Top \in TriggerCall /\ Top.op = "TriggerEvent"
        /\ Publication(Top, list) /\ Top.i \in Nat /\ Len(list) \in Nat
    BY <1>0, <1>5, TopCall DEF TriggerVisit, Running, Inv, Activations, TriggerCall
  <2>2. CASE Top.i + 1 > Len(list)
    BY <1>5, <2>1, <2>2, CallEnds DEF TriggerVisit
  <2>3. CASE /\ Top.i + 1 <= Len(list)
             /\ list[Top.i + 1].src = Top.src /\ list[Top.i + 1].ev = Top.ev
    <3> DEFINE f == Entered(Top, list[Top.i + 1])
    <3>1. list[Top.i + 1] \in Subscription
      BY <1>0, <2>1, <2>3, ElementOfSeq
    <3>2. /\ f \in TriggerCall /\ f.op = "TriggerEvent"
          /\ f.i = Top.i + 1 /\ f.called = Append(Top.called, list[Top.i + 1])
          /\ f.kept = Top.kept /\ f.intact = Top.intact /\ f.src = Top.src /\ f.ev = Top.ev
      BY <2>1, <3>1, EnteredCall
    <3>3. SetTop(f) /\ UNCHANGED list
      BY <1>5, <2>1, <2>3 DEF TriggerVisit, Entered
    <3> HIDE DEF f
    <3>4. Publication(f, list)
      BY <1>0, <2>1, <2>3, <3>2, PublicationCalls
    <3> QED BY <2>1, <3>2, <3>3, <3>4, CallAdvances DEF Call
  <2>4. CASE /\ Top.i + 1 <= Len(list)
             /\ ~(list[Top.i + 1].src = Top.src /\ list[Top.i + 1].ev = Top.ev)
    <3> DEFINE f == [Top EXCEPT !.i = Top.i + 1]
    <3>1. f \in TriggerCall /\ Publication(f, list)
      BY <1>0, <2>1, <2>4, PublicationSkips
    <3>2. SetTop(f) /\ UNCHANGED list
      BY <1>5, <2>1, <2>4 DEF TriggerVisit
    <3> HIDE DEF f
    <3> QED BY <2>1, <3>1, <3>2, CallAdvances DEF Call, TriggerCall
  <2> QED BY <2>1, <2>2, <2>3, <2>4
<1>6. CASE CallbackReturns
  <2> DEFINE f == [Top EXCEPT !.inCallback = FALSE]
  <2>1. /\ calls # <<>> /\ Top \in TriggerCall /\ Publication(Top, list)
    BY <1>0, <1>6, TopCall DEF CallbackReturns, Running, Inv, Activations
  <2>2. f \in TriggerCall /\ Publication(f, list)
    BY <2>1, PublicationGoesOn
  <2>3. SetTop(f) /\ UNCHANGED list
    BY <1>6 DEF CallbackReturns
  <2> HIDE DEF f
  <2> QED BY <2>1, <2>2, <2>3, CallAdvances DEF Call, TriggerCall
<1>7. CASE UNCHANGED vars
  BY <1>7 DEF vars, Inv, TypeOK, NoDuplicates, Activations, Outer
<1> QED BY <1>1, <1>2, <1>3, <1>4, <1>5, <1>6, <1>7 DEF Next

(* The inductive invariant holds always. *)
LEMMA Invariant == Spec => []Inv
BY InvInit, InvStep, PTL DEF Spec

-----------------------------------------------------------------------------
(* The list and the activations keep their types. *)
THEOREM TypeCorrect == Spec => []TypeOK
BY Invariant, PTL DEF Inv

(* No subscription is ever held twice. *)
THEOREM NeverSubscribedTwice == Spec => []NoDuplicates
BY Invariant, PTL DEF Inv

(* A subscription not removed meanwhile is called at most once for one     *)
(* publication, at any depth of nesting.                                   *)
THEOREM NeverCalledTwice == Spec => []CalledOnce
<1>1. Inv => CalledOnce
  BY DEF Inv, Activations, Publication, Once, CalledOnce
<1> QED BY <1>1, Invariant, PTL

(* What Unsubscribe was asked to remove is gone when it returns, although  *)
(* its loop skips the entry after each one it removes.                     *)
THEOREM UnsubscribeIsEffective == Spec => UnsubscribeRemoves
<1>1. ASSUME Inv, [Next]_vars, Running("Unsubscribe"), Len(calls') < Len(calls)
      PROVE  ~IsSubscribing(list', Top.key)
  <2>1. /\ calls # <<>> /\ Top \in UnsubscribeCall /\ Top.op = "Unsubscribe"
        /\ Scanned(Top, list) /\ Top.i \in Nat
        /\ list \in Seq(Subscription) /\ calls \in Seq(Call) /\ Len(calls) \in Nat \ {0}
    BY <1>1, TopCall DEF Running, Inv, TypeOK, Activations, UnsubscribeCall, Call
  <2>2. CASE Top.i + 1 > Len(list) /\ UNCHANGED list
    BY <2>1, <2>2, LenProperties DEF Scanned, IsSubscribing, Contains
  <2>3. CASE UnsubscribeVisit
    <3>1. \A f : SetTop(f) => Len(calls') = Len(calls)
      <4>1. SUFFICES ASSUME NEW f, SetTop(f) PROVE Len(calls') = Len(calls)
        OBVIOUS
      <4>2. calls \in Seq(Call \cup {f})
        BY <2>1, SeqDef
      <4> QED BY <2>1, <4>1, <4>2, ReplaceTop DEF SetTop
    <3> QED BY <1>1, <2>1, <2>2, <2>3, <3>1 DEF UnsubscribeVisit
  <2>4. CASE ~UnsubscribeVisit
    <3>1. ~CallerRuns /\ ~TriggerVisit /\ ~CallbackReturns
      BY <2>1 DEF CallerRuns, Running, TriggerVisit, CallbackReturns
    <3>2. UNCHANGED vars
      BY <1>1, <2>4, <3>1 DEF Next, Subscribe, Unsubscribe, TriggerEvent
    <3> QED BY <1>1, <2>1, <3>2 DEF vars
  <2> QED BY <2>3, <2>4
<1>2. Inv /\ [Next]_vars =>
         [Running("Unsubscribe") /\ Len(calls') < Len(calls) => ~IsSubscribing(list', Top.key)]_vars
  BY <1>1
<1> QED BY <1>2, Invariant, PTL DEF Spec, UnsubscribeRemoves

(* If no callback removes a subscription, every subscriber of the first    *)
(* moment has been called when TriggerEvent returns.                       *)
THEOREM PublicationIsComplete == Spec => PublicationComplete
<1>1. ASSUME Inv, [Next]_vars, Running("TriggerEvent"), Len(calls') < Len(calls), Top.intact
      PROVE  Top.kept \subseteq ToSet(Top.called)
  <2>1. /\ calls # <<>> /\ Top \in TriggerCall /\ Top.op = "TriggerEvent"
        /\ Publication(Top, list) /\ Top.i \in Nat
        /\ list \in Seq(Subscription) /\ calls \in Seq(Call) /\ Len(calls) \in Nat \ {0}
    BY <1>1, TopCall DEF Running, Inv, TypeOK, Activations, TriggerCall, Call
  <2>2. ASSUME NEW f
        PROVE  ~SetTop(f)
    <3>1. calls \in Seq(Call \cup {f})
      BY <2>1, SeqDef
    <3> QED BY <1>1, <2>1, <3>1, ReplaceTop DEF SetTop
  <2>3. ASSUME NEW f
        PROVE  calls' # Append(calls, f)
    <3>1. calls \in Seq(Call \cup {f})
      BY <2>1, SeqDef
    <3> QED BY <1>1, <2>1, <3>1, AppendProperties
  <2>4. calls' # calls
    BY <1>1, <2>1
  <2>5. ~UnsubscribeVisit
    BY <2>1 DEF UnsubscribeVisit, Running
  <2>6. ~(\E e \in Subscription : Subscribe(e) \/ Unsubscribe(e))
    BY <2>3, <2>4 DEF Subscribe, Unsubscribe
  <2>7. ~(\E src \in Sources, ev \in Events : TriggerEvent(src, ev))
    BY <2>3 DEF TriggerEvent
  <2>8. ~CallbackReturns
    BY <2>2 DEF CallbackReturns
  <2>9. TriggerVisit
    BY <1>1, <2>4, <2>5, <2>6, <2>7, <2>8 DEF Next, vars
  <2>10. Top.i + 1 > Len(list)
    BY <1>1, <2>1, <2>2, <2>9 DEF TriggerVisit
  <2> QED BY <1>1, <2>1, <2>10, LenProperties DEF Publication, Ahead, ToSet
<1>2. Inv /\ [Next]_vars =>
         [Running("TriggerEvent") /\ Len(calls') < Len(calls) /\ Top.intact
            => Top.kept \subseteq ToSet(Top.called)]_vars
  BY <1>1
<1> QED BY <1>2, Invariant, PTL DEF Spec, PublicationComplete
=============================================================================
