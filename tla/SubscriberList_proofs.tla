----------------------- MODULE SubscriberList_proofs -----------------------
(* What Subscribe and Unsubscribe do to a list without duplicates, and the *)
(* operations on a sequence kept as a stack.                               *)
EXTENDS SubscriberList, SequenceTheorems, TLAPS

(* table.remove(t, i): the entries after i move up one place. *)
LEMMA RemoveAtProperties ==
    ASSUME NEW S, NEW s \in Seq(S), NEW i \in 1..Len(s)
    PROVE  /\ RemoveAt(s, i) \in Seq(S)
           /\ Len(RemoveAt(s, i)) = Len(s) - 1
           /\ \A k \in 1..(Len(s) - 1) :
                 RemoveAt(s, i)[k] = IF k < i THEN s[k] ELSE s[k + 1]
<1> DEFINE a == SubSeq(s, 1, i - 1)
           b == SubSeq(s, i + 1, Len(s))
<1>0. Len(s) \in Nat /\ i \in Int /\ \A j \in 1..Len(s) : s[j] \in S
  BY ElementOfSeq
<1>1. /\ a \in Seq(S) /\ Len(a) = i - 1
      /\ \A k \in 1..(i - 1) : a[k] = s[k]
  <2>1. \A j \in 1..(i - 1) : s[j] \in S
    BY <1>0
  <2>2. /\ a \in Seq(S)
        /\ Len(a) = IF 1 <= i - 1 THEN (i - 1) - 1 + 1 ELSE 0
        /\ \A k \in 1..((i - 1) - 1 + 1) : a[k] = s[1 + k - 1]
    BY <1>0, <2>1, SubSeqProperties
  <2> QED BY <1>0, <2>2
<1>2. /\ b \in Seq(S) /\ Len(b) = Len(s) - i
      /\ \A k \in 1..(Len(s) - i) : b[k] = s[i + k]
  <2>1. \A j \in (i + 1)..Len(s) : s[j] \in S
    BY <1>0
  <2>2. /\ b \in Seq(S)
        /\ Len(b) = IF i + 1 <= Len(s) THEN Len(s) - (i + 1) + 1 ELSE 0
        /\ \A k \in 1..(Len(s) - (i + 1) + 1) : b[k] = s[(i + 1) + k - 1]
    BY <1>0, <2>1, SubSeqProperties
  <2> QED BY <1>0, <2>2
<1>3. RemoveAt(s, i) = a \o b
  BY DEF RemoveAt
<1> HIDE DEF a, b
<1>4. /\ a \o b \in Seq(S)
      /\ Len(a \o b) = Len(a) + Len(b)
      /\ \A k \in 1..(Len(a) + Len(b)) :
            (a \o b)[k] = IF k <= Len(a) THEN a[k] ELSE b[k - Len(a)]
  BY <1>1, <1>2, ConcatProperties
<1> DEFINE r == a \o b
<1>4a. /\ r \in Seq(S) /\ Len(r) = Len(s) - 1
       /\ \A k \in 1..(Len(s) - 1) : r[k] = IF k <= i - 1 THEN a[k] ELSE b[k - (i - 1)]
  BY <1>0, <1>1, <1>2, <1>4
<1> HIDE DEF r
<1>5. ASSUME NEW k \in 1..(Len(s) - 1)
      PROVE  r[k] = IF k < i THEN s[k] ELSE s[k + 1]
  <2>0. r[k] = IF k <= i - 1 THEN a[k] ELSE b[k - (i - 1)]
    BY <1>4a
  <2>1. CASE k < i
    BY <1>0, <1>1, <2>0, <2>1
  <2>2. CASE ~(k < i)
    <3>1. k - (i - 1) \in 1..(Len(s) - i) /\ i + (k - (i - 1)) = k + 1
      BY <1>0, <2>2
    <3>2. r[k] = b[k - (i - 1)]
      BY <1>0, <2>0, <2>2
    <3> QED BY <1>2, <2>2, <3>1, <3>2
  <2> QED BY <2>1, <2>2
<1> QED BY <1>3, <1>4a, <1>5 DEF r

(* Removal keeps a list free of duplicates, and takes out what stood at i. *)
LEMMA RemoveAtInjective ==
    ASSUME NEW S, NEW s \in Seq(S), NEW i \in 1..Len(s), IsInjective(s)
    PROVE  /\ IsInjective(RemoveAt(s, i))
           /\ \A k \in 1..(Len(s) - 1) : RemoveAt(s, i)[k] # s[i]
<1> DEFINE r == RemoveAt(s, i)
<1>1. /\ r \in Seq(S) /\ Len(r) = Len(s) - 1 /\ Len(s) \in Nat
      /\ \A k \in 1..(Len(s) - 1) : r[k] = IF k < i THEN s[k] ELSE s[k + 1]
  BY RemoveAtProperties
<1>2. DOMAIN s = 1..Len(s) /\ DOMAIN r = 1..(Len(s) - 1)
  BY <1>1, LenProperties
<1>3. \A a, b \in 1..Len(s) : s[a] = s[b] => a = b
  BY <1>2 DEF IsInjective
<1> HIDE DEF r
<1>4. ASSUME NEW a \in DOMAIN r, NEW b \in DOMAIN r, r[a] = r[b]
      PROVE  a = b
  BY <1>1, <1>2, <1>3, <1>4
<1>5. ASSUME NEW k \in 1..(Len(s) - 1)
      PROVE  r[k] # s[i]
  BY <1>1, <1>3, <1>5
<1> QED BY <1>4, <1>5 DEF r, IsInjective

(* Subscribe: the entry is there afterwards, and the list keeps its type   *)
(* and stays free of duplicates.                                           *)
LEMMA SubscribedProperties ==
    ASSUME NEW S, NEW s \in Seq(S), NEW e \in S, IsInjective(s)
    PROVE  /\ Subscribed(s, e) \in Seq(S)
           /\ IsInjective(Subscribed(s, e))
           /\ IsSubscribing(Subscribed(s, e), e)
<1>1. CASE IsSubscribing(s, e)
  BY <1>1 DEF Subscribed
<1>2. CASE ~IsSubscribing(s, e)
  <2> DEFINE r == Append(s, e)
  <2>1. /\ r \in Seq(S) /\ Len(r) = Len(s) + 1 /\ Len(s) \in Nat
        /\ \A k \in 1..Len(s) : r[k] = s[k]
        /\ r[Len(s) + 1] = e
    OBVIOUS
  <2>2. DOMAIN s = 1..Len(s) /\ DOMAIN r = 1..(Len(s) + 1)
    BY <2>1, LenProperties
  <2>3. \A k \in 1..Len(s) : s[k] # e
    BY <1>2 DEF IsSubscribing, Contains
  <2> HIDE DEF r
  <2>4. \A a, b \in 1..Len(s) : s[a] = s[b] => a = b
    BY <2>2 DEF IsInjective
  <2>5. \A a, b \in DOMAIN r : r[a] = r[b] => a = b
    BY <2>1, <2>2, <2>3, <2>4
  <2>6. IsSubscribing(r, e)
    BY <2>1 DEF IsSubscribing, Contains
  <2>7. Subscribed(s, e) = r
    BY <1>2 DEF Subscribed, r
  <2> QED BY <2>1, <2>5, <2>6, <2>7 DEF IsInjective
<1> QED BY <1>1, <1>2

(* Unsubscribe: the entry is gone afterwards. *)
LEMMA UnsubscribedProperties ==
    ASSUME NEW S, NEW s \in Seq(S), NEW e \in S, IsInjective(s)
    PROVE  /\ Unsubscribed(s, e) \in Seq(S)
           /\ IsInjective(Unsubscribed(s, e))
           /\ ~IsSubscribing(Unsubscribed(s, e), e)
<1>1. CASE ~IsSubscribing(s, e)
  BY <1>1 DEF Unsubscribed
<1>2. CASE IsSubscribing(s, e)
  <2> DEFINE i == PositionOf(s, e)
  <2>0. DOMAIN s = 1..Len(s)
    BY LenProperties
  <2>1. \E k \in DOMAIN s : s[k] = e
    BY <1>2, <2>0 DEF IsSubscribing, Contains
  <2>2. i \in 1..Len(s) /\ s[i] = e
    BY <2>0, <2>1 DEF PositionOf
  <2> HIDE DEF i
  <2>3. /\ RemoveAt(s, i) \in Seq(S) /\ Len(RemoveAt(s, i)) = Len(s) - 1
        /\ IsInjective(RemoveAt(s, i))
        /\ \A k \in 1..(Len(s) - 1) : RemoveAt(s, i)[k] # e
    BY <2>2, RemoveAtProperties, RemoveAtInjective
  <2>4. Unsubscribed(s, e) = RemoveAt(s, i)
    BY <1>2 DEF Unsubscribed, i
  <2> QED BY <2>3, <2>4 DEF IsSubscribing, Contains
<1> QED BY <1>1, <1>2

-----------------------------------------------------------------------------
(* The three operations on a stack kept as a sequence, innermost last. *)

(* A goto: the innermost frame changes, the others stay. *)
LEMMA ReplaceTop ==
    ASSUME NEW S, NEW s \in Seq(S), s # <<>>, NEW f \in S
    PROVE  LET t == [s EXCEPT ![Len(s)] = f] IN
           /\ t \in Seq(S) /\ Len(t) = Len(s) /\ t # <<>>
           /\ Len(s) \in Nat \ {0} /\ t[Len(s)] = f
           /\ \A k \in 1..(Len(s) - 1) : t[k] = s[k]
<1>1. Len(s) \in Nat \ {0}
  BY EmptySeq
<1>2. Len(s) \in 1..Len(s)
  BY <1>1
<1> DEFINE t == [s EXCEPT ![Len(s)] = f]
<1>3. /\ t \in Seq(S) /\ Len(t) = Len(s)
      /\ \A j \in 1..Len(s) : t[j] = IF j = Len(s) THEN f ELSE s[j]
  BY <1>2, ExceptSeq
<1> HIDE DEF t
<1>4. t # <<>>
  BY <1>1, <1>3, EmptySeq
<1>5. /\ t \in Seq(S) /\ Len(t) = Len(s) /\ t # <<>>
      /\ Len(s) \in Nat \ {0} /\ t[Len(s)] = f
      /\ \A k \in 1..(Len(s) - 1) : t[k] = s[k]
  BY <1>1, <1>2, <1>3, <1>4
<1> QED BY <1>5 DEF t

(* A call: the caller's frame changes and the callee's comes on top. *)
LEMMA PushOnTop ==
    ASSUME NEW S, NEW s \in Seq(S), s # <<>>, NEW f \in S, NEW g \in S
    PROVE  LET t == Append([s EXCEPT ![Len(s)] = f], g) IN
           /\ t \in Seq(S) /\ Len(t) = Len(s) + 1 /\ Len(s) \in Nat \ {0}
           /\ t[Len(s) + 1] = g /\ t[Len(s)] = f
           /\ \A k \in 1..(Len(s) - 1) : t[k] = s[k]
<1> DEFINE r == [s EXCEPT ![Len(s)] = f]
<1>1. /\ r \in Seq(S) /\ Len(r) = Len(s) /\ Len(s) \in Nat \ {0}
      /\ r[Len(s)] = f /\ \A k \in 1..(Len(s) - 1) : r[k] = s[k]
  BY ReplaceTop
<1> HIDE DEF r
<1> DEFINE t == Append(r, g)
<1>2. /\ t \in Seq(S) /\ Len(t) = Len(r) + 1 /\ t[Len(r) + 1] = g
      /\ \A k \in 1..Len(r) : t[k] = r[k]
  BY <1>1
<1> HIDE DEF t
<1>3. /\ t \in Seq(S) /\ Len(t) = Len(s) + 1 /\ Len(s) \in Nat \ {0}
      /\ t[Len(s) + 1] = g /\ t[Len(s)] = f
      /\ \A k \in 1..(Len(s) - 1) : t[k] = s[k]
  BY <1>1, <1>2
<1> QED BY <1>3 DEF t, r

(* A return: the innermost frame goes, the others stay. *)
LEMMA PopTop ==
    ASSUME NEW S, NEW s \in Seq(S), s # <<>>
    PROVE  /\ Front(s) \in Seq(S) /\ Len(Front(s)) = Len(s) - 1
           /\ Len(s) \in Nat \ {0}
           /\ \A k \in 1..(Len(s) - 1) : Front(s)[k] = s[k]
<1> DEFINE n == Len(s) - 1
           r == SubSeq(s, 1, n)
<1>1. n \in Nat /\ Len(s) = n + 1 /\ Len(s) \in Nat \ {0}
  BY EmptySeq
<1>2. \A k \in 1..n : s[k] \in S
  BY ElementOfSeq
<1>3. Front(s) = r
  BY DEF Front
<1> HIDE DEF n
<1>4. /\ r \in Seq(S)
      /\ Len(r) = IF 1 <= n THEN n - 1 + 1 ELSE 0
      /\ \A k \in 1..(n - 1 + 1) : r[k] = s[1 + k - 1]
  BY <1>1, <1>2, SubSeqProperties
<1> HIDE DEF r
<1>5. Len(r) = n
  BY <1>1, <1>4
<1>6. ASSUME NEW k \in 1..n
      PROVE  r[k] = s[k]
  <2>1. k \in 1..(n - 1 + 1) /\ 1 + k - 1 = k
    BY <1>1
  <2>2. r[k] = s[1 + k - 1]
    BY <1>4, <2>1
  <2> QED BY <2>1, <2>2
<1> QED BY <1>1, <1>3, <1>4, <1>5, <1>6 DEF n
=============================================================================
