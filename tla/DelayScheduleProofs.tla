------------------------ MODULE DelayScheduleProofs ------------------------
(***************************************************************************)
(* What DelaySchedule guarantees for every set of delays, proved.          *)
(***************************************************************************)
EXTENDS DelaySchedule, SequenceTheorems, TLAPS

-----------------------------------------------------------------------------
\* What an insertion does: the length grows by one, the item is at position i,
\* what was before it stays and what was behind it moves up.
LEMMA InsertAtLemma ==
    ASSUME NEW T, NEW s \in Seq(T), NEW e \in T, NEW i \in 1..(Len(s) + 1)
    PROVE  /\ InsertAt(s, i, e) \in Seq(T)
           /\ Len(InsertAt(s, i, e)) = Len(s) + 1
           /\ \A j \in 1..(Len(s) + 1) :
                InsertAt(s, i, e)[j] =
                  IF j < i THEN s[j] ELSE IF j = i THEN e ELSE s[j - 1]
  <1> DEFINE A == SubSeq(s, 1, i - 1)
             B == SubSeq(s, i, Len(s))
             AE == A \o <<e>>
  <1>0. Len(s) \in Nat /\ i \in Nat /\ i >= 1 /\ i <= Len(s) + 1
    OBVIOUS
  <1>1. A \in Seq(T) /\ Len(A) = i - 1 /\ \A j \in 1..(i - 1) : A[j] = s[j]
    OBVIOUS
  <1>2. /\ B \in Seq(T)
        /\ Len(B) = Len(s) + 1 - i
        /\ \A j \in 1..(Len(s) + 1 - i) : B[j] = s[j + i - 1]
    OBVIOUS
  <1>3. InsertAt(s, i, e) = AE \o B
    BY DEF InsertAt
  <1> HIDE DEF A, B
  <1>4. /\ AE \in Seq(T)
        /\ Len(AE) = i
        /\ \A j \in 1..i : AE[j] = IF j < i THEN s[j] ELSE e
    BY <1>1
  <1> HIDE DEF AE
  <1>5. /\ AE \o B \in Seq(T)
        /\ Len(AE \o B) = Len(s) + 1
        /\ \A j \in 1..(Len(s) + 1) : (AE \o B)[j] = IF j <= i THEN AE[j] ELSE B[j - i]
    <2>1. AE \o B \in Seq(T) /\ Len(AE \o B) = Len(AE) + Len(B)
      BY <1>2, <1>4, ConcatProperties, Zenon
    <2>2. \A j \in 1..(Len(AE) + Len(B)) :
            (AE \o B)[j] = IF j <= Len(AE) THEN AE[j] ELSE B[j - Len(AE)]
      BY <1>2, <1>4
    <2>3. Len(AE) + Len(B) = Len(s) + 1
      BY <1>0, <1>2, <1>4
    <2>4. QED BY <1>4, <2>1, <2>2, <2>3
  <1>6. ASSUME NEW j \in 1..(Len(s) + 1)
        PROVE  (AE \o B)[j] = IF j < i THEN s[j] ELSE IF j = i THEN e ELSE s[j - 1]
    <2>1. CASE j <= i
      BY <1>0, <2>1, <1>4, <1>5
    <2>2. CASE j > i
      <3>1. j - i \in 1..(Len(s) + 1 - i) /\ (j - i) + i - 1 = j - 1
        BY <1>0, <2>2
      <3>2. B[j - i] = s[j - 1]
        BY <1>2, <3>1
      <3>3. QED BY <1>0, <2>2, <3>2, <1>5
    <2>3. j <= i \/ j > i
      BY <1>0
    <2>4. QED BY <2>1, <2>2, <2>3, Zenon
  <1>7. QED BY <1>3, <1>5, <1>6

-----------------------------------------------------------------------------
(***************************************************************************)
(* The inductive invariant.  The list is not sorted, so that its order is  *)
(* of no help; what the loop does preserve is that no earlier annotation's *)
(* delay is outside of what the first and the last item span, and that     *)
(* once the loop has left the first item, that item is not after the one   *)
(* being inserted.                                                         *)
(***************************************************************************)

\* l holds delays of annotations of the pod and nothing else.
FromPod(l) ==
    \A i \in 1..Len(l) :
        l[i].key \in Annotated /\ l[i].delay = Delay(l[i].key)

\* The delays of the annotations before index j lie between l's ends.
Spans(l, j) ==
    \A i \in 1..3 : i < j /\ DelayAnnotations[i] \in Annotated =>
        /\ Len(l) >= 1
        /\ l[1].delay <= Delay(DelayAnnotations[i])
        /\ Delay(DelayAnnotations[i]) <= l[Len(l)].delay

IInv ==
    /\ TypeOK
    /\ FromPod(list)
    /\ Spans(list, k)
    /\ pc = "build" /\ cur > 1 => list[1].delay <= Item.delay
    /\ pc = "walk" => k = 4
    /\ pc = "walk" /\ cur > 1 => Elapsed(cur)
    /\ NeverEarly

\* An annotation of the pod is one of the three and has an integer delay.
LEMMA DelayLemma ==
    ASSUME TypeOK, NEW key \in Annotated
    PROVE  key \in Keys /\ Delay(key) \in Int
  <1>1. PICK S \in SUBSET Keys : annotations \in [S -> Texts]
    BY DEF TypeOK
  <1>2. key \in Keys /\ annotations[key] \in Texts
    BY <1>1 DEF Annotated
  <1>3. ASSUME NEW text PROVE ParseDuration(text) \in Int
    <2>1. CASE text \in Delays
      BY <2>1, DelaysAssumption, Zenon DEF ParseDuration
    <2>2. CASE text \notin Delays
      BY <2>2 DEF ParseDuration
    <2>3. QED BY <2>1, <2>2
  <1>4. Delay(key) \in Int
    BY <1>3, Zenon DEF Delay
  <1>5. QED BY <1>2, <1>4

\* The item that the inner loop inserts.
LEMMA ItemLemma ==
    ASSUME TypeOK, k <= 3, DelayAnnotations[k] \in Annotated
    PROVE  /\ Item \in Items
           /\ Item.key \in Annotated
           /\ Item.delay = Delay(Item.key)
           /\ Item.key = DelayAnnotations[k]
  BY DelayLemma DEF Item, DelayItem, Items

LEMMA InitLemma == Init => IInv
  <1> SUFFICES ASSUME Init PROVE IInv
    OBVIOUS
  <1>1. list = <<>> /\ Len(list) = 0 /\ k = 1 /\ cur = 0 /\ now = 0
    BY DEF Init
  <1>2. list \in Seq(Items)
    BY <1>1
  <1>3. TypeOK
    BY <1>1, <1>2 DEF Init, TypeOK, Statuses
  <1>4. FromPod(list) /\ Spans(list, k)
    BY <1>1 DEF FromPod, Spans
  <1>5. QED BY <1>1, <1>3, <1>4 DEF Init, IInv, NeverEarly, Keys

-----------------------------------------------------------------------------
\* The outer loop moves on from list to l, which spans one annotation more.
LEMMA NextAnnotationLemma ==
    ASSUME IInv, pc = "build", k <= 3, NEW l \in Seq(Items), NextAnnotation(l),
           FromPod(l), Spans(l, k + 1)
    PROVE  IInv'
  <1>1. TypeOK'
    BY DEF IInv, TypeOK, NextAnnotation
  <1>2. FromPod(list)' /\ Spans(list, k)'
    BY DEF NextAnnotation, FromPod, Spans, Annotated, Delay
  <1>3. cur' = 0 /\ pc' = "build"
    BY DEF NextAnnotation
  <1>4. NeverEarly'
    BY DEF IInv, NextAnnotation, NeverEarly, Annotated, Delay
  <1>5. QED BY <1>1, <1>2, <1>3, <1>4 DEF IInv

\* The inner loop moves on to element i of l, or ends.
LEMMA ContinueAtLemma ==
    ASSUME IInv, InnerLoop, NEW l \in Seq(Items), NEW i \in Nat, i > 1,
           ContinueAt(i, l), FromPod(l), Spans(l, k), Len(l) >= 1,
           l[1].delay <= Item.delay,
           i > Len(l) => Item.delay <= l[Len(l)].delay
    PROVE  IInv'
  <1>1. k \in 1..3 /\ DelayAnnotations[k] \in Annotated /\ pc = "build"
    BY DEF IInv, TypeOK, InnerLoop
  <1>2. Item.delay = Delay(DelayAnnotations[k])
    BY DEF Item, DelayItem
  <1>3. CASE i > Len(l)
    <2>1. NextAnnotation(l)
      BY <1>3 DEF ContinueAt
    <2>2. Spans(l, k + 1)
      <3> SUFFICES ASSUME NEW j \in 1..3, j < k + 1, DelayAnnotations[j] \in Annotated
                   PROVE  /\ Len(l) >= 1
                          /\ l[1].delay <= Delay(DelayAnnotations[j])
                          /\ Delay(DelayAnnotations[j]) <= l[Len(l)].delay
        BY DEF Spans
      <3>1. CASE j < k
        BY <3>1 DEF Spans
      <3>2. CASE j = k
        BY <3>2, <1>2, <1>3
      <3>3. QED BY <1>1, <3>1, <3>2
    <2>3. QED BY <1>1, <2>1, <2>2, NextAnnotationLemma
  <1>4. CASE ~(i > Len(l))
    <2>1. /\ list' = l /\ cur' = i
          /\ UNCHANGED <<annotations, now, pc, k, status>>
      BY <1>4 DEF ContinueAt
    <2>2. TypeOK'
      BY <1>1, <1>4, <2>1 DEF IInv, TypeOK, Annotated
    <2>3. FromPod(list)' /\ Spans(list, k)'
      BY <2>1 DEF FromPod, Spans, Annotated, Delay
    <2>4. list'[1].delay <= Item'.delay
      BY <2>1 DEF Item, DelayItem, Delay
    <2>5. NeverEarly'
      BY <2>1 DEF IInv, NeverEarly, Annotated, Delay
    <2>6. QED BY <1>1, <2>1, <2>2, <2>3, <2>4, <2>5 DEF IInv
  <1>5. QED BY <1>3, <1>4

-----------------------------------------------------------------------------
(***************************************************************************)
(* The steps of the tracker                                                *)
(***************************************************************************)

\* The list after an insertion at position i holds the pod's delays.
LEMMA InsertedFromPod ==
    ASSUME IInv, Item \in Items, Item.key \in Annotated,
           Item.delay = Delay(Item.key), NEW i \in 1..(Len(list) + 1)
    PROVE  FromPod(InsertAt(list, i, Item))
  <1>1. list \in Seq(Items) /\ Len(list) \in Nat
    BY DEF IInv, TypeOK
  <1> DEFINE l == InsertAt(list, i, Item)
  <1>2. /\ Len(l) = Len(list) + 1
        /\ \A j \in 1..(Len(list) + 1) :
             l[j] = IF j < i THEN list[j] ELSE IF j = i THEN Item ELSE list[j - 1]
    BY <1>1, InsertAtLemma
  <1> HIDE DEF l
  <1> SUFFICES ASSUME NEW j \in 1..Len(l)
               PROVE  l[j].key \in Annotated /\ l[j].delay = Delay(l[j].key)
    BY DEF FromPod, l
  <1>3. CASE j < i
    BY <1>1, <1>2, <1>3 DEF IInv, FromPod
  <1>4. CASE j = i
    BY <1>1, <1>2, <1>4
  <1>5. CASE j > i
    BY <1>1, <1>2, <1>5 DEF IInv, FromPod
  <1>6. QED BY <1>1, <1>2, <1>3, <1>4, <1>5

LEMMA SkipAnnotationStep == IInv /\ SkipAnnotation => IInv'
  <1> SUFFICES ASSUME IInv, SkipAnnotation PROVE IInv'
    OBVIOUS
  <1>1. Spans(list, k + 1)
    BY DEF IInv, TypeOK, SkipAnnotation, Spans
  <1>2. QED
    BY <1>1, NextAnnotationLemma DEF IInv, TypeOK, SkipAnnotation, OuterLoop

LEMMA PushFrontStep == IInv /\ PushFront => IInv'
  <1> SUFFICES ASSUME IInv, PushFront PROVE IInv'
    OBVIOUS
  <1> DEFINE l == <<Item>>
  <1>1. pc = "build" /\ k \in 1..3 /\ NextAnnotation(l) /\ Len(list) = 0
    BY DEF IInv, TypeOK, PushFront, OuterLoop
  <1>2. /\ Item \in Items /\ Item.key \in Annotated
        /\ Item.delay = Delay(Item.key) /\ Item.key = DelayAnnotations[k]
    BY ItemLemma DEF IInv, PushFront, OuterLoop
  <1>3. l \in Seq(Items) /\ Len(l) = 1 /\ l[1] = Item
    BY <1>2
  <1> HIDE DEF l
  <1>4. FromPod(l)
    BY <1>2, <1>3 DEF FromPod
  <1>5. \A j \in 1..3 : j < k => DelayAnnotations[j] \notin Annotated
    BY <1>1 DEF IInv, Spans
  <1>6. Item.delay \in Int
    BY <1>2 DEF Items
  <1>7. Spans(l, k + 1)
    <2> SUFFICES ASSUME NEW j \in 1..3, j < k + 1, DelayAnnotations[j] \in Annotated
                 PROVE  j = k
      BY <1>2, <1>3, <1>6 DEF Spans
    <2>1. QED BY <1>1, <1>5
  <1>8. QED BY <1>1, <1>3, <1>4, <1>7, NextAnnotationLemma

LEMMA StartInsertStep == IInv /\ StartInsert => IInv'
  <1> SUFFICES ASSUME IInv, StartInsert PROVE IInv'
    OBVIOUS
  <1>1. list \in Seq(Items) /\ Len(list) >= 1
    BY DEF IInv, TypeOK, StartInsert
  <1>2. TypeOK'
    BY <1>1 DEF IInv, TypeOK, StartInsert, OuterLoop, Annotated
  <1>3. FromPod(list)' /\ Spans(list, k)'
    BY DEF IInv, StartInsert, FromPod, Spans, Annotated, Delay
  <1>4. NeverEarly'
    BY DEF IInv, StartInsert, NeverEarly, Annotated, Delay
  <1>5. QED BY <1>2, <1>3, <1>4 DEF IInv, StartInsert, OuterLoop

\* What the steps of the inner loop have in common.
LEMMA InnerLoopLemma ==
    ASSUME IInv, InnerLoop
    PROVE  /\ list \in Seq(Items) /\ Len(list) \in Nat /\ cur \in 1..Len(list)
           /\ k \in 1..3
           /\ Item \in Items /\ Item.key \in Annotated
           /\ Item.delay = Delay(Item.key) /\ Item.delay \in Int
           /\ \A i \in 1..Len(list) : list[i].delay \in Int
           /\ cur > 1 => list[1].delay <= Item.delay
  <1>1. /\ list \in Seq(Items) /\ Len(list) \in Nat /\ cur \in 1..Len(list)
        /\ k \in 1..3 /\ DelayAnnotations[k] \in Annotated /\ TypeOK
    BY DEF IInv, TypeOK, InnerLoop
  <1>2. /\ Item \in Items /\ Item.key \in Annotated
        /\ Item.delay = Delay(Item.key) /\ Item.delay \in Int
    BY <1>1, ItemLemma DEF Items
  <1>3. ASSUME NEW i \in 1..Len(list) PROVE list[i].delay \in Int
    <2>1. list[i] \in Items
      BY <1>1
    <2>2. QED BY <2>1 DEF Items
  <1>4. QED BY <1>1, <1>2, <1>3 DEF IInv, InnerLoop

\* An insertion behind the first item, which is no greater, that leaves the
\* last item alone or puts the greatest there keeps the span.
LEMMA InsertedSpans ==
    ASSUME IInv, InnerLoop, NEW i \in 1..(Len(list) + 1),
           i = 1 => Item.delay <= list[1].delay,
           i > Len(list) => list[Len(list)].delay <= Item.delay
    PROVE  LET l == InsertAt(list, i, Item)
           IN  /\ l \in Seq(Items)
               /\ Len(l) = Len(list) + 1
               /\ Spans(l, k)
               /\ l[1] = IF i = 1 THEN Item ELSE list[1]
               /\ l[Len(l)] = IF i > Len(list) THEN Item ELSE list[Len(list)]
  <1> DEFINE l == InsertAt(list, i, Item)
  <1>1. /\ list \in Seq(Items) /\ Len(list) \in Nat /\ cur \in 1..Len(list)
        /\ Item \in Items /\ Item.delay \in Int
        /\ \A j \in 1..Len(list) : list[j].delay \in Int
    BY InnerLoopLemma
  <1>2. /\ l \in Seq(Items)
        /\ Len(l) = Len(list) + 1
        /\ \A j \in 1..(Len(list) + 1) :
             l[j] = IF j < i THEN list[j] ELSE IF j = i THEN Item ELSE list[j - 1]
    BY <1>1, InsertAtLemma
  <1> HIDE DEF l
  <1>3. l[1] = IF i = 1 THEN Item ELSE list[1]
    BY <1>1, <1>2
  <1>4. l[Len(l)] = IF i > Len(list) THEN Item ELSE list[Len(list)]
    <2>1. l[Len(list) + 1] = IF i > Len(list) THEN Item ELSE list[(Len(list) + 1) - 1]
      BY <1>1, <1>2
    <2>2. (Len(list) + 1) - 1 = Len(list)
      BY <1>1
    <2>3. QED BY <1>2, <2>1, <2>2
  <1>5. l[1].delay <= list[1].delay /\ list[Len(list)].delay <= l[Len(l)].delay
    BY <1>1, <1>3, <1>4
  <1>6. Spans(l, k)
    <2> SUFFICES ASSUME NEW j \in 1..3, j < k, DelayAnnotations[j] \in Annotated
                 PROVE  /\ Len(l) >= 1
                        /\ l[1].delay <= Delay(DelayAnnotations[j])
                        /\ Delay(DelayAnnotations[j]) <= l[Len(l)].delay
      BY DEF Spans
    <2>1. /\ list[1].delay <= Delay(DelayAnnotations[j])
          /\ Delay(DelayAnnotations[j]) <= list[Len(list)].delay
      BY DEF IInv, Spans
    <2>2. Delay(DelayAnnotations[j]) \in Int
      BY DelayLemma DEF IInv
    <2>3. l[1].delay \in Int /\ l[Len(l)].delay \in Int
      BY <1>1, <1>3, <1>4
    <2>4. list[1].delay \in Int /\ list[Len(list)].delay \in Int /\ Len(l) >= 1
      BY <1>1, <1>2
    <2> DEFINE d == Delay(DelayAnnotations[j])
               first == list[1].delay
               last == list[Len(list)].delay
               first2 == l[1].delay
               last2 == l[Len(l)].delay
    <2>5. /\ d \in Int /\ first \in Int /\ last \in Int /\ first2 \in Int /\ last2 \in Int
          /\ first2 <= first /\ first <= d /\ d <= last /\ last <= last2
      BY <1>5, <2>1, <2>2, <2>3, <2>4, Zenon
    <2> HIDE DEF d, first, last, first2, last2
    <2>6. first2 <= d /\ d <= last2
      BY <2>5
    <2>7. QED BY <2>4, <2>6, Zenon DEF d, first2, last2
  <1>7. QED BY <1>2, <1>3, <1>4, <1>6, Zenon DEF l


LEMMA InsertBeforeStep == IInv /\ InsertBefore => IInv'
  <1> SUFFICES ASSUME IInv, InsertBefore PROVE IInv'
    OBVIOUS
  <1> DEFINE l == InsertAt(list, cur, Item)
  <1>1. InnerLoop /\ list[cur].delay >= Item.delay /\ ContinueAt(cur + 2, l)
    BY DEF InsertBefore
  <1>2. /\ list \in Seq(Items) /\ Len(list) \in Nat /\ cur \in 1..Len(list)
        /\ Item \in Items /\ Item.key \in Annotated
        /\ Item.delay = Delay(Item.key) /\ Item.delay \in Int
        /\ \A j \in 1..Len(list) : list[j].delay \in Int
        /\ cur > 1 => list[1].delay <= Item.delay
    BY <1>1, InnerLoopLemma
  <1>3. cur = 1 => Item.delay <= list[1].delay
    BY <1>1, <1>2
  <1>4. /\ l \in Seq(Items) /\ Len(l) = Len(list) + 1 /\ Spans(l, k)
        /\ l[1] = IF cur = 1 THEN Item ELSE list[1]
        /\ l[Len(l)] = list[Len(list)]
    BY <1>1, <1>2, <1>3, InsertedSpans
  <1>5. FromPod(l)
    BY <1>2, InsertedFromPod
  <1>6. l[1].delay <= Item.delay
    BY <1>2, <1>4
  <1>7. cur + 2 > Len(l) => Item.delay <= l[Len(l)].delay
    <2> SUFFICES ASSUME cur + 2 > Len(l) PROVE Item.delay <= l[Len(l)].delay
      OBVIOUS
    <2>1. cur = Len(list)
      BY <1>2, <1>4
    <2>2. QED BY <1>1, <1>2, <1>4, <2>1
  <1> HIDE DEF l
  <1>8. cur + 2 \in Nat /\ cur + 2 > 1 /\ Len(l) >= 1
    BY <1>2, <1>4
  <1>9. QED BY <1>1, <1>4, <1>5, <1>6, <1>7, <1>8, ContinueAtLemma

LEMMA InsertAfterLastStep == IInv /\ InsertAfterLast => IInv'
  <1> SUFFICES ASSUME IInv, InsertAfterLast PROVE IInv'
    OBVIOUS
  <1> DEFINE l == InsertAt(list, cur + 1, Item)
  <1>1. /\ InnerLoop /\ list[cur].delay < Item.delay /\ cur = Len(list)
        /\ ContinueAt(cur + 1, l)
    BY DEF InsertAfterLast
  <1>2. /\ list \in Seq(Items) /\ Len(list) \in Nat /\ cur \in 1..Len(list)
        /\ Item \in Items /\ Item.key \in Annotated
        /\ Item.delay = Delay(Item.key) /\ Item.delay \in Int
        /\ \A j \in 1..Len(list) : list[j].delay \in Int
        /\ cur > 1 => list[1].delay <= Item.delay
    BY <1>1, InnerLoopLemma
  <1>3. list[Len(list)].delay <= Item.delay /\ list[1].delay <= Item.delay
    BY <1>1, <1>2
  <1>4. cur + 1 \in 1..(Len(list) + 1) /\ cur + 1 # 1 /\ cur + 1 > Len(list)
    BY <1>1, <1>2
  <1>5. /\ l \in Seq(Items) /\ Len(l) = Len(list) + 1 /\ Spans(l, k)
        /\ l[1] = list[1] /\ l[Len(l)] = Item
    BY <1>1, <1>3, <1>4, InsertedSpans
  <1>6. FromPod(l)
    BY <1>2, <1>4, InsertedFromPod
  <1> HIDE DEF l
  <1>7. /\ cur + 1 \in Nat /\ cur + 1 > 1 /\ Len(l) >= 1
        /\ l[1].delay <= Item.delay /\ Item.delay <= l[Len(l)].delay
    BY <1>2, <1>3, <1>5
  <1>8. QED BY <1>1, <1>5, <1>6, <1>7, ContinueAtLemma

LEMMA InsertBetweenStep == IInv /\ InsertBetween => IInv'
  <1> SUFFICES ASSUME IInv, InsertBetween PROVE IInv'
    OBVIOUS
  <1> DEFINE l == InsertAt(list, cur + 1, Item)
  <1>1. /\ InnerLoop /\ list[cur].delay < Item.delay /\ cur < Len(list)
        /\ ContinueAt(cur + 1, l)
    BY DEF InsertBetween
  <1>2. /\ list \in Seq(Items) /\ Len(list) \in Nat /\ cur \in 1..Len(list)
        /\ Item \in Items /\ Item.key \in Annotated
        /\ Item.delay = Delay(Item.key) /\ Item.delay \in Int
        /\ \A j \in 1..Len(list) : list[j].delay \in Int
        /\ cur > 1 => list[1].delay <= Item.delay
    BY <1>1, InnerLoopLemma
  <1>3. list[1].delay <= Item.delay
    BY <1>1, <1>2
  <1>4. cur + 1 \in 1..(Len(list) + 1) /\ cur + 1 # 1 /\ ~(cur + 1 > Len(list))
    BY <1>1, <1>2
  <1>5. /\ l \in Seq(Items) /\ Len(l) = Len(list) + 1 /\ Spans(l, k)
        /\ l[1] = list[1]
    BY <1>1, <1>4, InsertedSpans
  <1>6. FromPod(l)
    BY <1>2, <1>4, InsertedFromPod
  <1> HIDE DEF l
  <1>7. /\ cur + 1 \in Nat /\ cur + 1 > 1 /\ Len(l) >= 1 /\ ~(cur + 1 > Len(l))
        /\ l[1].delay <= Item.delay
    BY <1>1, <1>2, <1>3, <1>5
  <1>8. QED BY <1>1, <1>5, <1>6, <1>7, ContinueAtLemma

LEMMA PassElementStep == IInv /\ PassElement => IInv'
  <1> SUFFICES ASSUME IInv, PassElement PROVE IInv'
    OBVIOUS
  <1>1. /\ InnerLoop /\ list[cur].delay < Item.delay /\ cur < Len(list)
        /\ ContinueAt(cur + 1, list)
    BY DEF PassElement
  <1>2. /\ list \in Seq(Items) /\ Len(list) \in Nat /\ cur \in 1..Len(list)
        /\ Item.delay \in Int
        /\ \A j \in 1..Len(list) : list[j].delay \in Int
        /\ cur > 1 => list[1].delay <= Item.delay
    BY <1>1, InnerLoopLemma
  <1>3. list[1].delay <= Item.delay
    BY <1>1, <1>2
  <1>4. /\ cur + 1 \in Nat /\ cur + 1 > 1 /\ Len(list) >= 1
        /\ ~(cur + 1 > Len(list))
    BY <1>1, <1>2
  <1>5. FromPod(list) /\ Spans(list, k)
    BY DEF IInv
  <1>6. QED BY <1>1, <1>2, <1>3, <1>4, <1>5, ContinueAtLemma

LEMMA StartCallStep == IInv /\ StartCall => IInv'
  <1> SUFFICES ASSUME IInv, StartCall PROVE IInv'
    OBVIOUS
  <1>1. list' = <<>> /\ Len(list') = 0 /\ list' \in Seq(Items)
    BY DEF StartCall
  <1>2. TypeOK'
    BY <1>1 DEF IInv, TypeOK, StartCall
  <1>3. FromPod(list)' /\ Spans(list, k)'
    BY <1>1 DEF StartCall, FromPod, Spans
  <1>4. NeverEarly'
    BY DEF IInv, StartCall, NeverEarly, Annotated, Delay
  <1>5. QED BY <1>2, <1>3, <1>4 DEF IInv, StartCall

LEMMA StartWalkStep == IInv /\ StartWalk => IInv'
  <1> SUFFICES ASSUME IInv, StartWalk PROVE IInv'
    OBVIOUS
  <1>1. list \in Seq(Items) /\ Len(list) >= 1
    BY DEF IInv, TypeOK, StartWalk
  <1>2. TypeOK'
    BY <1>1 DEF IInv, TypeOK, StartWalk
  <1>3. FromPod(list)' /\ Spans(list, k)'
    BY DEF IInv, StartWalk, FromPod, Spans, Annotated, Delay
  <1>4. NeverEarly'
    BY DEF IInv, StartWalk, NeverEarly, Annotated, Delay
  <1>5. k' = 4
    BY DEF IInv, TypeOK, StartWalk, ListBuilt
  <1>6. QED BY <1>2, <1>3, <1>4, <1>5 DEF IInv, StartWalk

LEMMA WalkOnStep == IInv /\ WalkOn => IInv'
  <1> SUFFICES ASSUME IInv, WalkOn PROVE IInv'
    OBVIOUS
  <1>1. TypeOK'
    BY DEF IInv, TypeOK, WalkOn
  <1>2. FromPod(list)' /\ Spans(list, k)'
    BY DEF IInv, WalkOn, FromPod, Spans, Annotated, Delay
  <1>3. NeverEarly'
    BY DEF IInv, WalkOn, NeverEarly, Annotated, Delay
  <1>4. Elapsed(cur)'
    BY DEF WalkOn, Elapsed
  <1>5. QED BY <1>1, <1>2, <1>3, <1>4 DEF IInv, WalkOn

\* A call returns with status s, which the pod may show.
LEMMA ReturnLemma ==
    ASSUME IInv, NEW s \in Statuses, Return(s),
           s \in Keys => s \in Annotated /\ now > Delay(s),
           s = "default" => Annotated = {}
    PROVE  IInv'
  <1>1. list' = <<>> /\ Len(list') = 0 /\ list' \in Seq(Items)
    BY DEF Return
  <1>2. TypeOK'
    BY <1>1 DEF IInv, TypeOK, Return
  <1>3. FromPod(list)' /\ Spans(list, k)'
    BY <1>1 DEF Return, FromPod, Spans
  <1>4. NeverEarly'
    BY DEF Return, NeverEarly, Annotated, Delay
  <1>5. QED BY <1>2, <1>3, <1>4 DEF IInv, Return

LEMMA ReturnDefaultStep == IInv /\ ReturnDefault => IInv'
  <1> SUFFICES ASSUME IInv, ReturnDefault PROVE IInv'
    OBVIOUS
  <1>1. Return("default") /\ "default" \in Statuses /\ "default" \notin Keys
    BY DEF ReturnDefault, Statuses, Keys
  <1>2. k = 4 /\ Len(list) = 0
    BY DEF IInv, TypeOK, ReturnDefault, ListBuilt
  <1>3. \A i \in 1..3 : DelayAnnotations[i] \notin Annotated
    BY <1>2 DEF IInv, Spans
  <1>4. DelayAnnotations[1] \notin Annotated /\ DelayAnnotations[2] \notin Annotated
        /\ DelayAnnotations[3] \notin Annotated
    BY <1>3
  <1>5. \A key \in Annotated : key \in Keys
    BY DelayLemma DEF IInv
  <1>6. Annotated = {}
    BY <1>4, <1>5 DEF Keys, DelayAnnotations
  <1>7. QED BY <1>1, <1>6, ReturnLemma

LEMMA ReturnNilStep == IInv /\ ReturnNil => IInv'
  <1> SUFFICES ASSUME IInv, ReturnNil PROVE IInv'
    OBVIOUS
  <1>1. status \in Statuses /\ Return(status)
    BY DEF IInv, TypeOK, ReturnNil
  <1>2. QED BY <1>1, ReturnLemma DEF IInv, NeverEarly

\* The item the walk is at is one of the pod's.
LEMMA WalkLemma ==
    ASSUME IInv, pc = "walk"
    PROVE  /\ k = 4
           /\ list \in Seq(Items) /\ Len(list) \in Nat /\ cur \in 1..Len(list)
           /\ \A i \in 1..Len(list) : /\ list[i].key \in Annotated
                                     /\ list[i].key \in Keys
                                     /\ list[i].delay = Delay(list[i].key)
                                     /\ list[i].delay \in Int
  <1>1. /\ k = 4 /\ TypeOK /\ FromPod(list)
        /\ list \in Seq(Items) /\ Len(list) \in Nat /\ cur \in 1..Len(list)
    BY DEF IInv, TypeOK
  <1>2. ASSUME NEW i \in 1..Len(list)
        PROVE  /\ list[i].key \in Annotated /\ list[i].key \in Keys
               /\ list[i].delay = Delay(list[i].key) /\ list[i].delay \in Int
    <2>1. list[i] \in Items
      BY <1>1
    <2>2. QED BY <1>1, <2>1 DEF FromPod, Items
  <1>3. QED BY <1>1, <1>2

LEMMA ReturnItemStep == IInv /\ ReturnItem => IInv'
  <1> SUFFICES ASSUME IInv, ReturnItem PROVE IInv'
    OBVIOUS
  <1> DEFINE s == list[cur].key
  <1>1. Return(s) /\ now > list[cur].delay /\ pc = "walk"
    BY DEF ReturnItem, Elapsed
  <1>2. s \in Annotated /\ s \in Keys /\ list[cur].delay = Delay(s)
    BY <1>1, WalkLemma
  <1> HIDE DEF s
  <1>3. s \in Statuses /\ s # "default" /\ now > Delay(s)
    BY <1>1, <1>2 DEF Statuses, Keys
  <1>4. QED BY <1>1, <1>2, <1>3, ReturnLemma

LEMMA TickStep == IInv /\ Tick => IInv'
  <1> SUFFICES ASSUME IInv, Tick PROVE IInv'
    OBVIOUS
  <1>1. now \in Nat /\ now' = now + 1
        /\ UNCHANGED <<annotations, pc, k, cur, list, status>>
    BY DEF IInv, TypeOK, Tick
  <1>2. TypeOK'
    BY <1>1 DEF IInv, TypeOK, Annotated
  <1>3. FromPod(list)' /\ Spans(list, k)'
    BY <1>1 DEF IInv, FromPod, Spans, Annotated, Delay
  <1>4. pc' = "build" /\ cur' > 1 => list'[1].delay <= Item'.delay
    BY <1>1 DEF IInv, Item, DelayItem, Delay
  <1>5. pc' = "walk" /\ cur' > 1 => Elapsed(cur)'
    <2> SUFFICES ASSUME pc = "walk", cur > 1 PROVE now + 1 > list[cur].delay
      BY <1>1 DEF Elapsed
    <2>1. list[cur].delay \in Int /\ now > list[cur].delay
      BY WalkLemma DEF IInv, Elapsed
    <2>2. QED BY <1>1, <2>1
  <1>6. NeverEarly'
    <2>1. status \in Keys => /\ status \in Annotated /\ now > Delay(status)
                             /\ Delay(status) \in Int
      BY DelayLemma DEF IInv, NeverEarly
    <2>2. status' \in Keys => status' \in Annotated' /\ now' > Delay(status)'
      BY <1>1, <2>1 DEF Annotated, Delay
    <2>3. status' = "default" => Annotated' = {}
      BY <1>1 DEF IInv, NeverEarly, Annotated
    <2>4. QED BY <2>2, <2>3 DEF NeverEarly
  <1>7. QED BY <1>1, <1>2, <1>3, <1>4, <1>5, <1>6 DEF IInv

LEMMA StutterStep == IInv /\ UNCHANGED vars => IInv'
  <1> SUFFICES ASSUME IInv, UNCHANGED vars PROVE IInv'
    OBVIOUS
  <1>1. UNCHANGED <<annotations, now, pc, k, cur, list, status>>
    BY DEF vars
  <1>2. TypeOK' /\ NeverEarly'
    BY <1>1 DEF IInv, TypeOK, NeverEarly, Annotated, Delay
  <1>3. FromPod(list)' /\ Spans(list, k)'
    BY <1>1 DEF IInv, FromPod, Spans, Annotated, Delay
  <1>4. QED
    BY <1>1, <1>2, <1>3 DEF IInv, Elapsed, Item, DelayItem, Delay

-----------------------------------------------------------------------------
(***************************************************************************)
(* Theorems                                                                *)
(***************************************************************************)

\* The invariant holds in every state of every execution of createDelayList
\* and getNowStatus, whatever the annotations and the clock.
THEOREM Invariance == Spec => []IInv
  <1>1. IInv /\ [Next]_vars => IInv'
    <2> SUFFICES ASSUME IInv, [Next]_vars PROVE IInv'
      OBVIOUS
    <2>1. CASE Tick BY <2>1, TickStep
    <2>2. CASE StartCall BY <2>2, StartCallStep
    <2>3. CASE CreateDelayList
      BY <2>3, SkipAnnotationStep, PushFrontStep, StartInsertStep,
         InsertBeforeStep, InsertAfterLastStep, InsertBetweenStep,
         PassElementStep DEF CreateDelayList
    <2>4. CASE GetNowStatus
      BY <2>4, ReturnDefaultStep, StartWalkStep, ReturnNilStep, ReturnItemStep,
         WalkOnStep DEF GetNowStatus
    <2>5. CASE UNCHANGED vars BY <2>5, StutterStep
    <2>6. QED BY <2>1, <2>2, <2>3, <2>4, <2>5 DEF Next, TrackerStep
  <1>2. QED BY <1>1, InitLemma, PTL DEF Spec

\* createDelayList never runs off the list it inserts into, nor getNowStatus
\* off the list it walks.
THEOREM TypeCorrectness == Spec => []TypeOK
  <1>1. IInv => TypeOK
    BY DEF IInv
  <1>2. QED BY <1>1, Invariance, PTL

\* What the walk finds at the two ends of the list.
LEMMA EndsLemma == IInv => HeadIsEarliest /\ TailIsLatest
  <1> SUFFICES ASSUME IInv, pc = "walk"
               PROVE  /\ list # <<>>
                      /\ \A key \in Annotated :
                           /\ list[1].delay <= Delay(key)
                           /\ Delay(key) <= list[Len(list)].delay
    BY DEF HeadIsEarliest, TailIsLatest
  <1>1. k = 4 /\ list # <<>>
    BY WalkLemma
  <1>2. ASSUME NEW key \in Annotated
        PROVE  list[1].delay <= Delay(key) /\ Delay(key) <= list[Len(list)].delay
    <2>1. key \in Keys
      BY DelayLemma DEF IInv
    <2>2. PICK i \in 1..3 : DelayAnnotations[i] = key
      <3>1. /\ DelayAnnotations[1] = "delayRunning"
            /\ DelayAnnotations[2] = "delaySucceeded"
            /\ DelayAnnotations[3] = "delayFailed"
        BY DEF DelayAnnotations
      <3>2. QED BY <2>1, <3>1 DEF Keys
    <2>3. i < k
      BY <1>1, <2>2
    <2>4. QED BY <2>2, <2>3 DEF IInv, Spans
  <1>3. QED BY <1>1, <1>2

\* The list getNowStatus walks starts with the pod's smallest delay.
THEOREM HeadTheorem == Spec => []HeadIsEarliest
  <1>1. QED BY EndsLemma, Invariance, PTL

\* It ends with the pod's greatest delay.
THEOREM TailTheorem == Spec => []TailIsLatest
  <1>1. QED BY EndsLemma, Invariance, PTL

\* No pod shows the status of an annotation before its delay has passed.
THEOREM NeverEarlyTheorem == Spec => []NeverEarly
  <1>1. IInv => NeverEarly
    BY DEF IInv
  <1>2. QED BY <1>1, Invariance, PTL

\* getNowStatus answers nil only if no delay of the pod has passed: beyond
\* the first element it has seen one that has, and the first is the earliest.
THEOREM NothingWithheldTheorem == Spec => NothingWithheld
  <1>1. IInv /\ [Next]_vars =>
          [ReturnNil => \A key \in Annotated : now <= Delay(key)]_vars
    <2> SUFFICES ASSUME IInv, ReturnNil, NEW key \in Annotated
                 PROVE  now <= Delay(key)
      OBVIOUS
    <2>1. pc = "walk" /\ ~Elapsed(cur)
      BY DEF ReturnNil
    <2>2. cur = 1
      BY <2>1, WalkLemma DEF IInv
    <2>3. list[1].delay <= Delay(key)
      BY <2>1, EndsLemma DEF HeadIsEarliest
    <2>4. list[1].delay \in Int /\ Delay(key) \in Int /\ now \in Int
      BY <2>1, <2>2, WalkLemma, DelayLemma DEF IInv, TypeOK
    <2>5. ~(now > list[1].delay)
      BY <2>1, <2>2 DEF Elapsed
    <2>6. QED BY <2>3, <2>4, <2>5
  <1>2. QED BY <1>1, Invariance, PTL DEF NothingWithheld, Spec

\* Once every delay has passed, the walk reaches the end of the list.
LEMMA SettlesLemma == IInv /\ ReturnItem /\ AllElapsed => IsLatest(status')
  <1> SUFFICES ASSUME IInv, ReturnItem, AllElapsed
               PROVE  IsLatest(status')
    OBVIOUS
  <1>1. /\ pc = "walk" /\ status' = list[cur].key
        /\ cur < Len(list) => ~Elapsed(cur + 1)
    BY DEF ReturnItem, Return
  <1>2. /\ Len(list) \in Nat /\ cur \in 1..Len(list)
        /\ \A i \in 1..Len(list) : /\ list[i].key \in Annotated
                                   /\ list[i].delay = Delay(list[i].key)
    BY <1>1, WalkLemma
  <1>3. \A i \in 1..Len(list) : Elapsed(i)
    BY <1>2 DEF AllElapsed, Elapsed
  <1>4. cur = Len(list)
    BY <1>1, <1>2, <1>3
  <1>5. \A key \in Annotated : Delay(key) <= list[cur].delay
    BY <1>1, <1>4, EndsLemma DEF TailIsLatest
  <1>6. QED BY <1>1, <1>2, <1>5 DEF IsLatest

\* Once every delay has passed, whatever getNowStatus returns has the greatest.
THEOREM SettlesOnLatestTheorem == Spec => SettlesOnLatest
  <1>1. IInv /\ [Next]_vars => [ReturnItem /\ AllElapsed => IsLatest(status')]_vars
    BY SettlesLemma
  <1>2. QED BY <1>1, Invariance, PTL DEF SettlesOnLatest, Spec
=============================================================================
