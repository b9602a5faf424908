-------------------------- MODULE DelayOrderProofs --------------------------
(***************************************************************************)
(* A pod never goes back: what DelaySchedule shows over time, proved.  The *)
(* list createDelayList builds is not sorted, and an item may be in it     *)
(* several times, so the argument is about the delays in the list: below   *)
(* the delay of what was inserted last, no delay of the pod is skipped.    *)
(***************************************************************************)
EXTENDS DelayScheduleProofs

-----------------------------------------------------------------------------
(***************************************************************************)
(* Delays d[1], .., d[m]                                                   *)
(***************************************************************************)

\* From n on, d is in order.
Ascending(d, m, n) == \A i, j \in n..m : i <= j => d[i] <= d[j]

\* A delay t above the i-th is not skipped by the next one.
Follows(d, m, i, t) == d[i] < t => i < m /\ d[i + 1] <= t

\* The inner loop inserts c and is at n of d, where the delays P are: what it
\* has not reached is in order and skips none of P; what it has passed skips
\* none of those up to c, and from above c it goes no higher.
Scan(d, m, n, c, P) ==
    /\ Ascending(d, m, n)
    /\ \A i \in 1..m : n <= i => \A t \in P : Follows(d, m, i, t)
    /\ \A i \in 1..m : i < n =>
         \A t \in P \cup {c} : t <= c => Follows(d, m, i, t)
    /\ \A i \in 1..m : i < n - 1 /\ d[i] > c => d[i + 1] <= d[i]
    /\ 1 < n /\ n <= m /\ d[n - 1] > c => d[n] > c

\* e is d with c at position n.
Inserted(d, m, e, n, c) ==
    \A j \in 1..(m + 1) :
         e[j] = IF j < n THEN d[j] ELSE IF j = n THEN c ELSE d[j - 1]

\* c goes before a greater delay, and the loop goes on behind that.
LEMMA ScanBefore ==
    ASSUME NEW m \in Nat, NEW d \in [1..m -> Int],
           NEW e \in [1..(m + 1) -> Int], NEW c \in Int,
           NEW P \in SUBSET Int, NEW n \in 1..m,
           Scan(d, m, n, c, P), Inserted(d, m, e, n, c), d[n] >= c
    PROVE  Scan(e, m + 1, n + 2, c, P)
  <1>1. \A i \in 1..m : d[i] \in Int
    OBVIOUS
  <1>2. \A j \in 1..(m + 1) :
             e[j] = IF j < n THEN d[j] ELSE IF j = n THEN c ELSE d[j - 1]
    BY DEF Inserted
  <1>3. Ascending(e, m + 1, n + 2)
    <2> SUFFICES ASSUME NEW i \in (n + 2)..(m + 1), NEW j \in (n + 2)..(m + 1), i <= j
                 PROVE  e[i] <= e[j]
      BY DEF Ascending
    <2>1. e[i] = d[i - 1] /\ e[j] = d[j - 1]
      BY <1>2
    <2>2. i - 1 \in n..m /\ j - 1 \in n..m /\ i - 1 <= j - 1
      OBVIOUS
    <2>3. d[i - 1] <= d[j - 1]
      BY <2>2 DEF Scan, Ascending
    <2>4. QED BY <2>1, <2>3
  <1>4. ASSUME NEW i \in 1..(m + 1), n + 2 <= i, NEW t \in P
        PROVE  Follows(e, m + 1, i, t)
    <2>1. i - 1 \in 1..m /\ n <= i - 1 /\ (i - 1) + 1 = i
      BY <1>1, <1>2, <1>4
    <2>2. Follows(d, m, i - 1, t)
      BY <2>1 DEF Scan
    <2>3. e[i] = d[i - 1] /\ (i < m + 1 => e[i + 1] = d[i])
      BY <1>1, <1>2, <1>4
    <2>4. QED BY <1>1, <1>2, <2>1, <2>2, <2>3 DEF Follows
  <1>5. ASSUME NEW i \in 1..(m + 1), i < n + 2, NEW t \in P \cup {c}, t <= c
        PROVE  Follows(e, m + 1, i, t)
    <2>1. CASE i < n
      <3>1. Follows(d, m, i, t)
        BY <1>1, <1>5, <2>1 DEF Scan
      <3>2. e[i] = d[i] /\ e[i + 1] = IF i + 1 < n THEN d[i + 1] ELSE c
        BY <1>1, <1>2, <2>1
      <3>3. i + 1 = n \/ i + 1 < n
        BY <2>1
      <3>4. QED BY <1>1, <1>2, <1>5, <2>1, <3>1, <3>2, <3>3 DEF Follows
    <2>2. t \in Int
      BY <1>5
    <2>3. CASE i = n
      BY <1>2, <1>5, <2>2, <2>3 DEF Follows
    <2>4. CASE i = n + 1
      BY <1>1, <1>2, <1>5, <2>2, <2>4 DEF Follows
    <2>5. QED BY <1>5, <2>1, <2>3, <2>4
  <1>6. ASSUME NEW i \in 1..(m + 1), i < (n + 2) - 1, e[i] > c
        PROVE  e[i + 1] <= e[i]
    <2>1. i < n
      BY <1>1, <1>2, <1>6
    <2>2. CASE i + 1 = n
      BY <1>1, <1>2, <1>6, <2>2
    <2>3. CASE i + 1 < n
      BY <1>1, <1>2, <1>6, <2>3 DEF Scan
    <2>4. QED BY <2>1, <2>2, <2>3
  <1>7. n + 2 <= m + 1 /\ e[(n + 2) - 1] > c => e[n + 2] > c
    BY <1>1, <1>2 DEF Scan, Ascending
  <1>8. QED BY <1>3, <1>4, <1>5, <1>6, <1>7 DEF Scan

\* c goes behind a smaller delay that is the last one, or is followed by a
\* greater one; the loop goes on at c.
LEMMA ScanAfter ==
    ASSUME NEW m \in Nat, NEW d \in [1..m -> Int],
           NEW e \in [1..(m + 1) -> Int], NEW c \in Int,
           NEW P \in SUBSET Int, NEW n \in 1..m,
           Scan(d, m, n, c, P), Inserted(d, m, e, n + 1, c), d[n] < c,
           n < m => d[n + 1] > c
    PROVE  Scan(e, m + 1, n + 1, c, P)
  <1>1. \A i \in 1..m : d[i] \in Int
    OBVIOUS
  <1>2. \A j \in 1..(m + 1) :
             e[j] = IF j < n + 1 THEN d[j] ELSE IF j = n + 1 THEN c ELSE d[j - 1]
    BY DEF Inserted
  <1>3. Ascending(e, m + 1, n + 1)
    <2> SUFFICES ASSUME NEW i \in (n + 1)..(m + 1), NEW j \in (n + 1)..(m + 1), i <= j
                 PROVE  e[i] <= e[j]
      BY DEF Ascending
    <2>1. \A h \in (n + 1)..m : d[h] > c
      BY <1>1 DEF Scan, Ascending
    <2>2. CASE i = n + 1
      BY <1>1, <1>2, <2>1, <2>2
    <2>3. CASE i > n + 1
      <3>1. e[i] = d[i - 1] /\ e[j] = d[j - 1]
        BY <1>2, <2>3
      <3>2. i - 1 \in n..m /\ j - 1 \in n..m /\ i - 1 <= j - 1
        BY <2>3
      <3>3. d[i - 1] <= d[j - 1]
        BY <3>2 DEF Scan, Ascending
      <3>4. QED BY <3>1, <3>3
    <2>4. QED BY <2>2, <2>3
  <1>4. ASSUME NEW t \in P, d[n] < t PROVE n < m /\ d[n + 1] <= t /\ c < t
    BY <1>1, <1>4 DEF Scan, Follows
  <1>5. ASSUME NEW i \in 1..(m + 1), n + 1 <= i, NEW t \in P
        PROVE  Follows(e, m + 1, i, t)
    <2>1. CASE i = n + 1
      BY <1>1, <1>2, <1>4, <2>1 DEF Follows
    <2>2. CASE i > n + 1
      <3>1. i - 1 \in 1..m /\ n <= i - 1 /\ (i - 1) + 1 = i
        BY <1>1, <1>2, <2>2
      <3>2. Follows(d, m, i - 1, t)
        BY <3>1 DEF Scan
      <3>3. e[i] = d[i - 1] /\ (i < m + 1 => e[i + 1] = d[i])
        BY <1>1, <1>2, <2>2
      <3>4. QED BY <1>1, <1>2, <3>1, <3>2, <3>3 DEF Follows
    <2>3. QED BY <1>5, <2>1, <2>2
  <1>6. ASSUME NEW i \in 1..(m + 1), i < n + 1, NEW t \in P \cup {c}, t <= c
        PROVE  Follows(e, m + 1, i, t)
    <2>1. CASE i < n
      <3>1. Follows(d, m, i, t)
        BY <1>1, <1>6, <2>1 DEF Scan
      <3>2. e[i] = d[i] /\ e[i + 1] = d[i + 1]
        BY <1>1, <1>2, <2>1
      <3>3. QED BY <1>1, <1>2, <2>1, <3>1, <3>2 DEF Follows
    <2>2. CASE i = n
      BY <1>1, <1>2, <1>4, <1>6, <2>2 DEF Follows
    <2>3. QED BY <1>6, <2>1, <2>2
  <1>7. ASSUME NEW i \in 1..(m + 1), i < (n + 1) - 1, e[i] > c
        PROVE  e[i + 1] <= e[i]
    <2>1. e[i] = d[i] /\ e[i + 1] = d[i + 1] /\ i \in 1..m
      BY <1>1, <1>2, <1>7
    <2>2. i # n - 1
      BY <1>1, <1>7, <2>1 DEF Scan
    <2>3. i < n - 1
      BY <1>7, <2>2
    <2>4. QED BY <1>7, <2>1, <2>3 DEF Scan
  <1>8. e[(n + 1) - 1] < c
    BY <1>1, <1>2
  <1>9. e[(n + 1) - 1] \in Int
    BY <1>1, <1>2
  <1>10. QED BY <1>3, <1>5, <1>6, <1>7, <1>8, <1>9 DEF Scan

\* The loop passes a smaller delay that is followed by one that is no greater.
LEMMA ScanPass ==
    ASSUME NEW m \in Nat, NEW d \in [1..m -> Int], NEW c \in Int, NEW P \in SUBSET Int,
           NEW n \in 1..m, Scan(d, m, n, c, P), d[n] < c,
           n < m, d[n + 1] <= c
    PROVE  Scan(d, m, n + 1, c, P)
  <1>1. \A i \in 1..m : d[i] \in Int
    OBVIOUS
  <1>2. Ascending(d, m, n + 1)
    BY <1>1 DEF Scan, Ascending
  <1>3. ASSUME NEW i \in 1..m, i < n + 1, NEW t \in P \cup {c}, t <= c
        PROVE  Follows(d, m, i, t)
    <2>1. CASE i < n
      BY <1>3, <2>1 DEF Scan
    <2>2. CASE i = n
      <3>1. CASE t = c
        BY <1>1, <2>2, <3>1 DEF Follows
      <3>2. CASE t \in P
        BY <1>1, <2>2, <3>2 DEF Scan
      <3>3. QED BY <3>1, <3>2
    <2>3. QED BY <1>3, <2>1, <2>2
  <1>4. ASSUME NEW i \in 1..m, i < (n + 1) - 1, d[i] > c
        PROVE  d[i + 1] <= d[i]
    <2>1. i # n - 1
      BY <1>1, <1>4 DEF Scan
    <2>2. i < n - 1
      BY <1>4, <2>1
    <2>3. QED BY <1>4, <2>2 DEF Scan
  <1>5. d[(n + 1) - 1] < c /\ d[(n + 1) - 1] \in Int
    BY <1>1
  <1>6. \A i \in 1..m : n + 1 <= i => \A t \in P : Follows(d, m, i, t)
    BY DEF Scan
  <1>7. QED BY <1>2, <1>3, <1>4, <1>5, <1>6 DEF Scan

-----------------------------------------------------------------------------
(***************************************************************************)
(* The invariant                                                           *)
(***************************************************************************)

\* The delays in the list l.
Times(l) == [i \in 1..Len(l) |-> l[i].delay]

\* The pod's annotations that createDelayList has looked up before the j-th,
\* and their delays.
Placed(j) == {key \in Annotated : \E i \in 1..3 : i < j /\ DelayAnnotations[i] = key}

PlacedDelays(j) == {Delay(key) : key \in Placed(j)}

\* What may be shown, besides the latest: delayFailed is inserted last, and
\* before each greater item, so that the walk passes those by.
Reachable(key) ==
    "delayFailed" \in Annotated => Delay(key) <= Delay("delayFailed")

\* Before the j-th annotation, the last one included, the list is in order.
Between(l, j) ==
    /\ Ascending(Times(l), Len(l), 1)
    /\ \A i \in 1..Len(l), t \in PlacedDelays(j) : Follows(Times(l), Len(l), i, t)
    /\ j <= 2 => Len(l) < j

\* The inner loop is at element n of l.  Nothing comes behind the second
\* annotation's item.
Inside(l, n) ==
    /\ k > 1
    /\ Scan(Times(l), Len(l), n, Item.delay, PlacedDelays(k))
    /\ k = 2 => \/ n = 1 /\ Len(l) = 1
                \/ /\ n = 2 /\ Len(l) = 2
                   /\ l[1].delay < Item.delay /\ l[2].delay = Item.delay

\* The list that is walked skips no delay that may be shown, and the walk does
\* not stop at an item that may not.
Built(l) ==
    /\ \A i \in 1..Len(l), key \in Annotated :
         Reachable(key) => Follows(Times(l), Len(l), i, Delay(key))
    /\ \A i \in 1..Len(l) :
         \/ Reachable(l[i].key)
         \/ IsLatest(l[i].key)
         \/ i < Len(l) /\ l[i + 1].delay <= l[i].delay

OrderInv ==
    /\ pc = "build" /\ k <= 3 /\ cur = 0 => Between(list, k)
    /\ pc = "build" /\ k <= 3 /\ cur > 0 => Inside(list, cur)
    /\ pc # "idle" /\ k = 4 => Built(list)
    /\ status \in Keys => Reachable(status) \/ IsLatest(status)

\* The delays of a list.
LEMMA TimesLemma ==
    ASSUME NEW l \in Seq(Items)
    PROVE  /\ Len(l) \in Nat
           /\ Times(l) \in [1..Len(l) -> Int]
           /\ \A i \in 1..Len(l) : Times(l)[i] = l[i].delay /\ l[i].delay \in Int
  <1>1. ASSUME NEW i \in 1..Len(l) PROVE l[i].delay \in Int
    <2>1. l[i] \in Items
      OBVIOUS
    <2>2. QED BY <2>1 DEF Items
  <1>2. QED BY <1>1 DEF Times

\* What has been looked up.
LEMMA PlacedLemma ==
    ASSUME TypeOK
    PROVE  /\ \A j : PlacedDelays(j) \in SUBSET Int
           /\ PlacedDelays(1) = {}
           /\ Placed(4) = Annotated
           /\ k <= 3 /\ DelayAnnotations[k] \notin Annotated =>
                PlacedDelays(k + 1) = PlacedDelays(k)
           /\ k <= 3 /\ DelayAnnotations[k] \in Annotated =>
                PlacedDelays(k + 1) = PlacedDelays(k) \cup {Item.delay}
  <1>1. \A j : PlacedDelays(j) \in SUBSET Int
    BY DelayLemma DEF PlacedDelays, Placed
  <1>2. PlacedDelays(1) = {}
    BY DEF PlacedDelays, Placed
  <1>3. Placed(4) = Annotated
    <2>1. ASSUME NEW key \in Annotated
          PROVE  \E i \in 1..3 : i < 4 /\ DelayAnnotations[i] = key
      <3>1. key \in Keys
        BY DelayLemma
      <3>2. /\ DelayAnnotations[1] = "delayRunning"
            /\ DelayAnnotations[2] = "delaySucceeded"
            /\ DelayAnnotations[3] = "delayFailed"
        BY DEF DelayAnnotations
      <3>3. QED BY <3>1, <3>2 DEF Keys
    <2>2. QED BY <2>1 DEF Placed
  <1>4. ASSUME k <= 3, DelayAnnotations[k] \notin Annotated
        PROVE  PlacedDelays(k + 1) = PlacedDelays(k)
    <2>1. Placed(k + 1) = Placed(k)
      BY <1>4 DEF Placed, TypeOK
    <2>2. QED BY <2>1, Zenon DEF PlacedDelays
  <1>5. ASSUME k <= 3, DelayAnnotations[k] \in Annotated
        PROVE  PlacedDelays(k + 1) = PlacedDelays(k) \cup {Item.delay}
    <2>1. Placed(k + 1) = Placed(k) \cup {DelayAnnotations[k]}
      BY <1>5 DEF Placed, TypeOK
    <2>2. Item.delay = Delay(DelayAnnotations[k])
      BY DEF Item, DelayItem
    <2>3. QED BY <2>1, <2>2 DEF PlacedDelays
  <1>6. QED BY <1>1, <1>2, <1>3, <1>4, <1>5

\* The ends of a list bound the delays that have been placed.
LEMMA PlacedSpan ==
    ASSUME NEW l, NEW j, Spans(l, j), NEW t \in PlacedDelays(j)
    PROVE  Len(l) >= 1 /\ l[1].delay <= t /\ t <= l[Len(l)].delay
  <1>1. PICK key \in Placed(j) : t = Delay(key)
    BY DEF PlacedDelays
  <1>2. PICK i \in 1..3 : i < j /\ DelayAnnotations[i] = key /\ key \in Annotated
    BY DEF Placed
  <1>3. QED BY <1>1, <1>2 DEF Spans

\* An insertion into the list is one into its delays.
LEMMA InsertedTimes ==
    ASSUME IInv, InnerLoop, NEW i \in 1..(Len(list) + 1)
    PROVE  LET l == InsertAt(list, i, Item)
           IN  /\ l \in Seq(Items)
               /\ Len(l) = Len(list) + 1
               /\ \A j \in 1..(Len(list) + 1) :
                    l[j] = IF j < i THEN list[j] ELSE IF j = i THEN Item ELSE list[j - 1]
               /\ Times(l) \in [1..(Len(list) + 1) -> Int]
               /\ Inserted(Times(list), Len(list), Times(l), i, Item.delay)
  <1> DEFINE l == InsertAt(list, i, Item)
  <1>1. /\ list \in Seq(Items) /\ Len(list) \in Nat /\ Item \in Items
    BY InnerLoopLemma
  <1>2. /\ l \in Seq(Items)
        /\ Len(l) = Len(list) + 1
        /\ \A j \in 1..(Len(list) + 1) :
             l[j] = IF j < i THEN list[j] ELSE IF j = i THEN Item ELSE list[j - 1]
    BY <1>1, InsertAtLemma
  <1> HIDE DEF l
  <1>3. /\ Times(l) \in [1..(Len(list) + 1) -> Int]
        /\ \A j \in 1..(Len(list) + 1) : Times(l)[j] = l[j].delay
    BY <1>2, TimesLemma
  <1>4. \A j \in 1..Len(list) : Times(list)[j] = list[j].delay
    BY <1>1, TimesLemma
  <1>5. Inserted(Times(list), Len(list), Times(l), i, Item.delay)
    <2> SUFFICES ASSUME NEW j \in 1..(Len(list) + 1)
                 PROVE  Times(l)[j] = IF j < i THEN Times(list)[j]
                                      ELSE IF j = i THEN Item.delay
                                      ELSE Times(list)[j - 1]
      BY DEF Inserted
    <2>1. CASE j < i
      BY <1>1, <1>2, <1>3, <1>4, <2>1
    <2>2. CASE j = i
      BY <1>2, <1>3, <2>2
    <2>3. CASE j > i
      BY <1>1, <1>2, <1>3, <1>4, <2>3
    <2>4. QED BY <2>1, <2>2, <2>3
  <1>6. QED BY <1>2, <1>3, <1>5, Zenon DEF l

-----------------------------------------------------------------------------
(***************************************************************************)
(* The steps of the loops                                                  *)
(***************************************************************************)

\* The outer loop moves on from list to l.
LEMMA MoveOn ==
    ASSUME IInv, OrderInv, pc = "build", k <= 3, NEW l, NextAnnotation(l),
           k < 3 => Between(l, k + 1), k = 3 => Built(l)
    PROVE  OrderInv'
  <1>1. /\ list' = l /\ cur' = 0 /\ k' = k + 1 /\ k \in 1..4
        /\ UNCHANGED <<annotations, now, pc, status>>
    BY DEF NextAnnotation, IInv, TypeOK
  <1>2. k' <= 3 => Between(list, k)'
    <2> SUFFICES ASSUME k < 3 PROVE Between(list, k)'
      BY <1>1
    <2>1. Between(l, k + 1)
      OBVIOUS
    <2>2. QED
      BY <1>1, <2>1 DEF Between, PlacedDelays, Placed, Annotated, Delay, Times,
                        Ascending, Follows
  <1>3. k' = 4 => Built(list)'
    <2> SUFFICES ASSUME k = 3 PROVE Built(list)'
      BY <1>1
    <2>1. Built(l)
      OBVIOUS
    <2>2. QED
      BY <1>1, <2>1 DEF Built, Reachable, IsLatest, Annotated, Delay, Times, Follows
  <1>4. status' \in Keys => Reachable(status)' \/ IsLatest(status)'
    BY <1>1 DEF OrderInv, Reachable, IsLatest, Annotated, Delay
  <1>5. QED BY <1>1, <1>2, <1>3, <1>4 DEF OrderInv

\* The inner loop moves on to element n of l, or the outer one does.
LEMMA Continue ==
    ASSUME IInv, OrderInv, InnerLoop, NEW l \in Seq(Items), NEW n \in Nat, n > 0,
           ContinueAt(n, l),
           n <= Len(l) => Inside(l, n),
           n > Len(l) /\ k < 3 => Between(l, k + 1),
           n > Len(l) /\ k = 3 => Built(l)
    PROVE  OrderInv'
  <1>1. k \in 1..3 /\ pc = "build" /\ Len(l) \in Nat
    BY DEF IInv, TypeOK, InnerLoop
  <1>2. CASE n > Len(l)
    <2>1. NextAnnotation(l)
      BY <1>2 DEF ContinueAt
    <2>2. QED BY <1>1, <1>2, <2>1, MoveOn
  <1>3. CASE n <= Len(l)
    <2>1. list' = l /\ cur' = n /\ UNCHANGED <<annotations, now, pc, k, status>>
      BY <1>1, <1>3 DEF ContinueAt
    <2>2. Inside(l, n)
      BY <1>3
    <2>3. Inside(list, cur)'
      <3>1. Item' = Item /\ Times(list)' = Times(l) /\ PlacedDelays(k)' = PlacedDelays(k)
        BY <2>1 DEF Item, DelayItem, Delay, Times, PlacedDelays, Placed, Annotated
      <3>2. Scan(Times(list), Len(list), cur, Item.delay, PlacedDelays(k))'
        BY <2>1, <2>2, <3>1, Zenon DEF Inside
      <3>3. QED BY <2>1, <2>2, <3>1, <3>2 DEF Inside
    <2>4. status' \in Keys => Reachable(status)' \/ IsLatest(status)'
      BY <2>1 DEF OrderInv, Reachable, IsLatest, Annotated, Delay
    <2>5. cur' > 0 /\ pc' = "build" /\ k' # 4
      BY <1>1, <2>1
    <2>6. QED BY <2>3, <2>4, <2>5 DEF OrderInv
  <1>4. QED BY <1>1, <1>2, <1>3

\* What the inner loop leaves behind when it ends with the third annotation.
LEMMA ScanEnds ==
    ASSUME IInv, k = 3, DelayAnnotations[k] \in Annotated, NEW l \in Seq(Items),
           FromPod(l), Spans(l, 4), NEW n \in Nat, n > Len(l),
           Scan(Times(l), Len(l), n, Item.delay, PlacedDelays(3))
    PROVE  Built(l)
  <1>1. /\ Len(l) \in Nat
        /\ \A i \in 1..Len(l) : Times(l)[i] = l[i].delay /\ l[i].delay \in Int
    BY TimesLemma
  <1>2. /\ Item.delay = Delay("delayFailed") /\ "delayFailed" \in Annotated
        /\ Item.delay \in Int
    BY DelayLemma DEF IInv, Item, DelayItem, DelayAnnotations
  <1>3. /\ PlacedDelays(4) = PlacedDelays(3) \cup {Item.delay}
        /\ Placed(4) = Annotated
    <2>1. TypeOK /\ k <= 3 /\ k + 1 = 4
      BY DEF IInv
    <2>2. QED BY <2>1, PlacedLemma
  <1>4. ASSUME NEW key \in Annotated
        PROVE  Delay(key) \in PlacedDelays(4)
    BY <1>3 DEF PlacedDelays
  <1>5. ASSUME NEW i \in 1..Len(l), NEW key \in Annotated, Reachable(key)
        PROVE  Follows(Times(l), Len(l), i, Delay(key))
    <2>1. i < n
      BY <1>1
    <2>2. Delay(key) \in PlacedDelays(3) \cup {Item.delay} /\ Delay(key) <= Item.delay
      BY <1>2, <1>3, <1>4, <1>5 DEF Reachable
    <2>3. QED BY <2>1, <2>2 DEF Scan
  <1>6. ASSUME NEW i \in 1..Len(l)
        PROVE  \/ Reachable(l[i].key)
               \/ IsLatest(l[i].key)
               \/ i < Len(l) /\ l[i + 1].delay <= l[i].delay
    <2>1. l[i].key \in Annotated /\ l[i].delay = Delay(l[i].key)
      BY DEF FromPod
    <2>2. CASE l[i].delay <= Item.delay
      BY <1>2, <2>1, <2>2 DEF Reachable
    <2>3. CASE l[i].delay > Item.delay /\ i < Len(l)
      <3>1. i < n - 1 /\ Times(l)[i] > Item.delay
        BY <1>1, <2>3
      <3>2. Times(l)[i + 1] <= Times(l)[i]
        BY <3>1 DEF Scan
      <3>3. i + 1 \in 1..Len(l)
        BY <1>1, <2>3
      <3>4. QED BY <1>1, <2>3, <3>2, <3>3
    <2>4. CASE i = Len(l)
      <3>1. ASSUME NEW other \in Annotated PROVE Delay(other) <= Delay(l[i].key)
        BY <1>4, <2>1, <2>4, PlacedSpan
      <3>2. QED BY <2>1, <3>1 DEF IsLatest
    <2>5. QED BY <1>1, <1>2, <2>2, <2>3, <2>4
  <1>7. QED BY <1>5, <1>6 DEF Built

\* A list in order that skips none of the pod's delays, if the pod has no
\* delayFailed.
LEMMA BetweenEnds ==
    ASSUME TypeOK, NEW l \in Seq(Items), FromPod(l),
           Ascending(Times(l), Len(l), 1),
           \A i \in 1..Len(l), t \in PlacedDelays(4) : Follows(Times(l), Len(l), i, t),
           "delayFailed" \notin Annotated
    PROVE  Built(l)
  <1>1. \A key \in Annotated : Delay(key) \in PlacedDelays(4)
    BY PlacedLemma DEF PlacedDelays
  <1>2. QED BY <1>1 DEF Built, Reachable

LEMMA SkipAnnotationOrder ==
    ASSUME IInv, OrderInv, SkipAnnotation
    PROVE  OrderInv'
  <1>1. /\ pc = "build" /\ k \in 1..3 /\ cur = 0 /\ NextAnnotation(list) /\ TypeOK
        /\ DelayAnnotations[k] \notin Annotated
        /\ list \in Seq(Items) /\ FromPod(list)
    BY DEF SkipAnnotation, OuterLoop, IInv, TypeOK
  <1>2. PlacedDelays(k + 1) = PlacedDelays(k)
    BY <1>1, PlacedLemma
  <1>3. Between(list, k)
    BY <1>1 DEF OrderInv
  <1>4. k < 3 => Between(list, k + 1)
    <2>1. Len(list) \in Nat
      BY <1>1
    <2>2. QED BY <1>1, <1>2, <1>3, <2>1 DEF Between
  <1>5. ASSUME k = 3 PROVE Built(list)
    <2>1. "delayFailed" \notin Annotated
      BY <1>1, <1>5 DEF DelayAnnotations
    <2>2. PlacedDelays(4) = PlacedDelays(3)
      BY <1>2, <1>5
    <2>3. /\ Ascending(Times(list), Len(list), 1)
          /\ \A i \in 1..Len(list), t \in PlacedDelays(4) :
               Follows(Times(list), Len(list), i, t)
      BY <1>3, <1>5, <2>2 DEF Between
    <2>4. QED BY <1>1, <2>1, <2>3, BetweenEnds
  <1>6. QED BY <1>1, <1>4, <1>5, MoveOn

LEMMA PushFrontOrder ==
    ASSUME IInv, OrderInv, PushFront
    PROVE  OrderInv'
  <1> DEFINE l == <<Item>>
  <1>1. /\ pc = "build" /\ k \in 1..3 /\ NextAnnotation(l) /\ list = <<>>
        /\ DelayAnnotations[k] \in Annotated /\ TypeOK
    BY DEF PushFront, OuterLoop, IInv, TypeOK
  <1>2. /\ Item \in Items /\ Item.delay = Delay(Item.key) /\ Item.key \in Annotated
        /\ Item.key = DelayAnnotations[k] /\ Item.delay \in Int
    BY <1>1, ItemLemma DEF Items
  <1>3. l \in Seq(Items) /\ Len(l) = 1 /\ l[1] = Item
    BY <1>2
  <1> HIDE DEF l
  <1>4. PlacedDelays(k) = {}
    <2>1. \A t \in PlacedDelays(k) : Len(list) >= 1
      BY PlacedSpan DEF IInv
    <2>2. QED BY <1>1, <2>1
  <1>5. PlacedDelays(k + 1) = {Item.delay}
    BY <1>1, <1>4, PlacedLemma
  <1>6. Times(l)[1] = Item.delay
    BY <1>3, TimesLemma
  <1>7. Ascending(Times(l), Len(l), 1)
    BY <1>2, <1>3, <1>6 DEF Ascending
  <1>8. \A i \in 1..Len(l), t \in PlacedDelays(k + 1) : Follows(Times(l), Len(l), i, t)
    BY <1>2, <1>3, <1>5, <1>6 DEF Follows
  <1>9. k < 3 => Between(l, k + 1)
    BY <1>1, <1>3, <1>7, <1>8 DEF Between
  <1>10. ASSUME k = 3 PROVE Built(l)
    <2>1. Item.key = "delayFailed"
      BY <1>2, <1>10 DEF DelayAnnotations
    <2>2. Reachable(l[1].key)
      BY <1>2, <1>3, <2>1 DEF Reachable
    <2>3. \A key \in Annotated : Delay(key) \in PlacedDelays(k + 1)
      BY <1>10, PlacedLemma DEF IInv, PlacedDelays
    <2>4. QED BY <1>3, <1>8, <2>2, <2>3 DEF Built
  <1>11. QED BY <1>1, <1>9, <1>10, MoveOn

LEMMA StartInsertOrder ==
    ASSUME IInv, OrderInv, StartInsert
    PROVE  OrderInv'
  <1>1. /\ pc = "build" /\ k \in 1..3 /\ cur = 0 /\ list # <<>>
        /\ cur' = 1 /\ UNCHANGED <<annotations, now, pc, k, list, status>>
        /\ list \in Seq(Items)
    BY DEF StartInsert, OuterLoop, IInv, TypeOK
  <1>2. Between(list, k) /\ Len(list) \in Nat /\ Len(list) >= 1
    BY <1>1 DEF OrderInv
  <1>3. k > 1 /\ (k = 2 => Len(list) = 1)
    <2>1. k <= 2 => Len(list) < k
      BY <1>2 DEF Between
    <2>2. k \in 1..3 /\ Len(list) \in Nat /\ Len(list) >= 1
      BY <1>1, <1>2
    <2>3. QED BY <2>1, <2>2
  <1>4. Scan(Times(list), Len(list), 1, Item.delay, PlacedDelays(k))
    BY <1>2 DEF Between, Scan
  <1>5. Inside(list, 1)
    BY <1>3, <1>4 DEF Inside
  <1>6. Inside(list, cur)'
    BY <1>1, <1>5 DEF Inside, Scan, Ascending, Follows, PlacedDelays, Placed,
                      Annotated, Item, DelayItem, Delay, Times
  <1>7. status' \in Keys => Reachable(status)' \/ IsLatest(status)'
    BY <1>1 DEF OrderInv, Reachable, IsLatest, Annotated, Delay
  <1>8. QED BY <1>1, <1>6, <1>7 DEF OrderInv

-----------------------------------------------------------------------------
(***************************************************************************)
(* The steps of the inner loop                                             *)
(***************************************************************************)

\* What the inner loop starts a step with.
LEMMA InsideLemma ==
    ASSUME IInv, OrderInv, InnerLoop
    PROVE  /\ k \in 2..3 /\ Inside(list, cur)
           /\ list \in Seq(Items) /\ Len(list) \in Nat /\ cur \in 1..Len(list)
           /\ Times(list) \in [1..Len(list) -> Int]
           /\ \A i \in 1..Len(list) :
                Times(list)[i] = list[i].delay /\ list[i].delay \in Int
           /\ Item.delay \in Int /\ PlacedDelays(k) \in SUBSET Int
           /\ Scan(Times(list), Len(list), cur, Item.delay, PlacedDelays(k))
           /\ PlacedDelays(k + 1) = PlacedDelays(k) \cup {Item.delay}
  <1>1. /\ k \in 1..3 /\ pc = "build" /\ cur > 0 /\ TypeOK
        /\ DelayAnnotations[k] \in Annotated
    BY DEF InnerLoop, IInv, TypeOK
  <1>2. Inside(list, cur)
    BY <1>1 DEF OrderInv
  <1>3. k > 1 /\ Scan(Times(list), Len(list), cur, Item.delay, PlacedDelays(k))
    BY <1>2 DEF Inside
  <1>4. /\ list \in Seq(Items) /\ Len(list) \in Nat /\ cur \in 1..Len(list)
        /\ Item.delay \in Int
    BY InnerLoopLemma
  <1>5. QED BY <1>1, <1>2, <1>3, <1>4, TimesLemma, PlacedLemma

\* A step of the inner loop that keeps the scan going, or ends it.
LEMMA InnerStep ==
    ASSUME IInv, IInv', OrderInv, InnerLoop, NEW l \in Seq(Items), NEW n \in Nat,
           n > 1, ContinueAt(n, l),
           Scan(Times(l), Len(l), n, Item.delay, PlacedDelays(k)),
           k = 2 => \/ n > Len(l) /\ Between(l, 3)
                    \/ /\ n = 2 /\ Len(l) = 2
                       /\ l[1].delay < Item.delay /\ l[2].delay = Item.delay
    PROVE  OrderInv'
  <1>1. k \in 2..3 /\ DelayAnnotations[k] \in Annotated /\ Len(l) \in Nat
    BY InsideLemma DEF IInv, TypeOK, InnerLoop
  <1>2. n <= Len(l) => Inside(l, n)
    BY <1>1 DEF Inside
  <1>3. ASSUME n > Len(l), k = 3 PROVE Built(l)
    <2>1. list' = l /\ k' = 4 /\ annotations' = annotations
      BY <1>3 DEF ContinueAt, NextAnnotation
    <2>2. FromPod(list)' /\ Spans(list, k)'
      BY DEF IInv
    <2>3. FromPod(l) /\ Spans(l, 4)
      BY <2>1, <2>2 DEF FromPod, Spans, Annotated, Delay
    <2>4. Scan(Times(l), Len(l), n, Item.delay, PlacedDelays(3))
      BY <1>3
    <2>5. QED BY <1>1, <1>3, <2>3, <2>4, ScanEnds
  <1>4. n > Len(l) /\ k < 3 => Between(l, k + 1)
    <2> SUFFICES ASSUME n > Len(l), k < 3 PROVE Between(l, k + 1)
      OBVIOUS
    <2>1. k = 2 /\ k + 1 = 3
      BY <1>1
    <2>2. n # 2 \/ Len(l) # 2
      OBVIOUS
    <2>3. Between(l, 3)
      BY <2>1, <2>2
    <2>4. QED BY <2>1, <2>3
  <1>5. n > 0
    OBVIOUS
  <1>6. QED BY <1>2, <1>3, <1>4, <1>5, Continue

\* The second annotation's item goes before the first one's, or before itself.
LEMMA SecondBefore ==
    ASSUME IInv, OrderInv, InnerLoop, list[cur].delay >= Item.delay, k = 2
    PROVE  LET l == InsertAt(list, cur, Item)
           IN  cur + 2 > Len(l) /\ Between(l, 3)
  <1> DEFINE l == InsertAt(list, cur, Item)
             c == Item.delay
             d == Times(list)
             e == Times(l)
  <1>1. /\ Len(list) \in Nat /\ cur \in 1..Len(list) /\ c \in Int
        /\ d \in [1..Len(list) -> Int]
        /\ \A i \in 1..Len(list) : d[i] = list[i].delay
        /\ Inside(list, cur) /\ PlacedDelays(2) \in SUBSET Int
        /\ PlacedDelays(3) = PlacedDelays(2) \cup {c}
        /\ Scan(d, Len(list), cur, c, PlacedDelays(2))
    <2>1. PlacedDelays(k + 1) = PlacedDelays(3) /\ PlacedDelays(k) = PlacedDelays(2)
      OBVIOUS
    <2>2. QED BY <2>1, InsideLemma
  <1>2. /\ cur = Len(list) /\ Len(list) \in {1, 2}
        /\ cur = 2 => d[1] < c /\ d[2] = c
    BY <1>1 DEF Inside
  <1>3. /\ Len(l) = Len(list) + 1
        /\ e \in [1..(Len(list) + 1) -> Int]
        /\ Inserted(d, Len(list), e, cur, c)
    <2>1. cur \in 1..(Len(list) + 1)
      BY <1>1
    <2>2. QED BY <2>1, InsertedTimes
  <1>4. \A t \in PlacedDelays(2) : t \in Int /\ d[1] <= t /\ t <= d[Len(list)]
    <2>1. Spans(list, 2)
      BY DEF IInv
    <2>2. d[1] = list[1].delay /\ d[Len(list)] = list[Len(list)].delay
      BY <1>1
    <2>3. QED BY <1>1, <2>1, <2>2, PlacedSpan
  <1>5. d[cur] >= c
    BY <1>1
  <1> HIDE DEF l, c, d, e
  <1>6. CASE cur = 1
    <2>1. e[1] = c /\ e[2] = d[1] /\ Len(list) = 1 /\ d[1] \in Int
      BY <1>1, <1>2, <1>3, <1>6 DEF Inserted
    <2>2. Ascending(e, 2, 1)
      BY <1>1, <1>5, <1>6, <2>1 DEF Ascending
    <2>3. \A i \in 1..2, t \in PlacedDelays(3) : Follows(e, 2, i, t)
      BY <1>1, <1>4, <1>5, <1>6, <2>1 DEF Follows
    <2>4. cur + 2 > Len(l) /\ Len(l) = 2
      BY <1>3, <1>6, <2>1
    <2>5. QED BY <2>2, <2>3, <2>4 DEF Between, e, l
  <1>7. CASE cur = 2
    <2>1. /\ e[1] = d[1] /\ e[2] = c /\ e[3] = c /\ d[1] < c /\ d[2] = c
          /\ Len(list) = 2 /\ d[1] \in Int
      BY <1>1, <1>2, <1>3, <1>7 DEF Inserted
    <2>2. Ascending(e, 3, 1)
      BY <1>1, <2>1 DEF Ascending
    <2>3. \A t \in PlacedDelays(3) : t \in Int /\ t <= c /\ (d[1] < t => c <= t)
      <3>1. \A t \in PlacedDelays(3) : t \in Int /\ t <= c
        BY <1>1, <1>4, <2>1
      <3>2. \A t \in PlacedDelays(3) : Follows(d, 2, 1, t)
        BY <1>1, <1>7, <2>1, <3>1 DEF Scan
      <3>3. QED BY <2>1, <3>1, <3>2 DEF Follows
    <2>4. \A i \in 1..3, t \in PlacedDelays(3) : Follows(e, 3, i, t)
      BY <1>1, <2>1, <2>3 DEF Follows
    <2>5. cur + 2 > Len(l) /\ Len(l) = 3
      BY <1>3, <1>7, <2>1
    <2>6. QED BY <2>2, <2>4, <2>5 DEF Between, e, l
  <1>8. QED BY <1>1, <1>2, <1>6, <1>7

LEMMA InsertBeforeOrder ==
    ASSUME IInv, IInv', OrderInv, InsertBefore
    PROVE  OrderInv'
  <1> DEFINE l == InsertAt(list, cur, Item)
  <1>1. InnerLoop /\ list[cur].delay >= Item.delay /\ ContinueAt(cur + 2, l)
    BY DEF InsertBefore
  <1>2. /\ Len(list) \in Nat /\ cur \in 1..Len(list) /\ Item.delay \in Int
        /\ Times(list) \in [1..Len(list) -> Int] /\ PlacedDelays(k) \in SUBSET Int
        /\ Times(list)[cur] = list[cur].delay
        /\ Scan(Times(list), Len(list), cur, Item.delay, PlacedDelays(k))
    BY <1>1, InsideLemma
  <1>3. /\ l \in Seq(Items) /\ Len(l) = Len(list) + 1
        /\ Times(l) \in [1..(Len(list) + 1) -> Int]
        /\ Inserted(Times(list), Len(list), Times(l), cur, Item.delay)
    <2>1. cur \in 1..(Len(list) + 1)
      BY <1>2
    <2>2. QED BY <1>1, <2>1, InsertedTimes
  <1>4. k = 2 => cur + 2 > Len(l) /\ Between(l, 3)
    BY <1>1, SecondBefore
  <1> HIDE DEF l
  <1>5. Scan(Times(l), Len(l), cur + 2, Item.delay, PlacedDelays(k))
    BY <1>1, <1>2, <1>3, ScanBefore
  <1>6. cur + 2 \in Nat /\ cur + 2 > 1
    BY <1>2
  <1>7. QED BY <1>1, <1>3, <1>4, <1>5, <1>6, InnerStep

\* An insertion behind the element the loop is at.
LEMMA InsertAfterOrder ==
    ASSUME IInv, IInv', OrderInv, InsertAfterLast \/ InsertBetween
    PROVE  OrderInv'
  <1> DEFINE l == InsertAt(list, cur + 1, Item)
  <1>1. /\ InnerLoop /\ list[cur].delay < Item.delay /\ ContinueAt(cur + 1, l)
        /\ cur = Len(list) \/ (cur < Len(list) /\ list[cur + 1].delay > Item.delay)
    BY DEF InsertAfterLast, InsertBetween
  <1>2. /\ Len(list) \in Nat /\ cur \in 1..Len(list) /\ Item.delay \in Int
        /\ Times(list) \in [1..Len(list) -> Int] /\ PlacedDelays(k) \in SUBSET Int
        /\ Times(list)[cur] = list[cur].delay /\ list[cur].delay \in Int
        /\ cur < Len(list) => Times(list)[cur + 1] = list[cur + 1].delay
        /\ Scan(Times(list), Len(list), cur, Item.delay, PlacedDelays(k))
        /\ Inside(list, cur)
    BY <1>1, InsideLemma
  <1>3. /\ l \in Seq(Items) /\ Len(l) = Len(list) + 1
        /\ Times(l) \in [1..(Len(list) + 1) -> Int]
        /\ Inserted(Times(list), Len(list), Times(l), cur + 1, Item.delay)
        /\ \A j \in 1..(Len(list) + 1) :
             l[j] = IF j < cur + 1 THEN list[j]
                    ELSE IF j = cur + 1 THEN Item ELSE list[j - 1]
    <2>1. cur + 1 \in 1..(Len(list) + 1)
      BY <1>2
    <2>2. QED BY <1>1, <2>1, InsertedTimes
  <1> HIDE DEF l
  <1>4. k = 2 => /\ cur + 1 = 2 /\ Len(l) = 2
                 /\ l[1].delay < Item.delay /\ l[2].delay = Item.delay
    <2> SUFFICES ASSUME k = 2
                 PROVE  /\ cur + 1 = 2 /\ Len(l) = 2
                        /\ l[1].delay < Item.delay /\ l[2].delay = Item.delay
      OBVIOUS
    <2>1. cur = 1 /\ Len(list) = 1
      BY <1>1, <1>2 DEF Inside
    <2>2. l[1] = list[1] /\ l[2] = Item
      BY <1>3, <2>1
    <2>3. QED BY <1>1, <1>3, <2>1, <2>2
  <1>5. Scan(Times(l), Len(l), cur + 1, Item.delay, PlacedDelays(k))
    <2>1. /\ Times(list)[cur] < Item.delay
          /\ cur < Len(list) => Times(list)[cur + 1] > Item.delay
      BY <1>1, <1>2
    <2>2. QED BY <1>2, <1>3, <2>1, ScanAfter
  <1>6. cur + 1 \in Nat /\ cur + 1 > 1
    BY <1>2
  <1>7. QED BY <1>1, <1>3, <1>4, <1>5, <1>6, InnerStep

LEMMA PassElementOrder ==
    ASSUME IInv, IInv', OrderInv, PassElement
    PROVE  OrderInv'
  <1>1. /\ InnerLoop /\ list[cur].delay < Item.delay /\ cur < Len(list)
        /\ list[cur + 1].delay <= Item.delay /\ ContinueAt(cur + 1, list)
    BY DEF PassElement
  <1>2. /\ list \in Seq(Items) /\ Len(list) \in Nat /\ cur \in 1..Len(list)
        /\ Item.delay \in Int
        /\ Times(list) \in [1..Len(list) -> Int] /\ PlacedDelays(k) \in SUBSET Int
        /\ Times(list)[cur] = list[cur].delay
        /\ Times(list)[cur + 1] = list[cur + 1].delay
        /\ Scan(Times(list), Len(list), cur, Item.delay, PlacedDelays(k))
        /\ Inside(list, cur)
    BY <1>1, InsideLemma
  <1>3. k # 2
    BY <1>1, <1>2 DEF Inside
  <1>4. Scan(Times(list), Len(list), cur + 1, Item.delay, PlacedDelays(k))
    BY <1>1, <1>2, ScanPass
  <1>5. cur + 1 \in Nat /\ cur + 1 > 1
    BY <1>2
  <1>6. QED BY <1>1, <1>2, <1>3, <1>4, <1>5, InnerStep

-----------------------------------------------------------------------------
(***************************************************************************)
(* The steps of the walk                                                   *)
(***************************************************************************)

\* A step that leaves the pod's annotations, the list and the status alone.
LEMMA SameList ==
    ASSUME IInv, OrderInv, UNCHANGED <<annotations, k, list, status>>,
           pc' # "build" \/ UNCHANGED <<pc, cur>>,
           pc' # "idle" => pc # "idle"
    PROVE  OrderInv'
  <1>1. Reachable(status)' = Reachable(status) /\ IsLatest(status)' = IsLatest(status)
    BY DEF Reachable, IsLatest, Annotated, Delay
  <1>2. Built(list)' = Built(list)
    BY DEF Built, Reachable, IsLatest, Annotated, Delay, Times, Follows
  <1>3. UNCHANGED <<pc, cur>> => Between(list, k)' = Between(list, k)
    BY DEF Between, PlacedDelays, Placed, Annotated, Delay, Times, Ascending, Follows
  <1>4. UNCHANGED <<pc, cur>> => Inside(list, cur)' = Inside(list, cur)
    BY DEF Inside, Scan, Ascending, Follows, PlacedDelays, Placed, Annotated, Item,
           DelayItem, Delay, Times
  <1>5. QED BY <1>1, <1>2, <1>3, <1>4 DEF OrderInv

LEMMA StartCallOrder ==
    ASSUME IInv, OrderInv, StartCall
    PROVE  OrderInv'
  <1>1. /\ pc' = "build" /\ k' = 1 /\ cur' = 0 /\ list' = <<>> /\ Len(list') = 0
        /\ UNCHANGED <<annotations, now, status>>
    BY DEF StartCall
  <1>2. Between(list, k)'
    BY <1>1 DEF Between, Ascending
  <1>3. Reachable(status)' = Reachable(status) /\ IsLatest(status)' = IsLatest(status)
    BY <1>1 DEF Reachable, IsLatest, Annotated, Delay
  <1>4. QED BY <1>1, <1>2, <1>3 DEF OrderInv

\* A call returns with a status that may be shown.
LEMMA ReturnOrder ==
    ASSUME IInv, NEW s, Return(s), s \in Keys => Reachable(s) \/ IsLatest(s)
    PROVE  OrderInv'
  <1>1. pc' = "idle" /\ k' = 1 /\ status' = s /\ UNCHANGED <<annotations, now>>
    BY DEF Return
  <1>2. Reachable(status)' = Reachable(s) /\ IsLatest(status)' = IsLatest(s)
    BY <1>1 DEF Reachable, IsLatest, Annotated, Delay
  <1>3. QED BY <1>1, <1>2 DEF OrderInv

\* The item the walk returns, and what it knows of the next one.
LEMMA ReturnedLemma ==
    ASSUME IInv, OrderInv, ReturnItem
    PROVE  /\ Built(list) /\ Return(list[cur].key)
           /\ Len(list) \in Nat /\ cur \in 1..Len(list) /\ now \in Int
           /\ list[cur].key \in Annotated /\ list[cur].key \in Keys
           /\ list[cur].delay = Delay(list[cur].key)
           /\ list[cur].delay \in Int /\ now > list[cur].delay
           /\ Times(list)[cur] = list[cur].delay
           /\ cur < Len(list) =>
                /\ ~(now > list[cur + 1].delay)
                /\ list[cur + 1].delay \in Int
                /\ Times(list)[cur + 1] = list[cur + 1].delay
  <1>1. /\ pc = "walk" /\ Return(list[cur].key) /\ now > list[cur].delay
        /\ cur < Len(list) => ~(now > list[cur + 1].delay)
    BY DEF ReturnItem, Elapsed
  <1>2. /\ k = 4 /\ list \in Seq(Items)
        /\ Len(list) \in Nat /\ cur \in 1..Len(list) /\ now \in Int
        /\ \A i \in 1..Len(list) : /\ list[i].key \in Annotated
                                   /\ list[i].key \in Keys
                                   /\ list[i].delay = Delay(list[i].key)
                                   /\ list[i].delay \in Int
    BY <1>1, WalkLemma DEF IInv, TypeOK
  <1>3. Built(list)
    BY <1>1, <1>2 DEF OrderInv
  <1>4. \A i \in 1..Len(list) : Times(list)[i] = list[i].delay
    BY DEF Times
  <1>5. cur < Len(list) => cur + 1 \in 1..Len(list)
    BY <1>2
  <1>6. QED BY <1>1, <1>2, <1>3, <1>4, <1>5

LEMMA ReturnItemOrder ==
    ASSUME IInv, OrderInv, ReturnItem
    PROVE  OrderInv'
  <1>1. Reachable(list[cur].key) \/ IsLatest(list[cur].key)
    <2>1. ~(cur < Len(list) /\ list[cur + 1].delay <= list[cur].delay)
      BY ReturnedLemma
    <2>2. QED BY <2>1, ReturnedLemma DEF Built
  <1>2. QED BY <1>1, ReturnedLemma, ReturnOrder

-----------------------------------------------------------------------------
(***************************************************************************)
(* Theorems                                                                *)
(***************************************************************************)

LEMMA InitOrder == Init => OrderInv
  <1> SUFFICES ASSUME Init PROVE OrderInv
    OBVIOUS
  <1>1. pc = "idle" /\ status \notin Keys
    BY DEF Init, Keys
  <1>2. QED BY <1>1 DEF OrderInv

LEMMA NextOrder == IInv /\ IInv' /\ OrderInv /\ [Next]_vars => OrderInv'
  <1> SUFFICES ASSUME IInv, IInv', OrderInv, [Next]_vars PROVE OrderInv'
    OBVIOUS
  <1>1. CASE Tick
    BY <1>1, SameList DEF Tick
  <1>2. CASE StartCall BY <1>2, StartCallOrder
  <1>3. CASE CreateDelayList
    BY <1>3, SkipAnnotationOrder, PushFrontOrder, StartInsertOrder,
       InsertBeforeOrder, InsertAfterOrder, PassElementOrder DEF CreateDelayList
  <1>4. CASE ReturnDefault
    <2>1. Return("default") /\ "default" \notin Keys
      BY <1>4 DEF ReturnDefault, Keys
    <2>2. QED BY <2>1, ReturnOrder
  <1>5. CASE StartWalk
    BY <1>5, SameList DEF StartWalk, ListBuilt
  <1>6. CASE ReturnNil
    <2>1. Return(status)
      BY <1>6 DEF ReturnNil
    <2>2. QED BY <2>1, ReturnOrder DEF OrderInv
  <1>7. CASE ReturnItem BY <1>7, ReturnItemOrder
  <1>8. CASE WalkOn
    BY <1>8, SameList DEF WalkOn
  <1>9. CASE UNCHANGED vars
    BY <1>9, SameList DEF vars
  <1>10. QED
    BY <1>1, <1>2, <1>3, <1>4, <1>5, <1>6, <1>7, <1>8, <1>9
       DEF Next, TrackerStep, GetNowStatus

\* What the list skips, and what may be shown of it, in every state of every
\* execution: the walk never stops at an item that a shown status is above.
THEOREM OrderInvariance == Spec => []OrderInv
  <1>1. QED BY InitOrder, NextOrder, Invariance, PTL DEF Spec

\* Steps other than a return leave the status alone.
LEMMA StatusLemma ==
    ASSUME IInv, [Next]_vars
    PROVE  \/ status' = status
           \/ ReturnDefault
           \/ ReturnItem
  BY DEF Next, vars, Tick, TrackerStep, StartCall, CreateDelayList, SkipAnnotation,
         PushFront, StartInsert, InsertBefore, InsertAfterLast, InsertBetween,
         PassElement, ContinueAt, NextAnnotation, GetNowStatus, StartWalk, ReturnNil,
         WalkOn, Return

\* What a step makes of a status that is shown.
LEMMA ForwardLemma ==
    ASSUME IInv, IInv', OrderInv, [Next]_vars, status \in Keys
    PROVE  status' \in Annotated /\ status' \in Keys /\ Delay(status) <= Delay(status')
  <1>1. status \in Annotated /\ now > Delay(status) /\ Delay(status) \in Int /\ now \in Int
    BY DelayLemma DEF IInv, NeverEarly, TypeOK
  <1>2. CASE status' = status
    BY <1>1, <1>2
  <1>3. CASE ReturnDefault
    <2>1. status' = "default" /\ annotations' = annotations
      BY <1>3 DEF ReturnDefault, Return
    <2>2. Annotated = {}
      BY <2>1 DEF IInv, NeverEarly, Annotated
    <2>3. QED BY <1>1, <2>2
  <1>4. CASE ReturnItem
    <2>1. status' = list[cur].key
      BY <1>4, ReturnedLemma DEF Return
    <2>2. CASE Reachable(status)
      <3> SUFFICES ASSUME list[cur].delay < Delay(status) PROVE FALSE
        BY <1>1, <1>4, <2>1, ReturnedLemma
      <3>1. Follows(Times(list), Len(list), cur, Delay(status))
        BY <1>1, <1>4, <2>2, ReturnedLemma DEF Built
      <3>2. cur < Len(list) /\ list[cur + 1].delay <= Delay(status)
        BY <1>4, <3>1, ReturnedLemma DEF Follows
      <3>3. QED BY <1>1, <1>4, <3>2, ReturnedLemma
    <2>3. CASE IsLatest(status)
      <3>1. ASSUME NEW key \in Annotated PROVE now > Delay(key)
        BY <1>1, <2>3, DelayLemma DEF IInv, IsLatest
      <3>2. IsLatest(status')
        BY <1>4, <3>1, SettlesLemma DEF AllElapsed
      <3>3. QED BY <1>1, <1>4, <2>1, <3>2, ReturnedLemma DEF IsLatest
    <2>4. QED BY <2>2, <2>3 DEF OrderInv
  <1>5. QED BY <1>2, <1>3, <1>4, StatusLemma

\* A pod never goes back to the status of a smaller delay, although the list
\* is not sorted and is built anew by each call.
THEOREM NeverGoesBackTheorem == Spec => NeverGoesBack
  <1>1. IInv /\ IInv' /\ OrderInv /\ [Next]_vars =>
          [(status \in Keys) => status' \in Keys /\ Delay(status) <= Delay(status')]_vars
    BY ForwardLemma
  <1>2. QED BY <1>1, Invariance, OrderInvariance, PTL DEF NeverGoesBack, Spec

\* The status shown for an annotation that the pod has: it started with
\* delayRunning, whatever the annotation, and finished with its own.
LEMMA ShownLemma ==
    ASSUME NEW key \in Keys \cap Annotated
    PROVE  /\ ShownStatus(key).container.startedAt =
                GetDelayDuration(PodDelays, "delayRunning")
           /\ key # "delayRunning" =>
                ShownStatus(key).container.finishedAt = Delay(key)
  <1>1. GetDelayDuration(PodDelays, key) = Delay(key)
    BY DEF GetDelayDuration, PodDelays
  <1>2. CASE key = "delayRunning"
    BY <1>2 DEF ShownStatus, CreateStatus, CreateRunningStatus, RunningContainer
  <1>3. CASE key = "delaySucceeded"
    BY <1>1, <1>3 DEF ShownStatus, CreateStatus, CreateSucceededStatus,
                      TerminatedContainer
  <1>4. CASE key = "delayFailed"
    BY <1>1, <1>4 DEF ShownStatus, CreateStatus, CreateFailedStatus,
                      TerminatedContainer
  <1>5. QED BY <1>2, <1>3, <1>4 DEF Keys

\* A pod that shows its containers as finished says so of a time that has
\* passed, whichever of the two annotations the status was made from.
THEOREM FinishedInThePastTheorem == Spec => []FinishedInThePast
  <1>1. IInv => FinishedInThePast
    <2> SUFFICES ASSUME IInv, status \in Keys \ {"delayRunning"}
                 PROVE  ShownStatus(status).container.finishedAt < now
      BY DEF FinishedInThePast
    <2>1. status \in Annotated /\ now > Delay(status) /\ Delay(status) \in Int /\ now \in Int
      BY DelayLemma DEF IInv, NeverEarly, TypeOK
    <2>2. ShownStatus(status).container.finishedAt = Delay(status)
      BY <2>1, ShownLemma
    <2>3. QED BY <2>1, <2>2
  <1>2. QED BY <1>1, Invariance, PTL

\* A pod that was shown running and then as finished keeps its start, and
\* did not finish before it: it was shown running because delayRunning is not
\* the greater delay.
THEOREM RunsBeforeFinishingTheorem == Spec => RunsBeforeFinishing
  <1> DEFINE Step ==
        status = "delayRunning" /\ status' \in Keys \ {"delayRunning"} =>
          LET before == ShownStatus(status).container
              after == ShownStatus(status').container
          IN  /\ after.startedAt = before.startedAt
              /\ after.startedAt <= after.finishedAt
  <1>1. IInv /\ IInv' /\ OrderInv /\ [Next]_vars => [Step]_vars
    <2> SUFFICES ASSUME IInv, IInv', OrderInv, [Next]_vars, status = "delayRunning",
                        status' \in Keys \ {"delayRunning"}
                 PROVE  /\ ShownStatus(status').container.startedAt =
                             ShownStatus(status).container.startedAt
                        /\ ShownStatus(status').container.startedAt <=
                             ShownStatus(status').container.finishedAt
      BY Zenon
    <2>1. /\ status \in Keys \cap Annotated /\ status' \in Keys \cap Annotated
          /\ Delay(status) <= Delay(status')
      BY ForwardLemma DEF IInv, NeverEarly, Keys
    <2>2. /\ ShownStatus(status).container.startedAt =
               GetDelayDuration(PodDelays, "delayRunning")
          /\ ShownStatus(status').container.startedAt =
               GetDelayDuration(PodDelays, "delayRunning")
          /\ ShownStatus(status').container.finishedAt = Delay(status')
      BY <2>1, ShownLemma, Zenon
    <2>3. GetDelayDuration(PodDelays, "delayRunning") = Delay(status)
      BY <2>1 DEF GetDelayDuration, PodDelays
    <2>4. QED BY <2>1, <2>2, <2>3
  <1>2. QED BY <1>1, Invariance, OrderInvariance, PTL DEF RunsBeforeFinishing, Spec

-----------------------------------------------------------------------------
(***************************************************************************)
(* The refinement                                                          *)
(***************************************************************************)

\* A step of the tracker or of the clock is one of Schedule's, or changes
\* nothing that Schedule sees.
LEMMA StepSimulation ==
    ASSUME IInv, IInv', OrderInv, [Next]_vars
    PROVE  [Promise!Next]_(Promise!vars)
  <1>1. UNCHANGED annotations => UNCHANGED PodDelays
    BY DEF PodDelays, Annotated, Delay
  <1>2. CASE Tick
    BY <1>1, <1>2 DEF Tick, Promise!Next, Promise!Tick
  <1>3. CASE ReturnDefault
    <2>1. status' = "default" /\ UNCHANGED <<annotations, now>>
      BY <1>3 DEF ReturnDefault, Return
    <2>2. Annotated = {}
      BY <2>1 DEF IInv, NeverEarly, Annotated
    <2>3. DOMAIN PodDelays = {}
      BY <2>2 DEF PodDelays
    <2>4. QED BY <1>1, <2>1, <2>3 DEF Promise!Next, Promise!ShowDefault
  <1>4. CASE ReturnItem
    <2> DEFINE a == list[cur].key
    <2>1. /\ status' = a /\ UNCHANGED <<annotations, now>>
          /\ a \in Annotated /\ a \in Keys /\ now > Delay(a)
      BY <1>4, ReturnedLemma DEF Return
    <2> HIDE DEF a
    <2>2. \A key \in Annotated : key \in Keys /\ PodDelays[key] = Delay(key)
      BY DelayLemma DEF IInv, PodDelays
    <2>3. DOMAIN PodDelays = Annotated
      BY DEF PodDelays
    <2>4. status \in Annotated => Delay(status) <= Delay(a)
      BY <2>1, <2>2, ForwardLemma
    <2>5. Promise!Show(a)
      BY <1>1, <2>1, <2>2, <2>3, <2>4 DEF Promise!Show, Promise!Due
    <2>6. QED BY <2>1, <2>5 DEF Promise!Next
  <1>5. CASE UNCHANGED <<annotations, now, status>>
    BY <1>1, <1>5 DEF Promise!vars
  <1>6. Tick \/ ReturnDefault \/ ReturnItem \/ UNCHANGED <<annotations, now, status>>
    BY DEF Next, vars, TrackerStep, StartCall, CreateDelayList, SkipAnnotation,
           PushFront, StartInsert, InsertBefore, InsertAfterLast, InsertBetween,
           PassElement, ContinueAt, NextAnnotation, GetNowStatus, StartWalk, ReturnNil,
           WalkOn, Return
  <1>7. QED BY <1>2, <1>3, <1>4, <1>5, <1>6

\* createDelayList and getNowStatus implement what Schedule says a pod may
\* show and when (its safety part): every state Init allows is one of
\* Schedule's, and every step is a step of Schedule or a stutter.
THEOREM ImplementsScheduleSafety == Spec => Promise!Spec
  <1>1. Init => Promise!Init
    <2> SUFFICES ASSUME Init PROVE Promise!Init
      OBVIOUS
    <2>1. IInv
      BY InitLemma
    <2>2. \A key \in Annotated : key \in Keys /\ Delay(key) \in Int
      BY <2>1, DelayLemma DEF IInv
    <2>3. DOMAIN PodDelays = Annotated /\ \A key \in Annotated : PodDelays[key] = Delay(key)
      BY DEF PodDelays
    <2>4. QED BY <2>2, <2>3 DEF Init, Promise!Init
  <1>2. IInv /\ IInv' /\ OrderInv /\ [Next]_vars => [Promise!Next]_(Promise!vars)
    BY StepSimulation
  <1>3. QED BY <1>1, <1>2, Invariance, OrderInvariance, PTL DEF Spec, Promise!Spec
=============================================================================
