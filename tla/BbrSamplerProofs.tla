-------------------------- MODULE BbrSamplerProofs --------------------------
(***************************************************************************)
(* Proofs about BbrSampler: the filter of the maximum bandwidth, for any   *)
(* window, any bandwidths and any number of rounds, and the queue of sent  *)
(* packets, for any size of its ring and any number of packets.            *)
(***************************************************************************)
EXTENDS BbrSampler, FiniteSetTheorems, WellFoundedInduction, TLAPS

Entry == [v : Nat, t : Nat]

(* The second and the third estimate are no better and no older than the   *)
(* one before them, and none is of a round to come.                        *)
Ranked(e, t) == /\ e[1].v >= e[2].v /\ e[2].v >= e[3].v
                /\ e[1].t <= e[2].t /\ e[2].t <= e[3].t /\ e[3].t <= t

BInv == round \in Nat /\ est \in [1..3 -> Entry] /\ Ranked(est, round)

(* What an update of the filter may do: the best estimate falls only when  *)
(* it is outside the window, and the new one is inside.                    *)
Holds(e, f, t) == /\ f[1].v < e[1].v => t - e[1].t > Window
                  /\ t - f[1].t <= Window
-----------------------------------------------------------------------------
LEMMA TripleIs ==
    ASSUME NEW a \in Entry, NEW b \in Entry, NEW c \in Entry
    PROVE  /\ <<a, b, c>> \in [1..3 -> Entry]
           /\ <<a, b, c>>[1] = a /\ <<a, b, c>>[2] = b /\ <<a, b, c>>[3] = c
  OBVIOUS

(* Samples that are as good as the second or the third estimate replace it *)
(* first; the best one stays.                                              *)
Insert(e, v, t) ==
    LET new == [v |-> v, t |-> t] IN
    IF v >= e[2].v THEN [e EXCEPT ![2] = new, ![3] = new]
    ELSE IF v >= e[3].v THEN [e EXCEPT ![3] = new] ELSE e

LEMMA InsertKeeps ==
    ASSUME NEW e \in [1..3 -> Entry], NEW v \in Nat, NEW t \in Nat, Ranked(e, t), v < e[1].v
    PROVE  LET f == Insert(e, v, t) IN
           /\ f \in [1..3 -> Entry] /\ Ranked(f, t) /\ f[1] = e[1] /\ f[3].v >= v
           /\ f[3].t = t \/ f[3].t = e[3].t
  <1> DEFINE new == [v |-> v, t |-> t]
             f == Insert(e, v, t)
  <1>1. new \in Entry /\ new.v = v /\ new.t = t
    BY DEF Entry
  <1>2. e[1] \in Entry /\ e[2] \in Entry /\ e[3] \in Entry
    OBVIOUS
  <1>3. e[1].t <= t /\ e[2].t <= t
    BY <1>2 DEF Ranked, Entry
  <1>0. f = IF v >= e[2].v THEN [e EXCEPT ![2] = new, ![3] = new]
            ELSE IF v >= e[3].v THEN [e EXCEPT ![3] = new] ELSE e
    BY DEF Insert
  <1> DEFINE Good == /\ f \in [1..3 -> Entry] /\ Ranked(f, t) /\ f[1] = e[1] /\ f[3].v >= v
                     /\ f[3].t = t \/ f[3].t = e[3].t
  <1> SUFFICES Good
    OBVIOUS
  <1> HIDE DEF f, new
  <1>4. CASE v >= e[2].v
    <2>1. f \in [1..3 -> Entry] /\ f[1] = e[1] /\ f[2] = new /\ f[3] = new
      BY <1>0, <1>1, <1>4
    <2> QED BY <1>1, <1>2, <1>3, <2>1 DEF Ranked, Entry
  <1>5. CASE ~(v >= e[2].v) /\ v >= e[3].v
    <2>1. f \in [1..3 -> Entry] /\ f[1] = e[1] /\ f[2] = e[2] /\ f[3] = new
      BY <1>0, <1>1, <1>5
    <2> QED BY <1>1, <1>2, <1>3, <1>5, <2>1 DEF Ranked, Entry
  <1>6. CASE ~(v >= e[2].v) /\ ~(v >= e[3].v)
    BY <1>0, <1>2, <1>6 DEF Ranked, Entry
  <1> QED BY <1>4, <1>5, <1>6

LEMMA UpdateHolds ==
    ASSUME NEW e \in [1..3 -> Entry], NEW v \in Nat, NEW t \in Nat, Ranked(e, t)
    PROVE  /\ Update(e, v, t) \in [1..3 -> Entry] /\ Ranked(Update(e, v, t), t)
           /\ Holds(e, Update(e, v, t), t)
  <1> DEFINE new == [v |-> v, t |-> t]
             f == Insert(e, v, t)
             u == Update(e, v, t)
             Good == u \in [1..3 -> Entry] /\ Ranked(u, t) /\ Holds(e, u, t)
  <1>1. new \in Entry /\ new.v = v /\ new.t = t
    BY DEF Entry
  <1>2. e[1] \in Entry /\ e[2] \in Entry /\ e[3] \in Entry /\ Window \in Nat
    BY WindowAssumption
  <1>3. CASE e[1].v = 0 \/ v >= e[1].v \/ Age(e, 3, t) > Window
    <2>1. u = Reset(v, t)
      BY <1>3 DEF Update
    <2>2. u \in [1..3 -> Entry] /\ u[1] = new /\ u[2] = new /\ u[3] = new
      BY <1>1, <2>1 DEF Reset
    <2> HIDE DEF u, new
    <2>3. v < e[1].v => t - e[1].t > Window
      BY <1>2, <1>3 DEF Age, Ranked, Entry
    <2>4. Good
      BY <1>1, <1>2, <2>2, <2>3 DEF Ranked, Holds, Entry
    <2> QED BY <2>4 DEF u
  <1>4. CASE ~(e[1].v = 0 \/ v >= e[1].v \/ Age(e, 3, t) > Window)
    <2>1. u = IF Age(f, 1, t) > Window
              THEN IF Age(f, 2, t) > Window THEN <<f[3], new, new>> ELSE <<f[2], f[3], new>>
              ELSE IF f[2].v = f[1].v /\ Age(f, 2, t) > Window \div 4 THEN <<f[1], new, new>>
              ELSE IF f[3].v = f[2].v /\ Age(f, 3, t) > Window \div 2 THEN <<f[1], f[2], new>>
              ELSE f
      BY <1>4 DEF Update, Insert
    <2>2. v < e[1].v /\ t - e[3].t <= Window
      BY <1>2, <1>4 DEF Age, Entry
    <2>3. /\ f \in [1..3 -> Entry] /\ Ranked(f, t) /\ f[1] = e[1] /\ f[3].v >= v
          /\ f[3].t = t \/ f[3].t = e[3].t
      BY <2>2, InsertKeeps
    <2> HIDE DEF u, f, new
    <2>4. f[1] \in Entry /\ f[2] \in Entry /\ f[3] \in Entry
      BY <2>3
    <2>5. t - f[3].t <= Window /\ f[1].t <= t /\ f[2].t <= t /\ f[3].t <= t /\ f[2].v >= v
      BY <1>2, <2>2, <2>3, <2>4 DEF Ranked, Entry
    <2>6. ASSUME u = <<f[3], new, new>> /\ Age(f, 1, t) > Window PROVE Good
      <3>1. u \in [1..3 -> Entry] /\ u[1] = f[3] /\ u[2] = new /\ u[3] = new
        BY <1>1, <2>4, <2>6, TripleIs
      <3> QED BY <1>1, <1>2, <2>3, <2>4, <2>5, <2>6, <3>1 DEF Ranked, Holds, Entry, Age
    <2>7. ASSUME u = <<f[2], f[3], new>> /\ Age(f, 1, t) > Window /\ ~(Age(f, 2, t) > Window) PROVE Good
      <3>1. u \in [1..3 -> Entry] /\ u[1] = f[2] /\ u[2] = f[3] /\ u[3] = new
        BY <1>1, <2>4, <2>7, TripleIs
      <3> QED BY <1>1, <1>2, <2>3, <2>4, <2>5, <2>7, <3>1 DEF Ranked, Holds, Entry, Age
    <2>8. ASSUME u = <<f[1], new, new>> /\ ~(Age(f, 1, t) > Window) PROVE Good
      <3>1. u \in [1..3 -> Entry] /\ u[1] = f[1] /\ u[2] = new /\ u[3] = new
        BY <1>1, <2>4, <2>8, TripleIs
      <3> QED BY <1>1, <1>2, <2>2, <2>3, <2>4, <2>5, <2>8, <3>1 DEF Ranked, Holds, Entry, Age
    <2>9. ASSUME u = <<f[1], f[2], new>> /\ ~(Age(f, 1, t) > Window) PROVE Good
      <3>1. u \in [1..3 -> Entry] /\ u[1] = f[1] /\ u[2] = f[2] /\ u[3] = new
        BY <1>1, <2>4, <2>9, TripleIs
      <3> QED BY <1>1, <1>2, <2>2, <2>3, <2>4, <2>5, <2>9, <3>1 DEF Ranked, Holds, Entry, Age
    <2>10. ASSUME u = f /\ ~(Age(f, 1, t) > Window) PROVE Good
      BY <1>2, <2>3, <2>4, <2>10 DEF Ranked, Holds, Entry, Age
    <2>11. Good
      BY <2>1, <2>6, <2>7, <2>8, <2>9, <2>10
    <2> QED BY <2>11 DEF u
  <1> QED BY <1>3, <1>4
-----------------------------------------------------------------------------
LEMMA BInvInit == Init => BInv
  BY DEF Init, BInv, Ranked, Reset, Entry

(* An event updates the filter with the round it belongs to, or leaves it. *)
LEMMA EventUpdates ==
    ASSUME NEW A, NEW L, Event(A, L)
    PROVE  /\ round' \in {round, round + 1}
           /\ est' = est \/ \E v \in 0..MaxRate : est' = Update(est, v, round')
  <1>1. PICK app \in BOOLEAN : OnCongestionEventEx(A, L, app)
    BY DEF Event
  <1>2. round' \in {round, round + 1}
    BY <1>1 DEF OnCongestionEventEx
  <1>3. \A s \in Samples(A) : s.v \in 0..MaxRate
    BY BoundAssumption DEF Samples
  <1>4. est' = est \/ \E s \in Samples(A) : est' = Update(est, s.v, round')
    BY <1>1 DEF OnCongestionEventEx
  <1> QED BY <1>2, <1>3, <1>4

LEMMA BInvNext ==
    ASSUME BInv, [Next]_vars
    PROVE  BInv' /\ (est' = est \/ Holds(est, est', round'))
  <1>1. CASE UNCHANGED <<round, est>>
    BY <1>1 DEF BInv, Ranked
  <1>2. ASSUME NEW A, NEW L, Event(A, L)
        PROVE  BInv' /\ (est' = est \/ Holds(est, est', round'))
    <2>1. round' \in Nat /\ round <= round'
      BY <1>2, EventUpdates DEF BInv
    <2>2. est \in [1..3 -> Entry] /\ Ranked(est, round')
      <3>1. est[3] \in Entry /\ round \in Nat
        BY DEF BInv
      <3> QED BY <2>1, <3>1 DEF BInv, Ranked, Entry
    <2>3. CASE est' = est
      BY <2>1, <2>2, <2>3 DEF BInv, Ranked
    <2>4. ASSUME NEW v \in 0..MaxRate, est' = Update(est, v, round')
          PROVE  BInv' /\ Holds(est, est', round')
      <3>1. v \in Nat
        BY BoundAssumption
      <3>2. /\ est' \in [1..3 -> Entry] /\ Ranked(est', round') /\ Holds(est, est', round')
        BY <2>1, <2>2, <2>4, <3>1, UpdateHolds
      <3> QED BY <2>1, <3>2 DEF BInv, Ranked
    <2> QED BY <1>2, <2>3, <2>4, EventUpdates
  <1> QED BY <1>1, <1>2 DEF Next, vars, OnPacketSent

(* The three estimates are ordered by bandwidth and by age in every state, *)
(* so that the successor of an expired best estimate is the best of the    *)
(* later ones (WindowedFilter).                                            *)
THEOREM EstimatesRanked == Spec => []BInv
  <1>1. BInv /\ [Next]_vars => BInv'
    BY BInvNext
  <1> QED BY <1>1, BInvInit, PTL DEF Spec

(* The bandwidth estimate falls only when the sample it rests on is older  *)
(* than the window, and an update never leaves an older one in place, for  *)
(* any window and bandwidths (WindowedFilter.Update).                      *)
THEOREM BestHoldsAlways == Spec => BestHolds
  <1> DEFINE Step == /\ est'[1].v < est[1].v => round' - est[1].t > Window
                     /\ est' # est => round' - est'[1].t <= Window
  <1>1. BInv /\ [Next]_vars => [Step]_vars
    <2> SUFFICES ASSUME BInv, [Next]_vars PROVE Step
      OBVIOUS
    <2>1. est[1].v \in Nat
      BY DEF BInv, Entry
    <2>2. CASE est' = est
      BY <2>1, <2>2
    <2>3. CASE Holds(est, est', round')
      BY <2>3 DEF Holds
    <2> QED BY <2>2, <2>3, BInvNext
  <1>2. Spec => [][Step]_vars
    BY <1>1, EstimatesRanked, PTL DEF Spec
  <1> QED BY <1>2 DEF BestHolds
-----------------------------------------------------------------------------
(***************************************************************************)
(* The ring buffer as a sequence: Length and Offset are what the queue     *)
(* sees of it, and each operation is stated by what it does to them.       *)
(***************************************************************************)
Cells == [packet : Int, limited : BOOLEAN]
Rings == UNION {[0..n - 1 -> Cells] : n \in Nat \ {0}}
QueueSet == [ring : Rings, head : Nat, tail : Nat, full : BOOLEAN, count : Int, first : Int]
Shape(r) == /\ r \in QueueSet /\ r.head < Size(r) /\ r.tail < Size(r)
            /\ r.full => r.head = r.tail

LEMMA LeastNat ==
    ASSUME NEW T \in SUBSET Nat, T # {}
    PROVE  \E x \in T : \A y \in T : x <= y
  <1>1. IsWellFoundedOn(OpToRel(<, Nat), Nat)
    BY NatLessThanWellFounded
  <1>2. PICK x \in T : \A y \in T : ~(<<y, x>> \in OpToRel(<, Nat))
    BY <1>1, WFMin, Zenon
  <1>3. \A y \in T : ~(y < x)
    BY <1>2 DEF OpToRel
  <1> QED BY <1>3

LEMMA ModIs ==
    ASSUME NEW n \in Nat \ {0}, NEW x \in Int, 0 <= x, x < n + n
    PROVE  x % n = IF x < n THEN x ELSE x - n
  <1>1. CASE x < n
    BY <1>1
  <1>2. CASE x >= n
    BY <1>2
  <1> QED BY <1>1, <1>2

LEMMA SizeOf ==
    ASSUME NEW r, NEW n \in Nat \ {0}, r.ring \in [0..n - 1 -> Cells]
    PROVE  Size(r) = n
  <1>1. Cardinality(0..n - 1) = IF 0 > n - 1 THEN 0 ELSE n - 1 - 0 + 1
    BY FS_Interval
  <1>2. DOMAIN r.ring = 0..n - 1
    OBVIOUS
  <1> QED BY <1>1, <1>2 DEF Size

LEMMA SizeIs ==
    ASSUME NEW r \in QueueSet
    PROVE  Size(r) \in Nat \ {0} /\ r.ring \in [0..Size(r) - 1 -> Cells]
  <1>1. PICK n \in Nat \ {0} : r.ring \in [0..n - 1 -> Cells]
    BY DEF QueueSet, Rings
  <1> QED BY <1>1, SizeOf

(* The place of cell i in the ring. *)
Place(r, i) == IF r.head + i < Size(r) THEN r.head + i ELSE (r.head + i) - Size(r)

LEMMA ShapeIs ==
    ASSUME NEW r, Shape(r)
    PROVE  /\ Size(r) \in Nat \ {0} /\ r.ring \in [0..Size(r) - 1 -> Cells]
           /\ r.head \in 0..Size(r) - 1 /\ r.tail \in 0..Size(r) - 1 /\ r.full \in BOOLEAN
           /\ r.count \in Int /\ r.first \in Int
           /\ Length(r) = IF r.full THEN Size(r)
                          ELSE IF r.tail >= r.head THEN r.tail - r.head
                          ELSE r.tail - r.head + Size(r)
           /\ Length(r) \in 0..Size(r)
  <1> DEFINE n == Size(r)
  <1>1. n \in Nat \ {0} /\ r.ring \in [0..n - 1 -> Cells] /\ r.full \in BOOLEAN
        /\ r.head \in 0..n - 1 /\ r.tail \in 0..n - 1 /\ r.count \in Int /\ r.first \in Int
    <2>1. r \in QueueSet /\ r.head < Size(r) /\ r.tail < Size(r)
      BY DEF Shape
    <2>2. n \in Nat \ {0} /\ r.ring \in [0..n - 1 -> Cells]
      BY <2>1, SizeIs
    <2> HIDE DEF n
    <2>3. n = Size(r)
      BY DEF n
    <2> QED BY <2>1, <2>2, <2>3 DEF QueueSet
  <1> HIDE DEF n
  <1>2. Length(r) = IF r.full THEN n ELSE (r.tail - r.head + n) % n
    BY DEF Length, n
  <1>3. (r.tail - r.head + n) % n = IF r.tail >= r.head THEN r.tail - r.head
                                    ELSE r.tail - r.head + n
    <2> DEFINE x == r.tail - r.head + n
    <2>1. /\ x \in Int /\ 0 <= x /\ x < n + n /\ (x < n <=> ~(r.tail >= r.head))
          /\ x - n = r.tail - r.head
      BY <1>1
    <2>2. x % n = IF x < n THEN x ELSE x - n
      <3> HIDE DEF x
      <3> QED BY <1>1, <2>1, ModIs
    <2> HIDE DEF x
    <2>3. x % n = IF r.tail >= r.head THEN r.tail - r.head ELSE x
      BY <2>1, <2>2
    <2> QED BY <2>3 DEF x
  <1>5. Length(r) = IF r.full THEN n ELSE IF r.tail >= r.head THEN r.tail - r.head
                    ELSE r.tail - r.head + n
    BY <1>1, <1>2, <1>3
  <1>6. Length(r) \in 0..n
    BY <1>1, <1>5
  <1> QED BY <1>1, <1>5, <1>6 DEF n

LEMMA OffsetIs ==
    ASSUME NEW r, Shape(r), NEW i \in 0..Size(r) - 1
    PROVE  /\ Place(r, i) \in 0..Size(r) - 1 /\ Offset(r, i) = r.ring[Place(r, i)]
           /\ (r.head + i) % Size(r) = Place(r, i) /\ Offset(r, i) \in Cells
  <1> DEFINE n == Size(r)
  <1>1. n \in Nat \ {0} /\ r.ring \in [0..n - 1 -> Cells] /\ r.head \in 0..n - 1 /\ i \in 0..n - 1
    BY ShapeIs
  <1>2. Offset(r, i) = r.ring[(r.head + i) % n]
    BY DEF Offset
  <1> HIDE DEF n
  <1>5. (r.head + i) % n = Place(r, i) /\ Place(r, i) \in 0..n - 1
    <2> DEFINE x == r.head + i
    <2>1. x \in Int /\ 0 <= x /\ x < n + n
      BY <1>1
    <2>4. Place(r, i) = IF x < n THEN x ELSE x - n
      BY DEF Place, n
    <2> HIDE DEF x
    <2>2. x % n = IF x < n THEN x ELSE x - n
      BY <1>1, <2>1, ModIs
    <2>3. x % n = Place(r, i) /\ Place(r, i) \in 0..n - 1
      BY <1>1, <2>1, <2>2, <2>4
    <2> QED BY <2>3 DEF x
  <1> QED BY <1>1, <1>2, <1>5 DEF n

(* s has the cells of r and after them what else it has. *)
Extends(s, r) == /\ Shape(s) /\ Length(r) <= Length(s)
                 /\ \A i \in 0..Length(r) - 1 : Offset(s, i) = Offset(r, i)
                 /\ s.count = r.count /\ s.first = r.first

LEMMA AbsentIs == Absent \in Cells /\ Absent.packet = Invalid
  BY DEF Absent, Cell, Cells, Invalid

LEMMA GrowIs ==
    ASSUME NEW r, Shape(r), r.full
    PROVE  Extends(Grow(r), r) /\ ~Grow(r).full /\ Length(Grow(r)) = Length(r)
  <1> DEFINE n == Size(r)
             g == Grow(r)
             w == [i \in 0..2 * n - 1 |-> IF i < n THEN Offset(r, i) ELSE Absent]
  <1>1. n \in Nat \ {0} /\ r \in QueueSet /\ Length(r) = n
    BY ShapeIs DEF Shape
  <1>2. g = [r EXCEPT !.ring = w, !.head = 0, !.tail = n, !.full = FALSE]
    BY DEF Grow
  <1>3. \A i \in 0..n - 1 : Offset(r, i) \in Cells
    BY OffsetIs
  <1> HIDE DEF g, n
  <1>4. w \in [0..2 * n - 1 -> Cells] /\ \A i \in 0..n - 1 : w[i] = Offset(r, i)
    BY <1>1, <1>3, AbsentIs
  <1>5. 2 * n \in Nat \ {0} /\ n < 2 * n
    BY <1>1
  <1> HIDE DEF w
  <1>6. w \in Rings
    BY <1>4, <1>5 DEF Rings
  <1>7. /\ g \in QueueSet /\ g.ring = w /\ g.head = 0 /\ g.tail = n /\ g.full = FALSE
        /\ g.count = r.count /\ g.first = r.first
    BY <1>1, <1>2, <1>6 DEF QueueSet
  <1>8. Size(g) = 2 * n
    BY <1>4, <1>5, <1>7, SizeOf
  <1>9. Shape(g)
    BY <1>1, <1>5, <1>7, <1>8 DEF Shape
  <1>10. Length(g) = n
    BY <1>1, <1>5, <1>7, <1>9, ShapeIs
  <1>11. ASSUME NEW i \in 0..n - 1 PROVE Offset(g, i) = Offset(r, i)
    <2>1. i \in 0..Size(g) - 1 /\ i < Size(g) /\ 0 + i = i
      BY <1>1, <1>5, <1>8
    <2>2. Offset(g, i) = g.ring[Place(g, i)]
      BY <1>9, <2>1, OffsetIs
    <2>3. Place(g, i) = i
      BY <1>7, <2>1 DEF Place
    <2> QED BY <1>4, <1>7, <2>2, <2>3
  <1> QED BY <1>1, <1>7, <1>9, <1>10, <1>11 DEF Extends, g

(* PushBack on a ring that is not full. *)
Push(g, cell) == LET t == (g.tail + 1) % Size(g) IN
    [g EXCEPT !.ring[g.tail] = cell, !.tail = t, !.full = (t = g.head)]

LEMMA PushIs ==
    ASSUME NEW g, Shape(g), ~g.full, NEW cell \in Cells
    PROVE  LET s == Push(g, cell)
           IN  Extends(s, g) /\ Length(s) = Length(g) + 1 /\ Offset(s, Length(g)) = cell
  <1> DEFINE n == Size(g)
             t == (g.tail + 1) % n
             w == [g.ring EXCEPT ![g.tail] = cell]
             b == t = g.head
             s == Push(g, cell)
             m == Length(g)
  <1>1. /\ g \in QueueSet /\ n \in Nat \ {0} /\ g.ring \in [0..n - 1 -> Cells] /\ g.head \in 0..n - 1
        /\ g.tail \in 0..n - 1
        /\ m = (IF g.tail >= g.head THEN g.tail - g.head ELSE g.tail - g.head + n)
    BY ShapeIs DEF Shape
  <1>2. s = [g EXCEPT !.ring = w, !.tail = t, !.full = b] /\ b \in BOOLEAN
    BY <1>1 DEF QueueSet, Push
  <1> SUFFICES Extends(s, g) /\ Length(s) = m + 1 /\ Offset(s, m) = cell
    OBVIOUS
  <1>s. n = Size(g) /\ m = Length(g)
    OBVIOUS
  <1> HIDE DEF s, n, m
  <1>3. t = IF g.tail + 1 < n THEN g.tail + 1 ELSE 0
    <2> DEFINE x == g.tail + 1
    <2>1. x \in Int /\ 0 <= x /\ x < n + n /\ (~(x < n) => x - n = 0)
      BY <1>1
    <2> HIDE DEF x
    <2>2. x % n = IF x < n THEN x ELSE 0
      BY <1>1, <2>1, ModIs
    <2> QED BY <2>2 DEF x
  <1>b. b <=> t = g.head
    OBVIOUS
  <1> HIDE DEF t, b
  <1>4. w \in [0..n - 1 -> Cells] /\ w[g.tail] = cell
        /\ \A i \in 0..n - 1 : i # g.tail => w[i] = g.ring[i]
    BY <1>1
  <1>5. w \in Rings /\ t \in 0..n - 1
    BY <1>1, <1>3, <1>4 DEF Rings
  <1> HIDE DEF w
  <1>6. /\ s \in QueueSet /\ s.ring = w /\ s.head = g.head /\ s.tail = t /\ s.full = b
        /\ s.count = g.count /\ s.first = g.first
    <2>1. t \in Nat /\ g \in QueueSet
      BY <1>1, <1>5
    <2> QED BY <1>2, <1>5, <2>1 DEF QueueSet
  <1>7. Size(s) = n
    BY <1>1, <1>4, <1>6, SizeOf
  <1>8. Shape(s)
    BY <1>1, <1>5, <1>6, <1>7, <1>b DEF Shape
  <1>9. Length(s) = IF b THEN n ELSE IF t >= g.head THEN t - g.head ELSE t - g.head + n
    BY <1>6, <1>7, <1>8, ShapeIs
  <1>10. m \in 0..n - 1 /\ Length(s) = m + 1
    <2>1. CASE g.tail >= g.head /\ g.tail + 1 < n
      BY <1>1, <1>3, <1>9, <1>b, <2>1, SMTT(60)
    <2>2. CASE g.tail >= g.head /\ ~(g.tail + 1 < n)
      BY <1>1, <1>3, <1>9, <1>b, <2>2
    <2>3. CASE ~(g.tail >= g.head)
      BY <1>1, <1>3, <1>9, <1>b, <2>3, SMTT(60)
    <2> QED BY <2>1, <2>2, <2>3
  <1>11. \A i \in 0..n - 1 : Place(s, i) = Place(g, i) /\ Place(g, i) \in 0..n - 1
                             /\ Offset(s, i) = w[Place(g, i)] /\ Offset(g, i) = g.ring[Place(g, i)]
    <2>1. \A i \in 0..n - 1 : Place(s, i) = Place(g, i)
      BY <1>6, <1>7, <1>s DEF Place
    <2> QED BY <1>6, <1>7, <1>8, <1>s, <2>1, OffsetIs
  <1>12. Place(g, m) = g.tail
    BY <1>1, <1>10, <1>s DEF Place
  <1>13. \A i \in 0..m - 1 : Place(g, i) # g.tail /\ i \in 0..n - 1
    BY <1>1, <1>10, <1>s, SMTT(60) DEF Place
  <1>14. Offset(s, m) = cell
    BY <1>4, <1>10, <1>11, <1>12
  <1>15. \A i \in 0..m - 1 : Offset(s, i) = Offset(g, i)
    BY <1>4, <1>11, <1>13
  <1> QED BY <1>6, <1>8, <1>10, <1>14, <1>15, <1>s DEF Extends

LEMMA PushBackIs ==
    ASSUME NEW r, Shape(r), NEW cell \in Cells
    PROVE  LET s == PushBack(r, cell) IN
           Extends(s, r) /\ Length(s) = Length(r) + 1 /\ Offset(s, Length(r)) = cell
  <1> DEFINE g == IF r.full THEN Grow(r) ELSE r
  <1>1. Extends(g, r) /\ ~g.full /\ Length(g) = Length(r)
    BY GrowIs, ShapeIs DEF Extends
  <1>2. PushBack(r, cell) = Push(g, cell)
    BY DEF PushBack, Push
  <1> HIDE DEF g
  <1>3. LET s == PushBack(r, cell) IN
           Extends(s, g) /\ Length(s) = Length(g) + 1 /\ Offset(s, Length(g)) = cell
    BY <1>1, <1>2, PushIs DEF Extends
  <1>4. Length(r) \in Nat
    BY ShapeIs
  <1> QED BY <1>1, <1>3, <1>4 DEF Extends

LEMMA PopFrontIs ==
    ASSUME NEW r, Shape(r), NEW k \in 0..Length(r)
    PROVE  LET s == PopFront(r, k) IN
           /\ Shape(s) /\ Length(s) = Length(r) - k /\ s.count = r.count /\ s.first = r.first
           /\ \A j \in 0..(Length(r) - k) - 1 : Offset(s, j) = Offset(r, j + k)
  <1> DEFINE n == Size(r)
             m == Length(r)
             s == PopFront(r, k)
             popped == {(r.head + i) % n : i \in 0..k - 1}
             w == [i \in DOMAIN r.ring |-> IF i \in popped THEN Absent ELSE r.ring[i]]
             t == (r.head + k) % n
  <1>1. /\ r \in QueueSet /\ n \in Nat \ {0} /\ r.ring \in [0..n - 1 -> Cells] /\ r.head \in 0..n - 1
        /\ r.tail \in 0..n - 1 /\ m \in 0..n /\ k \in 0..m /\ r.full \in BOOLEAN
        /\ m = IF r.full THEN n ELSE IF r.tail >= r.head THEN r.tail - r.head
               ELSE r.tail - r.head + n
        /\ r.full => r.head = r.tail
    BY ShapeIs DEF Shape
  <1>2. k = 0 => s = r
    BY DEF PopFront
  <1>3. k # 0 => s = [r EXCEPT !.ring = w, !.head = t, !.full = FALSE]
    BY DEF PopFront
  <1> SUFFICES /\ Shape(s) /\ Length(s) = m - k /\ s.count = r.count /\ s.first = r.first
               /\ \A j \in 0..(m - k) - 1 : Offset(s, j) = Offset(r, j + k)
    OBVIOUS
  <1>s. n = Size(r) /\ m = Length(r)
    OBVIOUS
  <1>4. \A i \in 0..n - 1 : (r.head + i) % n = Place(r, i) /\ Place(r, i) \in 0..n - 1
                            /\ Offset(r, i) = r.ring[Place(r, i)]
    BY OffsetIs
  <1> HIDE DEF s, n, m
  <1>5. CASE k = 0
    <2>1. \A j \in 0..(m - k) - 1 : j + k = j
      BY <1>1, <1>5
    <2> QED BY <1>1, <1>2, <1>5, <1>s, <2>1
  <1>6. CASE k # 0
    <2>1. t = IF r.head + k < n THEN r.head + k ELSE (r.head + k) - n
      <3> DEFINE x == r.head + k
      <3>1. x \in Int /\ 0 <= x /\ x < n + n
        BY <1>1, <1>6
      <3> HIDE DEF x
      <3>2. x % n = IF x < n THEN x ELSE x - n
        BY <1>1, <3>1, ModIs
      <3> QED BY <3>2 DEF x
    <2> HIDE DEF t, popped
    <2>2. w \in [0..n - 1 -> Cells] /\ \A i \in 0..n - 1 : i \notin popped => w[i] = r.ring[i]
      BY <1>1, AbsentIs
    <2>3. w \in Rings /\ t \in 0..n - 1 /\ t \in Nat
      BY <1>1, <2>1, <2>2 DEF Rings
    <2> HIDE DEF w
    <2>4. /\ s \in QueueSet /\ s.ring = w /\ s.head = t /\ s.tail = r.tail /\ s.full = FALSE
          /\ s.count = r.count /\ s.first = r.first
      BY <1>1, <1>3, <1>6, <2>3 DEF QueueSet
    <2>5. Size(s) = n
      BY <1>1, <2>2, <2>4, SizeOf
    <2>6. Shape(s)
      BY <1>1, <2>3, <2>4, <2>5 DEF Shape
    <2>7. Length(s) = IF r.tail >= t THEN r.tail - t ELSE r.tail - t + n
      BY <2>4, <2>5, <2>6, ShapeIs
    <2>8. Length(s) = m - k
      <3>1. CASE r.full
        BY <1>1, <1>6, <2>1, <2>7, <3>1
      <3>2. CASE ~r.full /\ r.tail >= r.head
        BY <1>1, <1>6, <2>1, <2>7, <3>2
      <3>3. CASE ~r.full /\ ~(r.tail >= r.head)
        BY <1>1, <1>6, <2>1, <2>7, <3>3, SMTT(60)
      <3> QED BY <3>1, <3>2, <3>3
    <2>9. ASSUME NEW j \in 0..(m - k) - 1 PROVE Offset(s, j) = Offset(r, j + k)
      <3>1. j \in 0..n - 1 /\ j + k \in 0..n - 1
        BY <1>1
      <3>2. Place(s, j) = Place(r, j + k)
        BY <1>1, <1>s, <2>1, <2>4, <2>5, <3>1, SMTT(60) DEF Place
      <3>3. Place(r, j + k) \notin popped
        <4> SUFFICES ASSUME NEW i \in 0..k - 1, Place(r, j + k) = (r.head + i) % n
                     PROVE  FALSE
          BY DEF popped
        <4>1. i \in 0..n - 1 /\ i < j + k
          BY <1>1
        <4>2. Place(r, j + k) = Place(r, i)
          BY <1>4, <4>1
        <4>3. Place(r, i) = IF r.head + i < n THEN r.head + i ELSE (r.head + i) - n
          BY <1>s DEF Place
        <4>4. Place(r, j + k) = IF r.head + (j + k) < n THEN r.head + (j + k) ELSE (r.head + (j + k)) - n
          BY <1>s DEF Place
        <4> DEFINE x == r.head + i
                   y == r.head + (j + k)
        <4>5. x \in Int /\ y \in Int /\ n \in Int /\ x < y /\ y - x < n
          <5> DEFINE z == j + k
          <5>1. r.head \in Int /\ n \in Int /\ i \in Nat /\ z \in Int /\ z < n /\ i < z
            <6>1. r.head \in Int /\ n \in Int /\ i \in Nat /\ i < z
              BY <1>1, <4>1
            <6> HIDE DEF z
            <6>2. z \in Int /\ z < n
              BY <3>1, <6>1 DEF z
            <6> QED BY <6>1, <6>2
          <5> HIDE DEF z
          <5>2. x \in Int /\ r.head + z \in Int /\ x < r.head + z /\ (r.head + z) - x < n
            BY <5>1
          <5> QED BY <5>1, <5>2 DEF z
        <4>6. (IF x < n THEN x ELSE x - n) = IF y < n THEN y ELSE y - n
          BY <4>2, <4>3, <4>4
        <4> HIDE DEF x, y
        <4>7. CASE y < n
          BY <4>5, <4>6, <4>7
        <4>8. CASE ~(y < n)
          BY <4>5, <4>6, <4>8
        <4> QED BY <4>7, <4>8
      <3>4. Offset(s, j) = w[Place(r, j + k)]
        BY <2>4, <2>5, <2>6, <3>1, <3>2, OffsetIs
      <3> QED BY <1>4, <2>2, <3>1, <3>3, <3>4
    <2> QED BY <2>4, <2>6, <2>8, <2>9
  <1> QED BY <1>5, <1>6

(* The function that Filled chooses exists: the least bound for which it   *)
(* does not would have a predecessor for which it does.                    *)
Fills(r, k, g) == g = [n \in 0..k |-> IF n = 0 THEN r ELSE PushBack(g[n - 1], Absent)]

LEMMA FillsExist == ASSUME NEW r PROVE \E g : Fills(r, MaxPacket, g)
  <1> DEFINE T == {k \in Nat : ~\E g : Fills(r, k, g)}
  <1>1. T = {}
    <2> SUFFICES ASSUME T # {} PROVE FALSE
      OBVIOUS
    <2>1. PICK k \in T : \A y \in T : k <= y
      <3>1. T \in SUBSET Nat
        OBVIOUS
      <3> QED BY <3>1, LeastNat
    <2>2. k \in Nat /\ ~\E g : Fills(r, k, g)
      OBVIOUS
    <2>3. k # 0
      <3>1. Fills(r, 0, [n \in 0..0 |-> r])
        BY DEF Fills
      <3> QED BY <2>2, <3>1
    <2>4. k - 1 \in Nat /\ k - 1 \notin T
      <3> HIDE DEF T
      <3> QED BY <2>1, <2>2, <2>3
    <2>5. PICK g : Fills(r, k - 1, g)
      BY <2>4
    <2> DEFINE h == [n \in 0..k |-> IF n < k THEN g[n] ELSE PushBack(g[k - 1], Absent)]
    <2>6. \A n \in 0..k - 1 : g[n] = IF n = 0 THEN r ELSE PushBack(g[n - 1], Absent)
      BY <2>5 DEF Fills
    <2>7. \A n \in 0..k : h[n] = IF n = 0 THEN r ELSE PushBack(h[n - 1], Absent)
      BY <2>2, <2>3, <2>6
    <2>8. Fills(r, k, h)
      <3>1. h = [n \in 0..k |-> h[n]]
        OBVIOUS
      <3> HIDE DEF h
      <3> QED BY <2>7, <3>1 DEF Fills
    <2> QED BY <2>2, <2>8
  <1> QED BY <1>1, BoundAssumption

LEMMA FilledEquation ==
    ASSUME NEW r
    PROVE  \A n \in 0..MaxPacket :
               Filled(r)[n] = IF n = 0 THEN r ELSE PushBack(Filled(r)[n - 1], Absent)
  <1>1. PICK g : g = [n \in 0..MaxPacket |-> IF n = 0 THEN r ELSE PushBack(g[n - 1], Absent)]
    BY FillsExist DEF Fills
  <1>2. Filled(r) = [n \in 0..MaxPacket |-> IF n = 0 THEN r ELSE PushBack(Filled(r)[n - 1], Absent)]
    BY <1>1, Zenon DEF Filled
  <1> QED BY <1>2

(* n absent cells after those of r. *)
Gapped(s, r, n) == /\ Extends(s, r) /\ Length(s) = Length(r) + n
                   /\ \A i \in Length(r)..(Length(r) + n) - 1 : Offset(s, i) = Absent

LEMMA FilledIs ==
    ASSUME NEW r, Shape(r)
    PROVE  \A n \in 0..MaxPacket : Gapped(Filled(r)[n], r, n)
  <1> DEFINE T == {n \in 0..MaxPacket : ~Gapped(Filled(r)[n], r, n)}
  <1> SUFFICES ASSUME T # {} PROVE FALSE
    OBVIOUS
  <1>1. PICK n \in T : \A y \in T : n <= y
    <2>1. T \in SUBSET Nat
      BY BoundAssumption
    <2> QED BY <2>1, LeastNat
  <1>2. n \in 0..MaxPacket /\ ~Gapped(Filled(r)[n], r, n) /\ Length(r) \in Nat
    BY ShapeIs
  <1>3. n # 0
    <2> SUFFICES ASSUME n = 0 PROVE FALSE
      OBVIOUS
    <2>1. Filled(r)[n] = r
      BY <1>2, FilledEquation
    <2> QED BY <1>2, <2>1 DEF Gapped, Extends
  <1>4. n - 1 \in 0..MaxPacket /\ n - 1 \notin T
    <2> HIDE DEF T
    <2> QED BY <1>1, <1>2, <1>3, BoundAssumption
  <1> DEFINE f == Filled(r)[n - 1]
             s == PushBack(f, Absent)
  <1>5. Gapped(f, r, n - 1)
    BY <1>4
  <1>6. Filled(r)[n] = s
    BY <1>2, <1>3, FilledEquation
  <1> HIDE DEF f, T
  <1>7. Extends(s, f) /\ Length(s) = Length(f) + 1 /\ Offset(s, Length(f)) = Absent
    BY <1>5, PushBackIs, AbsentIs DEF Gapped, Extends
  <1> HIDE DEF s
  <1>8. Gapped(s, r, n)
    BY <1>2, <1>5, <1>7, BoundAssumption DEF Gapped, Extends
  <1> QED BY <1>2, <1>6, <1>8
-----------------------------------------------------------------------------
(***************************************************************************)
(* The queue of packet states.  A cell is absent or of the packet of its   *)
(* place, the first cell is present, and count is the number of present    *)
(* cells, so that an empty queue is the one without a cell.                *)
(***************************************************************************)
Presents(r) == {i \in 0..Length(r) - 1 : Present(r, i)}
QInv(r) == /\ Shape(r)
           /\ \A i \in 0..Length(r) - 1 : Offset(r, i).packet \in {r.first + i, Invalid}
           /\ r.count = Cardinality(Presents(r))
           /\ Length(r) > 0 => Present(r, 0) /\ r.first \in Nat

(* Packet p has an entry. *)
Has(r, p) == p - r.first \in 0..Length(r) - 1 /\ Present(r, p - r.first)

(* Nothing before since or after the last sent packet has an entry. *)
EInv == /\ sent \in Int /\ since \in Nat /\ sent >= since - 1 /\ out \subseteq 0..sent
        /\ limited \in BOOLEAN /\ QInv(q)
        /\ Length(q) > 0 => q.first >= since /\ q.first + Length(q) - 1 <= sent
        /\ \A p \in out : p >= since => Has(q, p)

LEMMA PresentsFinite ==
    ASSUME NEW r, Shape(r)
    PROVE  IsFiniteSet(Presents(r)) /\ Length(r) \in Nat
  <1>1. Length(r) \in Nat
    BY ShapeIs
  <1>2. IsFiniteSet(0..Length(r) - 1)
    BY <1>1, FS_Interval
  <1>3. Presents(r) \subseteq 0..Length(r) - 1
    BY DEF Presents
  <1> QED BY <1>1, <1>2, <1>3, FS_Subset

(* The queue is empty when its count is 0. *)
LEMMA CountIs ==
    ASSUME NEW r, QInv(r)
    PROVE  r.count = 0 <=> Length(r) = 0
  <1>1. Length(r) \in Nat /\ IsFiniteSet(Presents(r)) /\ r.count = Cardinality(Presents(r))
    BY PresentsFinite DEF QInv
  <1>2. r.count = 0 <=> Presents(r) = {}
    BY <1>1, FS_EmptySet
  <1>3. ASSUME Length(r) = 0 PROVE Presents(r) = {}
    BY <1>3 DEF Presents
  <1>4. ASSUME Length(r) # 0 PROVE 0 \in Presents(r)
    BY <1>1, <1>4 DEF Presents, QInv
  <1> QED BY <1>2, <1>3, <1>4

LEMMA GetEntryIs ==
    ASSUME NEW r, QInv(r), NEW p \in Int
    PROVE  GetEntry(r, p).packet = IF Has(r, p) THEN p ELSE Invalid
  <1>1. Length(r) \in Nat /\ r.first \in Int
    BY ShapeIs DEF QInv
  <1>2. r.count = 0 <=> Length(r) = 0
    BY CountIs
  <1>3. p - r.first \in 0..Length(r) - 1 <=> ~(r.count = 0 \/ p < r.first \/ p - r.first >= Length(r))
    BY <1>1, <1>2
  <1>4. CASE p - r.first \in 0..Length(r) - 1
    <2>1. GetEntry(r, p) = Offset(r, p - r.first)
      BY <1>3, <1>4 DEF GetEntry
    <2>2. Offset(r, p - r.first).packet \in {r.first + (p - r.first), Invalid}
      BY <1>4 DEF QInv
    <2>3. r.first + (p - r.first) = p
      BY <1>1
    <2> QED BY <1>4, <2>1, <2>2, <2>3 DEF Has, Present
  <1>5. CASE ~(p - r.first \in 0..Length(r) - 1)
    <2>1. GetEntry(r, p) = Absent
      BY <1>3, <1>5 DEF GetEntry
    <2> QED BY <1>5, <2>1, AbsentIs DEF Has
  <1> QED BY <1>4, <1>5

(* What the queue sees of a ring is its length, its cells, its count and   *)
(* its first packet.                                                       *)
Renumbered(s, r, c, f) == s = [r EXCEPT !.count = c, !.first = f]

LEMMA RenumberIs ==
    ASSUME NEW r, Shape(r), NEW c \in Int, NEW f \in Int, NEW s, Renumbered(s, r, c, f)
    PROVE  /\ Shape(s) /\ Length(s) = Length(r) /\ s.count = c /\ s.first = f
           /\ \A i : Offset(s, i) = Offset(r, i)
  <1>1. r \in QueueSet
    BY DEF Shape
  <1>2. /\ s \in QueueSet /\ s.ring = r.ring /\ s.head = r.head /\ s.tail = r.tail
        /\ s.full = r.full /\ s.count = c /\ s.first = f
    BY <1>1 DEF QueueSet, Renumbered
  <1>3. Size(s) = Size(r)
    BY <1>2 DEF Size
  <1> QED BY <1>2, <1>3 DEF Shape, Length, Offset

(* An entry for packet p behind the cells of r and n absent ones. *)
LEMMA AppendKeeps ==
    ASSUME NEW r, QInv(r), NEW n \in Nat, NEW t, Gapped(t, r, n),
           NEW s, Extends(s, t), Length(s) = Length(t) + 1,
           NEW p \in Nat, NEW l, Offset(s, Length(t)) = Cell(p, l),
           NEW f \in Nat, p = f + Length(t),
           (Length(r) > 0 /\ f = r.first) \/ (Length(r) = 0 /\ n = 0),
           NEW u, Renumbered(u, s, r.count + 1, f)
    PROVE  /\ QInv(u) /\ Has(u, p) /\ \A x \in Int : Has(r, x) => Has(u, x)
           /\ Length(u) = Length(t) + 1 /\ u.first = f
  <1> DEFINE m == Length(t)
             k == Length(r)
  <1> SUFFICES /\ QInv(u) /\ Has(u, p) /\ \A x \in Int : Has(r, x) => Has(u, x)
               /\ Length(u) = m + 1 /\ u.first = f
    OBVIOUS
  <1>1. k \in Nat /\ m = k + n /\ m \in Nat /\ r.count \in Int /\ r.count + 1 \in Int /\ Shape(s)
    <2>1. Shape(r) /\ Shape(s) /\ m = k + n
      BY DEF QInv, Gapped, Extends
    <2>2. k \in Nat /\ r.count \in Int
      BY <2>1, ShapeIs
    <2> HIDE DEF m, k
    <2> QED BY <2>1, <2>2
  <1>2. /\ Shape(u) /\ Length(u) = m + 1 /\ u.count = r.count + 1 /\ u.first = f
        /\ \A i : Offset(u, i) = Offset(s, i)
    <2> DEFINE c == r.count + 1
    <2>1. Shape(s) /\ c \in Int /\ f \in Int /\ Length(s) = m + 1
      BY <1>1
    <2>2. Renumbered(u, s, c, f)
      OBVIOUS
    <2> HIDE DEF c, m
    <2>3. /\ Shape(u) /\ Length(u) = Length(s) /\ u.count = c /\ u.first = f
          /\ \A i : Offset(u, i) = Offset(s, i)
      BY <2>1, <2>2, RenumberIs
    <2> QED BY <2>1, <2>3 DEF c
  <1>s. m = Length(t) /\ k = Length(r)
    OBVIOUS
  <1> HIDE DEF m, k
  <1>3. /\ \A i \in 0..k - 1 : Offset(u, i) = Offset(r, i)
        /\ \A i \in k..m - 1 : Offset(u, i) = Absent
        /\ Offset(u, m) = Cell(p, l)
    <2>1. /\ \A i \in 0..m - 1 : Offset(s, i) = Offset(t, i)
          /\ \A i \in 0..k - 1 : Offset(t, i) = Offset(r, i)
          /\ \A i \in k..m - 1 : Offset(t, i) = Absent
      BY <1>1, <1>s DEF Extends, Gapped
    <2>2. \A i \in 0..k - 1 : i \in 0..m - 1
      BY <1>1
    <2>3. \A i \in k..m - 1 : i \in 0..m - 1
      BY <1>1
    <2> QED BY <1>2, <1>s, <2>1, <2>2, <2>3
  <1>4. Cell(p, l).packet = p /\ p # Invalid /\ p = f + m
    BY <1>s DEF Cell, Invalid
  <1>5. k > 0 => f = r.first
    BY <1>s
  <1>6. /\ \A i \in 0..k - 1 : Present(u, i) <=> Present(r, i)
        /\ \A i \in k..m - 1 : ~Present(u, i)
        /\ Present(u, m)
    BY <1>3, <1>4, AbsentIs DEF Present
  <1>7. Presents(u) = Presents(r) \cup {m} /\ m \notin Presents(r)
    <2>1. \A i \in 0..m : i \in 0..k - 1 \/ i \in k..m - 1 \/ i = m
      BY <1>1
    <2>2. 0..Length(u) - 1 = 0..m /\ \A i \in 0..k - 1 : i \in 0..m /\ i # m
      BY <1>1, <1>2
    <2>3. m \in 0..m
      BY <1>1
    <2> QED BY <1>6, <1>s, <2>1, <2>2, <2>3 DEF Presents
  <1>8. u.count = Cardinality(Presents(u))
    <2>1. IsFiniteSet(Presents(r)) /\ r.count = Cardinality(Presents(r))
      BY PresentsFinite DEF QInv
    <2> QED BY <1>2, <1>7, <2>1, FS_AddElement
  <1>9. ASSUME NEW i \in 0..Length(u) - 1 PROVE Offset(u, i).packet \in {u.first + i, Invalid}
    <2>1. CASE i \in 0..k - 1
      <3>1. k > 0
        BY <1>1, <2>1
      <3>2. Offset(r, i).packet \in {r.first + i, Invalid}
        BY <1>s, <2>1 DEF QInv
      <3> QED BY <1>2, <1>3, <1>5, <2>1, <3>1, <3>2
    <2>2. CASE i \in k..m - 1
      BY <1>3, <2>2, AbsentIs
    <2>3. CASE i = m
      BY <1>2, <1>3, <1>4, <2>3
    <2> QED BY <1>1, <1>2, <2>1, <2>2, <2>3
  <1>10. Present(u, 0)
    <2>1. CASE k = 0
      BY <1>1, <1>6, <1>s, <2>1
    <2>2. CASE k # 0
      <3>1. 0 \in 0..k - 1 /\ k > 0
        BY <1>1, <2>2
      <3>2. Present(r, 0)
        BY <1>s, <3>1 DEF QInv
      <3> QED BY <1>6, <3>1, <3>2
    <2> QED BY <2>1, <2>2
  <1>11. QInv(u)
    BY <1>2, <1>8, <1>9, <1>10 DEF QInv
  <1>12. Has(u, p)
    <2>1. p - f = m /\ m \in 0..(m + 1) - 1
      BY <1>1, <1>4
    <2> QED BY <1>2, <1>6, <2>1 DEF Has
  <1>13. ASSUME NEW x \in Int, Has(r, x) PROVE Has(u, x)
    <2>1. x - r.first \in 0..k - 1 /\ Present(r, x - r.first)
      BY <1>13, <1>s DEF Has
    <2>2. k > 0 /\ x - r.first \in 0..(m + 1) - 1
      BY <1>1, <2>1
    <2> QED BY <1>2, <1>5, <1>6, <2>1, <2>2 DEF Has
  <1> QED BY <1>2, <1>11, <1>12, <1>13

LEMMA EmplaceKeeps ==
    ASSUME NEW r, QInv(r), NEW p \in 0..MaxPacket, NEW l \in BOOLEAN,
           Length(r) > 0 => r.first + Length(r) <= p
    PROVE  LET u == Emplace(r, p, l) IN
           /\ QInv(u) /\ Has(u, p) /\ \A x \in Int : Has(r, x) => Has(u, x)
           /\ Length(u) > 0 /\ u.first + Length(u) = p + 1
           /\ u.first = IF Length(r) > 0 THEN r.first ELSE p
  <1> DEFINE cell == Cell(p, l)
             u == Emplace(r, p, l)
             Good == /\ QInv(u) /\ Has(u, p) /\ \A x \in Int : Has(r, x) => Has(u, x)
                     /\ Length(u) > 0 /\ u.first + Length(u) = p + 1
                     /\ u.first = IF Length(r) > 0 THEN r.first ELSE p
  <1>1. /\ Shape(r) /\ Length(r) \in Nat /\ r.first \in Int /\ r.count \in Int /\ p \in Nat
        /\ cell \in Cells
        /\ Length(r) > 0 => r.first \in Nat
    BY BoundAssumption, ShapeIs DEF QInv, Cell, Cells
  <1>2. r.count = 0 <=> Length(r) = 0
    BY CountIs
  <1> HIDE DEF cell
  <1>3. CASE r.count = 0
    <2> DEFINE s == PushBack(r, cell)
    <2>1. u = [s EXCEPT !.count = 1, !.first = p] /\ r.count + 1 = 1
      BY <1>3 DEF Emplace, cell
    <2>2. Extends(s, r) /\ Length(s) = Length(r) + 1 /\ Offset(s, Length(r)) = cell
      BY <1>1, PushBackIs
    <2>3. Gapped(r, r, 0) /\ Length(r) = 0 /\ p = p + Length(r)
      BY <1>1, <1>2, <1>3 DEF Gapped, Extends
    <2> HIDE DEF s
    <2>4. Renumbered(u, s, r.count + 1, p)
      BY <2>1 DEF Renumbered
    <2> HIDE DEF u
    <2>5. 0 \in Nat /\ Offset(s, Length(r)) = Cell(p, l)
      BY <2>2 DEF cell
    <2>6. /\ QInv(u) /\ Has(u, p) /\ \A x \in Int : Has(r, x) => Has(u, x)
          /\ Length(u) = Length(r) + 1 /\ u.first = p
      BY <1>1, <2>2, <2>3, <2>4, <2>5, AppendKeeps
    <2>7. Good
      BY <1>1, <2>3, <2>6
    <2> QED BY <2>7 DEF u
  <1>4. CASE r.count # 0
    <2> DEFINE n == p - r.first - Length(r)
               t == Filled(r)[n]
               s == PushBack(t, cell)
    <2>1. Length(r) > 0 /\ r.first \in Nat /\ r.first + Length(r) <= p
      BY <1>1, <1>2, <1>4
    <2>2. n \in 0..MaxPacket /\ n \in Nat /\ p = r.first + (Length(r) + n)
      BY <1>1, <2>1, BoundAssumption
    <2>3. LastPacket(r) = r.first + Length(r) - 1
      BY <1>4 DEF LastPacket
    <2>4. ~(p <= LastPacket(r))
      BY <1>1, <2>1, <2>3
    <2>5. u = [s EXCEPT !.count = @ + 1]
      BY <1>4, <2>4 DEF Emplace, cell
    <2> HIDE DEF n
    <2>6. Gapped(t, r, n)
      BY <1>1, <2>2, FilledIs
    <2> HIDE DEF t
    <2>7. Shape(t) /\ Length(t) = Length(r) + n /\ t.count = r.count /\ t.first = r.first
      BY <2>6 DEF Gapped, Extends
    <2>8. Extends(s, t) /\ Length(s) = Length(t) + 1 /\ Offset(s, Length(t)) = cell
      BY <1>1, <2>7, PushBackIs
    <2> HIDE DEF s
    <2>9. s \in QueueSet /\ s.count = r.count /\ s.first = r.first
      BY <2>7, <2>8 DEF Extends, Shape
    <2>10. Renumbered(u, s, r.count + 1, r.first)
      BY <2>5, <2>9 DEF QueueSet, Renumbered
    <2>11. p = r.first + Length(t)
      BY <2>2, <2>7
    <2> HIDE DEF u
    <2>12. Offset(s, Length(t)) = Cell(p, l)
      BY <2>8 DEF cell
    <2>13. /\ QInv(u) /\ Has(u, p) /\ \A x \in Int : Has(r, x) => Has(u, x)
           /\ Length(u) = Length(t) + 1 /\ u.first = r.first
      BY <1>1, <2>1, <2>2, <2>6, <2>8, <2>10, <2>11, <2>12, AppendKeeps
    <2>14. Good
      BY <1>1, <2>1, <2>2, <2>7, <2>11, <2>13
    <2> QED BY <2>14 DEF u
  <1> QED BY <1>3, <1>4

LEMMA MinIs ==
    ASSUME NEW T \in SUBSET Nat, T # {}
    PROVE  Min(T) \in T /\ \A y \in T : Min(T) <= y
  BY LeastNat DEF Min

(* The largest element of a bounded set: the least of its upper bounds. *)
LEMMA MaxIs ==
    ASSUME NEW T \in SUBSET Nat, NEW b \in Nat, \A y \in T : y <= b, T # {}
    PROVE  Max(T) \in T /\ Max(T) \in Nat /\ \A y \in T : Max(T) >= y
  <1> DEFINE B == {m \in Nat : \A y \in T : y <= m}
  <1>1. PICK m \in B : \A x \in B : m <= x
    <2>1. B \in SUBSET Nat /\ b \in B
      OBVIOUS
    <2> HIDE DEF B
    <2> QED BY <2>1, LeastNat
  <1>2. m \in Nat /\ \A y \in T : y <= m
    OBVIOUS
  <1>3. m \in T
    <2> SUFFICES ASSUME m \notin T PROVE FALSE
      OBVIOUS
    <2>1. \A y \in T : y \in Nat /\ y < m
      BY <1>2
    <2> HIDE DEF B
    <2>0. PICK z \in T : z \in Nat /\ z < m
      BY <2>1
    <2>2. m - 1 \in Nat /\ \A y \in T : y <= m - 1
      BY <1>2, <2>0, <2>1
    <2>3. m - 1 \in B
      BY <2>2 DEF B
    <2> QED BY <1>1, <1>2, <2>3
  <1>4. \E x \in T : \A y \in T : x >= y
    BY <1>2, <1>3
  <1> QED BY <1>4 DEF Max

(* The cells behind the first n ones have as many entries after the pop as *)
(* before.                                                                 *)
LEMMA ShiftCounts ==
    ASSUME NEW S, NEW T, NEW n \in Nat, IsFiniteSet(S), S \subseteq Nat, T \subseteq Nat,
           \A i \in S : i >= n, \A j \in Nat : j \in T <=> j + n \in S
    PROVE  Cardinality(T) = Cardinality(S)
  <1> DEFINE f == [i \in S |-> i - n]
  <1>1. \A i \in S : i - n \in T /\ i \in Int
    <2> SUFFICES ASSUME NEW i \in S PROVE i - n \in T /\ i \in Int
      OBVIOUS
    <2>1. i - n \in Nat /\ (i - n) + n = i
      OBVIOUS
    <2> QED BY <2>1
  <1>2. f \in [S -> T]
    BY <1>1
  <1>3. \A a, b \in S : f[a] = f[b] => a = b
    BY <1>1
  <1>4. \A t \in T : \E x \in S : f[x] = t
    <2> SUFFICES ASSUME NEW t \in T PROVE \E x \in S : f[x] = t
      OBVIOUS
    <2>1. t + n \in S /\ (t + n) - n = t
      OBVIOUS
    <2> QED BY <2>1
  <1> HIDE DEF f
  <1>5. f \in Bijection(S, T)
    BY <1>2, <1>3, <1>4 DEF Bijection, Injection, Surjection, IsInjective
  <1>6. ExistsBijection(S, T)
    BY <1>5 DEF ExistsBijection
  <1> QED BY <1>6, FS_Bijection

(* The front is popped up to the first entry that is kept. *)
LEMMA PopKeeps ==
    ASSUME NEW r, QInv(r), NEW n \in 0..Length(r) - 1, Present(r, n),
           NEW u, Renumbered(u, PopFront(r, n),
                             r.count - Cardinality({i \in 0..n - 1 : Present(r, i)}), r.first + n)
    PROVE  /\ QInv(u) /\ u.first = r.first + n /\ Length(u) = Length(r) - n
           /\ \A x \in Int : x >= r.first + n /\ Has(r, x) => Has(u, x)
  <1> DEFINE s == PopFront(r, n)
             m == Length(r)
             P == {i \in 0..n - 1 : Present(r, i)}
             S == Presents(r) \ P
             c == r.count - Cardinality(P)
             f == r.first + n
  <1>1. /\ Shape(r) /\ m \in Nat /\ n \in Nat /\ n < m /\ n \in 0..m /\ r.first \in Nat
        /\ IsFiniteSet(Presents(r)) /\ r.count = Cardinality(Presents(r)) /\ Presents(r) \cap P = P
    <2>1. Shape(r) /\ m \in Nat /\ n \in Nat /\ n < m /\ n \in 0..m
      BY ShapeIs DEF QInv
    <2>2. IsFiniteSet(Presents(r)) /\ r.count = Cardinality(Presents(r)) /\ r.first \in Nat
      BY <2>1, PresentsFinite DEF QInv
    <2>3. P \subseteq Presents(r)
      BY <2>1 DEF Presents
    <2> HIDE DEF P, m
    <2> QED BY <2>1, <2>2, <2>3
  <1>s. m = Length(r)
    OBVIOUS
  <1>2. /\ Shape(s) /\ Length(s) = m - n
        /\ \A j \in 0..(m - n) - 1 : Offset(s, j) = Offset(r, j + n)
    BY <1>1, PopFrontIs
  <1>3. IsFiniteSet(S) /\ Cardinality(S) = c /\ c \in Int
    <2> HIDE DEF P
    <2>1. IsFiniteSet(S) /\ Cardinality(S) = Cardinality(Presents(r)) - Cardinality(Presents(r) \cap P)
      BY <1>1, FS_Difference
    <2>2. Cardinality(S) \in Nat
      BY <2>1, FS_CardinalityType
    <2> QED BY <1>1, <2>1, <2>2
  <1>4. Renumbered(u, s, c, f) /\ f \in Int
    BY <1>1
  <1>5. S = {i \in n..m - 1 : Present(r, i)}
    <2>1. \A i \in 0..m - 1 : i \in 0..n - 1 \/ i \in n..m - 1
      BY <1>1
    <2>2. \A i \in n..m - 1 : i \in 0..m - 1 /\ i \notin 0..n - 1
      BY <1>1
    <2> HIDE DEF m
    <2> QED BY <1>s, <2>1, <2>2 DEF Presents
  <1>f. f = r.first + n
    OBVIOUS
  <1> HIDE DEF s, m, c, f, P, S
  <1>6. /\ Shape(u) /\ Length(u) = m - n /\ u.count = c /\ u.first = f
        /\ \A i : Offset(u, i) = Offset(s, i)
    BY <1>2, <1>3, <1>4, RenumberIs
  <1>7. \A j \in 0..(m - n) - 1 : Offset(u, j) = Offset(r, j + n) /\ j + n \in 0..m - 1
                                  /\ (Present(u, j) <=> Present(r, j + n))
    BY <1>1, <1>2, <1>6 DEF Present
  <1>8. Presents(u) = {j \in 0..(m - n) - 1 : Present(r, j + n)}
    BY <1>6, <1>7 DEF Presents
  <1>9. u.count = Cardinality(Presents(u))
    <2>1. S \subseteq Nat /\ \A i \in S : i >= n
      BY <1>1, <1>5
    <2>2. Presents(u) \subseteq Nat
      BY <1>1, <1>8
    <2>3. ASSUME NEW j \in Nat PROVE j \in Presents(u) <=> j + n \in S
      <3>1. j \in 0..(m - n) - 1 <=> j + n \in n..m - 1
        BY <1>1
      <3> QED BY <1>5, <1>8, <3>1
    <2>4. Cardinality(Presents(u)) = Cardinality(S)
      BY <1>1, <1>3, <2>1, <2>2, <2>3, ShiftCounts
    <2> QED BY <1>3, <1>6, <2>4
  <1>10. ASSUME NEW j \in 0..Length(u) - 1 PROVE Offset(u, j).packet \in {u.first + j, Invalid}
    <2>1. Offset(u, j) = Offset(r, j + n) /\ j + n \in 0..m - 1
      BY <1>6, <1>7
    <2>2. Offset(r, j + n).packet \in {r.first + (j + n), Invalid}
      BY <1>s, <2>1 DEF QInv
    <2>3. r.first + (j + n) = u.first + j
      BY <1>1, <1>6, <1>f
    <2> QED BY <2>1, <2>2, <2>3
  <1>11. Present(u, 0) /\ u.first \in Nat
    <2>1. 0 \in 0..(m - n) - 1 /\ 0 + n = n
      BY <1>1
    <2> QED BY <1>1, <1>6, <1>7, <1>f, <2>1
  <1>12. QInv(u)
    BY <1>6, <1>9, <1>10, <1>11 DEF QInv
  <1>13. ASSUME NEW x \in Int, x >= r.first + n, Has(r, x) PROVE Has(u, x)
    <2>1. x - r.first \in 0..m - 1 /\ Present(r, x - r.first)
      BY <1>13, <1>s DEF Has
    <2>2. x - f \in 0..(m - n) - 1 /\ (x - f) + n = x - r.first
      BY <1>1, <1>13, <1>f, <2>1
    <2>3. Present(u, x - f)
      BY <1>7, <2>1, <2>2
    <2> QED BY <1>6, <2>2, <2>3 DEF Has
  <1> QED BY <1>6, <1>12, <1>13, <1>f, <1>s

(* The entries of p and of later packets stay. *)
LEMMA RemoveKeeps ==
    ASSUME NEW r, QInv(r), NEW p \in Int
    PROVE  LET u == RemoveUpTo(r, p) IN
           /\ QInv(u) /\ \A x \in Int : x >= p /\ Has(r, x) => Has(u, x)
           /\ Length(u) > 0 => /\ Length(r) > 0 /\ u.first >= r.first
                               /\ u.first + Length(u) = r.first + Length(r)
  <1> DEFINE kept == {i \in 0..Length(r) - 1 : r.first + i >= p /\ Present(r, i)}
             n == IF kept = {} THEN Length(r) ELSE Min(kept)
             lost == Cardinality({i \in 0..n - 1 : Present(r, i)})
             u == RemoveUpTo(r, p)
             Good == /\ QInv(u) /\ \A x \in Int : x >= p /\ Has(r, x) => Has(u, x)
                     /\ Length(u) > 0 => /\ Length(r) > 0 /\ u.first >= r.first
                                         /\ u.first + Length(u) = r.first + Length(r)
  <1>1. /\ Shape(r) /\ Length(r) \in Nat /\ r.count \in Int /\ r.first \in Int
        /\ r.count = Cardinality(Presents(r))
    BY ShapeIs DEF QInv
  <1>2. n \in 0..Length(r)
    <2>1. ASSUME kept # {} PROVE Min(kept) \in kept
      <3>1. kept \in SUBSET Nat
        OBVIOUS
      <3> HIDE DEF kept
      <3> QED BY <2>1, <3>1, MinIs
    <2> QED BY <1>1, <2>1
  <1>3. Shape(PopFront(r, n)) /\ PopFront(r, n).count = r.count /\ PopFront(r, n).first = r.first
        /\ Length(PopFront(r, n)) = Length(r) - n
    <2> HIDE DEF n
    <2> QED BY <1>1, <1>2, PopFrontIs
  <1>4. u = [PopFront(r, n) EXCEPT !.count = @ - lost,
                                   !.first = IF kept = {} THEN Invalid ELSE @ + n]
    BY DEF RemoveUpTo
  <1>5. Renumbered(u, PopFront(r, n), r.count - lost, IF kept = {} THEN Invalid ELSE r.first + n)
    <2> HIDE DEF u, n, kept, lost
    <2>1. PopFront(r, n) \in QueueSet
      BY <1>3 DEF Shape
    <2> QED BY <1>3, <1>4, <2>1 DEF Renumbered, QueueSet
  <1> HIDE DEF u
  <1>6. CASE kept = {}
    <2>1. n = Length(r) /\ lost = r.count
      BY <1>1, <1>6 DEF Presents
    <2> HIDE DEF n, lost
    <2>2. r.count - lost = 0 /\ 0 \in Int /\ Invalid \in Int
      BY <1>1, <2>1 DEF Invalid
    <2>3. Renumbered(u, PopFront(r, n), 0, Invalid)
      BY <1>5, <1>6, <2>2
    <2>4. Shape(u) /\ Length(u) = 0 /\ u.count = 0
      BY <1>1, <1>3, <2>1, <2>2, <2>3, RenumberIs
    <2>5. Presents(u) = {}
      BY <2>4 DEF Presents
    <2>6. QInv(u)
      BY <2>4, <2>5, FS_EmptySet DEF QInv
    <2>7. ASSUME NEW x \in Int, x >= p, Has(r, x) PROVE FALSE
      <3>1. x - r.first \in 0..Length(r) - 1 /\ Present(r, x - r.first) /\ r.first + (x - r.first) >= p
        BY <1>1, <2>7 DEF Has
      <3>2. x - r.first \in kept
        BY <3>1
      <3> QED BY <1>6, <3>2
    <2>8. Good
      BY <2>4, <2>6, <2>7
    <2> QED BY <2>8 DEF u
  <1>7. CASE kept # {}
    <2>1. kept \in SUBSET Nat /\ n = Min(kept)
      BY <1>7
    <2>2. n \in kept /\ \A y \in kept : n <= y
      <3> HIDE DEF kept, n
      <3> QED BY <1>7, <2>1, MinIs
    <2>3. n \in 0..Length(r) - 1 /\ Present(r, n) /\ r.first + n >= p
      <3> HIDE DEF n
      <3> QED BY <2>2
    <2>4. Renumbered(u, PopFront(r, n), r.count - lost, r.first + n)
      BY <1>5, <1>7
    <2> HIDE DEF n
    <2>5. /\ QInv(u) /\ u.first = r.first + n /\ Length(u) = Length(r) - n
          /\ \A x \in Int : x >= r.first + n /\ Has(r, x) => Has(u, x)
      BY <2>3, <2>4, PopKeeps
    <2>6. ASSUME NEW x \in Int, x >= p, Has(r, x) PROVE Has(u, x)
      <3>1. /\ x - r.first \in 0..Length(r) - 1 /\ Present(r, x - r.first)
            /\ r.first + (x - r.first) >= p
        BY <1>1, <2>6 DEF Has
      <3>2. x - r.first \in kept
        BY <3>1
      <3>3. x >= r.first + n
        <4> HIDE DEF kept
        <4> QED BY <1>1, <1>2, <2>2, <3>1, <3>2
      <3> QED BY <2>5, <2>6, <3>3
    <2>7. Length(r) > 0 /\ u.first >= r.first /\ u.first + Length(u) = r.first + Length(r)
      <3> HIDE DEF kept
      <3> QED BY <1>1, <2>3, <2>5
    <2>8. Good
      BY <2>5, <2>6, <2>7
    <2> QED BY <2>8 DEF u
  <1> QED BY <1>6, <1>7
-----------------------------------------------------------------------------
LEMMA EInvInit == Init => EInv
  <1> SUFFICES ASSUME Init PROVE EInv
    OBVIOUS
  <1> DEFINE w == [i \in 0..RingSize - 1 |-> Absent]
  <1>1. w \in [0..RingSize - 1 -> Cells] /\ RingSize \in Nat \ {0}
    BY AbsentIs, WindowAssumption
  <1>2. q = [ring |-> w, head |-> 0, tail |-> 0, full |-> FALSE, count |-> 0, first |-> Invalid]
    BY DEF Init
  <1> HIDE DEF w
  <1>3. w \in Rings
    BY <1>1 DEF Rings
  <1>4. /\ q \in QueueSet /\ q.ring = w /\ q.head = 0 /\ q.tail = 0 /\ q.full = FALSE /\ q.count = 0
    BY <1>2, <1>3 DEF QueueSet, Invalid
  <1>5. Size(q) = RingSize
    BY <1>1, <1>4, SizeOf
  <1>6. Shape(q)
    BY <1>1, <1>4, <1>5 DEF Shape
  <1>7. Length(q) = 0
    BY <1>4, <1>6, ShapeIs
  <1>8. Presents(q) = {}
    BY <1>7 DEF Presents
  <1>9. QInv(q)
    BY <1>4, <1>6, <1>7, <1>8, FS_EmptySet DEF QInv
  <1>10. /\ sent \in Int /\ since \in Nat /\ sent >= since - 1 /\ out \subseteq 0..sent
         /\ limited \in BOOLEAN /\ \A p \in out : ~(p >= since)
    <2>1. since \in 0..1 /\ sent = since - 1 /\ out = 0..sent /\ limited \in BOOLEAN
      BY DEF Init
    <2>2. sent \in Int /\ since \in Nat /\ sent >= since - 1 /\ \A p \in 0..sent : ~(p >= since)
      BY <2>1
    <2> QED BY <2>1, <2>2
  <1> QED BY <1>7, <1>9, <1>10 DEF EInv

LEMMA SentKeeps == ASSUME EInv, NEW b \in BOOLEAN, OnPacketSent(b) PROVE EInv'
  <1>1. /\ sent \in Int /\ since \in Nat /\ sent >= since - 1 /\ out \subseteq 0..sent
        /\ limited \in BOOLEAN /\ QInv(q) /\ Length(q) \in Nat /\ q.first \in Int
    BY ShapeIs DEF EInv, QInv
  <1>2. sent' = sent + 1 /\ sent < MaxPacket /\ since' = since /\ limited' = limited
    BY DEF OnPacketSent
  <1>3. /\ sent' \in Int /\ since' \in Nat /\ sent' >= since' - 1 /\ limited' \in BOOLEAN
        /\ sent' \in 0..MaxPacket /\ sent' >= since /\ \A p \in out : p \in 0..sent'
    BY <1>1, <1>2, BoundAssumption
  <1>4. CASE b
    <2>1. out' = out \cup {sent'} /\ q' = Emplace(q, sent', limited)
      BY <1>4 DEF OnPacketSent
    <2>2. Length(q) > 0 => q.first + Length(q) <= sent' /\ q.first >= since
      BY <1>1, <1>2 DEF EInv
    <2>3. /\ QInv(q') /\ Has(q', sent') /\ \A x \in Int : Has(q, x) => Has(q', x)
          /\ Length(q') > 0 /\ q'.first + Length(q') = sent' + 1
          /\ q'.first = IF Length(q) > 0 THEN q.first ELSE sent'
      BY <1>1, <1>3, <2>1, <2>2, EmplaceKeeps
    <2>4. Length(q') \in Nat /\ q'.first \in Int
      BY <2>3, ShapeIs DEF QInv
    <2>5. q'.first >= since' /\ q'.first + Length(q') - 1 <= sent'
      BY <1>1, <1>2, <1>3, <2>2, <2>3, <2>4
    <2>6. out' \subseteq 0..sent'
      BY <1>3, <2>1
    <2>7. \A p \in out' : p >= since' => Has(q', p)
      BY <1>1, <1>2, <2>1, <2>3 DEF EInv
    <2> QED BY <1>3, <2>3, <2>5, <2>6, <2>7 DEF EInv, QInv, Has, Presents
  <1>5. CASE ~b
    <2>1. out' = out /\ q' = q
      BY <1>5 DEF OnPacketSent
    <2>2. Length(q) > 0 => q.first >= since /\ q.first + Length(q) - 1 <= sent'
      BY <1>1, <1>2 DEF EInv
    <2> QED BY <1>1, <1>2, <1>3, <2>1, <2>2 DEF EInv
  <1> QED BY <1>4, <1>5

(* A packet that is still in flight after the event is not below the       *)
(* estimate of the least unacked one: the third ack after a packet loses   *)
(* it, and an event without acks loses the oldest packets.                 *)
LEMMA SurvivorsAbove ==
    ASSUME EInv, NEW A \in SUBSET out, NEW L \in Losses(A), A \cup L # {}
    PROVE  /\ LeastUnacked(A, L) \in Int
           /\ \A p \in out \ (A \cup L) : p >= LeastUnacked(A, L)
  <1>1. sent \in Int /\ \A p \in out : p \in Nat /\ p <= sent
    BY DEF EInv
  <1>2. PICK k \in out \cup {Invalid} : L = {p \in out \ A : p <= k}
    BY DEF Losses
  <1>3. Overtaken(A) \subseteq L
    BY DEF Losses
  <1>4. ASSUME NEW T \in SUBSET out, T # {}
        PROVE  Max(T) \in T /\ Max(T) \in Nat /\ \A y \in T : Max(T) >= y
    <2>1. PICK z \in T : z \in Nat /\ z <= sent
      BY <1>1, <1>4
    <2>2. sent \in Nat
      BY <1>1, <2>1
    <2>3. T \in SUBSET Nat /\ \A y \in T : y <= sent
      BY <1>1
    <2> QED BY <1>4, <2>2, <2>3, MaxIs
  <1>5. CASE A # {}
    <2>1. Max(A) \in Nat /\ LeastUnacked(A, L) = Max(A) - 2
      BY <1>4, <1>5 DEF LeastUnacked
    <2>2. ASSUME NEW p \in out \ (A \cup L), ~(p >= Max(A) - 2) PROVE FALSE
      <3>1. p \in Nat /\ p + Threshold <= Max(A)
        BY <1>1, <2>1, <2>2, ThresholdAssumption
      <3>2. p \in Overtaken(A)
        BY <1>5, <3>1 DEF Overtaken
      <3> QED BY <1>3, <3>2
    <2> QED BY <2>1, <2>2
  <1>6. CASE A = {}
    <2>1. L \in SUBSET out /\ L # {}
      BY <1>2, <1>6
    <2>2. Max(L) \in L /\ Max(L) \in Nat /\ LeastUnacked(A, L) = Max(L) + 1
      BY <1>4, <1>6, <2>1 DEF LeastUnacked
    <2>3. Max(L) <= k /\ k \in Int
      BY <1>1, <1>2, <2>2 DEF Invalid
    <2>4. ASSUME NEW p \in out \ (A \cup L) PROVE p >= Max(L) + 1
      <3>1. p \in Nat /\ ~(p <= k)
        BY <1>1, <1>2
      <3> QED BY <2>2, <2>3, <3>1
    <2> QED BY <2>2, <2>4
  <1> QED BY <1>5, <1>6

LEMMA EventKeeps ==
    ASSUME EInv, NEW A \in SUBSET out, NEW L \in Losses(A), Event(A, L)
    PROVE  EInv'
  <1> DEFINE u == LeastUnacked(A, L)
  <1>1. PICK app \in BOOLEAN : OnCongestionEventEx(A, L, app)
    BY DEF Event
  <1>2. A \cup L # {}
    BY DEF Event
  <1>3. /\ sent' = sent /\ since' = since /\ out' = out \ (A \cup L) /\ q' = RemoveUpTo(q, u)
        /\ limited' \in BOOLEAN
    BY <1>1 DEF OnCongestionEventEx
  <1>4. u \in Int /\ \A p \in out' : p >= u
    BY <1>2, <1>3, SurvivorsAbove
  <1> HIDE DEF u
  <1>5. /\ sent \in Int /\ since \in Nat /\ sent >= since - 1 /\ out \subseteq 0..sent /\ QInv(q)
        /\ Length(q) \in Nat /\ q.first \in Int
    BY ShapeIs DEF EInv, QInv
  <1>6. /\ QInv(q') /\ \A x \in Int : x >= u /\ Has(q, x) => Has(q', x)
        /\ Length(q') > 0 => /\ Length(q) > 0 /\ q'.first >= q.first
                             /\ q'.first + Length(q') = q.first + Length(q)
    BY <1>3, <1>4, <1>5, RemoveKeeps
  <1>7. Length(q') \in Nat /\ q'.first \in Int
    BY <1>6, ShapeIs DEF QInv
  <1>8. Length(q') > 0 => q'.first >= since' /\ q'.first + Length(q') - 1 <= sent'
    BY <1>3, <1>5, <1>6, <1>7 DEF EInv
  <1>9. \A p \in out' : p >= since' => Has(q', p)
    <2> SUFFICES ASSUME NEW p \in out', p >= since PROVE Has(q', p)
      BY <1>3
    <2>1. p \in out /\ p \in Int
      BY <1>3, <1>5
    <2>2. Has(q, p)
      BY <2>1 DEF EInv
    <2> QED BY <1>4, <1>6, <2>1, <2>2
  <1>10. out' \subseteq 0..sent'
    BY <1>3, <1>5
  <1> QED BY <1>3, <1>5, <1>6, <1>8, <1>9, <1>10 DEF EInv, QInv, Has, Presents

(* Every packet in flight that was sent under the controller has its own   *)
(* entry, and no other packet in flight has one, for any size of the ring, *)
(* any number of packets and any flight: the queue grows, wraps and drops  *)
(* its front without losing or moving a state that an ack or a loss will   *)
(* look up (packetNumberIndexedQueue, RingBuffer, RemoveObsoletePackets).  *)
THEOREM EntriesAreKept == Spec => []EntriesKept
  <1>1. EInv /\ [Next]_vars => EInv'
    <2> SUFFICES ASSUME EInv, [Next]_vars PROVE EInv'
      OBVIOUS
    <2>1. CASE UNCHANGED vars
      BY <2>1 DEF EInv, vars, queueVars
    <2>2. CASE \E b \in BOOLEAN : OnPacketSent(b)
      BY <2>2, SentKeeps
    <2>3. CASE \E A \in SUBSET out : \E L \in Losses(A) : Event(A, L)
      BY <2>3, EventKeeps
    <2> QED BY <2>1, <2>2, <2>3 DEF Next
  <1>2. EInv => EntriesKept
    <2> SUFFICES ASSUME EInv, NEW p \in out
                 PROVE  GetEntry(q, p).packet = IF p >= since THEN p ELSE Invalid
      BY DEF EntriesKept
    <2>1. p \in Int /\ since \in Nat /\ QInv(q)
      BY DEF EInv
    <2>2. p >= since <=> Has(q, p)
      <3>1. p >= since => Has(q, p)
        BY DEF EInv
      <3>2. ASSUME Has(q, p) PROVE p >= since
        <4>1. Length(q) \in Nat /\ q.first \in Int
          BY <2>1, ShapeIs DEF QInv
        <4>2. p - q.first \in 0..Length(q) - 1
          BY <3>2 DEF Has
        <4>3. q.first >= since
          BY <4>1, <4>2 DEF EInv
        <4> QED BY <2>1, <4>1, <4>2, <4>3
      <3> QED BY <3>1, <3>2
    <2> QED BY <2>1, <2>2, GetEntryIs
  <1> QED BY <1>1, <1>2, EInvInit, PTL DEF Spec
=============================================================================
