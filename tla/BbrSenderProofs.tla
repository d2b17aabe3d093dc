-------------------------- MODULE BbrSenderProofs --------------------------
(***************************************************************************)
(* Proofs about BbrSender, for any sizes, limits and number of packets.    *)
(* Every step of OnCongestionEventEx has a lemma that says which fields it *)
(* leaves alone; the congestion window and the recovery window are         *)
(* brought into their limits by the last two of them.                      *)
(***************************************************************************)
EXTENDS BbrSender, FiniteSetTheorems, TLAPS

Fields == [mode : {"Startup", "Drain", "ProbeBw", "ProbeRtt"}, full : BOOLEAN,
           flat : 0..StartupRounds, losses : 0..LossCount, cycle : 0..CycleLength - 1,
           exitAt : {"unset", "wait", "due"}, passed : BOOLEAN, quiet : BOOLEAN,
           recovery : {"none", "conservation", "growth"},
           roundEnd : 0..flight, recoveryEnd : 0..flight,
           cwnd : Nat, recoveryWindow : Nat, size : Sizes]

(* The window of the current mode is within the limits of the size. *)
Limits(x) == MinWindow(x.size) <= x.cwnd /\ x.cwnd <= MaxWindow(x.size)

(* A field may only count to its limit while the bandwidth is not full. *)
Counting(x) == ~x.full => x.flat < StartupRounds

SInv == /\ b \in Fields /\ flight \in 0..MaxFlight /\ rtt \in BOOLEAN
        /\ Limits(b) /\ Counting(b)
        /\ b.recovery # "none" => MinWindow(b.size) <= b.recoveryWindow

Good(x) == x \in Fields /\ Limits(x) /\ Counting(x)
-----------------------------------------------------------------------------
(* The limits of every datagram size are in order. *)
LEMMA WindowOrder ==
    ASSUME NEW s \in Sizes
    PROVE  /\ s \in Nat \ {0}
           /\ MinWindow(s) \in Nat /\ InitWindow(s) \in Nat /\ MaxWindow(s) \in Nat
           /\ MinWindow(s) <= InitWindow(s) /\ InitWindow(s) <= MaxWindow(s)
           /\ MaxWindow(s) <= RecoveryBound
  <1>1. s \in Nat \ {0}
    BY SizeAssumption
  <1>2. MinPackets * s <= InitPackets * s /\ InitPackets * s <= MaxPackets * s
    BY <1>1, PacketAssumption
  <1>3. MinPackets * s \in Nat /\ InitPackets * s \in Nat /\ MaxPackets * s \in Nat
    BY <1>1, PacketAssumption
  <1> QED BY <1>1, <1>2, <1>3, BoundAssumption DEF MinWindow, InitWindow, MaxWindow

(* Clamp brings any window into the limits. *)
LEMMA ClampHolds ==
    ASSUME NEW s \in Sizes, NEW w \in Nat
    PROVE  /\ Clamp(w, s) \in Nat
           /\ MinWindow(s) <= Clamp(w, s) /\ Clamp(w, s) <= MaxWindow(s)
  BY WindowOrder DEF Clamp, Least, Most

LEMMA RoundTripKeeps ==
    ASSUME NEW x, Good(x), flight \in Nat, NEW start \in BOOLEAN
    PROVE  Good(UpdateRoundTripCounter(x, start))
  BY DEF Good, Limits, Counting, Fields, UpdateRoundTripCounter

LEMMA RecoveryStateKeeps ==
    ASSUME NEW x, Good(x), flight \in Nat, NEW last,
           NEW lossy \in BOOLEAN, NEW start \in BOOLEAN
    PROVE  Good(UpdateRecoveryState(x, last, lossy, start))
  <1> DEFINE y == IF lossy THEN [x EXCEPT !.recoveryEnd = flight] ELSE x
             z == IF y.recovery = "conservation" /\ start
                  THEN [y EXCEPT !.recovery = "growth"] ELSE y
  <1>1. Good(y)
    BY DEF Good, Limits, Counting, Fields
  <1>2. Good(z)
    <2> HIDE DEF y
    <2> QED BY <1>1 DEF Good, Limits, Counting, Fields
  <1>2a. Good([z EXCEPT !.recovery = "none"])
    <2> HIDE DEF z
    <2> QED BY <1>2 DEF Good, Limits, Counting, Fields
  <1>3. Good([y EXCEPT !.recovery = "conservation", !.recoveryWindow = 0, !.roundEnd = flight])
    <2> HIDE DEF y
    <2> DEFINE u == [y EXCEPT !.recovery = "conservation"]
               v == [u EXCEPT !.recoveryWindow = 0]
    <2>0. Good(u)
      BY <1>1 DEF Good, Limits, Counting, Fields
    <2>1. Good(v) /\ flight \in 0..flight
      <3> HIDE DEF u
      <3> QED BY <2>0 DEF Good, Limits, Counting, Fields
    <2>2. Good([v EXCEPT !.roundEnd = flight])
      <3> HIDE DEF v
      <3> QED BY <2>1 DEF Good, Limits, Counting, Fields
    <2> QED BY <2>2
  <1> QED BY <1>1, <1>2, <1>2a, <1>3 DEF UpdateRecoveryState

LEMMA CountLossesKeeps ==
    ASSUME NEW x, Good(x), NEW lossy \in BOOLEAN
    PROVE  Good(CountLosses(x, lossy))
  BY CycleAssumption DEF Good, Limits, Counting, Fields, CountLosses, Least

LEMMA GainCycleKeeps ==
    ASSUME NEW x, Good(x), NEW prior, NEW left, NEW lossy,
           NEW y \in UpdateGainCyclePhase(x, prior, left, lossy)
    PROVE  Good(y)
  <1>1. (x.cycle + 1) % CycleLength \in 0..CycleLength - 1
    BY CycleAssumption DEF Good, Fields
  <1> QED BY <1>1 DEF Good, Limits, Counting, Fields, UpdateGainCyclePhase

LEMMA FullBandwidthKeeps ==
    ASSUME NEW x, Good(x), NEW start \in BOOLEAN,
           NEW y \in CheckIfFullBandwidthReached(x, start)
    PROVE  Good(y)
  <1> DEFINE flat == [x EXCEPT !.flat = @ + 1]
             full == [flat EXCEPT !.full = TRUE]
  <1>1. CASE ~start \/ x.full
    BY <1>1 DEF CheckIfFullBandwidthReached
  <1>2. CASE start /\ ~x.full
    <2>1. Good([x EXCEPT !.flat = 0])
      BY CycleAssumption DEF Good, Limits, Counting, Fields
    <2>2. flat.flat < StartupRounds => Good(flat)
      BY <1>2, CycleAssumption DEF Good, Limits, Counting, Fields
    <2>3. flat \in Fields /\ Limits(flat) /\ flat.flat \in Nat
      BY <1>2, CycleAssumption DEF Good, Limits, Counting, Fields
    <2>4. Good(full)
      <3> HIDE DEF flat
      <3> QED BY <2>3 DEF Good, Limits, Counting, Fields
    <2> QED BY <1>2, <2>1, <2>2, <2>3, <2>4, CycleAssumption DEF CheckIfFullBandwidthReached
  <1> QED BY <1>1, <1>2

LEMMA ProbeBandwidthKeeps ==
    ASSUME NEW x, Good(x), NEW y \in EnterProbeBandwidthMode(x)
    PROVE  Good(y)
  BY ZenonT(90) DEF Good, Limits, Counting, Fields, EnterProbeBandwidthMode

LEMMA StartupOrDrainKeeps ==
    ASSUME NEW x, Good(x), NEW left, NEW y \in MaybeExitStartupOrDrain(x, left)
    PROVE  Good(y)
  <1>1. Good([x EXCEPT !.mode = "Drain"])
    BY DEF Good, Limits, Counting, Fields
  <1> QED BY <1>1, ProbeBandwidthKeeps DEF MaybeExitStartupOrDrain

LEMMA ProbeRttKeeps ==
    ASSUME NEW x, Good(x), NEW left, NEW start \in BOOLEAN, NEW expired \in BOOLEAN,
           NEW o \in MaybeEnterOrExitProbeRtt(x, left, start, expired)
    PROVE  Good(o)
  <1> DEFINE y == IF expired /\ ~x.quiet /\ x.mode # "ProbeRtt"
                  THEN [x EXCEPT !.mode = "ProbeRtt", !.exitAt = "unset"] ELSE x
             z == [y EXCEPT !.quiet = FALSE]
             p == [z EXCEPT !.passed = @ \/ start]
  <1>1. Good(y)
    BY DEF Good, Limits, Counting, Fields
  <1>2. Good(z)
    <2> HIDE DEF y
    <2> QED BY <1>1 DEF Good, Limits, Counting, Fields
  <1>3. Good(p) /\ Good([z EXCEPT !.exitAt = "wait", !.passed = FALSE])
    <2> HIDE DEF z
    <2> QED BY <1>2 DEF Good, Limits, Counting, Fields
  <1>4. Good(EnterStartupMode(p))
    <2> HIDE DEF p
    <2> QED BY <1>3 DEF Good, Limits, Counting, Fields, EnterStartupMode
  <1> QED BY <1>2, <1>3, <1>4, ProbeBandwidthKeeps DEF MaybeEnterOrExitProbeRtt

(* The congestion window of the event is within its limits. *)
LEMMA CongestionWindowKeeps ==
    ASSUME NEW x, Good(x), NEW acked \in Nat, NEW y \in CalculateCongestionWindow(x, acked)
    PROVE  Good(y)
  <1>1. CASE x.mode = "ProbeRtt"
    BY <1>1 DEF CalculateCongestionWindow
  <1>2. CASE x.mode # "ProbeRtt"
    <2>1. PICK w \in Nat : y = [x EXCEPT !.cwnd = Clamp(w, x.size)]
      BY <1>2, WindowOrder DEF CalculateCongestionWindow, Good, Fields, Least
    <2> QED BY <2>1, ClampHolds DEF Good, Limits, Counting, Fields
  <1> QED BY <1>1, <1>2

(* So is the recovery window, also the one that UpdateRecoveryState reset. *)
LEMMA RecoveryWindowKeeps ==
    ASSUME NEW x, Good(x), NEW left \in Nat, NEW acked \in Nat, NEW lost \in Nat
    PROVE  LET y == CalculateRecoveryWindow(x, left, acked, lost)
           IN  Good(y) /\ (y.recovery # "none" => MinWindow(y.size) <= y.recoveryWindow)
  <1> DEFINE less == IF x.recoveryWindow >= lost THEN x.recoveryWindow - lost ELSE x.size
             more == IF x.recovery = "growth" THEN less + acked ELSE less
             w == IF x.recoveryWindow = 0 THEN left + acked ELSE Most(more, left + acked)
             r == Least(RecoveryBound, Most(MinWindow(x.size), w))
  <1>1. x.size \in Sizes /\ x.recoveryWindow \in Nat
    BY DEF Good, Fields
  <1>2. w \in Nat
    BY <1>1, WindowOrder DEF Most
  <1>3. r \in Nat /\ MinWindow(x.size) <= r
    <2> HIDE DEF w
    <2> QED BY <1>1, <1>2, WindowOrder, BoundAssumption DEF Least, Most
  <1>4. Good([x EXCEPT !.recoveryWindow = r])
        /\ [x EXCEPT !.recoveryWindow = r].recoveryWindow = r
        /\ [x EXCEPT !.recoveryWindow = r].size = x.size
    <2> HIDE DEF r
    <2> QED BY <1>3 DEF Good, Limits, Counting, Fields
  <1> QED BY <1>3, <1>4 DEF CalculateRecoveryWindow
-----------------------------------------------------------------------------
(***************************************************************************)
(* The packets that leave the flight, and the marks among them.            *)
(***************************************************************************)
LEMMA Gone ==
    ASSUME flight \in Nat, NEW A \in Acked, NEW L \in Lost(A)
    PROVE  /\ Cardinality(A) \in Nat /\ Cardinality(L) \in Nat
           /\ IsFiniteSet(A \cup L) /\ A \cup L \subseteq 1..flight
           /\ Cardinality(A \cup L) = Cardinality(A) + Cardinality(L)
           /\ Cardinality(A) + Cardinality(L) <= flight
  <1>1. A \subseteq 1..flight /\ L \subseteq 1..flight /\ A \cap L = {}
    BY DEF Acked, Lost
  <1>2. IsFiniteSet(1..flight) /\ Cardinality(1..flight) = flight
    BY FS_Interval
  <1>3. IsFiniteSet(A) /\ IsFiniteSet(L) /\ IsFiniteSet(A \cup L)
    BY <1>1, <1>2, FS_Subset, FS_Union
  <1>4. Cardinality(A) \in Nat /\ Cardinality(L) \in Nat
    BY <1>3, FS_CardinalityType
  <1>5. Cardinality(A \cup L) = Cardinality(A) + Cardinality(L) - Cardinality(A \cap L)
    BY <1>3, FS_Union
  <1>6. Cardinality(A \cap L) = 0
    BY <1>1, FS_EmptySet
  <1>7. Cardinality(A \cup L) <= flight
    BY <1>1, <1>2, FS_Subset
  <1> QED BY <1>1, <1>3, <1>4, <1>5, <1>6, <1>7

(* A mark within the flight stays within what is left of it (Forget). *)
LEMMA MarkStays ==
    ASSUME flight \in Nat, NEW G \in SUBSET (1..flight), NEW m \in 0..flight
    PROVE  m - Cardinality(G \cap (1..m)) \in 0..(flight - Cardinality(G))
  <1> DEFINE In == G \cap (1..m)
             Out == G \cap ((m + 1)..flight)
  <1>0. m \in Int /\ m + 1 \in Int /\ flight \in Int /\ m <= flight
    OBVIOUS
  <1>1. IsFiniteSet(1..m) /\ Cardinality(1..m) = m
    BY FS_Interval
  <1>1a. /\ IsFiniteSet((m + 1)..flight)
         /\ Cardinality((m + 1)..flight) = IF m + 1 > flight THEN 0 ELSE flight - (m + 1) + 1
    BY <1>0, FS_Interval
  <1>1b. Cardinality((m + 1)..flight) = flight - m
    BY <1>0, <1>1a
  <1>2. In \subseteq 1..m /\ Out \subseteq (m + 1)..flight
    OBVIOUS
  <1>3. /\ IsFiniteSet(In) /\ Cardinality(In) \in Nat /\ Cardinality(In) <= m
        /\ IsFiniteSet(Out) /\ Cardinality(Out) \in Nat /\ Cardinality(Out) <= flight - m
    <2> HIDE DEF In, Out
    <2> QED BY <1>1, <1>1a, <1>1b, <1>2, FS_Subset, FS_CardinalityType
  <1>4. G = In \cup Out /\ In \cap Out = {}
    <2>1. \A i \in G : i \in 1..m \/ i \in (m + 1)..flight
      BY <1>0
    <2>2. \A i : ~(i \in 1..m /\ i \in (m + 1)..flight)
      BY <1>0
    <2> QED BY <2>1, <2>2, Zenon
  <1>5. Cardinality(G) = Cardinality(In) + Cardinality(Out)
    <2> HIDE DEF In, Out
    <2>1. Cardinality(In \cup Out) = Cardinality(In) + Cardinality(Out) - Cardinality(In \cap Out)
      BY <1>3, FS_Union
    <2>2. Cardinality(In \cap Out) = 0
      BY <1>4, FS_EmptySet
    <2> QED BY <1>3, <1>4, <2>1, <2>2
  <1> HIDE DEF In, Out
  <1>6. m - Cardinality(In) \in 0..(flight - Cardinality(G))
    BY <1>3, <1>5
  <1> QED BY <1>6 DEF In
-----------------------------------------------------------------------------
(***************************************************************************)
(* The steps of the sender.                                                *)
(***************************************************************************)
LEMMA EventKeeps == ASSUME SInv, Event PROVE SInv'
  <1>1. PICK A \in Acked : \E L \in Lost(A) : OnCongestionEventEx(A, L)
    BY DEF Event
  <1>2. PICK L \in Lost(A) : OnCongestionEventEx(A, L)
    BY <1>1
  <1> DEFINE acked == Cardinality(A)
             lost  == Cardinality(L)
             left  == flight - acked - lost
             last  == IF A = {} THEN 0 ELSE Max(A)
             start == A # {} /\ last > b.roundEnd
             x1    == UpdateRoundTripCounter(b, start)
             x2    == IF A = {} THEN x1 ELSE UpdateRecoveryState(x1, last, L # {}, start)
             c     == CountLosses(x2, L # {})
  <1>3. PICK sampled \in IF A = {} THEN {FALSE} ELSE BOOLEAN,
             expired \in IF A # {} /\ rtt THEN BOOLEAN ELSE {FALSE} :
          /\ expired => sampled
          /\ rtt' = (rtt \/ sampled)
          /\ \E x3 \in UpdateGainCyclePhase(c, flight, left, L # {}) :
             \E x4 \in CheckIfFullBandwidthReached(x3, start) :
             \E x5 \in MaybeExitStartupOrDrain(x4, left) :
             \E x6 \in MaybeEnterOrExitProbeRtt(x5, left, start, expired) :
             \E x7 \in CalculateCongestionWindow(x6, acked) :
                b' = Forget(CalculateRecoveryWindow(x7, left, acked, lost), start, A \cup L)
    BY <1>2, Zenon DEF OnCongestionEventEx
  <1>3a. flight' = left
    BY <1>2 DEF OnCongestionEventEx
  <1>4. Good(b) /\ flight \in Nat /\ flight <= MaxFlight
    BY PacketAssumption DEF SInv, Good
  <1>5. acked \in Nat /\ lost \in Nat /\ left \in Nat /\ left <= flight
    <2>1. acked \in Nat /\ lost \in Nat /\ acked + lost <= flight
      BY <1>4, Gone
    <2> HIDE DEF acked, lost
    <2> QED BY <1>4, <2>1
  <1>6. start \in BOOLEAN /\ (L # {}) \in BOOLEAN /\ expired \in BOOLEAN
    BY Zenon
  <1>7. Good(x1)
    BY <1>4, <1>6, RoundTripKeeps
  <1>8. Good(x2)
    BY <1>4, <1>6, <1>7, RecoveryStateKeeps
  <1>9. Good(c)
    BY <1>6, <1>8, CountLossesKeeps
  <1> HIDE DEF acked, lost, left, last, start, x1, x2, c
  <1>10. PICK x3 \in UpdateGainCyclePhase(c, flight, left, L # {}) :
             \E x4 \in CheckIfFullBandwidthReached(x3, start) :
             \E x5 \in MaybeExitStartupOrDrain(x4, left) :
             \E x6 \in MaybeEnterOrExitProbeRtt(x5, left, start, expired) :
             \E x7 \in CalculateCongestionWindow(x6, acked) :
                b' = Forget(CalculateRecoveryWindow(x7, left, acked, lost), start, A \cup L)
    BY <1>3
  <1>11. PICK x4 \in CheckIfFullBandwidthReached(x3, start) :
             \E x5 \in MaybeExitStartupOrDrain(x4, left) :
             \E x6 \in MaybeEnterOrExitProbeRtt(x5, left, start, expired) :
             \E x7 \in CalculateCongestionWindow(x6, acked) :
                b' = Forget(CalculateRecoveryWindow(x7, left, acked, lost), start, A \cup L)
    BY <1>10
  <1>12. PICK x5 \in MaybeExitStartupOrDrain(x4, left) :
             \E x6 \in MaybeEnterOrExitProbeRtt(x5, left, start, expired) :
             \E x7 \in CalculateCongestionWindow(x6, acked) :
                b' = Forget(CalculateRecoveryWindow(x7, left, acked, lost), start, A \cup L)
    BY <1>11
  <1>13. PICK x6 \in MaybeEnterOrExitProbeRtt(x5, left, start, expired) :
             \E x7 \in CalculateCongestionWindow(x6, acked) :
                b' = Forget(CalculateRecoveryWindow(x7, left, acked, lost), start, A \cup L)
    BY <1>12
  <1>14. PICK x7 \in CalculateCongestionWindow(x6, acked) :
                b' = Forget(CalculateRecoveryWindow(x7, left, acked, lost), start, A \cup L)
    BY <1>13
  <1>15. Good(x3)
    BY <1>9, GainCycleKeeps
  <1>16. Good(x4)
    BY <1>6, <1>15, FullBandwidthKeeps
  <1>17. Good(x5)
    BY <1>16, StartupOrDrainKeeps
  <1>18. Good(x6)
    BY <1>6, <1>17, ProbeRttKeeps
  <1>19. Good(x7)
    BY <1>5, <1>18, CongestionWindowKeeps
  <1> DEFINE r == CalculateRecoveryWindow(x7, left, acked, lost)
  <1>20. Good(r) /\ (r.recovery # "none" => MinWindow(r.size) <= r.recoveryWindow)
    BY <1>5, <1>19, RecoveryWindowKeeps
  <1> HIDE DEF r
  <1>21. Cardinality(A \cup L) = flight - left /\ A \cup L \in SUBSET (1..flight)
    <2>1. Cardinality(A \cup L) = acked + lost /\ A \cup L \subseteq 1..flight
      BY <1>4, Gone DEF acked, lost
    <2> QED BY <1>4, <1>5, <2>1 DEF left
  <1> DEFINE G == A \cup L
             re == r.roundEnd - Cardinality(G \cap (1..r.roundEnd))
             ce == r.recoveryEnd - Cardinality(G \cap (1..r.recoveryEnd))
  <1>22. re \in 0..left /\ ce \in 0..left
    <2>1. r.roundEnd \in 0..flight /\ r.recoveryEnd \in 0..flight
      BY <1>20 DEF Good, Fields
    <2>2. flight - Cardinality(G) = left
      BY <1>4, <1>5, <1>21
    <2> QED BY <1>4, <1>21, <2>1, <2>2, MarkStays
  <1>23. b' = [r EXCEPT !.losses = IF start THEN 0 ELSE @, !.roundEnd = re, !.recoveryEnd = ce]
    BY <1>14, Zenon DEF Forget, r
  <1> HIDE DEF G, re, ce
  <1> DEFINE u == [r EXCEPT !.losses = IF start THEN 0 ELSE @]
  <1>24a. Good(u)
    BY <1>20, CycleAssumption DEF Good, Limits, Counting, Fields
  <1>24b. b' = [u EXCEPT !.roundEnd = re, !.recoveryEnd = ce]
    BY <1>23
  <1>24. b' \in Fields' /\ Limits(b') /\ Counting(b')
    <2> HIDE DEF u
    <2> QED BY <1>3a, <1>22, <1>24a, <1>24b DEF Good, Limits, Counting, Fields
  <1>25. b'.recovery = r.recovery /\ b'.recoveryWindow = r.recoveryWindow /\ b'.size = r.size
    BY <1>20, <1>23 DEF Good, Fields
  <1>26. rtt' \in BOOLEAN
    BY <1>3, Zenon DEF SInv
  <1>27. flight' \in 0..MaxFlight
    BY <1>3a, <1>4, <1>5, PacketAssumption
  <1> QED BY <1>20, <1>24, <1>25, <1>26, <1>27 DEF SInv, Limits, Counting

(* The other steps: a packet is sent, the size of a datagram grows, or the *)
(* time of PROBE_RTT is over.                                              *)
LEMMA SentKeeps == ASSUME SInv, OnPacketSent PROVE SInv'
  <1>1. flight \in Nat /\ flight' = flight + 1 /\ flight < MaxFlight
    BY PacketAssumption DEF SInv, OnPacketSent
  <1> DEFINE q == b.quiet \/ flight = 0
  <1>2. b' = [b EXCEPT !.quiet = q] /\ UNCHANGED rtt /\ q \in BOOLEAN
    BY Zenon DEF OnPacketSent
  <1> HIDE DEF q
  <1>3. b' \in Fields' /\ Limits(b') /\ Counting(b')
    <2>1. b'.roundEnd \in 0..flight' /\ b'.recoveryEnd \in 0..flight'
      BY <1>1, <1>2 DEF SInv, Fields
    <2>2. b' \in Fields /\ Limits(b') /\ Counting(b')
      BY <1>2 DEF SInv, Limits, Counting, Fields
    <2> QED BY <2>1, <2>2 DEF Fields
  <1>4. b'.recovery = b.recovery /\ b'.recoveryWindow = b.recoveryWindow /\ b'.size = b.size
    BY <1>2 DEF SInv, Fields
  <1> QED BY <1>1, <1>2, <1>3, <1>4, PacketAssumption DEF SInv, Limits, Counting

LEMMA ResizeKeeps == ASSUME SInv, NEW s \in Sizes, SetMaxDatagramSize(s) PROVE SInv'
  <1> DEFINE cw == IF b.cwnd = MinWindow(b.size) THEN MinWindow(s)
                   ELSE IF b.cwnd = InitWindow(b.size) THEN InitWindow(s)
                   ELSE Clamp(b.cwnd, s)
             rw == Clamp(b.recoveryWindow, s)
  <1>1. b' = [b EXCEPT !.size = s, !.cwnd = cw, !.recoveryWindow = rw] /\ UNCHANGED <<flight, rtt>>
    BY DEF SetMaxDatagramSize
  <1>2. b.cwnd \in Nat /\ b.recoveryWindow \in Nat
    BY DEF SInv, Fields
  <1>3. /\ cw \in Nat /\ MinWindow(s) <= cw /\ cw <= MaxWindow(s)
        /\ rw \in Nat /\ MinWindow(s) <= rw
    BY <1>2, WindowOrder, ClampHolds
  <1> HIDE DEF cw, rw
  <1>4. b'.size = s /\ b'.cwnd = cw /\ b'.recoveryWindow = rw /\ b'.full = b.full /\ b'.flat = b.flat
    BY <1>1 DEF SInv, Fields
  <1>5. b' \in Fields
    BY <1>1, <1>3 DEF SInv, Fields
  <1> QED BY <1>1, <1>3, <1>4, <1>5 DEF SInv, Limits, Counting, Fields

LEMMA TimeUpKeeps == ASSUME SInv, ProbeRttTimeUp PROVE SInv'
  <1>1. Good(b) /\ b' = [b EXCEPT !.exitAt = "due"] /\ UNCHANGED <<flight, rtt>>
    BY DEF ProbeRttTimeUp, SInv, Good
  <1>2. b' \in Fields /\ Limits(b') /\ Counting(b')
    BY <1>1 DEF Good, Limits, Counting, Fields
  <1>3. b'.recovery = b.recovery /\ b'.recoveryWindow = b.recoveryWindow /\ b'.size = b.size
    BY <1>1 DEF Good, Fields
  <1> QED BY <1>1, <1>2, <1>3 DEF SInv, Limits, Counting, Fields

LEMMA SInvInit == ASSUME Init PROVE SInv
  <1>1. 1 \in Sizes /\ flight \in 0..MaxFlight /\ 0 \in 0..flight
    BY SizeAssumption, PacketAssumption DEF Init
  <1>2. b \in Fields
    BY <1>1, WindowOrder, CycleAssumption DEF Init, Fields
  <1>3. /\ b.cwnd = InitWindow(1) /\ b.size = 1 /\ b.flat = 0
        /\ b.recovery = "none" /\ rtt = FALSE
    BY DEF Init
  <1>4. Limits(b) /\ Counting(b)
    BY <1>1, <1>3, WindowOrder, CycleAssumption DEF Limits, Counting
  <1> QED BY <1>1, <1>2, <1>3, <1>4 DEF SInv

(* The inductive invariant, for every size, limit and number of packets. *)
THEOREM SenderInvariant == Spec => []SInv
  <1>1. SInv /\ [Next]_vars => SInv'
    <2> SUFFICES ASSUME SInv, [Next]_vars PROVE SInv'
      OBVIOUS
    <2>1. CASE UNCHANGED vars
      BY <2>1 DEF vars, SInv, Limits, Counting, Fields
    <2>2. CASE Resize
      BY <2>2, ResizeKeeps DEF Resize
    <2> QED BY <2>1, <2>2, SentKeeps, EventKeeps, TimeUpKeeps DEF Next
  <1> QED BY <1>1, SInvInit, PTL DEF Spec

(* The fields keep their types, and both marks stay within the flight. *)
THEOREM SenderTypes == Spec => []TypeOK
  <1>1. SInv => TypeOK
    BY DEF SInv, Fields, TypeOK
  <1> QED BY <1>1, SenderInvariant, PTL

(* GetCongestionWindow: the window of every mode is within its limits, so  *)
(* a sender with nothing in flight can always send.                        *)
THEOREM WindowsHold == Spec => []WindowHolds
  <1>1. ASSUME SInv PROVE WindowHolds
    <2>1. b.size \in Sizes /\ b.cwnd \in Nat /\ b.recoveryWindow \in Nat
      BY <1>1 DEF SInv, Fields
    <2> QED BY <1>1, <2>1, WindowOrder DEF SInv, Limits, WindowHolds, GetCongestionWindow, Least
  <1> QED BY <1>1, SenderInvariant, PTL
=============================================================================
