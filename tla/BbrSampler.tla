----------------------------- MODULE BbrSampler -----------------------------
(***************************************************************************)
(* The bandwidth measurement of the BBR sender: bandwidthSampler with its  *)
(* queue of sent packets (packetNumberIndexedQueue on a RingBuffer), the   *)
(* round counter and the filter of the maximum bandwidth (WindowedFilter). *)
(*                                                                         *)
(* A bandwidth is a number of a small set; which one a packet measures is  *)
(* left open, and 0 is a packet without a valid sample (no packet acked    *)
(* before it was sent, or no time between the two acks).                   *)
(***************************************************************************)
EXTENDS Integers, FiniteSets, FiniteSetsExt

CONSTANTS
    MaxPacket,   \* bound: the largest packet number
    MaxFlight,   \* bound: packets in flight
    RingSize,    \* defaultConnectionStateMapQueueSize
    MaxRate,     \* bandwidths are 0..MaxRate
    Window,      \* bandwidthWindowSize, in rounds
    Threshold    \* packetThreshold of quic-go

ASSUME BoundAssumption == MaxPacket \in Nat /\ MaxFlight \in Nat /\ MaxRate \in Nat
ASSUME WindowAssumption == Window \in Nat /\ RingSize \in Nat \ {0}
(* packetThreshold is 3 (RFC 9002); with a larger one a packet could be in *)
(* flight below the estimate of the least unacked packet.                  *)
ASSUME ThresholdAssumption == Threshold \in 1..3

VARIABLES
    sent,      \* lastSentPacket
    since,     \* the first packet sent under the controller
    out,       \* the packets in flight, the history of quic-go
    q,         \* connectionStateMap
    limited,   \* isAppLimited
    limitEnd,  \* endOfAppLimitedPhase
    round,     \* roundTripCount
    roundEnd,  \* currentRoundTripEnd
    est        \* the three estimates of maxBandwidth

queueVars == <<sent, since, out, q>>
vars == <<queueVars, limited, limitEnd, round, roundEnd, est>>

Invalid == -1
-----------------------------------------------------------------------------
(***************************************************************************)
(* RingBuffer.  A cell holds an entryWrapper: the packet whose state it    *)
(* stores and its app-limited flag, or Absent.                             *)
(***************************************************************************)
Cell(p, l) == [packet |-> p, limited |-> l]
Absent == Cell(Invalid, FALSE)
Size(r) == Cardinality(DOMAIN r.ring)
Length(r) == IF r.full THEN Size(r) ELSE (r.tail - r.head + Size(r)) % Size(r)
Offset(r, i) == r.ring[(r.head + i) % Size(r)]

Grow(r) == LET n == Size(r) IN
    [r EXCEPT !.ring = [i \in 0..2 * n - 1 |-> IF i < n THEN Offset(r, i) ELSE Absent],
              !.head = 0, !.tail = n, !.full = FALSE]
PushBack(r, cell) ==
    LET g == IF r.full THEN Grow(r) ELSE r
        t == (g.tail + 1) % Size(g)
    IN [g EXCEPT !.ring[g.tail] = cell, !.tail = t, !.full = (t = g.head)]
(* n calls of PopFront. *)
PopFront(r, n) ==
    LET popped == {(r.head + i) % Size(r) : i \in 0..n - 1} IN
    IF n = 0 THEN r
    ELSE [r EXCEPT !.ring = [i \in DOMAIN @ |-> IF i \in popped THEN Absent ELSE @[i]],
                   !.head = (@ + n) % Size(r), !.full = FALSE]
-----------------------------------------------------------------------------
(***************************************************************************)
(* packetNumberIndexedQueue: count is numberOfPresentEntries, first is     *)
(* firstPacket.                                                            *)
(***************************************************************************)
Present(r, i) == Offset(r, i).packet # Invalid
LastPacket(r) == IF r.count = 0 THEN Invalid ELSE r.first + Length(r) - 1

(* Packet numbers without an entry, of ack-only packets and of numbers     *)
(* that quic-go skips, become absent cells.                                *)
Filled(r) ==
    LET Fill[n \in 0..MaxPacket] == IF n = 0 THEN r ELSE PushBack(Fill[n - 1], Absent) IN Fill
Emplace(r, p, l) ==
    LET cell == Cell(p, l)
        gap  == p - r.first - Length(r)
    IN IF r.count = 0 THEN [PushBack(r, cell) EXCEPT !.count = 1, !.first = p]
       ELSE IF p <= LastPacket(r) THEN r
       ELSE [PushBack(Filled(r)[gap], cell) EXCEPT !.count = @ + 1]

GetEntry(r, p) ==
    IF r.count = 0 \/ p < r.first \/ p - r.first >= Length(r) THEN Absent
    ELSE Offset(r, p - r.first)

(* The front is popped up to p, and then as long as it is absent. *)
RemoveUpTo(r, p) ==
    LET kept == {i \in 0..Length(r) - 1 : r.first + i >= p /\ Present(r, i)}
        n    == IF kept = {} THEN Length(r) ELSE Min(kept)
        lost == Cardinality({i \in 0..n - 1 : Present(r, i)})
    IN [PopFront(r, n) EXCEPT !.count = @ - lost,
                              !.first = IF kept = {} THEN Invalid ELSE @ + n]
-----------------------------------------------------------------------------
(***************************************************************************)
(* WindowedFilter, a maximum filter: the best, second and third estimate.  *)
(***************************************************************************)
Reset(v, t) == [i \in 1..3 |-> [v |-> v, t |-> t]]
Age(e, i, t) == t - e[i].t

(* Mutant: an expired best estimate is replaced once, without a look at    *)
(* the age of its successor.                                               *)
UpdateOnce(e, v, t) ==
    LET new == [v |-> v, t |-> t]
        f == IF v >= e[2].v THEN [e EXCEPT ![2] = new, ![3] = new]
             ELSE IF v >= e[3].v THEN [e EXCEPT ![3] = new] ELSE e
    IN IF e[1].v = 0 \/ v >= e[1].v \/ Age(e, 3, t) > Window THEN Reset(v, t)
       ELSE IF Age(f, 1, t) > Window THEN <<f[2], f[3], new>>
       ELSE IF f[2].v = f[1].v /\ Age(f, 2, t) > Window \div 4 THEN <<f[1], new, new>>
       ELSE IF f[3].v = f[2].v /\ Age(f, 3, t) > Window \div 2 THEN <<f[1], f[2], new>>
       ELSE f

Update(e, v, t) ==
    LET new == [v |-> v, t |-> t]
        f == IF v >= e[2].v THEN [e EXCEPT ![2] = new, ![3] = new]
             ELSE IF v >= e[3].v THEN [e EXCEPT ![3] = new] ELSE e
    IN IF e[1].v = 0 \/ v >= e[1].v \/ Age(e, 3, t) > Window THEN Reset(v, t)
       ELSE IF Age(f, 1, t) > Window
       THEN IF Age(f, 2, t) > Window THEN <<f[3], new, new>> ELSE <<f[2], f[3], new>>
       ELSE IF f[2].v = f[1].v /\ Age(f, 2, t) > Window \div 4 THEN <<f[1], new, new>>
       ELSE IF f[3].v = f[2].v /\ Age(f, 3, t) > Window \div 2 THEN <<f[1], f[2], new>>
       ELSE f
-----------------------------------------------------------------------------
(* Packets of the handshake are in flight when the controller is           *)
(* installed; it has no entry for them.                                    *)
Init ==
    /\ since \in 0..1 /\ sent = since - 1 /\ out = 0..sent
    /\ q = [ring |-> [i \in 0..RingSize - 1 |-> Absent], head |-> 0, tail |-> 0,
            full |-> FALSE, count |-> 0, first |-> Invalid]
    /\ limited = FALSE /\ limitEnd = Invalid /\ round = 0 /\ roundEnd = Invalid
    /\ est = Reset(0, 0)

(* A packet that is congestion controlled, or an ack-only packet, which    *)
(* takes a packet number and nothing else.                                 *)
OnPacketSent(retransmittable) ==
    /\ sent < MaxPacket /\ Cardinality(out) < MaxFlight /\ sent' = sent + 1
    /\ out' = IF retransmittable THEN out \cup {sent'} ELSE out
    /\ q' = IF retransmittable THEN Emplace(q, sent', limited) ELSE q
    /\ UNCHANGED <<since, limited, limitEnd, round, roundEnd, est>>

(* onPacketAcknowledged, for each of A in order: the phase ends at the     *)
(* first ack of a packet with an entry that was sent after its mark.       *)
Known(A) == {p \in A : GetEntry(q, p).packet # Invalid}
StillLimited(A) == limited /\ ~\E p \in Known(A) : p > limitEnd

(* The bandwidth of the event and whether its packet was app-limited. *)
Samples(A) == {[v |-> 0, limited |-> FALSE]} \cup
    {[v |-> v, limited |-> GetEntry(q, p).limited] : v \in 1..MaxRate, p \in Known(A)}

(* Mutant: the entries below the latest acked packet are obsolete. *)
LeastUnackedExact(A, L) == IF A # {} THEN Max(A) ELSE Max(L) + 1

(* The estimate of the least unacked packet: quic-go loses a packet in     *)
(* the event that acks the third one after it.                             *)
LeastUnacked(A, L) == IF A # {} THEN Max(A) - 2 ELSE Max(L) + 1

(* The event of acked packets A and lost packets L, without the modes of   *)
(* the sender.  app: OnAppLimited is called, before the acks because the   *)
(* flight was below the target, or after them in PROBE_RTT; its mark is    *)
(* the last sent packet, so no ack of the event ends the phase.  The mark  *)
(* is not read outside a phase and is forgotten with it.                   *)
OnCongestionEventEx(A, L, app) ==
    LET start == A # {} /\ Max(A) > roundEnd
        now   == IF start THEN round + 1 ELSE round
    IN /\ round' = now
       /\ \/ roundEnd' = IF start THEN sent ELSE roundEnd
          \/ A # {} /\ L # {} /\ roundEnd' = sent  \* a recovery starts
       /\ limited' = (app \/ StillLimited(A))
       /\ limitEnd' = IF app THEN sent ELSE IF limited' THEN limitEnd ELSE Invalid
       /\ \E s \in Samples(A) :
             est' = IF Known(A) # {} /\ (~s.limited \/ s.v > est[1].v)
                    THEN Update(est, s.v, now) ELSE est
       /\ out' = out \ (A \cup L) /\ q' = RemoveUpTo(q, LeastUnacked(A, L))
       /\ UNCHANGED <<sent, since>>

(* What quic-go loses in an event: packets the threshold is past, and the  *)
(* oldest ones by time.                                                    *)
Overtaken(A) == {p \in out \ A : A # {} /\ p + Threshold <= Max(A)}
Losses(A) == {L \in {{p \in out \ A : p <= k} : k \in out \cup {Invalid}} : Overtaken(A) \subseteq L}
Event(A, L) == A \cup L # {} /\ \E app \in BOOLEAN : OnCongestionEventEx(A, L, app)

Next == \/ \E r \in BOOLEAN : OnPacketSent(r)
        \/ \E A \in SUBSET out : \E L \in Losses(A) : Event(A, L)
Spec == Init /\ [][Next]_vars
-----------------------------------------------------------------------------
(* Every packet in flight that was sent under the controller still has its *)
(* own entry, and no other packet has one that is not its own: neither the *)
(* estimate of the obsolete packets (bbr_sender.go:623-628: "they should   *)
(* differ by no more than 2 packets") nor the growth and the wrap of the   *)
(* ring loses or moves the state that the ack or the loss will look up.    *)
EntriesKept ==
    \A p \in out : GetEntry(q, p).packet = IF p >= since THEN p ELSE Invalid

(* The bandwidth estimate falls only when the sample it rests on is older  *)
(* than the window, and an estimate that was just updated is never older   *)
(* (WindowedFilter.Update: "check if the new best estimate is outside the  *)
(* window as well").                                                       *)
BestHolds == [][/\ est'[1].v < est[1].v => round' - est[1].t > Window
                /\ est' # est => round' - est'[1].t <= Window]_vars
=============================================================================
