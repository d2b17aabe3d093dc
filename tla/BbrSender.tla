------------------------------ MODULE BbrSender ------------------------------
(***************************************************************************)
(* The BBR congestion controller of the QUIC transport (bbrSender), with   *)
(* the standard profile, the only one Apply installs.                      *)
(*                                                                         *)
(* A packet number matters only by its place among the packets in flight,  *)
(* so flight is their count and a mark such as currentRoundTripEnd is the  *)
(* number of them at or below it: "packet p is after the mark" is p > mark *)
(* and "mark = lastSentPacket" is mark = flight.  Bytes are counted in     *)
(* packets of the initial datagram size.                                   *)
(*                                                                         *)
(* Bandwidth and RTT are not modelled: a comparison with the target window *)
(* (gain * bandwidth * RTT, at least the minimum window) has every outcome *)
(* that the minimum allows, and so has a comparison of bandwidths.         *)
(***************************************************************************)
EXTENDS Integers, FiniteSets, FiniteSetsExt

CONSTANTS
    MaxFlight,      \* bound: packets in flight
    Sizes,          \* datagram sizes, in units of the initial one
    MinPackets,     \* minCongestionWindowPackets
    InitPackets,    \* initialCongestionWindowPackets
    MaxPackets,     \* MaxCongestionWindowPackets of quic-go
    Extra,          \* MaxPacketBufferSize of quic-go
    StartupRounds,  \* roundTripsWithoutGrowthBeforeExitingStartup
    LossCount,      \* defaultStartupFullLossCount
    CycleLength,    \* gainCycleLength
    RecoveryBound   \* bound: the recovery window saturates here

ASSUME SizeAssumption == 1 \in Sizes /\ Sizes \subseteq Nat \ {0}
ASSUME PacketAssumption ==
    /\ MinPackets \in Nat \ {0} /\ InitPackets \in Nat /\ MaxPackets \in Nat
    /\ MinPackets <= InitPackets /\ InitPackets <= MaxPackets
    /\ MaxFlight \in Nat /\ Extra \in Nat
ASSUME CycleAssumption ==
    StartupRounds \in Nat \ {0} /\ LossCount \in Nat /\ CycleLength \in Nat /\ CycleLength > 2
(* The recovery window saturates above every window. *)
ASSUME BoundAssumption ==
    RecoveryBound \in Nat /\ \A s \in Sizes : MaxPackets * s <= RecoveryBound

VARIABLES
    b,       \* the fields of bbrSender
    flight,  \* the packets in flight
    rtt      \* minRtt is set

vars == <<b, flight, rtt>>

MinWindow(s) == MinPackets * s
InitWindow(s) == InitPackets * s
MaxWindow(s) == MaxPackets * s
Least(x, y) == IF x < y THEN x ELSE y
Most(x, y) == IF x > y THEN x ELSE y
Clamp(w, s) == Least(MaxWindow(s), Most(w, MinWindow(s)))

Init ==
    /\ b = [mode |-> "Startup", full |-> FALSE, flat |-> 0, losses |-> 0, cycle |-> 0,
            exitAt |-> "unset", passed |-> FALSE, quiet |-> FALSE,
            recovery |-> "none", roundEnd |-> 0, recoveryEnd |-> 0,
            cwnd |-> InitWindow(1), recoveryWindow |-> MaxWindow(1), size |-> 1]
    /\ flight \in 0..MaxFlight /\ rtt = FALSE

TypeOK ==
    /\ b.mode \in {"Startup", "Drain", "ProbeBw", "ProbeRtt"}
    /\ b.flat \in 0..StartupRounds /\ b.losses \in 0..LossCount /\ b.cycle \in 0..CycleLength - 1
    /\ b.exitAt \in {"unset", "wait", "due"}
    /\ b.recovery \in {"none", "conservation", "growth"}
    /\ b.roundEnd \in 0..flight /\ b.recoveryEnd \in 0..flight
    /\ b.size \in Sizes /\ flight \in 0..MaxFlight /\ rtt \in BOOLEAN
-----------------------------------------------------------------------------
(***************************************************************************)
(* The window and the packets that may be sent under it.                   *)
(***************************************************************************)
(* Mutant: PROBE_RTT keeps the window of the mode it interrupts. *)
WindowAsBefore ==
    IF b.recovery # "none" THEN Least(b.cwnd, b.recoveryWindow) ELSE b.cwnd

GetCongestionWindow ==
    IF b.mode = "ProbeRtt" THEN MinWindow(b.size)
    ELSE IF b.recovery # "none" THEN Least(b.cwnd, b.recoveryWindow) ELSE b.cwnd

CanSend == flight < GetCongestionWindow

OnPacketSent ==
    /\ CanSend /\ flight < MaxFlight
    /\ flight' = flight + 1 /\ b' = [b EXCEPT !.quiet = @ \/ flight = 0]
    /\ UNCHANGED rtt

(* Mutant: the recovery window is not brought into the new limits. *)
DatagramSizeOnly(s) ==
    /\ s > b.size
    /\ b' = [b EXCEPT !.size = s,
                      !.cwnd = IF @ = MinWindow(b.size) THEN MinWindow(s)
                               ELSE IF @ = InitWindow(b.size) THEN InitWindow(s)
                               ELSE Clamp(@, s)]
    /\ UNCHANGED <<flight, rtt>>

(* Path MTU discovery; a smaller size panics, and quic-go only raises it. *)
SetMaxDatagramSize(s) ==
    /\ s > b.size
    /\ b' = [b EXCEPT !.size = s,
                      !.cwnd = IF @ = MinWindow(b.size) THEN MinWindow(s)
                               ELSE IF @ = InitWindow(b.size) THEN InitWindow(s)
                               ELSE Clamp(@, s),
                      !.recoveryWindow = Clamp(@, s)]
    /\ UNCHANGED <<flight, rtt>>
-----------------------------------------------------------------------------
(***************************************************************************)
(* The steps of OnCongestionEventEx, in their order.  Each takes the       *)
(* fields and returns them, or the set of its outcomes.                    *)
(***************************************************************************)
UpdateRoundTripCounter(x, start) == IF start THEN [x EXCEPT !.roundEnd = flight] ELSE x

(* A loss starts a round of conservation, for which the round is extended; *)
(* an ack of a packet sent after the latest loss ends the recovery.        *)
UpdateRecoveryState(x, last, lossy, start) ==
    LET y == IF lossy THEN [x EXCEPT !.recoveryEnd = flight] ELSE x
        z == IF y.recovery = "conservation" /\ start
             THEN [y EXCEPT !.recovery = "growth"] ELSE y
    IN IF ~x.full THEN x
       ELSE IF x.recovery = "none"
       THEN IF lossy THEN [y EXCEPT !.recovery = "conservation", !.recoveryWindow = 0,
                                    !.roundEnd = flight] ELSE y
       ELSE IF ~lossy /\ last > y.recoveryEnd THEN [z EXCEPT !.recovery = "none"] ELSE z

CountLosses(x, lossy) == IF lossy THEN [x EXCEPT !.losses = Least(@ + 1, LossCount)] ELSE x

(* The gain of PROBE_BW: probe, drain, then cruise.  The gain above one    *)
(* needs a loss or a full target window, the gain below one ends when the  *)
(* flight is down to the target; both targets are at least the minimum.    *)
PacingGain(c) == CASE c = 0 -> "high" [] c = 1 -> "low" [] OTHER -> "one"
UpdateGainCyclePhase(x, prior, left, lossy) ==
    LET gain == PacingGain(x.cycle)
        may  == gain = "high" => lossy \/ prior >= MinWindow(x.size)
        must == gain = "low" /\ left <= MinWindow(x.size)
        next == [x EXCEPT !.cycle = (@ + 1) % CycleLength]
    IN IF x.mode # "ProbeBw" THEN {x}
       ELSE (IF may THEN {next} ELSE {}) \cup (IF must THEN {} ELSE {x})

(* An app-limited sample decides nothing; growth starts the count anew;    *)
(* enough rounds without growth, or enough loss, is the full bandwidth.    *)
CheckIfFullBandwidthReached(x, start) ==
    LET flat == [x EXCEPT !.flat = @ + 1]
        full == [flat EXCEPT !.full = TRUE]
    IN IF ~start \/ x.full THEN {x}
       ELSE {x, [x EXCEPT !.flat = 0]}
            \cup (IF flat.flat >= StartupRounds THEN {full} ELSE {flat})
            \cup (IF x.losses >= LossCount THEN {full} ELSE {})

EnterStartupMode(x) == [x EXCEPT !.mode = "Startup"]
(* The random offset leaves out the drain phase. *)
EnterProbeBandwidthMode(x) ==
    {[x EXCEPT !.mode = "ProbeBw", !.cycle = c] : c \in (0..CycleLength - 1) \ {1}}

MaybeExitStartupOrDrain(x, left) ==
    LET y == IF x.mode = "Startup" /\ x.full THEN [x EXCEPT !.mode = "Drain"] ELSE x
    IN IF y.mode # "Drain" THEN {y}
       ELSE EnterProbeBandwidthMode(y)
            \cup (IF left <= MinWindow(y.size) THEN {} ELSE {y})

MaybeEnterOrExitProbeRtt(x, left, start, expired) ==
    LET y == IF expired /\ ~x.quiet /\ x.mode # "ProbeRtt"
             THEN [x EXCEPT !.mode = "ProbeRtt", !.exitAt = "unset"] ELSE x
        z == [y EXCEPT !.quiet = FALSE]
        p == [z EXCEPT !.passed = @ \/ start]
    IN IF z.mode # "ProbeRtt" THEN {z}
       ELSE IF z.exitAt = "unset"
       THEN {IF left < MinWindow(z.size) + Extra
             THEN [z EXCEPT !.exitAt = "wait", !.passed = FALSE] ELSE z}
       ELSE IF ~(p.exitAt = "due" /\ p.passed) THEN {p}
       ELSE IF p.full THEN EnterProbeBandwidthMode(p) ELSE {EnterStartupMode(p)}

(* The window grows by what was acked, up to a target of at least the      *)
(* minimum; before the full bandwidth it never falls.                      *)
CalculateCongestionWindow(x, acked) ==
    LET targets == MinWindow(x.size)..MaxWindow(x.size) IN
    IF x.mode = "ProbeRtt" THEN {x}
    ELSE {[x EXCEPT !.cwnd = Clamp(w, x.size)] :
            w \in IF x.full THEN {Least(t, x.cwnd + acked) : t \in targets}
                            ELSE {x.cwnd, x.cwnd + acked}}

CalculateRecoveryWindow(x, left, acked, lost) ==
    LET less == IF x.recoveryWindow >= lost THEN x.recoveryWindow - lost ELSE x.size
        more == IF x.recovery = "growth" THEN less + acked ELSE less
        w    == IF x.recoveryWindow = 0 THEN left + acked ELSE Most(more, left + acked)
    IN IF x.recovery = "none" THEN x
       ELSE [x EXCEPT !.recoveryWindow = Least(RecoveryBound, Most(MinWindow(x.size), w))]

(* A new round forgets its losses, and the packets that left the flight no *)
(* longer count in the marks.                                              *)
Forget(x, start, gone) ==
    LET Below(m) == m - Cardinality(gone \cap (1..m)) IN
    [x EXCEPT !.losses = IF start THEN 0 ELSE @,
              !.roundEnd = Below(@), !.recoveryEnd = Below(@)]

(* The packets A are acked and L are lost.  quic-go loses the oldest ones  *)
(* first.  The minimum RTT expires when it was set and an ack samples one. *)
OnCongestionEventEx(A, L) ==
    LET acked == Cardinality(A)
        lost  == Cardinality(L)
        left  == flight - acked - lost
        last  == IF A = {} THEN 0 ELSE Max(A)
        start == A # {} /\ last > b.roundEnd
        x1    == UpdateRoundTripCounter(b, start)
        x2    == IF A = {} THEN x1 ELSE UpdateRecoveryState(x1, last, L # {}, start)
    IN /\ A \cup L # {} /\ flight' = left
       /\ \E sampled \in IF A = {} THEN {FALSE} ELSE BOOLEAN,
             expired \in IF A # {} /\ rtt THEN BOOLEAN ELSE {FALSE} :
          /\ expired => sampled
          /\ rtt' = (rtt \/ sampled)
          /\ \E x3 \in UpdateGainCyclePhase(CountLosses(x2, L # {}), flight, left, L # {}) :
             \E x4 \in CheckIfFullBandwidthReached(x3, start) :
             \E x5 \in MaybeExitStartupOrDrain(x4, left) :
             \E x6 \in MaybeEnterOrExitProbeRtt(x5, left, start, expired) :
             \E x7 \in CalculateCongestionWindow(x6, acked) :
                b' = Forget(CalculateRecoveryWindow(x7, left, acked, lost), start, A \cup L)

(* probeRttTime has passed since the exit was scheduled. *)
ProbeRttTimeUp ==
    /\ b.exitAt = "wait" /\ b' = [b EXCEPT !.exitAt = "due"] /\ UNCHANGED <<flight, rtt>>

Acked == SUBSET (1..flight)
Lost(A) == {(1..k) \ A : k \in 0..flight}
Event == \E A \in Acked : \E L \in Lost(A) : OnCongestionEventEx(A, L)
Resize == \E s \in Sizes : SetMaxDatagramSize(s)

Next == OnPacketSent \/ Event \/ Resize \/ ProbeRttTimeUp
Spec == Init /\ [][Next]_vars

(* Fairness: the application has data, the peer acks while packets are in  *)
(* flight, and not every packet of every round is lost (a connection whose *)
(* packets are all lost is closed by its idle timeout).                    *)
AnyAck == \E A \in Acked : A # {} /\ OnCongestionEventEx(A, {})
RoundAck == \E A \in Acked : A # {} /\ Max(A) > b.roundEnd
               /\ \E L \in Lost(A) : OnCongestionEventEx(A, L)
LiveSpec == Spec /\ WF_vars(OnPacketSent) /\ WF_vars(ProbeRttTimeUp) /\ WF_vars(AnyAck)
                 /\ SF_vars(RoundAck)
-----------------------------------------------------------------------------
(* Whatever the order of losses, recoveries, mode changes and growth of    *)
(* the datagram size, the window stays within its limits; above all a      *)
(* sender with nothing in flight can send, or it would never again get the *)
(* event that repairs the window (calculateRecoveryWindow,                 *)
(* SetMaxDatagramSize).                                                    *)
WindowHolds == /\ MinWindow(b.size) <= GetCongestionWindow
               /\ GetCongestionWindow <= MaxWindow(b.size)

(* PROBE_RTT, which starves the flow to four packets, always ends          *)
(* (maybeEnterOrExitProbeRtt): it needs a small flight, its time and a     *)
(* round start, which sends, losses and recovery move independently.       *)
ProbeRttEnds == b.mode = "ProbeRtt" ~> b.mode # "ProbeRtt"
=============================================================================
