------------------------------ MODULE TcpFlow ------------------------------
(***************************************************************************)
(* One TCP flow from an application A on the client to a server B behind   *)
(* the remote: handleTCP and relayTCP of the data plane, the stream of the *)
(* transport, handleTCP and relayTCP of the helper.                        *)
(*                                                                         *)
(*   A  --a2c-->  client  --sup-->  helper  --h2b-->  B                    *)
(*   A  <--c2a--  client  <--sdn--  helper  <--b2h--  B                    *)
(*                                                                         *)
(* Each arrow is a pipe with a bounded buffer.  The data are numbered      *)
(* units, so that a pipe is the count of units written and of units read;  *)
(* a unit stands for any number of bytes.                                  *)
(***************************************************************************)
EXTENDS Naturals

CONSTANTS
    Kinds,     \* the transports: "quic", "ssh"
    MaxUp,     \* bound: units A sends
    MaxDown,   \* bound: units B sends
    Cap        \* the buffer of a pipe, in units

ASSUME KindAssumption == Kinds \subseteq {"quic", "ssh"}
ASSUME DataAssumption == MaxUp \in Nat /\ MaxDown \in Nat /\ Cap \in Nat

Pipes  == {"a2c", "sup", "h2b", "b2h", "sdn", "c2a"}
UpPipes == {"a2c", "sup", "h2b"}
(* The copying goroutines, and the pipe each reads and writes. *)
Copies == {"cup", "cdn", "hup", "hdn"}
From   == [cup |-> "a2c", cdn |-> "sdn", hup |-> "sup", hdn |-> "b2h"]
To     == [cup |-> "sup", cdn |-> "c2a", hup |-> "h2b", hdn |-> "sdn"]
Side   == [client |-> {"cup", "cdn"}, helper |-> {"hup", "hdn"}]

VARIABLES
    kind,      \* the transport
    put, got,  \* units written to and read from each pipe
    end,       \* how each pipe ended
    copy,      \* the copying goroutines
    client,    \* handleTCP of the data plane
    helper,    \* handleTCP of the helper
    sawA, sawB,\* what A and B read at the end
    faults     \* what went wrong outside the relays

vars == <<kind, put, got, end, copy, client, helper, sawA, sawB, faults>>

(* What its source put into a direction is all a later pipe can carry. *)
Sent(p) == IF p \in UpPipes THEN put["a2c"] ELSE put["b2h"]

(* "fin": the writer closed.  "cut": the reader gets the buffer and then   *)
(* EOF, the writer an error.  "err": both get an error at once.            *)
Ends == {"open", "fin", "cut", "err"}

TypeOK ==
    /\ kind \in {"quic", "ssh"}
    /\ \A p \in Pipes : got[p] <= put[p] /\ put[p] <= Sent(p)
    /\ put \in [Pipes -> 0..MaxUp + MaxDown] /\ got \in [Pipes -> 0..MaxUp + MaxDown]
    /\ end \in [Pipes -> Ends]
    /\ copy \in [Copies -> {"off", "run", "done"}]
    /\ client \in {"dial", "status", "endpoint", "relay", "over", "refused", "failed"}
    /\ helper \in {"none", "dial", "ok", "over", "refused"}
    /\ sawA \in {"none", "fin", "err"} /\ sawB \in {"none", "fin", "err"}
    /\ faults \subseteq {"lost", "resetA", "resetB", "endpoint", "timer"}

Init ==
    /\ kind \in Kinds
    /\ put = [p \in Pipes |-> 0] /\ got = [p \in Pipes |-> 0]
    /\ end = [p \in Pipes |-> "open"] /\ copy = [g \in Copies |-> "off"]
    /\ client = "dial" /\ helper = "none" /\ sawA = "none" /\ sawB = "none" /\ faults = {}
-----------------------------------------------------------------------------
(***************************************************************************)
(* Pipes.                                                                  *)
(***************************************************************************)
Buffered(p) == put[p] - got[p]
Eof(p)      == end[p] \in {"fin", "cut"} /\ Buffered(p) = 0
Writable(p) == end[p] = "open"
Space(p)    == Buffered(p) < Cap

(* An end that came earlier stays. *)
Ended(e, P, how) == [p \in Pipes |-> IF p \in P /\ e[p] = "open" THEN how ELSE e[p]]
(* A reset reaches the reader as well, unless it has read everything. *)
Reset(e, P) == [p \in Pipes |->
    IF p \in P /\ (e[p] = "open" \/ Buffered(p) > 0) THEN "err" ELSE e[p]]

(* Mutant: the second Close does nothing on either transport. *)
SecondCloseIgnored(e, p) == e

(* The second Close of a QUIC stream cancels its read side, so that the    *)
(* peer can no longer write; on a yamux stream it does nothing.            *)
SecondClose(e, p) == IF kind = "quic" THEN Ended(e, {p}, "err") ELSE e
-----------------------------------------------------------------------------
(***************************************************************************)
(* The dial: a SYN of A makes the client open a stream and wait for the    *)
(* status of the helper before it answers A.                               *)
(***************************************************************************)
OpenStream ==
    /\ client = "dial" /\ "lost" \notin faults /\ client' = "status" /\ helper' = "dial"
    /\ UNCHANGED <<kind, put, got, end, copy, sawA, sawB, faults>>

(* The reset answer to A; a stream that never became a flow is aborted. *)
Refuse ==
    /\ client' = "refused" /\ end' = Reset(Ended(end, {"a2c", "c2a"}, "err"), {"sup", "sdn"})
    /\ UNCHANGED <<kind, put, got, copy, helper, sawA, sawB, faults>>
OpenFails == client = "dial" /\ Refuse

HelperDials ==
    /\ helper = "dial" /\ helper' = "ok" /\ end["sdn"] = "open"
    /\ copy' = [copy EXCEPT !["hup"] = "run", !["hdn"] = "run"]
    /\ UNCHANGED <<kind, put, got, end, client, sawA, sawB, faults>>
(* statusFor: the status, and the Close of the stream. *)
HelperRefused ==
    /\ helper = "dial" /\ helper' = "refused"
    /\ end' = Ended(end, {"h2b", "b2h"}, "err")
    /\ UNCHANGED <<kind, put, got, copy, client, sawA, sawB, faults>>

(* Mutant: the status byte is not waited for. *)
StatusUnread ==
    /\ client = "status" /\ client' = "endpoint"
    /\ UNCHANGED <<kind, put, got, end, copy, helper, sawA, sawB, faults>>

StatusOK ==
    /\ client = "status" /\ helper \in {"ok", "over"} /\ end["sdn"] # "err"
    /\ client' = "endpoint"
    /\ UNCHANGED <<kind, put, got, end, copy, helper, sawA, sawB, faults>>
(* Mutant: a deadline of the client's own while it waits for the status. *)
StatusGivenUp == client = "status" /\ Refuse

StatusBad == client = "status" /\ (helper = "refused" \/ "lost" \in faults) /\ Refuse

(* CreateEndpoint completes the handshake with A, or A is gone: the stream *)
(* is then closed once and nobody reads it.                                *)
CreateEndpoint ==
    /\ client = "endpoint" /\ client' = "relay"
    /\ copy' = [copy EXCEPT !["cup"] = "run", !["cdn"] = "run"]
    /\ UNCHANGED <<kind, put, got, end, helper, sawA, sawB, faults>>
EndpointFails ==
    /\ client = "endpoint" /\ client' = "failed" /\ faults' = faults \cup {"endpoint"}
    /\ end' = Ended(Ended(end, {"a2c", "c2a"}, "err"), {"sup"}, "fin")
    /\ UNCHANGED <<kind, put, got, copy, helper, sawA, sawB>>
-----------------------------------------------------------------------------
(***************************************************************************)
(* The relays.  A goroutine copies until a read or a write fails, ignores  *)
(* which of them it was, and closes the sending side of its peer.          *)
(***************************************************************************)
Copy(g) ==
    /\ copy[g] = "run" /\ end[From[g]] # "err" /\ Buffered(From[g]) > 0
    /\ Writable(To[g]) /\ Space(To[g])
    /\ got' = [got EXCEPT ![From[g]] = @ + 1] /\ put' = [put EXCEPT ![To[g]] = @ + 1]
    /\ UNCHANGED <<kind, end, copy, client, helper, sawA, sawB, faults>>

CopyOver(g) == \/ end[From[g]] = "err" \/ Eof(From[g])
               \/ Buffered(From[g]) > 0 /\ ~Writable(To[g])
(* Mutant: the end of a direction is not passed on. *)
CopyEndsSilent(g) ==
    /\ copy[g] = "run" /\ CopyOver(g) /\ copy' = [copy EXCEPT ![g] = "done"]
    /\ UNCHANGED <<kind, put, got, end, client, helper, sawA, sawB, faults>>

CopyEnds(g) ==
    /\ copy[g] = "run" /\ CopyOver(g)
    /\ copy' = [copy EXCEPT ![g] = "done"] /\ end' = Ended(end, {To[g]}, "fin")
    /\ UNCHANGED <<kind, put, got, client, helper, sawA, sawB, faults>>

(* Mutant: the first goroutine that ends closes both connections. *)
OneDone(side) == \E g \in Side[side] : copy[g] = "done"

BothDone(side) == \A g \in Side[side] : copy[g] = "done"
(* conn.Close and the second stream.Close, after both goroutines. *)
ClientEnds ==
    /\ client = "relay" /\ BothDone("client") /\ client' = "over"
    /\ end' = SecondClose(Ended(end, {"a2c"}, "err"), "sdn")
    /\ UNCHANGED <<kind, put, got, copy, helper, sawA, sawB, faults>>
HelperEnds ==
    /\ helper = "ok" /\ BothDone("helper") /\ helper' = "over"
    /\ end' = SecondClose(Ended(end, {"b2h"}, "err"), "sup")
    /\ UNCHANGED <<kind, put, got, copy, client, sawA, sawB, faults>>
-----------------------------------------------------------------------------
(***************************************************************************)
(* A and B: they write, read, close their writing side, or reset.  Their   *)
(* kernels buffer what the relays write.                                   *)
(***************************************************************************)
Up == client = "relay" \/ client = "over"
BUp == helper = "ok" \/ helper = "over"

WriteTo(p) == /\ Writable(p) /\ Space(p) /\ put[p] < IF p = "a2c" THEN MaxUp ELSE MaxDown
              /\ put' = [put EXCEPT ![p] = @ + 1]
              /\ UNCHANGED <<kind, got, end, copy, client, helper, sawA, sawB, faults>>
ReadFrom(p) == /\ Buffered(p) > 0 /\ end[p] # "err"
               /\ got' = [got EXCEPT ![p] = @ + 1]
               /\ UNCHANGED <<kind, put, end, copy, client, helper, sawA, sawB, faults>>
AWrites == Up /\ WriteTo("a2c")
BWrites == BUp /\ WriteTo("b2h")
AReads  == Up /\ ReadFrom("c2a")
BReads  == BUp /\ ReadFrom("h2b")
SeenAt(p) == IF end[p] = "err" THEN "err" ELSE "fin"
ASees == /\ sawA = "none" /\ (Eof("c2a") \/ end["c2a"] = "err") /\ sawA' = SeenAt("c2a")
         /\ UNCHANGED <<kind, put, got, end, copy, client, helper, sawB, faults>>
BSees == /\ sawB = "none" /\ BUp /\ (Eof("h2b") \/ end["h2b"] = "err") /\ sawB' = SeenAt("h2b")
         /\ UNCHANGED <<kind, put, got, end, copy, client, helper, sawA, faults>>
ACloses == /\ Up /\ Writable("a2c") /\ end' = Ended(end, {"a2c"}, "fin")
           /\ UNCHANGED <<kind, put, got, copy, client, helper, sawA, sawB, faults>>
BCloses == /\ BUp /\ Writable("b2h") /\ end' = Ended(end, {"b2h"}, "fin")
           /\ UNCHANGED <<kind, put, got, copy, client, helper, sawA, sawB, faults>>
AResets == /\ Up /\ "resetA" \notin faults /\ faults' = faults \cup {"resetA"}
           /\ end' = Reset(end, {"a2c", "c2a"})
           /\ UNCHANGED <<kind, put, got, copy, client, helper, sawA, sawB>>
BResets == /\ BUp /\ "resetB" \notin faults /\ faults' = faults \cup {"resetB"}
           /\ end' = Reset(end, {"h2b", "b2h"})
           /\ UNCHANGED <<kind, put, got, copy, client, helper, sawA, sawB>>
-----------------------------------------------------------------------------
(***************************************************************************)
(* The transport: a loss ends both directions of the stream; a helper of a *)
(* lost transport exits.  yamux force-closes a stream that stayed half     *)
(* closed for StreamCloseTimeout (five minutes, its default): the side     *)
(* that closed reads its buffer and EOF, the other side gets a reset.      *)
(***************************************************************************)
Lose == /\ "lost" \notin faults /\ client # "dial" /\ faults' = faults \cup {"lost"}
        /\ end' = Reset(end, {"sup", "sdn"})
        /\ UNCHANGED <<kind, put, got, copy, client, helper, sawA, sawB>>
HelperExits ==
    /\ "lost" \in faults /\ helper \in {"dial", "ok"} /\ helper' = "over"
    /\ copy' = [g \in Copies |-> IF g \in Side["helper"] THEN "done" ELSE copy[g]]
    /\ end' = Ended(Ended(end, {"h2b"}, "fin"), {"b2h"}, "err")
    /\ UNCHANGED <<kind, put, got, client, sawA, sawB, faults>>
CloseTimeout(mine, peer) ==
    /\ kind = "ssh" /\ end[mine] = "fin" /\ end[peer] = "open"
    /\ end' = [Reset(end, {mine}) EXCEPT ![peer] = "cut"]
    /\ faults' = faults \cup {"timer"}
    /\ UNCHANGED <<kind, put, got, copy, client, helper, sawA, sawB>>
StreamCloseTimeout == CloseTimeout("sup", "sdn") \/ CloseTimeout("sdn", "sup")

Dials  == \/ OpenStream \/ OpenFails \/ HelperDials \/ HelperRefused \/ StatusOK
          \/ StatusBad \/ CreateEndpoint \/ EndpointFails
Relays == ClientEnds \/ HelperEnds \/ \E g \in Copies : Copy(g) \/ CopyEnds(g)
Peers  == AReads \/ BReads \/ ASees \/ BSees
Next == \/ Dials \/ Relays \/ Peers \/ AWrites \/ BWrites \/ ACloses \/ BCloses
        \/ AResets \/ BResets \/ Lose \/ HelperExits \/ StreamCloseTimeout

Spec == Init /\ [][Next]_vars
(* Fairness: as long as a goroutine can run, A or B can read what arrived, *)
(* the helper of a lost transport can exit or a timer of yamux runs, one   *)
(* of these steps is taken.  The data are bounded, so none can starve.     *)
LiveSpec == Spec /\ WF_vars(Dials \/ Relays \/ Peers \/ HelperExits \/ StreamCloseTimeout)
-----------------------------------------------------------------------------
(***************************************************************************)
(* Properties.                                                             *)
(***************************************************************************)
(* An end of file that A or B reads is the end of what the other sent: a   *)
(* half-close never overtakes data, in either direction, as long as nobody *)
(* reset and the transport held (relayTCP: "the first EOF closes only the  *)
(* write side of the peer, so the other direction can drain").             *)
Complete(near, far) == end[near] = "fin" /\ got[far] = put[near]
EofIsEnd ==
    faults = {} => /\ sawB = "fin" => Complete("a2c", "h2b")
                   /\ sawA = "fin" => Complete("b2h", "c2a")

(* Each direction is a Channel for A and B, as if tj were not between      *)
(* them: relayTCP on both sides neither loses, repeats nor holds back a    *)
(* unit behind an end, never buffers more than its three pipes, aborts no  *)
(* source that has sent, and nothing follows an end, broken or not.        *)
UpChannel == INSTANCE Channel WITH
    Room <- 3 * Cap, sent <- put["a2c"], received <- got["h2b"],
    source <- end["a2c"], sink <- sawB, broken <- faults # {}
DownChannel == INSTANCE Channel WITH
    Room <- 3 * Cap, sent <- put["b2h"], received <- got["c2a"],
    source <- end["b2h"], sink <- sawA, broken <- faults # {}
CarriesChannels == UpChannel!Spec /\ DownChannel!Spec

(* docs/architecture.md:134: "A Close on one side is a half-close.  The    *)
(* other side reads EOF and can still write."  On the SSH transport yamux  *)
(* ends the other direction after its timeout, as a clean end of file.     *)
HalfCloseHolds ==
    faults \subseteq {"timer"} =>
        /\ sawB = "fin" => Complete("a2c", "h2b")
        /\ sawA = "fin" => Complete("b2h", "c2a")

(* A gets its connection only when B accepted one, and a refusal only when *)
(* the dial failed or there is no transport (handleTCP waits for the       *)
(* status byte).                                                           *)
DialIsReal ==
    /\ Up => BUp \/ "lost" \in faults
    /\ client = "refused" => helper \in {"none", "refused"} \/ "lost" \in faults

(* Whatever A sent and closed reaches B with its end, unless something     *)
(* outside the relays broke.                                               *)
Delivered == /\ (Up /\ end["a2c"] = "fin" /\ faults = {}) ~> (sawB # "none" \/ faults # {})
             /\ (BUp /\ end["b2h"] = "fin" /\ faults = {}) ~> (sawA # "none" \/ faults # {})

(* A flow whose two ends are done is over on the client and on the helper: *)
(* no goroutine and no connection stays behind.                            *)
Gone(p) == end[p] # "open"
FlowEnds ==
    (Up /\ BUp /\ Gone("a2c") /\ Gone("b2h")) ~> (client = "over" /\ helper = "over")
=============================================================================
