------------------------------ MODULE Datagram ------------------------------
(***************************************************************************)
(* The UDP and ICMP echo flows: the capture and the table of flows of the  *)
(* data plane, the stream of each flow, and the socket of the helper.      *)
(*                                                                         *)
(*   request:  capture -> queue -> writer -> up -> receiver -> socket      *)
(*   answer:   device <- reader <- dn <- sender <- socket or error queue   *)
(*                                                                         *)
(* An echo flow is keyed by the pinged address and the identifier, a UDP   *)
(* flow by its 4-tuple.  A request is a number, which stands for its       *)
(* payload, its TTL and its sequence number.  The order of the frames of   *)
(* one direction is left out; the end of a direction comes after them.     *)
(***************************************************************************)
EXTENDS Naturals, Sequences

CONSTANTS
    UdpKeys, EchoKeys,  \* the keys of flows, by protocol
    Sources,            \* the addresses of the applications
    Kinds,              \* the transports: "quic", "ssh"
    Sockets,            \* the echo sockets the remote may offer
    Idents,             \* the identifiers a raw socket may draw
    MaxFlows,           \* bound: flows in a behaviour
    MaxRequests,        \* bound: requests in a behaviour
    QueueLen            \* echoQueueLen

ASSUME KeyAssumption == UdpKeys \cap EchoKeys = {}
ASSUME SocketAssumption == Sockets \subseteq {"raw", "ping", "none"}
(* An identifier is a 16-bit number. *)
ASSUME IdentAssumption == "none" \notin Idents
ASSUME BoundAssumption == MaxFlows \in Nat /\ MaxRequests \in Nat /\ QueueLen \in Nat

Keys  == UdpKeys \cup EchoKeys
Flows == 1..MaxFlows

VARIABLES
    kind,         \* the transport
    closed,       \* the data plane is closed
    unsupported,  \* echoUnsupported
    sent,         \* the captured requests: key, source and flow
    table,        \* echoFlows, and the endpoints of the netstack
    flow,         \* the flows of the client
    up, dn,       \* the frames in each direction of a stream
    upEnd, dnEnd, \* how each direction ended
    status,       \* the status byte of an echo stream
    helper,       \* the flows of the helper
    wire          \* answers on their way to the remote

clientVars == <<closed, unsupported, sent, table, flow>>
streamVars == <<up, dn, upEnd, dnEnd, status>>
vars == <<kind, clientVars, streamVars, helper, wire>>

(* A flow of the client; closes counts the Closes of its stream. *)
NoFlow == [phase |-> "none", key |-> "none", queue |-> <<>>, src |-> "none",
           reader |-> "off", closes |-> 0]
(* A flow of the helper: the goroutine that reads the stream (up), the     *)
(* error queue and the pending error.  The goroutine that reads the socket *)
(* lives as long as the socket.                                            *)
NoHelper == [phase |-> "none", sock |-> "none", ident |-> "none", up |-> "off",
             errs |-> {}, errno |-> FALSE, closes |-> 0]

Init ==
    /\ kind \in Kinds /\ closed = FALSE /\ unsupported = FALSE
    /\ sent = <<>> /\ table = [k \in Keys |-> 0]
    /\ flow = [f \in Flows |-> NoFlow] /\ helper = [f \in Flows |-> NoHelper]
    /\ up = [f \in Flows |-> {}] /\ dn = [f \in Flows |-> {}]
    /\ upEnd = [f \in Flows |-> "open"] /\ dnEnd = [f \in Flows |-> "open"]
    /\ status = [f \in Flows |-> "none"] /\ wire = {}

Echo(f) == flow[f].key \in EchoKeys
-----------------------------------------------------------------------------
(***************************************************************************)
(* The ends of a direction.  "fin": the writer closed its side, the reader *)
(* gets the frames and EOF.  "stop": the reader gave it up (CancelRead),   *)
(* the writer gets an error.  "err": the transport is lost.                *)
(***************************************************************************)
Fin(e)  == IF e = "open" THEN "fin" ELSE e
(* What a second Close does to the reading side: nothing on yamux. *)
Stop(e) == IF kind = "quic" /\ e # "err" THEN "stop" ELSE e
Live(e) == e \in {"open", "fin"}
-----------------------------------------------------------------------------
(***************************************************************************)
(* Capture.  tunToStack hands an echo request to captureEcho, which drops  *)
(* it when the remote has no echo socket or the queue is full; a datagram  *)
(* goes to the endpoint of its flow, and handleUDP makes one for the first *)
(* datagram of a 4-tuple.  The pump reads until the device closes, which   *)
(* is after the close of the echo flows.                                   *)
(***************************************************************************)
Unused == {f \in Flows : flow[f].phase = "none"}
NewFlow(k, r, s) == [NoFlow EXCEPT !.phase = "dial", !.key = k, !.queue = <<r>>,
                                   !.src = IF k \in UdpKeys THEN s ELSE "none"]
Queued(f, r) == IF Len(flow[f].queue) < QueueLen
                THEN [flow[f] EXCEPT !.queue = Append(@, r)] ELSE flow[f]
Dropped(k) == k \in EchoKeys /\ unsupported

Capture(k, s) ==
    /\ Len(sent) < MaxRequests /\ (closed => k \in EchoKeys)
    /\ LET r == Len(sent) + 1
           Sent(f) == sent' = Append(sent, [key |-> k, src |-> s, flow |-> f])
       IN \/ Dropped(k) /\ Sent(0) /\ UNCHANGED <<table, flow>>
          \/ /\ ~Dropped(k) /\ table[k] # 0 /\ (k \in UdpKeys => s = flow[table[k]].src)
             /\ flow' = [flow EXCEPT ![table[k]] = Queued(table[k], r)]
             /\ Sent(table[k]) /\ UNCHANGED table
          \/ /\ ~Dropped(k) /\ table[k] = 0
             /\ \E g \in Unused :
                   /\ \A h \in Unused : g <= h
                   /\ table' = [table EXCEPT ![k] = g] /\ Sent(g)
                   /\ flow' = [flow EXCEPT ![g] = NewFlow(k, r, s)]
    /\ UNCHANGED <<kind, closed, unsupported, streamVars, helper, wire>>
-----------------------------------------------------------------------------
(***************************************************************************)
(* The goroutines of a flow on the client: runEcho and relayUDP.           *)
(***************************************************************************)
(* The dial does not wait for a status.  The goroutine stores the stream   *)
(* and starts the writer and the reader.                                   *)
Dial(f) ==
    /\ flow[f].phase = "dial"
    /\ flow' = [flow EXCEPT ![f].phase = "run", ![f].reader = "run"]
    /\ helper' = [helper EXCEPT ![f].phase = "new"]
    /\ UNCHANGED <<kind, closed, unsupported, sent, table, streamVars, wire>>

(* Mutant: dropEchoFlow removes whatever its key leads to by now. *)
DropAny(f) == [k \in Keys |-> IF k = flow[f].key THEN 0 ELSE table[k]]

(* dropEchoFlow removes the flow unless its key has another one by now;    *)
(* the close of a UDP endpoint releases its 4-tuple.                       *)
DropFlow(f) == [k \in Keys |-> IF table[k] = f THEN 0 ELSE table[k]]
DialFails(f) ==
    /\ flow[f].phase = "dial"
    /\ flow' = [flow EXCEPT ![f].phase = "over", ![f].queue = <<>>] /\ table' = DropFlow(f)
    /\ UNCHANGED <<kind, closed, unsupported, sent, streamVars, helper, wire>>

(* The writer lives as long as the flow has not closed its stream. *)
Write(f) ==
    /\ flow[f].phase = "run" /\ flow[f].queue # <<>> /\ upEnd[f] = "open"
    /\ LET r == Head(flow[f].queue) IN
          /\ flow' = [flow EXCEPT ![f].queue = Tail(@), ![f].src = sent[r].src]
          /\ up' = [up EXCEPT ![f] = IF helper[f].phase = "over" THEN {} ELSE @ \cup {r}]
    /\ UNCHANGED <<kind, closed, unsupported, sent, table, dn, upEnd, dnEnd, status,
                   helper, wire>>
(* A Close of the client on the streams of F. *)
ClientCloses(F) ==
    /\ upEnd' = [f \in Flows |-> IF f \in F THEN Fin(upEnd[f]) ELSE upEnd[f]]
    /\ dnEnd' = [f \in Flows |-> IF f \in F /\ flow[f].closes > 0
                                 THEN Stop(dnEnd[f]) ELSE dnEnd[f]]
(* The goroutine that ends first ends the flow: a Close of the stream,     *)
(* then the key is free.  The reader may still wait for the helper.        *)
Finish(f, reader) ==
    LET F == {f} \cap {g \in Flows : flow[g].phase = "run"} IN
    /\ ClientCloses(F) /\ table' = IF F = {} THEN table ELSE DropFlow(f)
    /\ flow' = [flow EXCEPT ![f].phase = "over", ![f].reader = reader, ![f].queue = <<>>,
                            ![f].closes = IF F = {} THEN @ ELSE @ + 1]

(* The writer fails to write, or a UDP flow is idle or loses its endpoint. *)
WriterEnds(f) ==
    /\ flow[f].phase = "run"
    /\ ~Echo(f) \/ (flow[f].queue # <<>> /\ upEnd[f] # "open")
    /\ Finish(f, flow[f].reader)
    /\ UNCHANGED <<kind, closed, unsupported, sent, up, dn, status, helper, wire>>

(* ErrEchoUnsupported: one such answer, which the helper gives for any     *)
(* error of openEchoSocket, disables the echo of the session.              *)
Told(f) == status[f] = "unsupported" /\ Live(dnEnd[f])
StatusEnds(f) ==
    /\ flow[f].reader = "run" /\ Echo(f) /\ status[f] # "ok"
    /\ Finish(f, "done") /\ unsupported' = (unsupported \/ Told(f))
    /\ dn' = [dn EXCEPT ![f] = {}]
    /\ UNCHANGED <<kind, closed, sent, up, status, helper, wire>>

(* The frames of an echo stream follow its status byte. *)
Framed(f) == Echo(f) => status[f] = "ok"
(* The endpoint of a UDP flow takes no more data once it is closed. *)
Deliverable(f, a) == Echo(f) \/ a.error \/ (flow[f].phase = "run" /\ ~closed)
(* The packets for the device.  A reply comes under the key of the flow.   *)
(* An error quotes the request as its application sent it: with the source *)
(* and the key of the flow, whatever identifier the helper used.           *)
BuildEchoReply(f, a) == [r |-> a.r, key |-> flow[f].key, to |-> flow[f].src]
Inner(f, a) == [r |-> a.r, key |-> flow[f].key, src |-> flow[f].src]
BuildICMPError(f, inner) == [r |-> inner.r, key |-> inner.key, to |-> flow[f].src]
(* None is built without a source to send it to. *)
Packets(f) == {IF a.error THEN BuildICMPError(f, Inner(f, a)) ELSE BuildEchoReply(f, a) :
                  a \in {b \in dn[f] : flow[f].src # "none"}}

Read(f) ==
    /\ flow[f].reader = "run" /\ Framed(f) /\ Live(dnEnd[f])
    /\ \E a \in dn[f] :
          IF Deliverable(f, a)
          THEN dn' = [dn EXCEPT ![f] = @ \ {a}] /\ UNCHANGED <<table, flow, upEnd, dnEnd>>
          ELSE dn' = [dn EXCEPT ![f] = {}] /\ Finish(f, "done")
    /\ UNCHANGED <<kind, closed, unsupported, sent, up, status, helper, wire>>

(* The reader ends at the end of the stream, on an error, and for an echo  *)
(* flow on its deadline, the idle time after the latest reply.             *)
AtEof(f) == dnEnd[f] = "fin" /\ dn[f] = {}
ReaderEnds(f) ==
    /\ flow[f].reader = "run" /\ Framed(f) /\ (Echo(f) \/ ~Live(dnEnd[f]) \/ AtEof(f))
    /\ Finish(f, IF AtEof(f) THEN "eof" ELSE "done") /\ dn' = [dn EXCEPT ![f] = {}]
    /\ UNCHANGED <<kind, closed, unsupported, sent, up, status, helper, wire>>

(* closeEchoFlows: the table is emptied and the streams that are stored    *)
(* are closed; a flow that is still dialing is not.  The stack and the     *)
(* device follow.                                                          *)
Close ==
    /\ ~closed /\ closed' = TRUE
    /\ LET F == {f \in Flows : flow[f].phase = "run" /\ \E k \in EchoKeys : table[k] = f} IN
          /\ ClientCloses(F)
          /\ flow' = [f \in Flows |->
                IF f \in F THEN [flow[f] EXCEPT !.closes = @ + 1] ELSE flow[f]]
    /\ table' = [k \in Keys |-> IF k \in EchoKeys THEN 0 ELSE table[k]]
    /\ UNCHANGED <<kind, unsupported, sent, up, dn, status, helper, wire>>
-----------------------------------------------------------------------------
(***************************************************************************)
(* The helper.  handleUDP and handleICMP open the socket, relayUDP and     *)
(* relayEcho run one goroutine per direction and an idle timer.            *)
(***************************************************************************)
Relaying(f, sock, ident) ==
    helper' = [helper EXCEPT ![f].phase = "relay", ![f].sock = sock, ![f].ident = ident,
                             ![f].up = "run"]
ServeUDP(f) ==
    /\ helper[f].phase = "new" /\ ~Echo(f) /\ Relaying(f, "udp", "none")
    /\ UNCHANGED <<kind, clientVars, streamVars, wire>>
(* A status byte, and one Close.  On a UDP stream the byte is no frame. *)
Refuse(f) ==
    /\ helper' = [helper EXCEPT ![f].phase = "over", ![f].closes = 1]
    /\ dnEnd' = [dnEnd EXCEPT ![f] = Fin(@)] /\ up' = [up EXCEPT ![f] = {}]
RefuseUDP(f) ==
    /\ helper[f].phase = "new" /\ ~Echo(f) /\ Refuse(f)
    /\ UNCHANGED <<kind, clientVars, dn, upEnd, status, wire>>

(* A raw socket draws its identifier; the kernel gives a ping socket one   *)
(* of its own.                                                             *)
OpenEcho(f) ==
    /\ helper[f].phase = "new" /\ Echo(f) /\ dnEnd[f] = "open"
    /\ \/ "raw" \in Sockets /\ \E i \in Idents : Relaying(f, "raw", i)
       \/ "ping" \in Sockets /\ Relaying(f, "ping", "none")
    /\ status' = [status EXCEPT ![f] = "ok"]
    /\ UNCHANGED <<kind, clientVars, up, dn, upEnd, dnEnd, wire>>
NoSocket(f) ==
    /\ helper[f].phase = "new" /\ Echo(f) /\ ("none" \in Sockets \/ dnEnd[f] # "open")
    /\ Refuse(f)
    /\ status' = [status EXCEPT ![f] = IF dnEnd[f] = "open" THEN "unsupported" ELSE @]
    /\ UNCHANGED <<kind, clientVars, dn, upEnd, wire>>

(* Mutant: closeAll leaves the socket to the return of the handler. *)
CloseStream(h) == [h EXCEPT !.closes = 1]

(* closeAll, once: the first Close of the stream, and the socket. *)
CloseAll(h) == [h EXCEPT !.closes = 1, !.sock = "closed"]
Closing(f) ==
    /\ helper' = [helper EXCEPT ![f] = CloseAll(@)]
    /\ dnEnd' = [dnEnd EXCEPT ![f] = Fin(@)]
(* The goroutine that reads the stream ends; the one that reads the socket *)
(* ends with it, and the handler closes the stream a second time.          *)
Return(f, how) ==
    /\ helper' = [helper EXCEPT ![f] =
         IF CloseAll(@).sock = "closed"
         THEN [CloseAll(@) EXCEPT !.phase = "over", !.up = how, !.errs = {},
                                  !.errno = FALSE, !.closes = 2]
         ELSE [CloseAll(@) EXCEPT !.up = how]]
    /\ dnEnd' = [dnEnd EXCEPT ![f] = Fin(@)] /\ upEnd' = [upEnd EXCEPT ![f] = Stop(@)]
    /\ up' = [up EXCEPT ![f] = {}]

Open(f) == helper[f].sock \in {"udp", "ping", "raw"}
Readable(f) == Live(upEnd[f]) /\ up[f] # {}
Take(f, r) == up' = [up EXCEPT ![f] = @ \ {r}]

(* A request goes out, and the network has an answer or an error for it,   *)
(* which may never arrive.                                                 *)
Answering(f, r) == \E e \in BOOLEAN : wire' = wire \cup
    {[f |-> f, ident |-> helper[f].ident, r |-> r, error |-> e]}
Send(f) ==
    /\ helper[f].up = "run" /\ Readable(f) /\ Open(f) /\ ~helper[f].errno
    /\ \E r \in up[f] : Take(f, r) /\ Answering(f, r)
    /\ UNCHANGED <<kind, clientVars, dn, upEnd, dnEnd, status, helper>>
(* The send returns the pending error of the socket, or finds no route:    *)
(* the request is not sent.  A raw socket has no error queue to read.  An  *)
(* error that no ICMP message causes (a TTL that cannot be set is one for  *)
(* an echo) ends the goroutine.                                            *)
SendFails(f) ==
    /\ helper[f].up = "run" /\ Readable(f) /\ Open(f)
    /\ \/ /\ \E r \in up[f] : Take(f, r)
          /\ helper' = [helper EXCEPT ![f].errno = FALSE,
                            ![f].up = IF helper[f].sock = "raw" THEN "run" ELSE "drain"]
          /\ UNCHANGED <<upEnd, dnEnd>>
       \/ Return(f, "done")
    /\ UNCHANGED <<kind, clientVars, dn, status, wire>>

Errors(f) == {[r |-> r, error |-> TRUE] : r \in helper[f].errs}
(* A reply frame: its kind and its sequence number, or the error. *)
Frame(m) == [r |-> m.r, error |-> m.error]
(* Nobody reads the frames of a flow whose reader has ended. *)
Framing(f, A) == dn' = [dn EXCEPT ![f] = IF flow[f].reader = "run" THEN @ \cup A ELSE {}]
Drained(f) == [helper[f] EXCEPT !.errs = {}, !.errno = FALSE]
(* The goroutine whose call failed reads the error queue.  The one that    *)
(* reads the socket may have emptied it: on a UDP flow that ends the one   *)
(* that sends.                                                             *)
Drain(f) ==
    /\ helper[f].up = "drain"
    /\ \/ /\ IF helper[f].errs = {} THEN Echo(f) ELSE dnEnd[f] = "open"
          /\ Framing(f, Errors(f))
          /\ helper' = [helper EXCEPT ![f] = [Drained(f) EXCEPT !.up = "run"]]
          /\ UNCHANGED <<up, upEnd, dnEnd>>
       \/ /\ IF helper[f].errs = {} THEN ~Echo(f) ELSE dnEnd[f] # "open"
          /\ Return(f, "done") /\ UNCHANGED dn
    /\ UNCHANGED <<kind, clientVars, status, wire>>

(* Mutant: a raw socket takes every echo reply and error of the host. *)
AnyIdent(f, m) == m.f = f \/ helper[f].sock = "raw"

(* A raw socket sees all ICMP messages and keeps those that carry, or      *)
(* quote, its identifier; another socket gets only its own.                *)
Mine(f, m) == IF helper[f].sock = "raw" THEN m.ident = helper[f].ident ELSE m.f = f

Recv(f) ==
    /\ Open(f)
    /\ \E m \in wire :
          /\ Mine(f, m) /\ (m.error => helper[f].sock = "raw") /\ wire' = wire \ {m}
          /\ IF dnEnd[f] = "open"
             THEN Framing(f, {Frame(m)}) /\ UNCHANGED <<helper, dnEnd>>
             ELSE Closing(f) /\ UNCHANGED dn
    /\ UNCHANGED <<kind, clientVars, up, upEnd, status>>
(* The read returns the pending error, and the errors go to the client; an *)
(* empty error queue is no end.  The ninth one in a row is, and so is an   *)
(* error that no ICMP message causes or a stream that takes no frame.      *)
RecvFails(f) ==
    /\ Open(f)
    /\ \/ /\ helper[f].errno /\ (helper[f].errs = {} \/ dnEnd[f] = "open")
          /\ helper' = [helper EXCEPT ![f] = Drained(f)] /\ Framing(f, Errors(f))
          /\ UNCHANGED dnEnd
       \/ Closing(f) /\ UNCHANGED dn
    /\ UNCHANGED <<kind, clientVars, up, upEnd, status, wire>>

UpEof(f) == upEnd[f] = "fin" /\ up[f] = {}
UpEnds(f) ==
    /\ helper[f].up = "run"
    /\ UpEof(f) \/ ~Live(upEnd[f]) \/ (Readable(f) /\ ~Open(f))
    /\ Return(f, IF UpEof(f) THEN "eof" ELSE "done")
    /\ UNCHANGED <<kind, clientVars, dn, status, wire>>
Idle(f) ==
    /\ helper[f].phase = "relay" /\ helper[f].closes = 0 /\ Closing(f)
    /\ UNCHANGED <<kind, clientVars, up, dn, upEnd, status, wire>>
-----------------------------------------------------------------------------
(***************************************************************************)
(* The kernel of the remote queues an error for a UDP or a ping socket.    *)
(* The transport may break at any time; the data plane outlives it, and    *)
(* later flows use the next one.                                           *)
(***************************************************************************)
ErrorArrives(f) ==
    /\ helper[f].sock \in {"udp", "ping"}
    /\ \E m \in wire : /\ m.f = f /\ m.error /\ wire' = wire \ {m}
                       /\ helper' = [helper EXCEPT ![f].errs = @ \cup {m.r}, ![f].errno = TRUE]
    /\ UNCHANGED <<kind, clientVars, streamVars>>
Lose ==
    /\ \E f \in Flows : helper[f].phase \in {"new", "relay"} /\ upEnd[f] # "err"
    /\ LET L(e) == [f \in Flows |-> IF helper[f].phase = "none" THEN e[f] ELSE "err"]
       IN  upEnd' = L(upEnd) /\ dnEnd' = L(dnEnd)
    /\ UNCHANGED <<kind, clientVars, up, dn, status, helper, wire>>

Client(f) == \/ Dial(f) \/ DialFails(f) \/ Write(f) \/ WriterEnds(f)
             \/ StatusEnds(f) \/ Read(f) \/ ReaderEnds(f)
Helper(f) == \/ ServeUDP(f) \/ RefuseUDP(f) \/ OpenEcho(f) \/ NoSocket(f) \/ Send(f)
             \/ SendFails(f) \/ Drain(f) \/ Recv(f) \/ RecvFails(f) \/ UpEnds(f) \/ Idle(f)
Next == \/ \E k \in Keys, s \in Sources : Capture(k, s)
        \/ \E f \in Flows : Client(f) \/ Helper(f) \/ ErrorArrives(f)
        \/ Close \/ Lose
Spec == Init /\ [][Next]_vars
(* Fairness: a goroutine that can run does, and an idle time passes.  The  *)
(* requests are bounded, so that none of them can starve another.          *)
LiveSpec == Spec /\ WF_vars(\E f \in Flows : Client(f) \/ Helper(f))
-----------------------------------------------------------------------------
(***************************************************************************)
(* Properties.                                                             *)
(***************************************************************************)
Senders(k) == {sent[i].src : i \in {j \in 1..Len(sent) : sent[j].key = k}}
Clash == \E f, g \in Flows : /\ f # g /\ helper[f].ident = helper[g].ident
                             /\ helper[f].ident \in Idents

(* An answer that the reader of a flow would write to the device is for a  *)
(* request of that flow and goes to the application that sent it, whatever *)
(* flows came and went before: the raw sockets of the helper see the       *)
(* answers of all flows.  The one exception are two raw sockets that drew  *)
(* the same identifier; when two sources share a key, the one that sent    *)
(* last gets the answer.                                                   *)
AnswerIsMine == \A f \in Flows : \A p \in Packets(f) :
    p.to \in Senders(p.key) /\ (~Clash => sent[p.r].flow = f)

(* The table is true to the flows while they come and go.  A key leads to  *)
(* a flow of that key that has not ended, so that no capture feeds a dead  *)
(* one, and until the data plane closes every flow that has not ended is   *)
(* the one its key leads to: no key has two.  An entry stays until its     *)
(* flow ends or closeEchoFlows empties the table: the end of an older flow *)
(* of the key, which closeEchoFlows let go on, does not take it            *)
(* (dropEchoFlow).                                                         *)
Lives(f) == flow[f].phase \in {"dial", "run"}
Serving ==
    /\ \A k \in Keys : table[k] # 0 => Lives(table[k]) /\ flow[table[k]].key = k
    /\ ~closed => \A f \in Flows : Lives(f) => table[flow[f].key] = f
EntryStays(k) == table[k] # 0 /\ table'[k] # table[k] =>
                     closed' # closed \/ flow'[table[k]].phase = "over"
TableServes == []Serving /\ [][\A k \in Keys : EntryStays(k)]_vars

(* Every flow ends on the client and on the helper: no goroutine, socket   *)
(* or key stays, with idle times, failed dials, lost transports, the close *)
(* of the data plane and a dial that it did not see.                       *)
Over(f) == /\ flow[f].phase = "over" /\ flow[f].reader # "run"
           /\ helper[f].phase \in {"none", "over"} /\ \A k \in Keys : table[k] # f
FlowsEnd == []<>(\A f \in Flows : flow[f].phase # "none" => Over(f))

(* quic.go:206: "the first Close closes the send side, and the peer reads  *)
(* EOF; a second Close releases the read side with CancelRead."  A flow    *)
(* that is over keeps nothing of its stream: each side has read to the end *)
(* or has released its reading side.                                       *)
OverIsReleased == kind = "quic" => \A f \in Flows :
    Over(f) /\ helper[f].phase = "over" /\ upEnd[f] # "err" =>
        /\ flow[f].reader = "eof" \/ flow[f].closes = 2
        /\ helper[f].up = "eof" \/ helper[f].closes = 2
=============================================================================
