--------------------------- MODULE DatagramProofs ---------------------------
(***************************************************************************)
(* Proofs about Datagram, for any keys, sources, identifiers, flows and    *)
(* requests.  The invariant follows a request through every place where it *)
(* or its answer waits: the queue of its flow, the stream, the network,    *)
(* the error queue of the socket, and the stream back.                     *)
(***************************************************************************)
EXTENDS Datagram, TLAPS

(* The fields that the proofs read. *)
FlowSet == [phase : {"none", "dial", "run", "over"}, key : Keys \cup {"none"},
            queue : Seq(Nat), src : Sources \cup {"none"},
            reader : {"off", "run", "eof", "done"}, closes : Nat]
HelperSet == [phase : {"none", "new", "relay", "over"},
              sock : {"none", "udp", "ping", "raw", "closed"},
              ident : Idents \cup {"none"}, up : {"off", "run", "drain", "eof", "done"},
              errs : SUBSET Nat, errno : BOOLEAN, closes : Nat]

FlowType ==
    /\ sent \in Seq([key : Keys, src : Sources, flow : 0..MaxFlows])
    /\ table \in [Keys -> 0..MaxFlows] /\ flow \in [Flows -> FlowSet]
HelperType ==
    /\ helper \in [Flows -> HelperSet]
    /\ status \in [Flows -> {"none", "ok", "unsupported"}]
    /\ wire \subseteq [f : Flows, ident : Idents \cup {"none"}, r : Nat, error : BOOLEAN]
StreamType == /\ up \in [Flows -> SUBSET Nat]
              /\ dn \in [Flows -> SUBSET [r : Nat, error : BOOLEAN]]

(* A flow that lives has a key, and its reader starts when the dial has    *)
(* returned.                                                               *)
Keyed == \A f \in Flows :
    /\ Lives(f) => flow[f].key \in Keys
    /\ flow[f].phase \in {"none", "dial"} => flow[f].reader = "off"

(* The helper meets a flow when its dial has returned, gives it a socket   *)
(* and an identifier once, and never begins it again.                      *)
Phased == \A f \in Flows :
    /\ flow[f].phase \in {"none", "dial"} => helper[f].phase = "none"
    /\ helper[f].phase \in {"none", "new"} =>
           helper[f].ident = "none" /\ helper[f].up = "off" /\ status[f] = "none"
    /\ helper[f].up \in {"run", "drain"} => helper[f].phase = "relay"
    /\ Open(f) => helper[f].phase = "relay"
    /\ helper[f].sock = "raw" => helper[f].ident \in Idents

(* The requests of a flow. *)
Own(f) == {r \in 1..Len(sent) : sent[r].flow = f}

(* A request that waits is in its own flow, and the source that the flow   *)
(* answers to is one that sent to its key.                                 *)
Queues == \A f \in Flows :
    /\ \A i \in 1..Len(flow[f].queue) :
           flow[f].queue[i] \in Own(f) /\ sent[flow[f].queue[i]].key = flow[f].key
    /\ up[f] \subseteq Own(f)
    /\ flow[f].src # "none" => flow[f].src \in Senders(flow[f].key)

(* An answer carries the identifier of the socket that sent the request,   *)
(* and reaches another flow only when two of them drew the same.           *)
Answers ==
    /\ \A m \in wire : /\ m.r \in Own(m.f) /\ m.ident = helper[m.f].ident
                       /\ helper[m.f].phase \in {"relay", "over"}
    /\ \A f \in Flows : helper[f].errs \subseteq Own(f)
    /\ \A f \in Flows : \A a \in dn[f] : ~Clash => a.r \in Own(f)

DInv == FlowType /\ HelperType /\ StreamType /\ Serving /\ Keyed /\ Phased /\ Queues /\ Answers
-----------------------------------------------------------------------------
(***************************************************************************)
(* Steps of the client that capture nothing: they leave sent and wire      *)
(* alone, close keys, take from queues and streams, and write only what    *)
(* was queued.                                                             *)
(***************************************************************************)
FlowsGoOn == \A g \in Flows :
    /\ flow'[g].key = flow[g].key
    /\ flow'[g].phase = flow[g].phase \/ flow'[g].phase = "over"
    /\ flow'[g].phase \in {"none", "dial"} => flow'[g].reader = flow[g].reader
    /\ \A i \in 1..Len(flow'[g].queue) :
           flow'[g].queue[i] \in Own(g) /\ sent[flow'[g].queue[i]].key = flow[g].key
    /\ flow'[g].src # "none" => flow'[g].src \in Senders(flow[g].key)

LEMMA EntryType == ASSUME NEW S, NEW s \in Seq(S), NEW i \in 1..Len(s) PROVE s[i] \in S
  OBVIOUS

LEMMA ClientKeeps ==
    ASSUME DInv, UNCHANGED <<sent, wire, helper, status>>,
           flow' \in [Flows -> FlowSet], FlowsGoOn,
           table' \in [Keys -> 0..MaxFlows], Serving',
           StreamType', \A g \in Flows : up'[g] \subseteq up[g] \cup Own(g) /\ dn'[g] \subseteq dn[g]
    PROVE  DInv'
  <1>0. FlowType /\ HelperType /\ Keyed /\ Phased /\ Queues /\ Answers
    BY DEF DInv
  <1>1. FlowType' /\ HelperType'
    BY <1>0 DEF FlowType, HelperType
  <1>2. Keyed'
    BY <1>0 DEF Keyed, Lives, FlowsGoOn
  <1>3. Phased'
    BY <1>0 DEF Phased, FlowsGoOn, Open
  <1>4. \A g \in Flows : Own(g)' = Own(g) /\ Senders(flow[g].key)' = Senders(flow'[g].key)
    BY DEF Own, Senders
  <1>5. Queues'
    <2> SUFFICES ASSUME NEW g \in Flows
                 PROVE  /\ \A i \in 1..Len(flow'[g].queue) :
                               /\ flow'[g].queue[i] \in Own(g)
                               /\ sent[flow'[g].queue[i]].key = flow'[g].key
                        /\ up'[g] \subseteq Own(g)
                        /\ flow'[g].src # "none" => flow'[g].src \in Senders(flow'[g].key)
      BY <1>4, Zenon DEF Queues, Senders, Own
    <2> QED BY <1>0 DEF FlowsGoOn, Queues
  <1>6. Clash' = Clash
    BY DEF Clash
  <1>7. Answers'
    BY <1>0, <1>4, <1>6 DEF Answers, HelperType
  <1> QED BY <1>1, <1>2, <1>3, <1>5, <1>7 DEF DInv
(* The end of flow f: its record becomes x, and it leaves the table.       *)
(* Another flow that its key leads to stays there.                         *)
LEMMA EndServes ==
    ASSUME DInv, NEW f \in Flows, NEW x \in FlowSet, flow' = [flow EXCEPT ![f] = x],
           x.phase = "over", UNCHANGED closed,
           table' = DropFlow(f) \/ (table' = table /\ ~Lives(f))
    PROVE  table' \in [Keys -> 0..MaxFlows] /\ Serving'
  <1>0. /\ flow \in [Flows -> FlowSet] /\ table \in [Keys -> 0..MaxFlows] /\ Serving /\ Keyed
    BY DEF DInv, FlowType
  <1>1. table' = DropFlow(f)
    <2> SUFFICES ASSUME table' = table, ~Lives(f) PROVE table = DropFlow(f)
      OBVIOUS
    <2>1. \A k \in Keys : table[k] # f
      BY <1>0, BoundAssumption DEF Serving, Flows
    <2> QED BY <1>0, <2>1 DEF DropFlow
  <1>2. /\ table' \in [Keys -> 0..MaxFlows]
        /\ \A k \in Keys : table'[k] = IF table[k] = f THEN 0 ELSE table[k]
    BY <1>0, <1>1, BoundAssumption DEF DropFlow
  <1>3. \A k \in Keys : table[k] # 0 => table[k] \in Flows
    BY <1>0, BoundAssumption DEF Flows
  <1>4. flow'[f] = x /\ \A g \in Flows : g # f => flow'[g] = flow[g]
    BY <1>0
  <1>5. ASSUME NEW k \in Keys, table'[k] # 0
        PROVE  flow'[table'[k]].phase \in {"dial", "run"} /\ flow'[table'[k]].key = k
    <2>1. table'[k] = table[k] /\ table[k] # f /\ table[k] \in Flows
      BY <1>2, <1>3, <1>5
    <2>2. flow'[table'[k]] = flow[table[k]]
      BY <1>4, <2>1
    <2>3. flow[table[k]].phase \in {"dial", "run"} /\ flow[table[k]].key = k
      BY <1>0, <1>5, <2>1 DEF Serving, Lives
    <2> QED BY <2>2, <2>3
  <1>6. ASSUME ~closed, NEW g \in Flows, flow'[g].phase \in {"dial", "run"}
        PROVE  table'[flow'[g].key] = g
    <2>1. g # f /\ flow'[g] = flow[g] /\ Lives(g)
      BY <1>4, <1>6 DEF Lives
    <2>2. flow[g].key \in Keys /\ table[flow[g].key] = g
      BY <1>0, <1>6, <2>1 DEF Serving, Keyed
    <2> QED BY <1>2, <2>1, <2>2
  <1> QED BY <1>2, <1>5, <1>6 DEF Serving, Lives

(* Flows that keep key and phase are served by the table as it was. *)
LEMMA SameServes ==
    ASSUME DInv, UNCHANGED <<table, closed>>,
           \A g \in Flows : flow'[g].key = flow[g].key /\ flow'[g].phase = flow[g].phase
    PROVE  table' \in [Keys -> 0..MaxFlows] /\ Serving'
  <1>1. /\ table \in [Keys -> 0..MaxFlows] /\ Serving
        /\ \A k \in Keys : table[k] # 0 => table[k] \in Flows
    BY BoundAssumption DEF DInv, FlowType, Flows
  <1> QED BY <1>1 DEF Serving, Lives

(* The fields that the end of a flow leaves (Finish). *)
LEMMA FinishGoesOn ==
    ASSUME DInv, NEW f \in Flows, NEW reader \in {"off", "run", "eof", "done"},
           flow[f].phase = "run" \/ flow[f].reader = "run", Finish(f, reader), UNCHANGED closed
    PROVE  /\ flow' \in [Flows -> FlowSet] /\ FlowsGoOn
           /\ table' \in [Keys -> 0..MaxFlows] /\ Serving'
  <1> DEFINE F == {f} \cap {g \in Flows : flow[g].phase = "run"}
             n == IF F = {} THEN flow[f].closes ELSE flow[f].closes + 1
             x == [flow[f] EXCEPT !.phase = "over", !.reader = reader, !.queue = <<>>, !.closes = n]
  <1>1. flow[f] \in FlowSet /\ flow \in [Flows -> FlowSet] /\ Queues /\ Keyed
    BY DEF DInv, FlowType
  <1>2. n \in Nat
    BY <1>1 DEF FlowSet
  <1>3. x \in FlowSet /\ x.key = flow[f].key /\ x.phase = "over" /\ x.queue = <<>> /\ x.src = flow[f].src
    <2> HIDE DEF n
    <2>1. <<>> \in Seq(Nat)
      OBVIOUS
    <2> QED BY <1>1, <1>2, <2>1 DEF FlowSet
  <1>4. flow' = [flow EXCEPT ![f] = x]
    BY <1>1 DEF Finish
  <1>5. FlowsGoOn
    <2> HIDE DEF x
    <2> QED BY <1>1, <1>3, <1>4 DEF FlowsGoOn, Queues
  <1>6. table' = DropFlow(f) \/ (table' = table /\ ~Lives(f))
    <2>1. F = {} => flow[f].phase # "run"
      OBVIOUS
    <2>2. F = {} => ~Lives(f)
      BY <1>1, <2>1 DEF Keyed, Lives
    <2> QED BY <2>2 DEF Finish
  <1>7. flow' \in [Flows -> FlowSet]
    <2> HIDE DEF x
    <2> QED BY <1>1, <1>3, <1>4
  <1>8. table' \in [Keys -> 0..MaxFlows] /\ Serving'
    <2> HIDE DEF x
    <2> QED BY <1>3, <1>4, <1>6, EndServes
  <1> QED BY <1>5, <1>7, <1>8

(* A flow as it was goes on. *)
LEMMA FlowsStay ==
    ASSUME DInv, UNCHANGED <<sent, flow>>
    PROVE  flow' \in [Flows -> FlowSet] /\ FlowsGoOn
  BY DEF DInv, FlowType, Queues, FlowsGoOn

LEMMA EndsKeep ==
    ASSUME DInv, NEW f \in Flows,
           WriterEnds(f) \/ StatusEnds(f) \/ Read(f) \/ ReaderEnds(f)
    PROVE  DInv'
  <1>1. /\ UNCHANGED <<sent, wire, helper, status, up>>
        /\ UNCHANGED closed
        /\ flow[f].phase = "run" \/ flow[f].reader = "run"
        /\ \/ \E reader \in {"off", "run", "eof", "done"} : Finish(f, reader)
           \/ UNCHANGED <<flow, table>>
    <2>1. flow[f].reader \in {"off", "run", "eof", "done"}
      BY DEF DInv, FlowType, FlowSet
    <2> QED BY <2>1 DEF WriterEnds, StatusEnds, Read, ReaderEnds
  <1>2. /\ flow' \in [Flows -> FlowSet] /\ FlowsGoOn
        /\ table' \in [Keys -> 0..MaxFlows] /\ Serving'
    BY <1>1, FinishGoesOn, FlowsStay, SameServes
  <1>3. dn' \in [Flows -> SUBSET [r : Nat, error : BOOLEAN]] /\ \A g \in Flows : dn'[g] \subseteq dn[g]
    BY DEF WriterEnds, StatusEnds, Read, ReaderEnds, DInv, StreamType
  <1>4. StreamType' /\ \A g \in Flows : up'[g] \subseteq up[g] \cup Own(g) /\ dn'[g] \subseteq dn[g]
    BY <1>1, <1>3 DEF DInv, StreamType
  <1> QED BY <1>1, <1>2, <1>4, ClientKeeps

LEMMA DialFailsKeeps == ASSUME DInv, NEW f \in Flows, DialFails(f) PROVE DInv'
  <1> DEFINE x == [flow[f] EXCEPT !.phase = "over", !.queue = <<>>]
  <1>1. flow[f] \in FlowSet /\ flow \in [Flows -> FlowSet] /\ Queues
    BY DEF DInv, FlowType
  <1>2. x \in FlowSet /\ x.key = flow[f].key /\ x.phase = "over" /\ x.queue = <<>> /\ x.src = flow[f].src
    <2>1. <<>> \in Seq(Nat)
      OBVIOUS
    <2> QED BY <1>1, <2>1 DEF FlowSet
  <1>3. flow' = [flow EXCEPT ![f] = x]
    BY <1>1 DEF DialFails
  <1> HIDE DEF x
  <1>4. FlowsGoOn /\ flow' \in [Flows -> FlowSet]
    BY <1>1, <1>2, <1>3 DEF FlowsGoOn, Queues
  <1>5. table' \in [Keys -> 0..MaxFlows] /\ Serving'
    BY <1>2, <1>3, EndServes DEF DialFails
  <1>6. UNCHANGED <<sent, wire, helper, status, up, dn>>
    BY DEF DialFails, streamVars
  <1> QED BY <1>4, <1>5, <1>6, ClientKeeps DEF DInv, StreamType

LEMMA WriteKeeps == ASSUME DInv, NEW f \in Flows, Write(f) PROVE DInv'
  <1> DEFINE r == Head(flow[f].queue)
             x == [flow[f] EXCEPT !.queue = Tail(flow[f].queue), !.src = sent[r].src]
  <1>1. flow[f] \in FlowSet /\ flow \in [Flows -> FlowSet] /\ Queues
    BY DEF DInv, FlowType
  <1>2. flow[f].queue \in Seq(Nat) /\ flow[f].queue # <<>>
    BY <1>1 DEF FlowSet, Write
  <1>3. r = flow[f].queue[1] /\ 1 \in 1..Len(flow[f].queue)
    BY <1>2
  <1>4. r \in Own(f) /\ sent[r].key = flow[f].key
    BY <1>1, <1>3 DEF Queues
  <1>5. sent[r].src \in Senders(flow[f].key) /\ sent[r].src \in Sources /\ r \in Nat
    <2>1. r \in 1..Len(sent) /\ sent \in Seq([key : Keys, src : Sources, flow : 0..MaxFlows])
      BY <1>4 DEF Own, DInv, FlowType
    <2>2. sent[r] \in [key : Keys, src : Sources, flow : 0..MaxFlows] /\ r \in Nat
      <3> HIDE DEF r
      <3>1. \A S : \A t \in Seq(S) : \A i \in 1..Len(t) : t[i] \in S
        BY EntryType
      <3>2. \A i \in 1..Len(sent) : sent[i] \in [key : Keys, src : Sources, flow : 0..MaxFlows]
        BY <2>1, <3>1, Zenon
      <3> QED BY <2>1, <3>2
    <2> HIDE DEF r
    <2> QED BY <1>4, <2>1, <2>2 DEF Senders
  <1>6. Tail(flow[f].queue) \in Seq(Nat) /\ \A i \in 1..Len(Tail(flow[f].queue)) :
            Tail(flow[f].queue)[i] = flow[f].queue[i + 1] /\ i + 1 \in 1..Len(flow[f].queue)
    BY <1>2
  <1>7. /\ x \in FlowSet /\ x.key = flow[f].key /\ x.phase = flow[f].phase
        /\ x.queue = Tail(flow[f].queue) /\ x.src = sent[r].src /\ x.reader = flow[f].reader
    <2> HIDE DEF r
    <2> QED BY <1>1, <1>5, <1>6 DEF FlowSet
  <1>8. flow' = [flow EXCEPT ![f] = x] /\ UNCHANGED <<sent, wire, helper, status, dn, closed, table>>
    BY <1>1 DEF Write
  <1>9. StreamType' /\ \A g \in Flows : up'[g] \subseteq up[g] \cup Own(g)
    <2>1. up' \in [Flows -> SUBSET Nat]
          /\ \A g \in Flows : up'[g] \subseteq IF g = f THEN up[g] \cup {r} ELSE up[g]
      BY <1>5 DEF Write, DInv, StreamType
    <2> QED BY <1>4, <1>8, <2>1 DEF DInv, StreamType
  <1> HIDE DEF x, r
  <1>10. FlowsGoOn /\ flow' \in [Flows -> FlowSet] /\ Serving' /\ table' \in [Keys -> 0..MaxFlows]
    <2>1. \A i \in 1..Len(x.queue) : x.queue[i] \in Own(f) /\ sent[x.queue[i]].key = flow[f].key
      BY <1>1, <1>6, <1>7 DEF Queues
    <2>2. /\ flow' \in [Flows -> FlowSet] /\ flow'[f] = x
          /\ \A g \in Flows : g # f => flow'[g] = flow[g]
      BY <1>1, <1>7, <1>8
    <2>3. ASSUME NEW g \in Flows
          PROVE  /\ flow'[g].key = flow[g].key /\ flow'[g].phase = flow[g].phase
                 /\ flow'[g].reader = flow[g].reader
                 /\ \A i \in 1..Len(flow'[g].queue) :
                        flow'[g].queue[i] \in Own(g) /\ sent[flow'[g].queue[i]].key = flow[g].key
                 /\ flow'[g].src # "none" => flow'[g].src \in Senders(flow[g].key)
      <3>1. CASE g = f
        BY <1>5, <1>7, <2>1, <2>2, <3>1
      <3>2. CASE g # f
        BY <1>1, <2>2, <3>2 DEF Queues
      <3> QED BY <3>1, <3>2
    <2>4. Serving' /\ table' \in [Keys -> 0..MaxFlows]
      BY <1>8, <2>3, SameServes
    <2> QED BY <2>2, <2>3, <2>4 DEF FlowsGoOn
  <1> QED BY <1>8, <1>9, <1>10, ClientKeeps

LEMMA CloseKeeps == ASSUME DInv, Close PROVE DInv'
  <1>1. flow \in [Flows -> FlowSet] /\ Queues
    BY DEF DInv, FlowType
  <1>2. /\ UNCHANGED <<sent, wire, helper, status, up, dn>> /\ closed' = TRUE
        /\ table' = [k \in Keys |-> IF k \in EchoKeys THEN 0 ELSE table[k]]
        /\ \E F \in SUBSET Flows : flow' = [f \in Flows |->
                IF f \in F THEN [flow[f] EXCEPT !.closes = @ + 1] ELSE flow[f]]
    BY DEF Close
  <1>3. ASSUME NEW f \in Flows
        PROVE  LET x == [flow[f] EXCEPT !.closes = @ + 1] IN
               /\ x \in FlowSet /\ x.key = flow[f].key /\ x.phase = flow[f].phase
               /\ x.queue = flow[f].queue /\ x.src = flow[f].src /\ x.reader = flow[f].reader
    <2>1. flow[f] \in FlowSet
      BY <1>1
    <2> QED BY <2>1 DEF FlowSet
  <1>4. /\ flow' \in [Flows -> FlowSet]
        /\ \A f \in Flows : /\ flow'[f].key = flow[f].key /\ flow'[f].phase = flow[f].phase
                            /\ flow'[f].queue = flow[f].queue /\ flow'[f].src = flow[f].src
                            /\ flow'[f].reader = flow[f].reader
    BY <1>1, <1>2, <1>3
  <1>5. FlowsGoOn
    BY <1>1, <1>4 DEF FlowsGoOn, Queues
  <1>6. table' \in [Keys -> 0..MaxFlows] /\ Serving'
    <2>1. /\ table \in [Keys -> 0..MaxFlows] /\ Serving
          /\ \A k \in Keys : table[k] # 0 => table[k] \in Flows
      BY BoundAssumption DEF DInv, FlowType, Flows
    <2>2. /\ table' \in [Keys -> 0..MaxFlows]
          /\ \A k \in Keys : table'[k] \in {table[k], 0}
      BY <1>2, <2>1, BoundAssumption
    <2>3. \A k \in Keys : table'[k] # 0 => Lives(table[k])' /\ flow'[table'[k]].key = k
      BY <1>4, <2>1, <2>2 DEF Serving, Lives
    <2> QED BY <1>2, <2>2, <2>3 DEF Serving, Lives
  <1> QED BY <1>2, <1>4, <1>5, <1>6, ClientKeeps DEF DInv, StreamType

(* A dial hands a flow that the helper has not met to the helper. *)
LEMMA DialKeeps == ASSUME DInv, NEW f \in Flows, Dial(f) PROVE DInv'
  <1> DEFINE x == [flow[f] EXCEPT !.phase = "run", !.reader = "run"]
             h == [helper[f] EXCEPT !.phase = "new"]
  <1>0. FlowType /\ HelperType /\ StreamType /\ Serving /\ Keyed /\ Phased /\ Queues /\ Answers
    BY DEF DInv
  <1>1. flow[f] \in FlowSet /\ flow \in [Flows -> FlowSet]
        /\ helper[f] \in HelperSet /\ helper \in [Flows -> HelperSet]
    BY <1>0 DEF FlowType, HelperType
  <1>2. /\ x \in FlowSet /\ x.key = flow[f].key /\ x.phase = "run" /\ x.queue = flow[f].queue
        /\ x.src = flow[f].src
    BY <1>1 DEF FlowSet
  <1>3. /\ h \in HelperSet /\ h.phase = "new" /\ h.sock = helper[f].sock
        /\ h.ident = helper[f].ident /\ h.up = helper[f].up /\ h.errs = helper[f].errs
    BY <1>1 DEF HelperSet
  <1>4. flow' = [flow EXCEPT ![f] = x] /\ helper' = [helper EXCEPT ![f] = h]
    BY <1>1 DEF Dial
  <1>5. UNCHANGED <<closed, sent, table, up, dn, status, wire>> /\ flow[f].phase = "dial"
    BY DEF Dial, streamVars
  <1> HIDE DEF x, h
  <1>6. helper[f].phase = "none"
    BY <1>0, <1>5 DEF Phased
  <1>7. FlowType' /\ HelperType' /\ StreamType'
    BY <1>0, <1>1, <1>2, <1>3, <1>4, <1>5 DEF FlowType, HelperType, StreamType
  <1>8. Serving' /\ Keyed'
    <2>1. \A k \in Keys : table[k] # 0 => table[k] \in Flows
      BY <1>0, BoundAssumption DEF FlowType, Flows
    <2>2. \A g \in Flows :
             /\ flow'[g].key = flow[g].key
             /\ flow'[g] = flow[g] \/ (flow'[g].phase = "run" /\ flow[g].phase = "dial")
      BY <1>1, <1>2, <1>4, <1>5
    <2>3. ASSUME NEW k \in Keys, table'[k] # 0
          PROVE  flow'[table'[k]].phase \in {"dial", "run"} /\ flow'[table'[k]].key = k
      <3>1. table'[k] = table[k] /\ table[k] \in Flows
        BY <1>5, <2>1, <2>3
      <3>2. flow[table[k]].phase \in {"dial", "run"} /\ flow[table[k]].key = k
        BY <1>0, <2>3, <3>1 DEF Serving, Lives
      <3> QED BY <2>2, <3>1, <3>2
    <2>4. ASSUME ~closed, NEW g \in Flows, flow'[g].phase \in {"dial", "run"}
          PROVE  table'[flow'[g].key] = g
      <3>1. flow'[g].key = flow[g].key /\ Lives(g) /\ table' = table
        BY <1>5, <2>2, <2>4 DEF Lives
      <3> QED BY <1>0, <2>4, <3>1 DEF Serving
    <2>5. Serving'
      BY <1>5, <2>3, <2>4 DEF Serving, Lives
    <2>6. Keyed'
      <3>1. \A g \in Flows : flow'[g].phase \in {"dial", "run"} => flow'[g].key \in Keys
        BY <1>0, <2>2 DEF Keyed, Lives
      <3>2. \A g \in Flows : flow'[g].phase \in {"none", "dial"} => flow'[g].reader = "off"
        BY <1>0, <2>2 DEF Keyed
      <3> QED BY <3>1, <3>2 DEF Keyed, Lives
    <2> QED BY <2>5, <2>6
  <1>9. Phased'
    BY <1>0, <1>1, <1>2, <1>3, <1>4, <1>5, <1>6 DEF Phased, Open
  <1>10. Own(f)' = Own(f) /\ \A g : Own(g)' = Own(g) /\ \A k : Senders(k)' = Senders(k)
    BY <1>5 DEF Own, Senders
  <1>11. \A g \in Flows : /\ flow'[g].key = flow[g].key /\ flow'[g].queue = flow[g].queue
                          /\ flow'[g].src = flow[g].src /\ helper'[g].ident = helper[g].ident
                          /\ helper'[g].errs = helper[g].errs
                          /\ g # f => helper'[g] = helper[g]
    BY <1>1, <1>2, <1>3, <1>4
  <1>12. Queues'
    BY <1>0, <1>5, <1>11 DEF Queues, Own, Senders
  <1>13. Answers'
    <2>1. \A m \in wire : m.f \in Flows /\ m.f # f
      BY <1>0, <1>6 DEF Answers, HelperType
    <2>2. Clash' = Clash
      BY <1>11 DEF Clash
    <2> QED BY <1>0, <1>5, <1>10, <1>11, <2>1, <2>2 DEF Answers
  <1> QED BY <1>5, <1>7, <1>8, <1>9, <1>12, <1>13 DEF DInv

(* A lost transport ends directions and nothing else. *)
LEMMA LoseKeeps == ASSUME DInv, Lose \/ UNCHANGED vars PROVE DInv'
  <1>1. UNCHANGED <<closed, sent, table, flow, up, dn, status, helper, wire>>
    BY DEF Lose, vars, clientVars, streamVars
  <1> QED BY <1>1 DEF DInv, FlowType, HelperType, StreamType, Serving, Lives, Keyed, Phased, Open,
                      Own, Senders, Queues, Answers, Clash
-----------------------------------------------------------------------------
(***************************************************************************)
(* A capture adds a request.  What was said of the earlier ones stays      *)
(* true, and the new one is queued in the flow that it is sent to.         *)
(***************************************************************************)
LEMMA SentGrows ==
    ASSUME DInv, NEW k \in Keys, NEW s \in Sources, NEW n \in 0..MaxFlows,
           sent' = Append(sent, [key |-> k, src |-> s, flow |-> n])
    PROVE  /\ sent' \in Seq([key : Keys, src : Sources, flow : 0..MaxFlows])
           /\ Len(sent) \in Nat /\ Len(sent') = Len(sent) + 1
           /\ \A i \in 1..Len(sent) : sent'[i] = sent[i]
           /\ sent'[Len(sent) + 1] = [key |-> k, src |-> s, flow |-> n]
           /\ \A g : Own(g) \subseteq Own(g)'
           /\ Len(sent) + 1 \in Own(n)'
           /\ \A l : Senders(l) \subseteq Senders(l)'
           /\ s \in Senders(k)'
  <1> DEFINE R == [key : Keys, src : Sources, flow : 0..MaxFlows]
             e == [key |-> k, src |-> s, flow |-> n]
  <1>1. sent \in Seq(R) /\ e \in R
    BY DEF DInv, FlowType
  <1>2. e.key = k /\ e.src = s /\ e.flow = n
    OBVIOUS
  <1> HIDE DEF e, R
  <1>3. /\ Append(sent, e) \in Seq(R) /\ Len(sent) \in Nat
        /\ Len(Append(sent, e)) = Len(sent) + 1
        /\ \A i \in 1..Len(sent) : Append(sent, e)[i] = sent[i]
        /\ Append(sent, e)[Len(sent) + 1] = e
    BY <1>1
  <1>4. sent' = Append(sent, e)
    BY DEF e
  <1>5. /\ sent' \in Seq(R) /\ Len(sent) \in Nat /\ Len(sent') = Len(sent) + 1
        /\ \A i \in 1..Len(sent) : sent'[i] = sent[i]
        /\ sent'[Len(sent) + 1] = e
    BY <1>3, <1>4
  <1>6. (\A g : Own(g) \subseteq Own(g)') /\ Len(sent) + 1 \in Own(n)'
    BY <1>2, <1>5 DEF Own
  <1>7. (\A l : Senders(l) \subseteq Senders(l)') /\ s \in Senders(k)'
    BY <1>2, <1>5 DEF Senders
  <1> QED BY <1>5, <1>6, <1>7 DEF e, R

LEMMA CaptureKeeps ==
    ASSUME DInv, NEW k \in Keys, NEW s \in Sources, NEW n \in 0..MaxFlows,
           sent' = Append(sent, [key |-> k, src |-> s, flow |-> n]),
           UNCHANGED <<up, dn, status, helper, wire>>,
           flow' \in [Flows -> FlowSet], table' \in [Keys -> 0..MaxFlows], Serving', Keyed',
           \A g \in Flows : flow'[g].phase \in {"none", "dial"} => flow[g].phase \in {"none", "dial"},
           \A g \in Flows : \A i \in 1..Len(flow'[g].queue) :
               \/ flow'[g].queue[i] \in Own(g) /\ sent[flow'[g].queue[i]].key = flow'[g].key
               \/ flow'[g].queue[i] = Len(sent) + 1 /\ n = g /\ flow'[g].key = k,
           \A g \in Flows : flow'[g].src # "none" =>
               \/ flow'[g].src \in Senders(flow'[g].key)
               \/ flow'[g].src = s /\ flow'[g].key = k
    PROVE  DInv'
  <1>0. HelperType /\ StreamType /\ Phased /\ Queues /\ Answers
    BY DEF DInv
  <1>1. FlowType' /\ HelperType' /\ StreamType'
    BY <1>0, SentGrows DEF FlowType, HelperType, StreamType
  <1>2. Phased'
    BY <1>0 DEF Phased, Open
  <1>3. Queues'
    <2>1. ASSUME NEW g \in Flows, NEW i \in 1..Len(flow'[g].queue)
          PROVE  flow'[g].queue[i] \in Own(g)' /\ sent'[flow'[g].queue[i]].key = flow'[g].key
      <3>1. CASE flow'[g].queue[i] \in Own(g) /\ sent[flow'[g].queue[i]].key = flow'[g].key
        BY <3>1, SentGrows DEF Own
      <3>2. CASE flow'[g].queue[i] = Len(sent) + 1 /\ n = g /\ flow'[g].key = k
        BY <3>2, SentGrows
      <3> QED BY <3>1, <3>2
    <2>2. ASSUME NEW g \in Flows, flow'[g].src # "none"
          PROVE  flow'[g].src \in Senders(flow[g].key)'
      <3>1. /\ \A l : Senders(l) \subseteq Senders(l)'
            /\ s \in Senders(k)'
        BY SentGrows
      <3>2. \A l : l = flow'[g].key => Senders(flow[g].key)' = Senders(l)'
        BY DEF Senders
      <3> QED BY <2>2, <3>1, <3>2
    <2>3. \A g \in Flows : up'[g] \subseteq Own(g)'
      BY <1>0, SentGrows DEF Queues
    <2> QED BY <2>1, <2>2, <2>3 DEF Queues
  <1>4. Answers'
    <2>1. Clash' = Clash
      BY DEF Clash
    <2>2. \A g : Own(g) \subseteq Own(g)'
      BY SentGrows
    <2>3. \A m \in wire : m.r \in Own(m.f)' /\ m.f \in Flows
      BY <1>0, <2>2 DEF Answers, HelperType
    <2> QED BY <1>0, <2>1, <2>2, <2>3 DEF Answers
  <1> QED BY <1>1, <1>2, <1>3, <1>4 DEF DInv

LEMMA CapturesKeep == ASSUME DInv, NEW k \in Keys, NEW s \in Sources, Capture(k, s) PROVE DInv'
  <1> DEFINE r == Len(sent) + 1
             Sent(n) == sent' = Append(sent, [key |-> k, src |-> s, flow |-> n])
  <1>0. /\ FlowType /\ Serving /\ Keyed /\ Queues /\ flow \in [Flows -> FlowSet]
        /\ table \in [Keys -> 0..MaxFlows]
    BY DEF DInv, FlowType
  <1>1. UNCHANGED <<closed, up, dn, status, helper, wire>>
    BY DEF Capture, streamVars
  <1>2. \A g \in Flows : /\ flow[g] \in FlowSet
                         /\ \A i \in 1..Len(flow[g].queue) :
                             flow[g].queue[i] \in Own(g) /\ sent[flow[g].queue[i]].key = flow[g].key
                         /\ flow[g].src # "none" => flow[g].src \in Senders(flow[g].key)
    BY <1>0 DEF Queues
  <1>3. r \in Nat
    BY <1>0 DEF FlowType
  <1>4. \A l \in Keys : table[l] # 0 => table[l] \in Flows
    BY <1>0, BoundAssumption DEF Flows
  <1>5. CASE Sent(0) /\ UNCHANGED <<table, flow>>
    <2>1. 0 \in 0..MaxFlows /\ Serving' /\ Keyed'
      BY <1>0, <1>1, <1>5, BoundAssumption DEF Serving, Keyed, Lives
    <2> QED BY <1>0, <1>1, <1>2, <1>5, <2>1, CaptureKeeps
  <1>6. CASE /\ table[k] # 0 /\ Sent(table[k]) /\ UNCHANGED table
             /\ flow' = [flow EXCEPT ![table[k]] = Queued(table[k], r)]
    <2> DEFINE g == table[k]
               x == Queued(g, r)
    <2>1. g \in Flows /\ g \in 0..MaxFlows /\ flow[g] \in FlowSet /\ flow[g].key = k
      BY <1>0, <1>4, <1>6 DEF Serving
    <2>2. /\ x \in FlowSet /\ x.key = k /\ x.phase = flow[g].phase /\ x.src = flow[g].src
          /\ x.reader = flow[g].reader
          /\ \A i \in 1..Len(x.queue) :
                x.queue[i] = r \/ (i \in 1..Len(flow[g].queue) /\ x.queue[i] = flow[g].queue[i])
      <3> HIDE DEF g, r
      <3> DEFINE q == flow[g].queue
      <3>1. q \in Seq(Nat)
        BY <2>1 DEF FlowSet
      <3>2. Append(q, r) \in Seq(Nat) /\ \A i \in 1..Len(Append(q, r)) :
                Append(q, r)[i] = r \/ (i \in 1..Len(q) /\ Append(q, r)[i] = q[i])
        BY <1>3, <3>1
      <3>3. CASE x = flow[g]
        BY <2>1, <3>3
      <3>4. CASE x = [flow[g] EXCEPT !.queue = Append(q, r)]
        <4> HIDE DEF x
        <4>1. /\ x \in FlowSet /\ x.key = flow[g].key /\ x.phase = flow[g].phase
              /\ x.src = flow[g].src /\ x.queue = Append(q, r) /\ x.reader = flow[g].reader
          BY <2>1, <3>2, <3>4 DEF FlowSet
        <4> QED BY <2>1, <3>2, <4>1
      <3> QED BY <3>3, <3>4 DEF Queued
    <2>3. flow' = [flow EXCEPT ![g] = x]
      BY <1>6
    <2> HIDE DEF x, g, r
    <2>4. /\ flow' \in [Flows -> FlowSet] /\ flow'[g] = x
          /\ \A h \in Flows : h # g => flow'[h] = flow[h]
      BY <1>0, <2>1, <2>2, <2>3
    <2>5. \A h \in Flows : flow'[h].phase = flow[h].phase /\ flow'[h].key = flow[h].key
                           /\ flow'[h].src = flow[h].src /\ flow'[h].reader = flow[h].reader
      BY <2>1, <2>2, <2>4
    <2>6. Serving' /\ Keyed'
      BY <1>0, <1>1, <1>6, <2>5, SameServes DEF Keyed, Lives
    <2>7. ASSUME NEW h \in Flows, NEW i \in 1..Len(flow'[h].queue)
          PROVE  \/ flow'[h].queue[i] \in Own(h) /\ sent[flow'[h].queue[i]].key = flow'[h].key
                 \/ flow'[h].queue[i] = r /\ g = h /\ flow'[h].key = k
      <3>1. CASE h = g
        BY SMTT(60), <1>2, <2>1, <2>2, <2>4, <3>1
      <3>2. CASE h # g
        BY <1>2, <2>4, <3>2
      <3> QED BY <3>1, <3>2
    <2>8. \A h \in Flows : flow'[h].src # "none" => flow'[h].src \in Senders(flow'[h].key)
      BY <1>2, <2>5
    <2>9. Sent(g) /\ table' \in [Keys -> 0..MaxFlows]
      BY <1>0, <1>6 DEF g
    <2> QED BY <1>1, <2>1, <2>4, <2>5, <2>6, <2>7, <2>8, <2>9, CaptureKeeps, SMTT(60) DEF r
  <1>7. ASSUME table[k] = 0, NEW g \in Unused, table' = [table EXCEPT ![k] = g], Sent(g),
               flow' = [flow EXCEPT ![g] = NewFlow(k, r, s)]
        PROVE  DInv'
    <2> DEFINE x == NewFlow(k, r, s)
    <2>1. g \in Flows /\ g \in 0..MaxFlows /\ flow[g].phase = "none"
      BY BoundAssumption DEF Unused, Flows
    <2>2. /\ x \in FlowSet /\ x.key = k /\ x.phase = "dial" /\ x.src \in {s, "none"}
          /\ x.queue = <<r>> /\ x.reader = "off"
      <3> HIDE DEF r
      <3>1. <<r>> \in Seq(Nat)
        BY <1>3
      <3> QED BY <3>1 DEF NewFlow, NoFlow, FlowSet
    <2>3. flow' = [flow EXCEPT ![g] = x]
      BY <1>7
    <2> HIDE DEF x, r
    <2>4. /\ flow' \in [Flows -> FlowSet] /\ flow'[g] = x
          /\ \A h \in Flows : h # g => flow'[h] = flow[h]
      BY <1>0, <2>1, <2>2, <2>3
    <2>5. table' \in [Keys -> 0..MaxFlows] /\ table'[k] = g /\ \A l \in Keys : l # k => table'[l] = table[l]
      BY <1>0, <1>7, <2>1
    <2>6. Serving' /\ Keyed'
      <3>1. ASSUME NEW l \in Keys, table'[l] # 0
            PROVE  flow'[table'[l]].phase \in {"dial", "run"} /\ flow'[table'[l]].key = l
        <4>1. CASE l = k
          BY <2>2, <2>4, <2>5, <4>1
        <4>2. CASE l # k
          <5>1. table'[l] = table[l] /\ table[l] \in Flows /\ table[l] # g
            BY <1>0, <1>4, <2>1, <2>5, <3>1, <4>2 DEF Serving, Lives
          <5>2. flow'[table'[l]] = flow[table[l]]
            BY <2>4, <5>1
          <5>3. flow[table[l]].phase \in {"dial", "run"} /\ flow[table[l]].key = l
            BY <1>0, <3>1, <5>1 DEF Serving, Lives
          <5> QED BY <5>2, <5>3
        <4> QED BY <4>1, <4>2
      <3>2. ASSUME ~closed, NEW h \in Flows, flow'[h].phase \in {"dial", "run"}
            PROVE  table'[flow'[h].key] = h
        <4>1. CASE h = g
          BY <2>2, <2>4, <2>5, <4>1
        <4>2. CASE h # g
          <5>1. flow'[h] = flow[h] /\ flow[h].key \in Keys /\ table[flow[h].key] = h
            BY <1>0, <2>4, <3>2, <4>2 DEF Serving, Keyed, Lives
          <5>2. h # 0
            BY BoundAssumption DEF Flows
          <5> QED BY <1>7, <2>5, <5>1, <5>2
        <4> QED BY <4>1, <4>2
      <3>3. Keyed'
        BY <1>0, <2>2, <2>4 DEF Keyed, Lives
      <3> QED BY <1>1, <3>1, <3>2, <3>3 DEF Serving, Lives
    <2>7. ASSUME NEW h \in Flows, NEW i \in 1..Len(flow'[h].queue)
          PROVE  \/ flow'[h].queue[i] \in Own(h) /\ sent[flow'[h].queue[i]].key = flow'[h].key
                 \/ flow'[h].queue[i] = r /\ g = h /\ flow'[h].key = k
      <3>1. CASE h = g
        <4>1. flow'[h].queue = <<r>> /\ Len(<<r>>) = 1 /\ i \in 1..Len(flow'[h].queue)
          BY <2>2, <2>4, <2>7, <3>1
        <4>2. i = 1 /\ <<r>>[1] = r
          <5>1. i \in 1..1
            BY <4>1
          <5> QED BY <5>1
        <4> QED BY <2>2, <2>4, <3>1, <4>1, <4>2
      <3>2. CASE h # g
        BY <1>2, <2>4, <3>2
      <3> QED BY <3>1, <3>2
    <2>8. \A h \in Flows : flow'[h].src # "none" =>
             flow'[h].src \in Senders(flow'[h].key) \/ (flow'[h].src = s /\ flow'[h].key = k)
      BY <1>2, <2>2, <2>4
    <2>9. \A h \in Flows : flow'[h].phase \in {"none", "dial"} => flow[h].phase \in {"none", "dial"}
      BY <2>1, <2>4
    <2>10. Sent(g)
      BY <1>7
    <2> QED BY <1>1, <2>1, <2>4, <2>5, <2>6, <2>7, <2>8, <2>9, <2>10, CaptureKeeps DEF r
  <1> QED BY <1>5, <1>6, <1>7 DEF Capture
-----------------------------------------------------------------------------
(***************************************************************************)
(* A step of the helper for flow f: its record becomes h.  A flow that it  *)
(* has begun keeps its identifier, which is why an answer on its way finds *)
(* its socket; the identifiers that clash go on to clash.                  *)
(***************************************************************************)
LEMMA HelperKeeps ==
    ASSUME DInv, NEW f \in Flows, NEW h \in HelperSet, helper' = [helper EXCEPT ![f] = h],
           UNCHANGED <<closed, sent, table, flow>>,
           helper[f].phase # "none", h.phase \in {"relay", "over"},
           h.ident = helper[f].ident \/ helper[f].phase = "new",
           h.up \in {"run", "drain"} \/ h.sock \in {"udp", "ping", "raw"} => h.phase = "relay",
           h.sock = "raw" => h.ident \in Idents,
           h.errs \subseteq Own(f),
           status' \in [Flows -> {"none", "ok", "unsupported"}],
           \A g \in Flows : g # f => status'[g] = status[g],
           StreamType', \A g \in Flows : up'[g] \subseteq up[g],
           \A m \in wire' : \/ m \in wire
                            \/ /\ m.f = f /\ m.ident = h.ident /\ m.r \in Own(f)
                               /\ m.error \in BOOLEAN
                               /\ m = [f |-> m.f, ident |-> m.ident, r |-> m.r, error |-> m.error],
           \A g \in Flows : \A a \in dn'[g] :
               a \in dn[g] \/ (g = f /\ (~Clash' => a.r \in Own(f)))
    PROVE  DInv'
  <1>0. FlowType /\ HelperType /\ Serving /\ Keyed /\ Phased /\ Queues /\ Answers
    BY DEF DInv
  <1>1. helper \in [Flows -> HelperSet]
    BY <1>0 DEF HelperType
  <1>2. /\ helper' \in [Flows -> HelperSet] /\ helper'[f] = h
        /\ \A g \in Flows : g # f => helper'[g] = helper[g]
    BY <1>1
  <1>3. \A g : Own(g)' = Own(g) /\ Own(g) \subseteq Nat
    BY DEF Own
  <1>4. FlowType' /\ Serving' /\ Keyed'
    BY <1>0 DEF FlowType, Serving, Keyed, Lives
  <1>5. Phased'
    <2> SUFFICES ASSUME NEW g \in Flows
                 PROVE  /\ flow[g].phase \in {"none", "dial"} => helper'[g].phase = "none"
                        /\ helper'[g].phase \in {"none", "new"} =>
                               /\ helper'[g].ident = "none" /\ helper'[g].up = "off"
                               /\ status'[g] = "none"
                        /\ helper'[g].up \in {"run", "drain"} => helper'[g].phase = "relay"
                        /\ helper'[g].sock \in {"udp", "ping", "raw"} => helper'[g].phase = "relay"
                        /\ helper'[g].sock = "raw" => helper'[g].ident \in Idents
      BY DEF Phased, Open
    <2>1. CASE g = f
      BY <1>0, <1>2, <2>1 DEF Phased
    <2>2. CASE g # f
      BY <1>0, <1>2, <2>2 DEF Phased, Open
    <2> QED BY <2>1, <2>2
  <1>6. Queues'
    BY <1>0 DEF Queues, Own, Senders
  <1>7. Clash => Clash'
    <2> SUFFICES ASSUME NEW a \in Flows, NEW b \in Flows, a # b,
                        helper[a].ident = helper[b].ident, helper[a].ident \in Idents
                 PROVE  helper'[a].ident = helper'[b].ident /\ helper'[a].ident \in Idents
      BY DEF Clash
    <2>1. helper[f].phase = "new" => a # f /\ b # f
      BY <1>0, IdentAssumption DEF Phased
    <2> QED BY <1>2, <2>1
  <1>8. \A m \in wire' : /\ m \in [f : Flows, ident : Idents \cup {"none"}, r : Nat, error : BOOLEAN]
                         /\ m.r \in Own(m.f) /\ m.ident = helper'[m.f].ident
                         /\ helper'[m.f].phase \in {"relay", "over"}
    <2> SUFFICES ASSUME NEW m \in wire'
                 PROVE  /\ m \in [f : Flows, ident : Idents \cup {"none"}, r : Nat, error : BOOLEAN]
                        /\ m.r \in Own(m.f) /\ m.ident = helper'[m.f].ident
                        /\ helper'[m.f].phase \in {"relay", "over"}
      OBVIOUS
    <2>1. CASE m \in wire
      <3>1. /\ m \in [f : Flows, ident : Idents \cup {"none"}, r : Nat, error : BOOLEAN]
            /\ m.r \in Own(m.f) /\ m.ident = helper[m.f].ident
            /\ helper[m.f].phase \in {"relay", "over"} /\ m.f \in Flows
        BY <1>0, <2>1 DEF Answers, HelperType
      <3>2. CASE m.f = f
        BY <1>2, <3>1, <3>2
      <3>3. CASE m.f # f
        BY <1>2, <3>1, <3>3
      <3> QED BY <3>2, <3>3
    <2>2. CASE /\ m.f = f /\ m.ident = h.ident /\ m.r \in Own(f) /\ m.error \in BOOLEAN
               /\ m = [f |-> m.f, ident |-> m.ident, r |-> m.r, error |-> m.error]
      <3>1. h.ident \in Idents \cup {"none"} /\ m.r \in Nat
        BY <1>3, <2>2 DEF HelperSet
      <3> QED BY <1>2, <2>2, <3>1
    <2> QED BY <2>1, <2>2
  <1>9. Answers'
    <2>1. \A g \in Flows : helper'[g].errs \subseteq Own(g)
      BY <1>0, <1>2 DEF Answers
    <2>2. \A g \in Flows : \A a \in dn'[g] : ~Clash' => a.r \in Own(g)
      BY <1>0, <1>7 DEF Answers
    <2> QED BY <1>3, <1>8, <2>1, <2>2 DEF Answers
  <1>10. HelperType'
    BY <1>2, <1>8 DEF HelperType
  <1> QED BY <1>4, <1>5, <1>6, <1>9, <1>10 DEF DInv

(* The beginning of a flow: it gets a socket, or it is refused. *)
LEMMA BeginsKeep ==
    ASSUME DInv, NEW f \in Flows, ServeUDP(f) \/ RefuseUDP(f) \/ OpenEcho(f) \/ NoSocket(f)
    PROVE  DInv'
  <1>0. /\ helper[f] \in HelperSet /\ helper \in [Flows -> HelperSet] /\ StreamType
        /\ status \in [Flows -> {"none", "ok", "unsupported"}] /\ helper[f].errs \subseteq Own(f)
    BY DEF DInv, HelperType, Answers
  <1>1. /\ UNCHANGED <<closed, sent, table, flow, dn, wire>>
        /\ helper[f].phase = "new"
    BY DEF ServeUDP, RefuseUDP, OpenEcho, NoSocket, clientVars, streamVars
  <1>2. status[f] = "none" /\ helper[f].up = "off" /\ helper[f].ident = "none" /\ ~Open(f)
    BY <1>1 DEF DInv, Phased
  <1>3. /\ status' \in [Flows -> {"none", "ok", "unsupported"}]
        /\ \A g \in Flows : g # f => status'[g] = status[g]
    BY <1>0 DEF ServeUDP, RefuseUDP, OpenEcho, NoSocket, streamVars
  <1>5. StreamType' /\ \A g \in Flows : up'[g] \subseteq up[g]
    BY <1>0, <1>1 DEF ServeUDP, RefuseUDP, OpenEcho, NoSocket, Refuse, streamVars, StreamType
  <1>6. ASSUME NEW so \in {"udp", "ping", "raw"}, NEW id \in Idents \cup {"none"},
               so = "raw" => id \in Idents, Relaying(f, so, id)
        PROVE  DInv'
    <2> DEFINE h == [helper[f] EXCEPT !.phase = "relay", !.sock = so, !.ident = id, !.up = "run"]
    <2>1. /\ h \in HelperSet /\ h.phase = "relay" /\ h.sock = so /\ h.ident = id
          /\ h.errs = helper[f].errs
      BY <1>0 DEF HelperSet
    <2>2. helper' = [helper EXCEPT ![f] = h]
      BY <1>0, <1>6 DEF Relaying
    <2> HIDE DEF h
    <2> QED BY <1>0, <1>1, <1>3, <1>5, <1>6, <2>1, <2>2, HelperKeeps
  <1>7. CASE Refuse(f)
    <2> DEFINE h == [helper[f] EXCEPT !.phase = "over", !.closes = 1]
    <2>1. /\ h \in HelperSet /\ h.phase = "over" /\ h.sock = helper[f].sock
          /\ h.ident = helper[f].ident /\ h.errs = helper[f].errs /\ h.up = helper[f].up
      BY <1>0 DEF HelperSet
    <2>2. helper' = [helper EXCEPT ![f] = h]
      BY <1>0, <1>7 DEF Refuse
    <2> HIDE DEF h
    <2> QED BY <1>0, <1>1, <1>2, <1>3, <1>5, <2>1, <2>2, HelperKeeps DEF Open
  <1>8. \/ \E so \in {"udp", "ping", "raw"}, id \in Idents \cup {"none"} :
               (so = "raw" => id \in Idents) /\ Relaying(f, so, id)
        \/ Refuse(f)
    BY DEF ServeUDP, RefuseUDP, OpenEcho, NoSocket
  <1> QED BY <1>6, <1>7, <1>8

(* The record of a flow that runs: it keeps its identifier, and it is over *)
(* when its socket is closed and its goroutines have ended.                *)
Runs(f, h) == /\ h \in HelperSet /\ h.ident = helper[f].ident /\ h.errs \subseteq Own(f)
              /\ h.sock \in {helper[f].sock, "closed"}
              /\ \/ h.phase = "relay"
                 \/ h.phase = "over" /\ h.up \in {"eof", "done"} /\ h.sock = "closed"

LEMMA RunningKeeps ==
    ASSUME DInv, NEW f \in Flows, helper[f].phase = "relay",
           NEW h, Runs(f, h), helper' = [helper EXCEPT ![f] = h],
           UNCHANGED <<closed, sent, table, flow, status>>,
           StreamType', \A g \in Flows : up'[g] \subseteq up[g],
           \A m \in wire' : \/ m \in wire
                            \/ /\ m.f = f /\ m.ident = h.ident /\ m.r \in Own(f)
                               /\ m.error \in BOOLEAN
                               /\ m = [f |-> m.f, ident |-> m.ident, r |-> m.r, error |-> m.error],
           \A g \in Flows : \A a \in dn'[g] :
               a \in dn[g] \/ (g = f /\ (~Clash' => a.r \in Own(f)))
    PROVE  DInv'
  <1>1. /\ helper[f] \in HelperSet /\ status \in [Flows -> {"none", "ok", "unsupported"}]
        /\ helper[f].sock = "raw" => helper[f].ident \in Idents
    BY DEF DInv, HelperType, Phased
  <1> QED BY <1>1, HelperKeeps DEF Runs

LEMMA ClosingKeeps ==
    ASSUME DInv, NEW f \in Flows, helper[f].phase = "relay", Closing(f),
           UNCHANGED <<closed, sent, table, flow, status, up, dn>>, wire' \subseteq wire
    PROVE  DInv'
  <1> DEFINE h == CloseAll(helper[f])
  <1>0. /\ helper[f] \in HelperSet /\ helper \in [Flows -> HelperSet] /\ StreamType
        /\ helper[f].errs \subseteq Own(f)
    BY DEF DInv, HelperType, Answers
  <1>1. Runs(f, h)
    BY <1>0 DEF HelperSet, CloseAll, Runs
  <1>2. helper' = [helper EXCEPT ![f] = h]
    BY <1>0 DEF Closing
  <1>3. StreamType'
    BY <1>0 DEF StreamType
  <1> HIDE DEF h
  <1> QED BY <1>1, <1>2, <1>3, RunningKeeps

LEMMA ReturnKeeps ==
    ASSUME DInv, NEW f \in Flows, helper[f].phase = "relay", NEW how \in {"eof", "done"},
           Return(f, how), UNCHANGED <<closed, sent, table, flow, status, dn, wire>>
    PROVE  DInv'
  <1> DEFINE c == CloseAll(helper[f])
             h == [c EXCEPT !.phase = "over", !.up = how, !.errs = {}, !.errno = FALSE, !.closes = 2]
  <1>0. helper[f] \in HelperSet /\ helper \in [Flows -> HelperSet] /\ StreamType
    BY DEF DInv, HelperType
  <1>1. c \in HelperSet /\ c.ident = helper[f].ident /\ c.sock = "closed"
    BY <1>0 DEF HelperSet, CloseAll
  <1>2. helper' = [helper EXCEPT ![f] = h]
    BY <1>0, <1>1 DEF Return
  <1>3. Runs(f, h)
    <2> HIDE DEF c
    <2> QED BY <1>0, <1>1 DEF HelperSet, Runs
  <1>4. StreamType' /\ \A g \in Flows : up'[g] \subseteq up[g]
    BY <1>0 DEF Return, StreamType
  <1> HIDE DEF h, c
  <1> QED BY <1>2, <1>3, <1>4, RunningKeeps

(* What a flow that runs starts from. *)
LEMMA RunningFacts ==
    ASSUME DInv, NEW f \in Flows,
           Open(f) \/ helper[f].up \in {"run", "drain"} \/ helper[f].phase = "relay"
    PROVE  /\ helper[f].phase = "relay" /\ helper[f] \in HelperSet
           /\ helper \in [Flows -> HelperSet] /\ Runs(f, helper[f])
           /\ up \in [Flows -> SUBSET Nat] /\ dn \in [Flows -> SUBSET [r : Nat, error : BOOLEAN]]
           /\ up[f] \subseteq Own(f) /\ helper[f].errs \subseteq Own(f) /\ Own(f) \subseteq Nat
           /\ \A m \in wire : m.f \in Flows /\ m.r \in Own(m.f) /\ m.ident = helper[m.f].ident
                              /\ m.r \in Nat /\ m.error \in BOOLEAN
           /\ helper[f].sock = "raw" => helper[f].ident \in Idents
  BY DEF DInv, HelperType, StreamType, Phased, Queues, Answers, Runs, Own

LEMMA SendKeeps == ASSUME DInv, NEW f \in Flows, Send(f) PROVE DInv'
  <1> DEFINE h == helper[f]
  <1>1. /\ Runs(f, h) /\ helper' = [helper EXCEPT ![f] = h] /\ h.phase = "relay"
        /\ UNCHANGED <<closed, sent, table, flow, status, dn>>
    BY RunningFacts DEF Send, clientVars
  <1>2. StreamType' /\ \A g \in Flows : up'[g] \subseteq up[g]
    BY RunningFacts DEF Send, Take, StreamType
  <1>3. \A m \in wire' : \/ m \in wire
                         \/ /\ m.f = f /\ m.ident = h.ident /\ m.r \in Own(f)
                            /\ m.error \in BOOLEAN
                            /\ m = [f |-> m.f, ident |-> m.ident, r |-> m.r, error |-> m.error]
    BY RunningFacts DEF Send, Answering
  <1> QED BY <1>1, <1>2, <1>3, RunningKeeps

LEMMA SendFailsKeeps == ASSUME DInv, NEW f \in Flows, SendFails(f) PROVE DInv'
  <1> DEFINE h == [helper[f] EXCEPT !.errno = FALSE,
                                    !.up = IF helper[f].sock = "raw" THEN "run" ELSE "drain"]
  <1>1. helper[f].phase = "relay" /\ UNCHANGED <<closed, sent, table, flow, status, dn, wire>>
    BY RunningFacts DEF SendFails, clientVars
  <1>2. CASE Return(f, "done")
    BY <1>1, <1>2, ReturnKeeps
  <1>3. CASE helper' = [helper EXCEPT ![f] = h] /\ \E r \in up[f] : Take(f, r)
    <2>1. Runs(f, h)
      BY RunningFacts, <1>1, ZenonT(90) DEF Runs, HelperSet
    <2>2. StreamType' /\ \A g \in Flows : up'[g] \subseteq up[g]
      BY RunningFacts, <1>1, <1>3 DEF Take, StreamType
    <2> HIDE DEF h
    <2> QED BY <1>1, <1>3, <2>1, <2>2, RunningKeeps
  <1>4. \/ Return(f, "done")
        \/ helper' = [helper EXCEPT ![f] = h] /\ \E r \in up[f] : Take(f, r)
    <2>1. helper \in [Flows -> HelperSet]
      BY <1>1, RunningFacts
    <2> QED BY <2>1 DEF SendFails
  <1> QED BY <1>2, <1>3, <1>4

(* The frames of a set of answers. *)
LEMMA FramingIs ==
    ASSUME DInv, NEW f \in Flows, NEW A \in SUBSET [r : Nat, error : BOOLEAN], Framing(f, A)
    PROVE  /\ dn' \in [Flows -> SUBSET [r : Nat, error : BOOLEAN]]
           /\ \A g \in Flows : \A a \in dn'[g] : a \in dn[g] \/ (g = f /\ a \in A)
  BY DEF DInv, StreamType, Framing

LEMMA DrainedKeeps ==
    ASSUME DInv, NEW f \in Flows, helper[f].phase = "relay", Framing(f, Errors(f)),
           NEW u \in {helper[f].up, "run"},
           helper' = [helper EXCEPT ![f] = [Drained(f) EXCEPT !.up = u]],
           UNCHANGED <<closed, sent, table, flow, status, up, wire>>
    PROVE  DInv'
  <1> DEFINE h == [Drained(f) EXCEPT !.up = u]
  <1>1. Runs(f, h)
    BY RunningFacts, ZenonT(90) DEF Runs, HelperSet, Drained
  <1>2. /\ Errors(f) \in SUBSET [r : Nat, error : BOOLEAN]
        /\ \A a \in Errors(f) : a.r \in Own(f)
    <2>1. helper[f].errs \subseteq Own(f) /\ Own(f) \subseteq Nat
      BY RunningFacts
    <2>2. ASSUME NEW a \in Errors(f)
          PROVE  a \in [r : Nat, error : BOOLEAN] /\ a.r \in Own(f)
      <3>1. PICK n \in helper[f].errs : a = [r |-> n, error |-> TRUE]
        BY DEF Errors
      <3> QED BY <2>1, <3>1
    <2> QED BY <2>2
  <1>3. StreamType' /\ \A g \in Flows : \A a \in dn'[g] : a \in dn[g] \/ (g = f /\ a.r \in Own(f))
    BY <1>2, FramingIs, RunningFacts DEF StreamType
  <1> HIDE DEF h
  <1>4. helper' = [helper EXCEPT ![f] = h]
    BY DEF h
  <1> QED BY <1>1, <1>3, <1>4, RunningKeeps

LEMMA DrainKeeps == ASSUME DInv, NEW f \in Flows, Drain(f) PROVE DInv'
  <1>1. /\ helper[f].phase = "relay"
        /\ UNCHANGED <<closed, sent, table, flow, status, wire>>
    BY RunningFacts DEF Drain, clientVars
  <1>2. CASE /\ Framing(f, Errors(f)) /\ UNCHANGED up
             /\ helper' = [helper EXCEPT ![f] = [Drained(f) EXCEPT !.up = "run"]]
    BY <1>1, <1>2, DrainedKeeps
  <1>3. CASE Return(f, "done") /\ UNCHANGED dn
    BY <1>1, <1>3, ReturnKeeps
  <1> QED BY <1>2, <1>3 DEF Drain

LEMMA RecvFailsKeeps == ASSUME DInv, NEW f \in Flows, RecvFails(f) PROVE DInv'
  <1>1. /\ helper[f].phase = "relay" /\ helper[f] \in HelperSet
        /\ UNCHANGED <<closed, sent, table, flow, status, up, wire>>
    BY RunningFacts DEF RecvFails, clientVars
  <1>2. CASE helper' = [helper EXCEPT ![f] = Drained(f)] /\ Framing(f, Errors(f))
    <2>1. Drained(f) = [Drained(f) EXCEPT !.up = helper[f].up]
      BY <1>1 DEF Drained, HelperSet
    <2> QED BY <1>1, <1>2, <2>1, DrainedKeeps
  <1>3. CASE Closing(f) /\ UNCHANGED dn
    BY <1>1, <1>3, ClosingKeeps
  <1> QED BY <1>2, <1>3 DEF RecvFails

(* The raw socket takes what carries its identifier: without a clash that  *)
(* is an answer to its own flow.                                           *)
LEMMA RecvKeeps == ASSUME DInv, NEW f \in Flows, Recv(f) PROVE DInv'
  <1>1. /\ helper[f].phase = "relay" /\ UNCHANGED <<closed, sent, table, flow, status, up>>
    BY RunningFacts DEF Recv, clientVars
  <1>2. PICK m \in wire : /\ Mine(f, m) /\ wire' = wire \ {m}
                          /\ \/ /\ Framing(f, {[r |-> m.r, error |-> m.error]})
                                /\ UNCHANGED <<helper, dnEnd>>
                             \/ Closing(f) /\ UNCHANGED dn
    BY DEF Recv, Frame
  <1>3. CASE Closing(f) /\ UNCHANGED dn
    BY <1>1, <1>2, <1>3, ClosingKeeps
  <1>4. CASE Framing(f, {[r |-> m.r, error |-> m.error]}) /\ UNCHANGED <<helper, dnEnd>>
    <2> DEFINE h == helper[f]
    <2>1. ~Clash' => m.r \in Own(f)
      <3>1. Clash' = Clash
        BY <1>4 DEF Clash
      <3>2. m.f # f => Clash
        <4> SUFFICES ASSUME m.f # f PROVE Clash
          OBVIOUS
        <4>1. helper[f].sock = "raw" /\ m.ident = helper[f].ident
          BY <1>2 DEF Mine
        <4>2. m.f \in Flows /\ helper[m.f].ident = helper[f].ident /\ helper[f].ident \in Idents
          BY <1>1, <4>1, RunningFacts
        <4> QED BY <4>2 DEF Clash
      <3> QED BY <1>1, <3>1, <3>2, RunningFacts
    <2>2. {[r |-> m.r, error |-> m.error]} \in SUBSET [r : Nat, error : BOOLEAN]
      BY <1>1, RunningFacts
    <2>3. StreamType' /\ \A g \in Flows : \A a \in dn'[g] : a \in dn[g] \/ (g = f /\ a.r = m.r)
      BY <1>1, <1>4, <2>2, FramingIs, RunningFacts DEF StreamType
    <2>4. Runs(f, h) /\ helper' = [helper EXCEPT ![f] = h]
      BY <1>1, <1>4, RunningFacts
    <2> HIDE DEF h
    <2> QED BY <1>1, <1>2, <2>1, <2>3, <2>4, RunningKeeps
  <1> QED BY <1>2, <1>3, <1>4

LEMMA HelperEndsKeep == ASSUME DInv, NEW f \in Flows, UpEnds(f) \/ Idle(f) PROVE DInv'
  <1>1. helper[f].phase = "relay"
    BY RunningFacts DEF UpEnds, Idle
  <1>2. CASE UpEnds(f)
    BY <1>1, <1>2, ReturnKeeps DEF UpEnds, clientVars
  <1>3. CASE Idle(f)
    BY <1>1, <1>3, ClosingKeeps DEF Idle, clientVars
  <1> QED BY <1>2, <1>3

LEMMA ErrorKeeps == ASSUME DInv, NEW f \in Flows, ErrorArrives(f) PROVE DInv'
  <1>1. Open(f)
    BY DEF ErrorArrives, Open
  <1>2. /\ helper[f].phase = "relay"
        /\ UNCHANGED <<closed, sent, table, flow, status, up, dn>>
    BY <1>1, RunningFacts DEF ErrorArrives, clientVars, streamVars
  <1>3. PICK m \in wire : m.f = f /\ wire' = wire \ {m}
             /\ helper' = [helper EXCEPT ![f].errs = @ \cup {m.r}, ![f].errno = TRUE]
    BY DEF ErrorArrives
  <1> DEFINE h == [helper[f] EXCEPT !.errs = @ \cup {m.r}, !.errno = TRUE]
  <1>4. Runs(f, h)
    <2>1. m.r \in Own(f) /\ m.r \in Nat
      BY <1>2, <1>3, RunningFacts
    <2> QED BY <1>2, <2>1, RunningFacts, ZenonT(90) DEF Runs, HelperSet
  <1>5. helper' = [helper EXCEPT ![f] = h]
    BY <1>2, <1>3, RunningFacts
  <1>6. StreamType'
    BY <1>2 DEF DInv, StreamType
  <1> HIDE DEF h
  <1> QED BY <1>2, <1>3, <1>4, <1>5, <1>6, RunningKeeps
-----------------------------------------------------------------------------
LEMMA DInvInit == Init => DInv
  <1> SUFFICES ASSUME Init PROVE DInv
    OBVIOUS
  <1>1. NoFlow \in FlowSet /\ NoHelper \in HelperSet
    <2>1. <<>> \in Seq(Nat)
      OBVIOUS
    <2> QED BY <2>1 DEF NoFlow, FlowSet, NoHelper, HelperSet
  <1>2. FlowType /\ HelperType /\ StreamType
    <2>1. <<>> \in Seq([key : Keys, src : Sources, flow : 0..MaxFlows])
      OBVIOUS
    <2> QED BY <1>1, <2>1, BoundAssumption DEF Init, FlowType, HelperType, StreamType
  <1>3. Serving /\ Keyed /\ Phased
    BY DEF Init, Serving, Keyed, Lives, Phased, Open, NoFlow, NoHelper
  <1>4. Queues /\ Answers
    BY DEF Init, Queues, Answers, NoFlow, NoHelper
  <1> QED BY <1>2, <1>3, <1>4 DEF DInv

LEMMA DInvNext == DInv /\ [Next]_vars => DInv'
  <1> SUFFICES ASSUME DInv, [Next]_vars PROVE DInv'
    OBVIOUS
  <1>1. ASSUME NEW k \in Keys, NEW s \in Sources, Capture(k, s) PROVE DInv'
    BY <1>1, CapturesKeep
  <1>2. ASSUME NEW f \in Flows, Client(f) PROVE DInv'
    BY <1>2, DialKeeps, DialFailsKeeps, WriteKeeps, EndsKeep DEF Client
  <1>3. ASSUME NEW f \in Flows, Helper(f) PROVE DInv'
    BY <1>3, BeginsKeep, SendKeeps, SendFailsKeeps, DrainKeeps, RecvKeeps, RecvFailsKeeps,
       HelperEndsKeep DEF Helper
  <1>4. ASSUME NEW f \in Flows, ErrorArrives(f) PROVE DInv'
    BY <1>4, ErrorKeeps
  <1>5. CASE Close
    BY <1>5, CloseKeeps
  <1>6. CASE Lose \/ UNCHANGED vars
    BY <1>6, LoseKeeps
  <1> QED BY <1>1, <1>2, <1>3, <1>4, <1>5, <1>6 DEF Next

(* In every reachable state a request, its answer and the errors for it    *)
(* are in the places of its own flow: the queue and the stream of the data *)
(* plane, the socket and the error queue of the helper.                    *)
THEOREM DatagramInvariant == Spec => []DInv
  BY DInvInit, DInvNext, PTL DEF Spec

(* For any number of flows, sources and identifiers, the answer that the   *)
(* reader of a flow would write to the device is for a request of that     *)
(* flow, unless two raw sockets drew one identifier, and it goes to a      *)
(* source that sent to that key (deliverEcho, relayUDP, relayEcho).        *)
THEOREM AnswersAreMine == Spec => []AnswerIsMine
  <1>1. DInv => AnswerIsMine
    <2> SUFFICES ASSUME DInv, NEW f \in Flows, NEW p \in Packets(f)
                 PROVE  p.to \in Senders(p.key) /\ (~Clash => sent[p.r].flow = f)
      BY DEF AnswerIsMine
    <2>1. PICK a \in dn[f] : /\ flow[f].src # "none"
                             /\ p = [r |-> a.r, key |-> flow[f].key, to |-> flow[f].src]
      BY DEF Packets, BuildEchoReply, BuildICMPError, Inner
    <2>2. p.r = a.r /\ p.key = flow[f].key /\ p.to = flow[f].src
      BY <2>1
    <2>3. p.to \in Senders(p.key)
      BY <2>1, <2>2 DEF DInv, Queues
    <2>4. ~Clash => sent[p.r].flow = f
      BY <2>2 DEF DInv, Answers, Own
    <2> QED BY <2>3, <2>4
  <1> QED BY <1>1, DatagramInvariant, PTL

(* A step takes an entry from the table only with its flow, or when the    *)
(* data plane closes: the end of another flow does not.                    *)
LEMMA EntriesStay == DInv /\ [Next]_vars => [\A k \in Keys : EntryStays(k)]_vars
  <1> SUFFICES ASSUME DInv, Next, NEW k \in Keys, table[k] # 0, table'[k] # table[k]
               PROVE  closed' # closed \/ flow'[table[k]].phase = "over"
    BY DEF EntryStays
  <1>1. /\ table \in [Keys -> 0..MaxFlows] /\ flow \in [Flows -> FlowSet]
        /\ table[k] \in Flows
    BY BoundAssumption DEF DInv, FlowType, Flows
  <1>2. ASSUME NEW f \in Flows, NEW x, flow' = [flow EXCEPT ![f] = x], x.phase = "over",
               table' = table \/ table' = DropFlow(f)
        PROVE  flow'[table[k]].phase = "over"
    <2>1. table[k] = f
      BY <1>2 DEF DropFlow
    <2> QED BY <1>1, <1>2, <2>1
  <1>3. ASSUME NEW f \in Flows, NEW reader, Finish(f, reader)
        PROVE  flow'[table[k]].phase = "over"
    <2> DEFINE F == {f} \cap {g \in Flows : flow[g].phase = "run"}
               n == IF F = {} THEN flow[f].closes ELSE flow[f].closes + 1
               x == [flow[f] EXCEPT !.phase = "over", !.reader = reader, !.queue = <<>>, !.closes = n]
    <2>1. flow' = [flow EXCEPT ![f] = x] /\ (table' = table \/ table' = DropFlow(f))
      BY <1>1, <1>3 DEF Finish
    <2>2. x.phase = "over"
      <3> HIDE DEF n
      <3> QED BY <1>1 DEF FlowSet
    <2> HIDE DEF x
    <2> QED BY <1>2, <2>1, <2>2
  <1>4. ASSUME NEW f \in Flows, DialFails(f) PROVE flow'[table[k]].phase = "over"
    <2> DEFINE x == [flow[f] EXCEPT !.phase = "over", !.queue = <<>>]
    <2>1. flow' = [flow EXCEPT ![f] = x] /\ table' = DropFlow(f)
      BY <1>1, <1>4 DEF DialFails
    <2>2. x.phase = "over"
      BY <1>1 DEF FlowSet
    <2> HIDE DEF x
    <2> QED BY <1>2, <2>1, <2>2
  <1>5. ASSUME NEW l \in Keys, NEW s \in Sources, Capture(l, s) PROVE FALSE
    BY <1>1, <1>5 DEF Capture
  <1>6. ASSUME NEW f \in Flows, Client(f)
        PROVE  DialFails(f) \/ \E reader : Finish(f, reader)
    BY <1>6 DEF Client, Dial, Write, WriterEnds, StatusEnds, Read, ReaderEnds
  <1>7. ASSUME NEW f \in Flows, Helper(f) \/ ErrorArrives(f) PROVE FALSE
    BY <1>7 DEF Helper, ErrorArrives, clientVars, ServeUDP, RefuseUDP, OpenEcho, NoSocket, Send,
                SendFails, Drain, Recv, RecvFails, UpEnds, Idle
  <1>8. ASSUME Close PROVE closed' # closed
    <2>1. closed' = TRUE /\ ~closed
      BY <1>8 DEF Close
    <2> QED BY <2>1, Zenon
  <1>9. ~Lose
    BY DEF Lose, clientVars
  <1> QED BY <1>3, <1>4, <1>5, <1>6, <1>7, <1>8, <1>9 DEF Next

(* For any keys and flows, a key leads to a flow of its own that has not   *)
(* ended, until the close of the data plane to the only one, and it leads  *)
(* there until that flow ends (echoFlow, dropEchoFlow, closeEchoFlows).    *)
THEOREM TablesServe == Spec => TableServes
  <1>1. DInv => Serving
    BY DEF DInv
  <1> QED BY <1>1, EntriesStay, DatagramInvariant, PTL DEF Spec, TableServes
=============================================================================
