--------------------------- MODULE TcpFlowProofs ---------------------------
(***************************************************************************)
(* Proofs about TcpFlow, for any amount of data and any buffer.  Both      *)
(* directions of a flow have the same invariant: as long as nothing        *)
(* outside the relays fails, a pipe ends only after the pipe before it has *)
(* ended and was read to its end.                                          *)
(***************************************************************************)
EXTENDS TcpFlow, TLAPS

(* The places of client and helper. *)
Places ==
    /\ kind \in {"quic", "ssh"}
    /\ end \in [Pipes -> Ends] /\ copy \in [Copies -> {"off", "run", "done"}]
    /\ client \in {"dial", "status", "endpoint", "relay", "over", "refused", "failed"}
    /\ helper \in {"none", "dial", "ok", "over", "refused"}
    /\ sawA \in {"none", "fin", "err"} /\ sawB \in {"none", "fin", "err"}
    /\ faults \subseteq {"lost", "resetA", "resetB", "endpoint", "timer"}

(* What a copying goroutine has read it has written. *)
Carried ==
    /\ put \in [Pipes -> Nat] /\ got \in [Pipes -> Nat]
    /\ \A p \in Pipes : got[p] <= put[p]
    /\ put["a2c"] <= MaxUp /\ put["b2h"] <= MaxDown
    /\ put["sup"] = got["a2c"] /\ put["h2b"] = got["sup"]
    /\ put["sdn"] = got["b2h"] /\ put["c2a"] = got["sdn"]

(* The client passes the status only with a helper that has dialed. *)
Dialed ==
    /\ client = "dial" => helper = "none"
    /\ client = "status" => helper # "none"
    /\ client \in {"endpoint", "relay", "over", "failed"} => helper \in {"ok", "over"}
    /\ client = "refused" => helper \in {"none", "refused"} \/ "lost" \in faults

(* Before a side relays, its goroutines do not run and its pipes are open. *)
Begun ==
    /\ client = "dial" => \A p \in Pipes : end[p] = "open"
    /\ client \notin {"relay", "over"} => copy["cup"] = "off" /\ copy["cdn"] = "off"
    /\ client \in {"status", "endpoint"} =>
           /\ end["a2c"] = "open" /\ end["sup"] = "open" /\ end["c2a"] = "open"
           /\ end["sdn"] # "err"
    /\ helper \notin {"ok", "over"} => copy["hup"] = "off" /\ copy["hdn"] = "off"
    /\ helper = "dial" => end["h2b"] = "open" /\ end["b2h"] = "open" /\ end["sdn"] = "open"

(* A direction: n is written by its source, goroutine g copies n to m, and *)
(* h copies m to f, which its sink reads.                                  *)
Line(n, g, m, h, f) ==
    /\ end[n] # "cut" /\ end[m] # "cut" /\ end[f] # "cut"
    /\ copy[g] = "run" => end[n] \in {"open", "fin"} /\ end[m] = "open"
    /\ copy[g] = "done" <=> end[m] = "fin"
    /\ end[m] = "fin" => end[n] = "fin" /\ got[n] = put[n]
    /\ copy[h] = "run" => end[m] \in {"open", "fin"} /\ end[f] = "open"
    /\ copy[h] = "done" <=> end[f] = "fin"
    /\ end[f] = "fin" => end[m] = "fin" /\ got[m] = put[m]

Seen(saw, f) == saw = "fin" => end[f] = "fin" /\ got[f] = put[f]

Relayed == /\ Line("a2c", "cup", "sup", "hup", "h2b") /\ Seen(sawB, "h2b")
           /\ Line("b2h", "hdn", "sdn", "cdn", "c2a") /\ Seen(sawA, "c2a")

FInv == Places /\ Carried /\ Dialed /\ (faults = {} => Begun /\ Relayed)

(* Faults are only added. *)
LEMMA FaultsGrow == ASSUME Next, faults' = {} PROVE faults = {}
  BY DEF Next, Dials, Relays, Peers, OpenStream, OpenFails, Refuse, HelperDials, HelperRefused,
         StatusOK, StatusBad, CreateEndpoint, EndpointFails, ClientEnds, HelperEnds, Copy, CopyEnds,
         AReads, BReads, ReadFrom, ASees, BSees, AWrites, BWrites, WriteTo, ACloses, BCloses,
         AResets, BResets, Lose, HelperExits, StreamCloseTimeout, CloseTimeout
-----------------------------------------------------------------------------

(* The places stay what they are. *)
LEMMA PlacesKept == ASSUME FInv, Next PROVE Places'
  <1> USE DEF FInv, Places, Pipes, Ends, Copies
  <1>1. CASE OpenStream
    BY <1>1 DEF OpenStream
  <1>2. CASE OpenFails
    BY <1>2 DEF OpenFails, Refuse, Ended, Reset, Buffered
  <1>3. CASE HelperDials
    BY <1>3 DEF HelperDials
  <1>4. CASE HelperRefused
    BY <1>4 DEF HelperRefused, Ended
  <1>5. CASE StatusOK
    BY <1>5 DEF StatusOK
  <1>6. CASE StatusBad
    BY <1>6 DEF StatusBad, Refuse, Ended, Reset, Buffered
  <1>7. CASE CreateEndpoint
    BY <1>7 DEF CreateEndpoint, Ends
  <1>8. CASE EndpointFails
    BY <1>8 DEF EndpointFails, Ended
  <1>9. CASE ClientEnds
    BY <1>9 DEF ClientEnds, BothDone, Side, SecondClose, Ended
  <1>10. CASE HelperEnds
    BY <1>10 DEF HelperEnds, BothDone, Side, SecondClose, Ended
  <1>11. CASE AReads
    BY <1>11 DEF AReads, Up, ReadFrom, Buffered
  <1>12. CASE BReads
    BY <1>12 DEF BReads, BUp, ReadFrom, Buffered
  <1>13. CASE ASees
    BY <1>13 DEF ASees, Eof, SeenAt, Buffered
  <1>14. CASE BSees
    BY <1>14 DEF BSees, BUp, Eof, SeenAt, Buffered
  <1>15. CASE AWrites
    BY <1>15 DEF AWrites, Up, WriteTo, Writable, Space, Buffered
  <1>16. CASE BWrites
    BY <1>16 DEF BWrites, BUp, WriteTo, Writable, Space, Buffered
  <1>17. CASE ACloses
    BY <1>17 DEF ACloses, Up, Writable, Ended
  <1>18. CASE BCloses
    BY <1>18 DEF BCloses, BUp, Writable, Ended
  <1>19. CASE AResets
    BY <1>19 DEF AResets, Up, Reset, Buffered
  <1>20. CASE BResets
    BY <1>20 DEF BResets, BUp, Reset, Buffered
  <1>21. CASE Lose
    BY <1>21 DEF Lose, Reset, Buffered
  <1>22. CASE HelperExits
    BY <1>22 DEF HelperExits, Ended, Side
  <1>23. CASE StreamCloseTimeout
    <2>1. Reset(end, {"sup"}) \in [Pipes -> Ends] /\ Reset(end, {"sdn"}) \in [Pipes -> Ends]
      BY DEF Reset
    <2>2. end' \in [Pipes -> Ends]
      <3>1. CASE CloseTimeout("sup", "sdn")
        BY <2>1, <3>1 DEF CloseTimeout
      <3>2. CASE CloseTimeout("sdn", "sup")
        BY <2>1, <3>2 DEF CloseTimeout
      <3> QED BY <1>23, <3>1, <3>2 DEF StreamCloseTimeout
    <2> QED BY <1>23, <2>2 DEF StreamCloseTimeout, CloseTimeout
  <1>24. ASSUME NEW g \in Copies, Copy(g) PROVE Places'
    BY <1>24 DEF Copy, Buffered, Writable, Space, From, To
  <1>25. ASSUME NEW g \in Copies, CopyEnds(g) PROVE Places'
    BY <1>25 DEF CopyEnds, CopyOver, Ended, Eof, Buffered, Writable, From, To
  <1> QED BY <1>1, <1>2, <1>3, <1>4, <1>5, <1>6, <1>7, <1>8, <1>9, <1>10, <1>11, <1>12,
     <1>13, <1>14, <1>15, <1>16, <1>17, <1>18, <1>19, <1>20, <1>21, <1>22, <1>23, <1>24,
     <1>25 DEF Next, Dials, Relays, Peers

(* A goroutine reads and writes one unit in one step. *)
LEMMA CarriedKept == ASSUME FInv, Next PROVE Carried'
  <1> USE DataAssumption DEF FInv, Carried, Pipes, Copies
  <1>1. CASE OpenStream
    BY <1>1 DEF OpenStream
  <1>2. CASE OpenFails
    BY <1>2 DEF OpenFails, Refuse, Ended, Reset, Buffered
  <1>3. CASE HelperDials
    BY <1>3 DEF HelperDials
  <1>4. CASE HelperRefused
    BY <1>4 DEF HelperRefused, Ended
  <1>5. CASE StatusOK
    BY <1>5 DEF StatusOK
  <1>6. CASE StatusBad
    BY <1>6 DEF StatusBad, Refuse, Ended, Reset, Buffered
  <1>7. CASE CreateEndpoint
    BY <1>7 DEF CreateEndpoint, Ends
  <1>8. CASE EndpointFails
    BY <1>8 DEF EndpointFails, Ended
  <1>9. CASE ClientEnds
    BY <1>9 DEF ClientEnds, BothDone, Side, SecondClose, Ended
  <1>10. CASE HelperEnds
    BY <1>10 DEF HelperEnds, BothDone, Side, SecondClose, Ended
  <1>11. CASE AReads
    BY <1>11 DEF AReads, Up, ReadFrom, Buffered
  <1>12. CASE BReads
    BY <1>12 DEF BReads, BUp, ReadFrom, Buffered
  <1>13. CASE ASees
    BY <1>13 DEF ASees, Eof, SeenAt, Buffered
  <1>14. CASE BSees
    BY <1>14 DEF BSees, BUp, Eof, SeenAt, Buffered
  <1>15. CASE AWrites
    BY <1>15 DEF AWrites, Up, WriteTo, Writable, Space, Buffered
  <1>16. CASE BWrites
    BY <1>16 DEF BWrites, BUp, WriteTo, Writable, Space, Buffered
  <1>17. CASE ACloses
    BY <1>17 DEF ACloses, Up, Writable, Ended
  <1>18. CASE BCloses
    BY <1>18 DEF BCloses, BUp, Writable, Ended
  <1>19. CASE AResets
    BY <1>19 DEF AResets, Up, Reset, Buffered
  <1>20. CASE BResets
    BY <1>20 DEF BResets, BUp, Reset, Buffered
  <1>21. CASE Lose
    BY <1>21 DEF Lose, Reset, Buffered
  <1>22. CASE HelperExits
    BY <1>22 DEF HelperExits, Ended, Side
  <1>23. CASE StreamCloseTimeout
    BY <1>23 DEF StreamCloseTimeout, CloseTimeout, Reset, Buffered
  <1>24. ASSUME NEW g \in Copies, Copy(g) PROVE Carried'
    BY <1>24 DEF Copy, Buffered, Writable, Space, From, To
  <1>25. ASSUME NEW g \in Copies, CopyEnds(g) PROVE Carried'
    BY <1>25 DEF CopyEnds, CopyOver, Ended, Eof, Buffered, Writable, From, To
  <1> QED BY <1>1, <1>2, <1>3, <1>4, <1>5, <1>6, <1>7, <1>8, <1>9, <1>10, <1>11, <1>12,
     <1>13, <1>14, <1>15, <1>16, <1>17, <1>18, <1>19, <1>20, <1>21, <1>22, <1>23, <1>24,
     <1>25 DEF Next, Dials, Relays, Peers

(* The client waits for the status, and the helper for its dial. *)
LEMMA DialedKept == ASSUME FInv, Next PROVE Dialed'
  <1> USE DEF FInv, Places, Dialed
  <1>1. CASE OpenStream
    BY <1>1 DEF OpenStream
  <1>2. CASE OpenFails
    BY <1>2 DEF OpenFails, Refuse, Ended, Reset, Buffered
  <1>3. CASE HelperDials
    BY <1>3 DEF HelperDials
  <1>4. CASE HelperRefused
    BY <1>4 DEF HelperRefused, Ended
  <1>5. CASE StatusOK
    BY <1>5 DEF StatusOK
  <1>6. CASE StatusBad
    BY <1>6 DEF StatusBad, Refuse, Ended, Reset, Buffered
  <1>7. CASE CreateEndpoint
    BY <1>7 DEF CreateEndpoint, Ends
  <1>8. CASE EndpointFails
    BY <1>8 DEF EndpointFails, Ended
  <1>9. CASE ClientEnds
    BY <1>9 DEF ClientEnds, BothDone, Side, SecondClose, Ended
  <1>10. CASE HelperEnds
    BY <1>10 DEF HelperEnds, BothDone, Side, SecondClose, Ended
  <1>11. CASE AReads
    BY <1>11 DEF AReads, Up, ReadFrom, Buffered
  <1>12. CASE BReads
    BY <1>12 DEF BReads, BUp, ReadFrom, Buffered
  <1>13. CASE ASees
    BY <1>13 DEF ASees, Eof, SeenAt, Buffered
  <1>14. CASE BSees
    BY <1>14 DEF BSees, BUp, Eof, SeenAt, Buffered
  <1>15. CASE AWrites
    BY <1>15 DEF AWrites, Up, WriteTo, Writable, Space, Buffered
  <1>16. CASE BWrites
    BY <1>16 DEF BWrites, BUp, WriteTo, Writable, Space, Buffered
  <1>17. CASE ACloses
    BY <1>17 DEF ACloses, Up, Writable, Ended
  <1>18. CASE BCloses
    BY <1>18 DEF BCloses, BUp, Writable, Ended
  <1>19. CASE AResets
    BY <1>19 DEF AResets, Up, Reset, Buffered
  <1>20. CASE BResets
    BY <1>20 DEF BResets, BUp, Reset, Buffered
  <1>21. CASE Lose
    BY <1>21 DEF Lose, Reset, Buffered
  <1>22. CASE HelperExits
    BY <1>22 DEF HelperExits, Ended, Side
  <1>23. CASE StreamCloseTimeout
    BY <1>23 DEF StreamCloseTimeout, CloseTimeout, Reset, Buffered
  <1>24. ASSUME NEW g \in Copies, Copy(g) PROVE Dialed'
    BY <1>24 DEF Copy, Buffered, Writable, Space, From, To
  <1>25. ASSUME NEW g \in Copies, CopyEnds(g) PROVE Dialed'
    BY <1>25 DEF CopyEnds, CopyOver, Ended, Eof, Buffered, Writable, From, To
  <1> QED BY <1>1, <1>2, <1>3, <1>4, <1>5, <1>6, <1>7, <1>8, <1>9, <1>10, <1>11, <1>12,
     <1>13, <1>14, <1>15, <1>16, <1>17, <1>18, <1>19, <1>20, <1>21, <1>22, <1>23, <1>24,
     <1>25 DEF Next, Dials, Relays, Peers

(* A side that has not begun: the other side cannot end its pipes. *)
LEMMA BegunKept == ASSUME FInv, Next, faults' = {} PROVE Begun'
  <1> USE FaultsGrow DEF FInv, Places, Carried, Dialed, Begun, Relayed, Line, Pipes,
     Copies
  <1>1. CASE OpenStream
    BY <1>1 DEF OpenStream
  <1>2. CASE OpenFails
    BY <1>2 DEF OpenFails, Refuse, Ended, Reset, Buffered
  <1>3. CASE HelperDials
    BY <1>3 DEF HelperDials
  <1>4. CASE HelperRefused
    BY <1>4 DEF HelperRefused, Ended
  <1>5. CASE StatusOK
    BY <1>5 DEF StatusOK
  <1>6. CASE StatusBad
    BY <1>6 DEF StatusBad, Refuse, Ended, Reset, Buffered
  <1>7. CASE CreateEndpoint
    BY <1>7 DEF CreateEndpoint, Ends
  <1>8. CASE ClientEnds
    BY <1>8 DEF ClientEnds, BothDone, Side, SecondClose, Ended
  <1>9. CASE HelperEnds
    BY <1>9 DEF HelperEnds, BothDone, Side, SecondClose, Ended
  <1>10. CASE AReads
    BY <1>10 DEF AReads, Up, ReadFrom, Buffered
  <1>11. CASE BReads
    BY <1>11 DEF BReads, BUp, ReadFrom, Buffered
  <1>12. CASE ASees
    BY <1>12 DEF ASees, Eof, SeenAt, Buffered
  <1>13. CASE BSees
    BY <1>13 DEF BSees, BUp, Eof, SeenAt, Buffered
  <1>14. CASE AWrites
    BY <1>14 DEF AWrites, Up, WriteTo, Writable, Space, Buffered
  <1>15. CASE BWrites
    BY <1>15 DEF BWrites, BUp, WriteTo, Writable, Space, Buffered
  <1>16. CASE ACloses
    BY <1>16 DEF ACloses, Up, Writable, Ended
  <1>17. CASE BCloses
    BY <1>17 DEF BCloses, BUp, Writable, Ended
  <1>18. ASSUME NEW g \in Copies, Copy(g) PROVE Begun'
    BY <1>18 DEF Copy, Buffered, Writable, Space, From, To
  <1>19. ASSUME NEW g \in Copies, CopyEnds(g) PROVE Begun'
    BY <1>19 DEF CopyEnds, CopyOver, Ended, Eof, Buffered, Writable, From, To
  <1>20. ~(EndpointFails \/ AResets \/ BResets \/ Lose \/ HelperExits \/
     StreamCloseTimeout)
    BY DEF AResets, BResets, EndpointFails, HelperExits, Lose, StreamCloseTimeout,
       CloseTimeout, FInv, Places
  <1> QED BY <1>1, <1>2, <1>3, <1>4, <1>5, <1>6, <1>7, <1>8, <1>9, <1>10, <1>11, <1>12,
     <1>13, <1>14, <1>15, <1>16, <1>17, <1>18, <1>19, <1>20 DEF Next, Dials, Relays,
     Peers

(* From A to B: a pipe ends after the one before it. *)
LEMMA UpKept == ASSUME FInv, Next, faults' = {} PROVE Line("a2c", "cup", "sup", "hup", "h2b")'
  <1> USE FaultsGrow DEF FInv, Places, Carried, Dialed, Begun, Relayed, Line, Pipes,
     Copies
  <1>1. CASE OpenStream
    BY <1>1 DEF OpenStream
  <1>2. CASE OpenFails
    BY <1>2 DEF OpenFails, Refuse, Ended, Reset, Buffered
  <1>3. CASE HelperDials
    BY <1>3 DEF HelperDials
  <1>4. CASE HelperRefused
    BY <1>4 DEF HelperRefused, Ended
  <1>5. CASE StatusOK
    BY <1>5 DEF StatusOK
  <1>6. CASE StatusBad
    BY <1>6 DEF StatusBad, Refuse, Ended, Reset, Buffered
  <1>7. CASE CreateEndpoint
    BY <1>7 DEF CreateEndpoint, Ends
  <1>8. CASE ClientEnds
    BY <1>8 DEF ClientEnds, BothDone, Side, SecondClose, Ended
  <1>9. CASE HelperEnds
    BY <1>9 DEF HelperEnds, BothDone, Side, SecondClose, Ended
  <1>10. CASE AReads
    BY <1>10 DEF AReads, Up, ReadFrom, Buffered
  <1>11. CASE BReads
    BY <1>11 DEF BReads, BUp, ReadFrom, Buffered
  <1>12. CASE ASees
    BY <1>12 DEF ASees, Eof, SeenAt, Buffered
  <1>13. CASE BSees
    BY <1>13 DEF BSees, BUp, Eof, SeenAt, Buffered
  <1>14. CASE AWrites
    BY <1>14 DEF AWrites, Up, WriteTo, Writable, Space, Buffered
  <1>15. CASE BWrites
    BY <1>15 DEF BWrites, BUp, WriteTo, Writable, Space, Buffered
  <1>16. CASE ACloses
    BY <1>16 DEF ACloses, Up, Writable, Ended
  <1>17. CASE BCloses
    BY <1>17 DEF BCloses, BUp, Writable, Ended
  <1>18. ASSUME NEW g \in Copies, Copy(g) PROVE Line("a2c", "cup", "sup", "hup", "h2b")'
    BY <1>18 DEF Copy, Buffered, Writable, Space, From, To
  <1>19. ASSUME NEW g \in Copies, CopyEnds(g) PROVE Line("a2c", "cup", "sup", "hup", "h2b")'
    BY <1>19 DEF CopyEnds, CopyOver, Ended, Eof, Buffered, Writable, From, To
  <1>20. ~(EndpointFails \/ AResets \/ BResets \/ Lose \/ HelperExits \/
     StreamCloseTimeout)
    BY DEF AResets, BResets, EndpointFails, HelperExits, Lose, StreamCloseTimeout,
       CloseTimeout, FInv, Places
  <1> QED BY <1>1, <1>2, <1>3, <1>4, <1>5, <1>6, <1>7, <1>8, <1>9, <1>10, <1>11, <1>12,
     <1>13, <1>14, <1>15, <1>16, <1>17, <1>18, <1>19, <1>20 DEF Next, Dials, Relays,
     Peers

(* From B to A. *)
LEMMA DownKept == ASSUME FInv, Next, faults' = {} PROVE Line("b2h", "hdn", "sdn", "cdn", "c2a")'
  <1> USE FaultsGrow DEF FInv, Places, Carried, Dialed, Begun, Relayed, Line, Pipes,
     Copies
  <1>1. CASE OpenStream
    BY <1>1 DEF OpenStream
  <1>2. CASE OpenFails
    BY <1>2 DEF OpenFails, Refuse, Ended, Reset, Buffered
  <1>3. CASE HelperDials
    BY <1>3 DEF HelperDials
  <1>4. CASE HelperRefused
    BY <1>4 DEF HelperRefused, Ended
  <1>5. CASE StatusOK
    BY <1>5 DEF StatusOK
  <1>6. CASE StatusBad
    BY <1>6 DEF StatusBad, Refuse, Ended, Reset, Buffered
  <1>7. CASE CreateEndpoint
    BY <1>7 DEF CreateEndpoint, Ends
  <1>8. CASE ClientEnds
    BY <1>8 DEF ClientEnds, BothDone, Side, SecondClose, Ended
  <1>9. CASE HelperEnds
    BY <1>9 DEF HelperEnds, BothDone, Side, SecondClose, Ended
  <1>10. CASE AReads
    BY <1>10 DEF AReads, Up, ReadFrom, Buffered
  <1>11. CASE BReads
    BY <1>11 DEF BReads, BUp, ReadFrom, Buffered
  <1>12. CASE ASees
    BY <1>12 DEF ASees, Eof, SeenAt, Buffered
  <1>13. CASE BSees
    BY <1>13 DEF BSees, BUp, Eof, SeenAt, Buffered
  <1>14. CASE AWrites
    BY <1>14 DEF AWrites, Up, WriteTo, Writable, Space, Buffered
  <1>15. CASE BWrites
    BY <1>15 DEF BWrites, BUp, WriteTo, Writable, Space, Buffered
  <1>16. CASE ACloses
    BY <1>16 DEF ACloses, Up, Writable, Ended
  <1>17. CASE BCloses
    BY <1>17 DEF BCloses, BUp, Writable, Ended
  <1>18. ASSUME NEW g \in Copies, Copy(g) PROVE Line("b2h", "hdn", "sdn", "cdn", "c2a")'
    BY <1>18 DEF Copy, Buffered, Writable, Space, From, To
  <1>19. ASSUME NEW g \in Copies, CopyEnds(g) PROVE Line("b2h", "hdn", "sdn", "cdn", "c2a")'
    BY <1>19 DEF CopyEnds, CopyOver, Ended, Eof, Buffered, Writable, From, To
  <1>20. ~(EndpointFails \/ AResets \/ BResets \/ Lose \/ HelperExits \/
     StreamCloseTimeout)
    BY DEF AResets, BResets, EndpointFails, HelperExits, Lose, StreamCloseTimeout,
       CloseTimeout, FInv, Places
  <1> QED BY <1>1, <1>2, <1>3, <1>4, <1>5, <1>6, <1>7, <1>8, <1>9, <1>10, <1>11, <1>12,
     <1>13, <1>14, <1>15, <1>16, <1>17, <1>18, <1>19, <1>20 DEF Next, Dials, Relays,
     Peers

(* An end that was read stays the end. *)
LEMMA SeenKept == ASSUME FInv, Next, faults' = {} PROVE (Seen(sawB, "h2b") /\ Seen(sawA, "c2a"))'
  <1> USE FaultsGrow DEF FInv, Places, Carried, Relayed, Line, Seen, Pipes, Copies
  <1>1. CASE OpenStream
    BY <1>1 DEF OpenStream
  <1>2. CASE OpenFails
    BY <1>2 DEF OpenFails, Refuse, Ended, Reset, Buffered
  <1>3. CASE HelperDials
    BY <1>3 DEF HelperDials
  <1>4. CASE HelperRefused
    BY <1>4 DEF HelperRefused, Ended
  <1>5. CASE StatusOK
    BY <1>5 DEF StatusOK
  <1>6. CASE StatusBad
    BY <1>6 DEF StatusBad, Refuse, Ended, Reset, Buffered
  <1>7. CASE CreateEndpoint
    BY <1>7 DEF CreateEndpoint, Ends
  <1>8. CASE ClientEnds
    BY <1>8 DEF ClientEnds, BothDone, Side, SecondClose, Ended
  <1>9. CASE HelperEnds
    BY <1>9 DEF HelperEnds, BothDone, Side, SecondClose, Ended
  <1>10. CASE AReads
    BY <1>10 DEF AReads, Up, ReadFrom, Buffered
  <1>11. CASE BReads
    BY <1>11 DEF BReads, BUp, ReadFrom, Buffered
  <1>12. CASE ASees
    BY <1>12 DEF ASees, Eof, SeenAt, Buffered
  <1>13. CASE BSees
    BY <1>13 DEF BSees, BUp, Eof, SeenAt, Buffered
  <1>14. CASE AWrites
    BY <1>14 DEF AWrites, Up, WriteTo, Writable, Space, Buffered
  <1>15. CASE BWrites
    BY <1>15 DEF BWrites, BUp, WriteTo, Writable, Space, Buffered
  <1>16. CASE ACloses
    BY <1>16 DEF ACloses, Up, Writable, Ended
  <1>17. CASE BCloses
    BY <1>17 DEF BCloses, BUp, Writable, Ended
  <1>18. ASSUME NEW g \in Copies, Copy(g) PROVE (Seen(sawB, "h2b") /\ Seen(sawA, "c2a"))'
    BY <1>18 DEF Copy, Buffered, Writable, Space, From, To
  <1>19. ASSUME NEW g \in Copies, CopyEnds(g) PROVE (Seen(sawB, "h2b") /\ Seen(sawA, "c2a"))'
    BY <1>19 DEF CopyEnds, CopyOver, Ended, Eof, Buffered, Writable, From, To
  <1>20. ~(EndpointFails \/ AResets \/ BResets \/ Lose \/ HelperExits \/
     StreamCloseTimeout)
    BY DEF AResets, BResets, EndpointFails, HelperExits, Lose, StreamCloseTimeout,
       CloseTimeout, FInv, Places
  <1> QED BY <1>1, <1>2, <1>3, <1>4, <1>5, <1>6, <1>7, <1>8, <1>9, <1>10, <1>11, <1>12,
     <1>13, <1>14, <1>15, <1>16, <1>17, <1>18, <1>19, <1>20 DEF Next, Dials, Relays,
     Peers
-----------------------------------------------------------------------------
LEMMA FInvInit == ASSUME Init PROVE FInv
  <1>1. Places /\ Dialed
    BY KindAssumption DEF Init, Places, Dialed, Pipes, Ends
  <1>2. Carried
    BY DataAssumption DEF Init, Carried, Pipes
  <1>3. Begun /\ Relayed
    BY DEF Init, Begun, Relayed, Line, Seen, Pipes, Copies
  <1> QED BY <1>1, <1>2, <1>3 DEF FInv

LEMMA FInvStutters == ASSUME FInv, UNCHANGED vars PROVE FInv'
  BY DEF vars, FInv, Places, Carried, Dialed, Begun, Relayed, Line, Seen

LEMMA NextKeeps == ASSUME FInv, Next PROVE FInv'
  <1>1. ASSUME faults' = {} PROVE Begun' /\ Relayed'
    BY <1>1, BegunKept, UpKept, DownKept, SeenKept DEF Relayed
  <1> QED BY <1>1, PlacesKept, CarriedKept, DialedKept DEF FInv

(* The inductive invariant, for any amount of data and any buffer. *)
THEOREM FlowInvariant == Spec => []FInv
  <1>1. FInv /\ [Next]_vars => FInv'
    BY NextKeeps, FInvStutters
  <1> QED BY <1>1, FInvInit, PTL DEF Spec

(* No pipe carries more than its source sent, and every variable keeps its *)
(* type.                                                                   *)
THEOREM FlowTypes == Spec => []TypeOK
  <1>1. ASSUME FInv PROVE TypeOK
    <2>1. /\ put["sup"] <= put["a2c"] /\ put["h2b"] <= put["a2c"]
          /\ put["sdn"] <= put["b2h"] /\ put["c2a"] <= put["b2h"]
      BY <1>1 DEF FInv, Carried, Pipes
    <2>2. \A p \in Pipes : put[p] <= Sent(p) /\ got[p] <= put[p] /\ put[p] <= MaxUp + MaxDown
      BY <1>1, <2>1, DataAssumption DEF FInv, Carried, Sent, Pipes, UpPipes
    <2>3. put \in [Pipes -> 0..MaxUp + MaxDown] /\ got \in [Pipes -> 0..MaxUp + MaxDown]
      BY <1>1, <2>2, DataAssumption DEF FInv, Carried
    <2> QED BY <1>1, <2>2, <2>3 DEF FInv, Places, TypeOK
  <1> QED BY <1>1, FlowInvariant, PTL

(* relayTCP: an end of file that A or B reads is the end of what the other *)
(* sent, for any amount of data and any buffer.                            *)
THEOREM EofsAreEnds == Spec => []EofIsEnd
  <1>1. ASSUME FInv PROVE EofIsEnd
    BY <1>1 DEF FInv, Carried, Relayed, Line, Seen, EofIsEnd, Complete, Pipes
  <1> QED BY <1>1, FlowInvariant, PTL

(* handleTCP: A gets a connection or a refusal as B gave it. *)
THEOREM DialsAreReal == Spec => []DialIsReal
  <1>1. ASSUME FInv PROVE DialIsReal
    BY <1>1 DEF FInv, Dialed, DialIsReal, Up, BUp
  <1> QED BY <1>1, FlowInvariant, PTL
-----------------------------------------------------------------------------
(***************************************************************************)
(* Each direction implements Channel.                                      *)
(***************************************************************************)
(* No pipe holds more than its buffer. *)
Bounded == \A p \in Pipes : put[p] - got[p] <= Cap

(* A and B write only into a connection they have, and their pipe is not   *)
(* cut from outside.                                                       *)
Sources ==
    /\ client \notin {"relay", "over"} => put["a2c"] = 0
    /\ helper \notin {"ok", "over"} => put["b2h"] = 0
    /\ end["a2c"] # "cut" /\ end["b2h"] # "cut"

(* An end that was read stays, whatever breaks later. *)
Settled(saw, f) ==
    /\ saw = "fin" => end[f] # "open" /\ got[f] = put[f]
    /\ saw = "err" => end[f] = "err"
Sinks == Settled(sawB, "h2b") /\ Settled(sawA, "c2a")

(* Without a fault only a refusal is an error. *)
Refusals == faults = {} => /\ end["c2a"] = "err" => client = "refused"
                           /\ end["h2b"] = "err" => helper = "refused"

CInv == FInv /\ Bounded /\ Sources /\ Sinks /\ Refusals

(* A pipe is written only while there is space. *)
LEMMA BoundedKept == ASSUME CInv, Next PROVE Bounded'
  <1> USE DataAssumption DEF CInv, FInv, Carried, Bounded, Pipes, Copies
  <1>1. CASE OpenStream
    BY <1>1 DEF OpenStream
  <1>2. CASE OpenFails
    BY <1>2 DEF OpenFails, Refuse, Ended, Reset, Buffered
  <1>3. CASE HelperDials
    BY <1>3 DEF HelperDials
  <1>4. CASE HelperRefused
    BY <1>4 DEF HelperRefused, Ended
  <1>5. CASE StatusOK
    BY <1>5 DEF StatusOK
  <1>6. CASE StatusBad
    BY <1>6 DEF StatusBad, Refuse, Ended, Reset, Buffered
  <1>7. CASE CreateEndpoint
    BY <1>7 DEF CreateEndpoint
  <1>8. CASE EndpointFails
    BY <1>8 DEF EndpointFails, Ended
  <1>9. CASE ClientEnds
    BY <1>9 DEF ClientEnds, BothDone, Side, SecondClose, Ended
  <1>10. CASE HelperEnds
    BY <1>10 DEF HelperEnds, BothDone, Side, SecondClose, Ended
  <1>11. CASE AReads
    BY <1>11 DEF AReads, Up, ReadFrom, Buffered
  <1>12. CASE BReads
    BY <1>12 DEF BReads, BUp, ReadFrom, Buffered
  <1>13. CASE ASees
    BY <1>13 DEF ASees, Eof, SeenAt, Buffered
  <1>14. CASE BSees
    BY <1>14 DEF BSees, BUp, Eof, SeenAt, Buffered
  <1>15. CASE AWrites
    BY <1>15 DEF AWrites, Up, WriteTo, Writable, Space, Buffered
  <1>16. CASE BWrites
    BY <1>16 DEF BWrites, BUp, WriteTo, Writable, Space, Buffered
  <1>17. CASE ACloses
    BY <1>17 DEF ACloses, Up, Writable, Ended
  <1>18. CASE BCloses
    BY <1>18 DEF BCloses, BUp, Writable, Ended
  <1>19. CASE AResets
    BY <1>19 DEF AResets, Up, Reset, Buffered
  <1>20. CASE BResets
    BY <1>20 DEF BResets, BUp, Reset, Buffered
  <1>21. CASE Lose
    BY <1>21 DEF Lose, Reset, Buffered
  <1>22. CASE HelperExits
    BY <1>22 DEF HelperExits, Ended, Side
  <1>23. CASE StreamCloseTimeout
    BY <1>23 DEF StreamCloseTimeout, CloseTimeout, Reset, Buffered
  <1>24. ASSUME NEW g \in Copies, Copy(g) PROVE Bounded'
    BY <1>24 DEF Copy, Buffered, Writable, Space, From, To
  <1>25. ASSUME NEW g \in Copies, CopyEnds(g) PROVE Bounded'
    BY <1>25 DEF CopyEnds, CopyOver, Ended, Eof, Buffered, Writable, From, To
  <1> QED BY <1>1, <1>2, <1>3, <1>4, <1>5, <1>6, <1>7, <1>8, <1>9, <1>10, <1>11, <1>12,
     <1>13, <1>14, <1>15, <1>16, <1>17, <1>18, <1>19, <1>20, <1>21, <1>22, <1>23, <1>24,
     <1>25 DEF Next, Dials, Relays, Peers

(* Nobody writes before its connection is up. *)
LEMMA SourcesKept == ASSUME CInv, Next PROVE Sources'
  <1> USE DEF CInv, FInv, Places, Carried, Sources, Pipes, Copies
  <1>1. CASE OpenStream
    BY <1>1 DEF OpenStream, Dialed
  <1>2. CASE OpenFails
    BY <1>2 DEF OpenFails, Refuse, Ended, Reset, Buffered
  <1>3. CASE HelperDials
    BY <1>3 DEF HelperDials
  <1>4. CASE HelperRefused
    BY <1>4 DEF HelperRefused, Ended
  <1>5. CASE StatusOK
    BY <1>5 DEF StatusOK
  <1>6. CASE StatusBad
    BY <1>6 DEF StatusBad, Refuse, Ended, Reset, Buffered
  <1>7. CASE CreateEndpoint
    BY <1>7 DEF CreateEndpoint
  <1>8. CASE EndpointFails
    BY <1>8 DEF EndpointFails, Ended
  <1>9. CASE ClientEnds
    BY <1>9 DEF ClientEnds, BothDone, Side, SecondClose, Ended
  <1>10. CASE HelperEnds
    BY <1>10 DEF HelperEnds, BothDone, Side, SecondClose, Ended
  <1>11. CASE AReads
    BY <1>11 DEF AReads, Up, ReadFrom, Buffered
  <1>12. CASE BReads
    BY <1>12 DEF BReads, BUp, ReadFrom, Buffered
  <1>13. CASE ASees
    BY <1>13 DEF ASees, Eof, SeenAt, Buffered
  <1>14. CASE BSees
    BY <1>14 DEF BSees, BUp, Eof, SeenAt, Buffered
  <1>15. CASE AWrites
    BY <1>15 DEF AWrites, Up, WriteTo, Writable, Space, Buffered
  <1>16. CASE BWrites
    BY <1>16 DEF BWrites, BUp, WriteTo, Writable, Space, Buffered
  <1>17. CASE ACloses
    BY <1>17 DEF ACloses, Up, Writable, Ended
  <1>18. CASE BCloses
    BY <1>18 DEF BCloses, BUp, Writable, Ended
  <1>19. CASE AResets
    BY <1>19 DEF AResets, Up, Reset, Buffered
  <1>20. CASE BResets
    BY <1>20 DEF BResets, BUp, Reset, Buffered
  <1>21. CASE Lose
    BY <1>21 DEF Lose, Reset, Buffered
  <1>22. CASE HelperExits
    BY <1>22 DEF HelperExits, Ended, Side
  <1>23. CASE StreamCloseTimeout
    BY <1>23 DEF StreamCloseTimeout, CloseTimeout, Reset, Buffered
  <1>24. ASSUME NEW g \in Copies, Copy(g) PROVE Sources'
    BY <1>24 DEF Copy, Buffered, Writable, Space, From, To
  <1>25. ASSUME NEW g \in Copies, CopyEnds(g) PROVE Sources'
    BY <1>25 DEF CopyEnds, CopyOver, Ended, Eof, Buffered, Writable, From, To
  <1> QED BY <1>1, <1>2, <1>3, <1>4, <1>5, <1>6, <1>7, <1>8, <1>9, <1>10, <1>11, <1>12,
     <1>13, <1>14, <1>15, <1>16, <1>17, <1>18, <1>19, <1>20, <1>21, <1>22, <1>23, <1>24,
     <1>25 DEF Next, Dials, Relays, Peers

(* A pipe that ended is not written, and one that was read has nothing to  *)
(* reset.                                                                  *)
LEMMA SinksKept == ASSUME CInv, Next PROVE Sinks'
  <1> USE DEF CInv, FInv, Places, Carried, Sinks, Settled, Pipes, Copies
  <1>1. CASE OpenStream
    BY <1>1 DEF OpenStream
  <1>2. CASE OpenFails
    BY <1>2 DEF OpenFails, Refuse, Ended, Reset, Buffered
  <1>3. CASE HelperDials
    BY <1>3 DEF HelperDials
  <1>4. CASE HelperRefused
    BY <1>4 DEF HelperRefused, Ended
  <1>5. CASE StatusOK
    BY <1>5 DEF StatusOK
  <1>6. CASE StatusBad
    BY <1>6 DEF StatusBad, Refuse, Ended, Reset, Buffered
  <1>7. CASE CreateEndpoint
    BY <1>7 DEF CreateEndpoint
  <1>8. CASE EndpointFails
    BY <1>8 DEF EndpointFails, Ended
  <1>9. CASE ClientEnds
    BY <1>9 DEF ClientEnds, BothDone, Side, SecondClose, Ended
  <1>10. CASE HelperEnds
    BY <1>10 DEF HelperEnds, BothDone, Side, SecondClose, Ended
  <1>11. CASE AReads
    BY <1>11 DEF AReads, Up, ReadFrom, Buffered
  <1>12. CASE BReads
    BY <1>12 DEF BReads, BUp, ReadFrom, Buffered
  <1>13. CASE ASees
    BY <1>13 DEF ASees, Eof, SeenAt, Buffered
  <1>14. CASE BSees
    BY <1>14 DEF BSees, BUp, Eof, SeenAt, Buffered
  <1>15. CASE AWrites
    BY <1>15 DEF AWrites, Up, WriteTo, Writable, Space, Buffered
  <1>16. CASE BWrites
    BY <1>16 DEF BWrites, BUp, WriteTo, Writable, Space, Buffered
  <1>17. CASE ACloses
    BY <1>17 DEF ACloses, Up, Writable, Ended
  <1>18. CASE BCloses
    BY <1>18 DEF BCloses, BUp, Writable, Ended
  <1>19. CASE AResets
    BY <1>19 DEF AResets, Up, Reset, Buffered
  <1>20. CASE BResets
    BY <1>20 DEF BResets, BUp, Reset, Buffered
  <1>21. CASE Lose
    BY <1>21 DEF Lose, Reset, Buffered
  <1>22. CASE HelperExits
    BY <1>22 DEF HelperExits, Ended, Side
  <1>23. CASE StreamCloseTimeout
    BY <1>23 DEF StreamCloseTimeout, CloseTimeout, Reset, Buffered
  <1>24. ASSUME NEW g \in Copies, Copy(g) PROVE Sinks'
    BY <1>24 DEF Copy, Buffered, Writable, Space, From, To
  <1>25. ASSUME NEW g \in Copies, CopyEnds(g) PROVE Sinks'
    BY <1>25 DEF CopyEnds, CopyOver, Ended, Eof, Buffered, Writable, From, To
  <1> QED BY <1>1, <1>2, <1>3, <1>4, <1>5, <1>6, <1>7, <1>8, <1>9, <1>10, <1>11, <1>12,
     <1>13, <1>14, <1>15, <1>16, <1>17, <1>18, <1>19, <1>20, <1>21, <1>22, <1>23, <1>24,
     <1>25 DEF Next, Dials, Relays, Peers

(* Every other error comes with a fault. *)
LEMMA RefusalsKept == ASSUME CInv, Next PROVE Refusals'
  <1> USE FaultsGrow DEF CInv, FInv, Places, Dialed, Refusals, Pipes, Copies
  <1>1. CASE OpenStream
    BY <1>1 DEF OpenStream
  <1>2. CASE OpenFails
    BY <1>2 DEF OpenFails, Refuse, Ended, Reset, Buffered
  <1>3. CASE HelperDials
    BY <1>3 DEF HelperDials
  <1>4. CASE HelperRefused
    BY <1>4 DEF HelperRefused, Ended
  <1>5. CASE StatusOK
    BY <1>5 DEF StatusOK
  <1>6. CASE StatusBad
    BY <1>6 DEF StatusBad, Refuse, Ended, Reset, Buffered
  <1>7. CASE CreateEndpoint
    BY <1>7 DEF CreateEndpoint
  <1>8. CASE EndpointFails
    BY <1>8 DEF EndpointFails, Ended
  <1>9. CASE ClientEnds
    BY <1>9 DEF ClientEnds, BothDone, Side, SecondClose, Ended
  <1>10. CASE HelperEnds
    BY <1>10 DEF HelperEnds, BothDone, Side, SecondClose, Ended
  <1>11. CASE AReads
    BY <1>11 DEF AReads, Up, ReadFrom, Buffered
  <1>12. CASE BReads
    BY <1>12 DEF BReads, BUp, ReadFrom, Buffered
  <1>13. CASE ASees
    BY <1>13 DEF ASees, Eof, SeenAt, Buffered
  <1>14. CASE BSees
    BY <1>14 DEF BSees, BUp, Eof, SeenAt, Buffered
  <1>15. CASE AWrites
    BY <1>15 DEF AWrites, Up, WriteTo, Writable, Space, Buffered
  <1>16. CASE BWrites
    BY <1>16 DEF BWrites, BUp, WriteTo, Writable, Space, Buffered
  <1>17. CASE ACloses
    BY <1>17 DEF ACloses, Up, Writable, Ended
  <1>18. CASE BCloses
    BY <1>18 DEF BCloses, BUp, Writable, Ended
  <1>19. CASE AResets
    BY <1>19 DEF AResets, Up, Reset, Buffered
  <1>20. CASE BResets
    BY <1>20 DEF BResets, BUp, Reset, Buffered
  <1>21. CASE Lose
    BY <1>21 DEF Lose, Reset, Buffered
  <1>22. CASE HelperExits
    BY <1>22 DEF HelperExits, Ended, Side
  <1>23. CASE StreamCloseTimeout
    BY <1>23 DEF StreamCloseTimeout, CloseTimeout, Reset, Buffered
  <1>24. ASSUME NEW g \in Copies, Copy(g) PROVE Refusals'
    BY <1>24 DEF Copy, Buffered, Writable, Space, From, To
  <1>25. ASSUME NEW g \in Copies, CopyEnds(g) PROVE Refusals'
    BY <1>25 DEF CopyEnds, CopyOver, Ended, Eof, Buffered, Writable, From, To
  <1> QED BY <1>1, <1>2, <1>3, <1>4, <1>5, <1>6, <1>7, <1>8, <1>9, <1>10, <1>11, <1>12,
     <1>13, <1>14, <1>15, <1>16, <1>17, <1>18, <1>19, <1>20, <1>21, <1>22, <1>23, <1>24,
     <1>25 DEF Next, Dials, Relays, Peers

LEMMA CInvInit == ASSUME Init PROVE CInv
  BY FInvInit, DataAssumption DEF Init, CInv, Bounded, Sources, Sinks, Settled, Refusals, Pipes

LEMMA CInvStutters == ASSUME CInv, UNCHANGED vars PROVE CInv'
  BY FInvStutters DEF vars, CInv, Bounded, Sources, Sinks, Settled, Refusals

(* What the refinement needs beyond FInv, broken or not. *)
THEOREM ChannelInvariant == Spec => []CInv
  <1>1. CInv /\ [Next]_vars => CInv'
    BY NextKeeps, BoundedKept, SourcesKept, SinksKept, RefusalsKept, CInvStutters DEF CInv
  <1> QED BY <1>1, CInvInit, PTL DEF Spec

(* A fault, or a step of a broken flow that takes the source away. *)
LEMMA UpBreaks ==
  ASSUME faults' # {}, UNCHANGED <<put, got, sawB>>,
         end'["a2c"] \in {end["a2c"], "err"}
  PROVE  [UpChannel!Next]_(UpChannel!vars)
  <1>1. UpChannel!Break
    BY DEF UpChannel!Break
  <1> QED BY <1>1 DEF UpChannel!Next

(* Nothing that the two ends of the direction see. *)
LEMMA UpStutters ==
  ASSUME UNCHANGED <<put["a2c"], got["h2b"], end["a2c"], sawB, faults>>
  PROVE  [UpChannel!Next]_(UpChannel!vars)
  BY DEF UpChannel!vars

(* Every step is a step of the channel from A to B, or none of it. *)
LEMMA UpSteps == ASSUME CInv, Next PROVE [UpChannel!Next]_(UpChannel!vars)
  <1> USE DataAssumption DEF CInv, FInv, Places, Carried, Sources, Pipes, Copies
  <1>1. CASE OpenStream
    BY <1>1, UpStutters DEF OpenStream
  <1>2. CASE OpenFails
    <2>1. CASE end["a2c"] = "open"
      <3>1. UpChannel!Refuse
        BY <1>2, <2>1 DEF OpenFails, Refuse, Ended, Reset, Buffered, UpChannel!Refuse
      <3> QED BY <3>1 DEF UpChannel!Next
    <2>2. CASE end["a2c"] # "open"
      BY <1>2, <2>2, UpStutters DEF OpenFails, Refuse, Ended, Reset, Buffered
    <2> QED BY <2>1, <2>2
  <1>3. CASE HelperDials
    BY <1>3, UpStutters DEF HelperDials
  <1>4. CASE HelperRefused
    BY <1>4, UpStutters DEF HelperRefused, Ended
  <1>5. CASE StatusOK
    BY <1>5, UpStutters DEF StatusOK
  <1>6. CASE StatusBad
    <2>1. CASE end["a2c"] = "open"
      <3>1. UpChannel!Refuse
        BY <1>6, <2>1 DEF StatusBad, Refuse, Ended, Reset, Buffered, UpChannel!Refuse
      <3> QED BY <3>1 DEF UpChannel!Next
    <2>2. CASE end["a2c"] # "open"
      BY <1>6, <2>2, UpStutters DEF StatusBad, Refuse, Ended, Reset, Buffered
    <2> QED BY <2>1, <2>2
  <1>7. CASE CreateEndpoint
    BY <1>7, UpStutters DEF CreateEndpoint
  <1>8. CASE EndpointFails
    BY <1>8, UpBreaks DEF EndpointFails, Ended
  <1>9. CASE ClientEnds
    <2>1. CASE faults = {}
      BY <1>9, <2>1, UpStutters DEF ClientEnds, BothDone, Side, SecondClose, Ended, Relayed, Line
    <2>2. CASE faults # {}
      BY <1>9, <2>2, UpBreaks DEF ClientEnds, BothDone, Side, SecondClose, Ended
    <2> QED BY <2>1, <2>2
  <1>10. CASE HelperEnds
    BY <1>10, UpStutters DEF HelperEnds, BothDone, Side, SecondClose, Ended
  <1>11. CASE AReads
    BY <1>11, UpStutters DEF AReads, Up, ReadFrom, Buffered
  <1>12. CASE BReads
    <2>1. UpChannel!Receive
      BY <1>12 DEF BReads, BUp, ReadFrom, Buffered, Sinks, Settled, UpChannel!Receive
    <2> QED BY <2>1 DEF UpChannel!Next
  <1>13. CASE ASees
    BY <1>13, UpStutters DEF ASees, Eof, SeenAt, Buffered
  <1>14. CASE BSees
    <2>1. CASE end["h2b"] = "err"
      <3>1. faults = {} => put["a2c"] = 0
        BY <1>14, <2>1 DEF BSees, BUp, Eof, SeenAt, Buffered, Refusals, Dialed
      <3>2. UpChannel!Error
        BY <1>14, <2>1, <3>1 DEF BSees, BUp, Eof, SeenAt, Buffered, UpChannel!Error
      <3> QED BY <3>2 DEF UpChannel!Next
    <2>2. CASE end["h2b"] # "err"
      <3>1. end["h2b"] \in {"fin", "cut"} /\ got["h2b"] = put["h2b"]
        BY <1>14, <2>2 DEF BSees, BUp, Eof, SeenAt, Buffered
      <3>2. faults = {} => end["a2c"] = "fin" /\ got["h2b"] = put["a2c"]
        BY <3>1 DEF Relayed, Line
      <3>3. UpChannel!EndOfFile
        BY <1>14, <2>2, <3>2 DEF BSees, BUp, Eof, SeenAt, Buffered, UpChannel!EndOfFile
      <3> QED BY <3>3 DEF UpChannel!Next
    <2> QED BY <2>1, <2>2
  <1>15. CASE AWrites
    <2>1. put["a2c"] - got["h2b"] < 3 * Cap
      BY <1>15 DEF AWrites, Up, WriteTo, Writable, Space, Buffered, Bounded
    <2>2. sawB = "none" \/ faults # {}
      BY <1>15 DEF AWrites, Up, WriteTo, Writable, Space, Buffered, Sinks, Settled,
         Refusals, Dialed, Relayed, Seen, Line
    <2>3. UpChannel!Send
      BY <1>15, <2>1, <2>2 DEF AWrites, Up, WriteTo, Writable, Space, Buffered, UpChannel!Send
    <2> QED BY <2>3 DEF UpChannel!Next
  <1>16. CASE BWrites
    BY <1>16, UpStutters DEF BWrites, BUp, WriteTo, Writable, Space, Buffered
  <1>17. CASE ACloses
    <2>1. UpChannel!Close
      BY <1>17 DEF ACloses, Up, Writable, Ended, UpChannel!Close
    <2> QED BY <2>1 DEF UpChannel!Next
  <1>18. CASE BCloses
    BY <1>18, UpStutters DEF BCloses, BUp, Writable, Ended
  <1>19. CASE AResets
    BY <1>19, UpBreaks DEF AResets, Up, Reset, Buffered
  <1>20. CASE BResets
    BY <1>20, UpBreaks DEF BResets, BUp, Reset, Buffered
  <1>21. CASE Lose
    BY <1>21, UpBreaks DEF Lose, Reset, Buffered
  <1>22. CASE HelperExits
    BY <1>22, UpStutters DEF HelperExits, Ended, Side
  <1>23. CASE StreamCloseTimeout
    BY <1>23, UpBreaks DEF StreamCloseTimeout, CloseTimeout, Reset, Buffered
  <1>24. ASSUME NEW g \in Copies, Copy(g) PROVE [UpChannel!Next]_(UpChannel!vars)
    BY <1>24, UpStutters DEF Copy, Buffered, Writable, Space, From, To
  <1>25. ASSUME NEW g \in Copies, CopyEnds(g) PROVE [UpChannel!Next]_(UpChannel!vars)
    BY <1>25, UpStutters DEF CopyEnds, CopyOver, Ended, Eof, Buffered, Writable, From, To
  <1> QED BY <1>1, <1>2, <1>3, <1>4, <1>5, <1>6, <1>7, <1>8, <1>9, <1>10, <1>11, <1>12,
     <1>13, <1>14, <1>15, <1>16, <1>17, <1>18, <1>19, <1>20, <1>21, <1>22, <1>23, <1>24,
     <1>25 DEF Next, Dials, Relays, Peers

(* A fault, or a step of a broken flow that takes the source away. *)
LEMMA DownBreaks ==
  ASSUME faults' # {}, UNCHANGED <<put, got, sawA>>,
         end'["b2h"] \in {end["b2h"], "err"}
  PROVE  [DownChannel!Next]_(DownChannel!vars)
  <1>1. DownChannel!Break
    BY DEF DownChannel!Break
  <1> QED BY <1>1 DEF DownChannel!Next

(* Nothing that the two ends of the direction see. *)
LEMMA DownStutters ==
  ASSUME UNCHANGED <<put["b2h"], got["c2a"], end["b2h"], sawA, faults>>
  PROVE  [DownChannel!Next]_(DownChannel!vars)
  BY DEF DownChannel!vars

(* The same from B to A. *)
LEMMA DownSteps == ASSUME CInv, Next PROVE [DownChannel!Next]_(DownChannel!vars)
  <1> USE DataAssumption DEF CInv, FInv, Places, Carried, Sources, Pipes, Copies
  <1>1. CASE OpenStream
    BY <1>1, DownStutters DEF OpenStream
  <1>2. CASE OpenFails
    BY <1>2, DownStutters DEF OpenFails, Refuse, Ended, Reset, Buffered
  <1>3. CASE HelperDials
    BY <1>3, DownStutters DEF HelperDials
  <1>4. CASE HelperRefused
    <2>1. CASE end["b2h"] = "open"
      <3>1. DownChannel!Refuse
        BY <1>4, <2>1 DEF HelperRefused, Ended, DownChannel!Refuse
      <3> QED BY <3>1 DEF DownChannel!Next
    <2>2. CASE end["b2h"] # "open"
      BY <1>4, <2>2, DownStutters DEF HelperRefused, Ended
    <2> QED BY <2>1, <2>2
  <1>5. CASE StatusOK
    BY <1>5, DownStutters DEF StatusOK
  <1>6. CASE StatusBad
    BY <1>6, DownStutters DEF StatusBad, Refuse, Ended, Reset, Buffered
  <1>7. CASE CreateEndpoint
    BY <1>7, DownStutters DEF CreateEndpoint
  <1>8. CASE EndpointFails
    BY <1>8, DownBreaks DEF EndpointFails, Ended
  <1>9. CASE ClientEnds
    BY <1>9, DownStutters DEF ClientEnds, BothDone, Side, SecondClose, Ended
  <1>10. CASE HelperEnds
    <2>1. CASE faults = {}
      BY <1>10, <2>1, DownStutters DEF HelperEnds, BothDone, Side, SecondClose, Ended, Relayed, Line
    <2>2. CASE faults # {}
      BY <1>10, <2>2, DownBreaks DEF HelperEnds, BothDone, Side, SecondClose, Ended
    <2> QED BY <2>1, <2>2
  <1>11. CASE AReads
    <2>1. DownChannel!Receive
      BY <1>11 DEF AReads, Up, ReadFrom, Buffered, Sinks, Settled, DownChannel!Receive
    <2> QED BY <2>1 DEF DownChannel!Next
  <1>12. CASE BReads
    BY <1>12, DownStutters DEF BReads, BUp, ReadFrom, Buffered
  <1>13. CASE ASees
    <2>1. CASE end["c2a"] = "err"
      <3>1. faults = {} => put["b2h"] = 0
        BY <1>13, <2>1 DEF ASees, Eof, SeenAt, Buffered, Refusals, Dialed
      <3>2. DownChannel!Error
        BY <1>13, <2>1, <3>1 DEF ASees, Eof, SeenAt, Buffered, DownChannel!Error
      <3> QED BY <3>2 DEF DownChannel!Next
    <2>2. CASE end["c2a"] # "err"
      <3>1. end["c2a"] \in {"fin", "cut"} /\ got["c2a"] = put["c2a"]
        BY <1>13, <2>2 DEF ASees, Eof, SeenAt, Buffered
      <3>2. faults = {} => end["b2h"] = "fin" /\ got["c2a"] = put["b2h"]
        BY <3>1 DEF Relayed, Line
      <3>3. DownChannel!EndOfFile
        BY <1>13, <2>2, <3>2 DEF ASees, Eof, SeenAt, Buffered, DownChannel!EndOfFile
      <3> QED BY <3>3 DEF DownChannel!Next
    <2> QED BY <2>1, <2>2
  <1>14. CASE BSees
    BY <1>14, DownStutters DEF BSees, BUp, Eof, SeenAt, Buffered
  <1>15. CASE AWrites
    BY <1>15, DownStutters DEF AWrites, Up, WriteTo, Writable, Space, Buffered
  <1>16. CASE BWrites
    <2>1. put["b2h"] - got["c2a"] < 3 * Cap
      BY <1>16 DEF BWrites, BUp, WriteTo, Writable, Space, Buffered, Bounded
    <2>2. sawA = "none" \/ faults # {}
      BY <1>16 DEF BWrites, BUp, WriteTo, Writable, Space, Buffered, Sinks, Settled,
         Refusals, Dialed, Relayed, Seen, Line
    <2>3. DownChannel!Send
      BY <1>16, <2>1, <2>2 DEF BWrites, BUp, WriteTo, Writable, Space, Buffered, DownChannel!Send
    <2> QED BY <2>3 DEF DownChannel!Next
  <1>17. CASE ACloses
    BY <1>17, DownStutters DEF ACloses, Up, Writable, Ended
  <1>18. CASE BCloses
    <2>1. DownChannel!Close
      BY <1>18 DEF BCloses, BUp, Writable, Ended, DownChannel!Close
    <2> QED BY <2>1 DEF DownChannel!Next
  <1>19. CASE AResets
    BY <1>19, DownBreaks DEF AResets, Up, Reset, Buffered
  <1>20. CASE BResets
    BY <1>20, DownBreaks DEF BResets, BUp, Reset, Buffered
  <1>21. CASE Lose
    BY <1>21, DownBreaks DEF Lose, Reset, Buffered
  <1>22. CASE HelperExits
    BY <1>22, DownBreaks DEF HelperExits, Ended, Side
  <1>23. CASE StreamCloseTimeout
    BY <1>23, DownBreaks DEF StreamCloseTimeout, CloseTimeout, Reset, Buffered
  <1>24. ASSUME NEW g \in Copies, Copy(g) PROVE [DownChannel!Next]_(DownChannel!vars)
    BY <1>24, DownStutters DEF Copy, Buffered, Writable, Space, From, To
  <1>25. ASSUME NEW g \in Copies, CopyEnds(g) PROVE [DownChannel!Next]_(DownChannel!vars)
    BY <1>25, DownStutters DEF CopyEnds, CopyOver, Ended, Eof, Buffered, Writable, From, To
  <1> QED BY <1>1, <1>2, <1>3, <1>4, <1>5, <1>6, <1>7, <1>8, <1>9, <1>10, <1>11, <1>12,
     <1>13, <1>14, <1>15, <1>16, <1>17, <1>18, <1>19, <1>20, <1>21, <1>22, <1>23, <1>24,
     <1>25 DEF Next, Dials, Relays, Peers

(* relayTCP and handleTCP of both sides: each direction of a flow is a     *)
(* first-in first-out channel with a half-close between A and B, for any   *)
(* amount of data and any buffer.                                          *)
THEOREM FlowCarriesChannels == Spec => CarriesChannels
  <1>1. ASSUME Init PROVE UpChannel!Init /\ DownChannel!Init
    BY <1>1 DEF Init, UpChannel!Init, DownChannel!Init, Pipes
  <1>2. ASSUME CInv, [Next]_vars
        PROVE  /\ [UpChannel!Next]_(UpChannel!vars)
               /\ [DownChannel!Next]_(DownChannel!vars)
    <2>1. CASE Next
      BY <1>2, <2>1, UpSteps, DownSteps
    <2>2. CASE UNCHANGED vars
      BY <2>2, UpStutters, DownStutters DEF vars
    <2> QED BY <1>2, <2>1, <2>2
  <1> QED
    BY <1>1, <1>2, ChannelInvariant, PTL DEF Spec, CarriesChannels, UpChannel!Spec, DownChannel!Spec
=============================================================================
