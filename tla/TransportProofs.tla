-------------------------- MODULE TransportProofs --------------------------
(***************************************************************************)
(* Proofs about Transport, for any set of lanes, commands and modes.  The  *)
(* invariant TInv has a part for the beginning of an attempt, one for the  *)
(* uploaded file, one for the lines of the control stream and one for the  *)
(* QUIC port; each has a lemma that says the steps keep it.                *)
(***************************************************************************)
EXTENDS Transport, TLAPS

(* The places before the first helper of the attempt is executed, and the *)
(* places at which a lane may still need the file.                        *)
Uploading == {"mkdir", "write", "exec"}
BeforeUnlink == Connect \ {"unlink"}
NeedsFile == BeforeUnlink \ Uploading

(* A helper that removed its file, or that was killed. *)
Ended == {"cache", "gone", "killed"}

(* A line is on its way. *)
Says(s, x) == \E i \in 1..Len(s) : s[i] = x

(* An attempt begins without a helper, an answer or a connection, and a    *)
(* command waits only for the verb at which it is.                         *)
Fresh ==
    /\ pc \in Uploading => /\ \A h \in Helpers : proc[h] = "none"
                           /\ rep = <<>> /\ ~unlinked /\ qc = "none"
    /\ pc # "end" => cmd # "none" /\ \A l \in Lanes : lane[l] = "none" => proc[l] = "none"
    /\ await # "" => await = pc

(* Only a helper of the attempt takes a file that is not old: by its end   *)
(* or its unlink.  A helper that failed in no remove left nothing.         *)
FileKept ==
    /\ file = "old" => aged
    /\ (pc \in NeedsFile /\ file = "none") => aged \/ \E h \in Helpers : proc[h] \in Ended
    /\ \A h \in Helpers \ kept : proc[h] \in {"cache", "gone"} => file = "none"
    /\ \A h \in Helpers \ kept : proc[h] = "gone" => (dir => crowd)

(* What the lines on their way say: no unlink before the lanes are open,   *)
(* and an answer is true for as long as its helper runs.                   *)
StreamTrue ==
    /\ pc \in BeforeUnlink => ~Says(req, "unlink")
    /\ Says(rep, "unlink ok") => file = "none"
    /\ Says(rep, "quic") /\ proc[Main] \in Running => ql # "none"

(* A dial goes to the port of a helper that still runs. *)
PortKept ==
    proc[Main] \in Running =>
        /\ pc = "dial" => ql # "none"
        /\ qc = "up" => hc \in {"stored", "dead"}

TInv == TypeOK /\ Fresh /\ FileKept /\ StreamTrue /\ PortKept
            /\ LaneFindsFile /\ UnlinkIsKnown /\ StoppedIsDead

(* The four parts of TypeOK. *)
ClientType ==
    /\ cmd \in {"run", "doctor", "bench", "none"} /\ mode \in {"auto", "quic", "ssh"}
    /\ kind \in {"", "ssh", "quic"} /\ ever \in BOOLEAN
    /\ pc \in Connect \cup {"up", "quit", "close", "end"}
    /\ await \in Verbs \cup {""} /\ unlinked \in BOOLEAN
    /\ lane \in [Lanes -> {"none", "exec", "up", "failed", "nofile"}]
    /\ qc \in {"none", "handshake", "up"}
RemoteType ==
    /\ link \in [Helpers -> {"none", "open", "closed"}]
    /\ file \in {"none", "new", "old"} /\ dir \in BOOLEAN /\ crowd \in BOOLEAN
    /\ aged \in BOOLEAN /\ kept \subseteq Helpers
    /\ proc \in [Helpers -> Running \cup {"none", "gone", "killed"}]
WireType == req \in Seq(Verbs \cup {"abandon", "quit"}) /\ rep \in Seq(Lines)
QuicType ==
    /\ ql \in Taken \cup {"none", "bound", "closed"}
    /\ hc \in {"none", "accepted", "stored", "dead"}
-----------------------------------------------------------------------------
(***************************************************************************)
(* The lines of a stream that grows at one end and is read at the other.   *)
(***************************************************************************)
LEMMA SaysNothing == /\ \A x : ~Says(<<>>, x)
                     /\ <<>> \in Seq(Lines) /\ <<>> \in Seq(Verbs \cup {"abandon", "quit"})
  BY DEF Says

LEMMA SaysAppend ==
    ASSUME NEW S, NEW s \in Seq(S), NEW e \in S
    PROVE  /\ Append(s, e) \in Seq(S)
           /\ \A x : Says(Append(s, e), x) => Says(s, x) \/ x = e
  BY DEF Says

LEMMA SaysTail ==
    ASSUME NEW S, NEW s \in Seq(S), s # <<>>
    PROVE  /\ Tail(s) \in Seq(S) /\ Head(s) \in S /\ Says(s, Head(s))
           /\ \A x : Says(Tail(s), x) => Says(s, x)
  BY DEF Says

LEMMA SaysCut ==
    ASSUME NEW S, NEW s \in Seq(S), s # <<>>, NEW e \in S
    PROVE  /\ <<e>> \o Tail(s) \in Seq(S)
           /\ \A x : Says(<<e>> \o Tail(s), x) => Says(s, x) \/ x = e
  BY DEF Says

(* The client writes a line (Call, Abandon, Quit). *)
LEMMA Written ==
    ASSUME WireType, NEW v \in Verbs \cup {"abandon", "quit"}, req' = Append(req, v)
    PROVE  /\ req' \in Seq(Verbs \cup {"abandon", "quit"})
           /\ \A x : Says(req', x) => Says(req, x) \/ x = v
  BY SaysAppend DEF WireType

(* The helper reads a line, which was on its way, and answers it. *)
LEMMA Handled ==
    ASSUME WireType, NEW v, Verb(v)
    PROVE  /\ req' \in Seq(Verbs \cup {"abandon", "quit"})
           /\ \A x : Says(req', x) => Says(req, x)
           /\ Says(req, v) /\ proc[Main] \in {"serve", "stop"}
  BY SaysTail DEF WireType, Verb, Serving
LEMMA Sent ==
    ASSUME WireType, NEW line \in Lines, Send(line)
    PROVE  /\ rep' \in Seq(Lines)
           /\ \A x : Says(rep', x) => Says(rep, x) \/ x = line
  BY SaysAppend DEF WireType, Send

(* The client reads a line, or the part of it that comes in time. *)
LEMMA Received ==
    ASSUME WireType, rep # <<>>
    PROVE  /\ rep' = Tail(rep) => /\ rep' \in Seq(Lines) /\ Says(rep, Head(rep))
                                  /\ \A x : Says(rep', x) => Says(rep, x)
           /\ rep' = <<"tail">> \o Tail(rep) =>
                  /\ rep' \in Seq(Lines)
                  /\ \A x : Says(rep', x) => Says(rep, x) \/ x = "tail"
  <1>1. rep \in Seq(Lines) /\ "tail" \in Lines
    BY DEF WireType, Lines
  <1>2. /\ <<"tail">> \o Tail(rep) \in Seq(Lines)
        /\ \A x : Says(<<"tail">> \o Tail(rep), x) => Says(rep, x) \/ x = "tail"
    BY <1>1, SaysCut
  <1> QED BY <1>1, <1>2, SaysTail
-----------------------------------------------------------------------------
(***************************************************************************)
(* Who changes what: the remote leaves the client alone, and the client    *)
(* leaves the QUIC state of the helper alone.                              *)
(***************************************************************************)
Remote == HelperSteps \/ Accept \/ Store \/ Faults \/ OtherSweep \/ OtherCleanup

LEMMA ClientIsAlone == ASSUME Remote PROVE UNCHANGED client
  BY DEF Remote, HelperSteps, Accept, Store, Faults, OtherSweep, OtherCleanup,
         AnswerICMP, AnswerQUIC, AnswerUnlink, HandleAbandon, HandleQuit,
         ReturnStops, CloseQUIC, HelperStart, HelperEOF, HelperStop,
         RemoveSelf, CleanupCache, Age, ConnEnds, LinkDies, Kill

LEMMA PortIsAlone == ASSUME ClientSteps \/ Stop \/ ClientDies PROVE UNCHANGED quic
  BY DEF ClientSteps, Mkdir, Write, WriteFails, Exec, StartFails, MuxUp, Call, Reply,
         NoReply, DialHandshake, Probe, Dialed, DialFails, Abandon, LanesOpen, Lost, Quit,
         Close, CloseAll, LaneExec, LaneUp, LaneFails, Stop, ClientDies
-----------------------------------------------------------------------------
(***************************************************************************)
(* Every step keeps the types.                                             *)
(***************************************************************************)
LEMMA ClientTypeStays == ASSUME ClientType, UNCHANGED client PROVE ClientType'
  BY ZenonT(90) DEF ClientType, client

(* The client. *)
LEMMA ClientTypeKept == ASSUME TInv, Next PROVE ClientType'
  <1> USE CommandAssumption DEF TInv, TypeOK, ClientType, Connect, Verbs, Fresh
  <1>1. CASE Remote
    BY <1>1, ClientIsAlone, ClientTypeStays
  <1>2. CASE Begin \/ Again
    BY <1>2, ZenonT(90) DEF Begin, Attempt, Again
  <1>3. CASE Mkdir
    BY <1>3 DEF Mkdir, Goto
  <1>4. CASE Write \/ WriteFails
    BY <1>4, ZenonT(90) DEF Write, Goto, WriteFails
  <1>5. CASE Exec
    BY <1>5 DEF Exec, Goto
  <1>6. CASE StartFails
    BY <1>6, ZenonT(90) DEF StartFails, Goto, Failed
  <1>7. CASE MuxUp
    BY <1>7, ZenonT(90) DEF MuxUp, Goto
  <1>8. CASE Call
    BY <1>8, ZenonT(90) DEF Call
  <1>9. CASE Reply
    BY <1>9, ZenonT(90) DEF Reply, Return, Answers, Fallback, Failed
  <1>10. CASE NoReply
    BY <1>10, ZenonT(90) DEF NoReply, Return, Fallback, Failed
  <1>11. CASE DialHandshake
    BY <1>11 DEF DialHandshake
  <1>12. CASE Probe
    BY <1>12 DEF Probe, Dialed
  <1>13. CASE DialFails
    BY <1>13 DEF DialFails
  <1>14. CASE Abandon \/ Quit
    BY <1>14, ZenonT(90) DEF Abandon, Fallback, Failed, Quit, Goto
  <1>15. CASE LanesOpen
    BY <1>15 DEF LanesOpen, Goto
  <1>16. CASE Lost
    BY <1>16 DEF Lost, Failed
  <1>17. CASE Close \/ ClientDies
    BY <1>17 DEF Close, CloseAll, ClientDies
  <1>18. CASE Stop
    BY <1>18 DEF Stop
  <1>19. ASSUME NEW l \in Lanes, LaneExec(l) PROVE ClientType'
    BY <1>19, ZenonT(90) DEF LaneExec, SetLane
  <1>20. ASSUME NEW l \in Lanes, LaneUp(l) \/ LaneFails(l) PROVE ClientType'
    BY <1>20, ZenonT(90) DEF LaneUp, SetLane, LaneFails
  <1> QED BY <1>1, <1>2, <1>3, <1>4, <1>5, <1>6, <1>7, <1>8, <1>9, <1>10, <1>11,
          <1>12, <1>13, <1>14, <1>15, <1>16, <1>17, <1>18, <1>19, <1>20 DEF Next,
          Remote, ClientSteps, HelperSteps, Faults

(* The connections, the files and the processes. *)
LEMMA RemoteTypeKept == ASSUME TInv, Next PROVE RemoteType'
  <1> USE DEF TInv, TypeOK, RemoteType, Running, Helpers, client, disk, wire, quic
  <1>1. CASE Begin
    BY <1>1 DEF Begin, Attempt
  <1>2. CASE Again
    BY <1>2 DEF Again, Attempt
  <1>3. CASE Mkdir
    BY <1>3 DEF Mkdir, Goto
  <1>4. CASE Write \/ WriteFails
    BY <1>4 DEF Write, Goto, WriteFails
  <1>5. CASE Exec
    BY <1>5 DEF Exec, Goto
  <1>6. CASE StartFails \/ MuxUp \/ DialHandshake \/ Probe \/ DialFails \/ LanesOpen
            \/ Lost \/ Stop
    BY <1>6 DEF StartFails, Goto, Failed, MuxUp, DialHandshake, Probe, Dialed,
       DialFails, LanesOpen, Lost, Stop
  <1>7. CASE Call
    BY <1>7 DEF Call
  <1>8. CASE Reply
    BY <1>8 DEF Reply, Return, Answers, Fallback, Failed
  <1>9. CASE NoReply
    BY <1>9 DEF NoReply, Return, Fallback, Failed
  <1>10. CASE Abandon \/ Quit
    BY <1>10 DEF Abandon, Fallback, Failed, Quit, Goto
  <1>11. CASE Close \/ ClientDies
    BY <1>11 DEF Close, CloseAll, ClientDies
  <1>12. CASE OtherSweep \/ OtherCleanup \/ Age
    BY <1>12 DEF OtherSweep, SweepStale, OtherCleanup, Age
  <1>13. CASE AnswerICMP \/ AnswerQUIC
    BY <1>13 DEF AnswerICMP, Verb, Serving, Send, AnswerQUIC
  <1>14. CASE AnswerUnlink
    BY <1>14 DEF AnswerUnlink, Verb, Serving, Send
  <1>15. CASE HandleAbandon \/ HandleQuit
    BY <1>15 DEF HandleAbandon, Verb, Serving, TakeQUIC, HandleQuit
  <1>16. CASE ReturnStops \/ CloseQUIC
    BY <1>16 DEF ReturnStops, TakeQUIC, CloseQUIC, CloseSockets
  <1>17. CASE Accept \/ Store \/ ConnEnds
    BY <1>17 DEF Accept, Store, ConnEnds
  <1>18. ASSUME NEW l \in Lanes, LaneExec(l) PROVE RemoteType'
    BY <1>18 DEF LaneExec, SetLane
  <1>19. ASSUME NEW l \in Lanes, LaneUp(l) \/ LaneFails(l) PROVE RemoteType'
    BY <1>19 DEF LaneUp, SetLane, LaneFails
  <1>20. ASSUME NEW h \in Helpers, HelperStart(h) \/ HelperEOF(h) \/ HelperStop(h)
            \/ RemoveSelf(h) PROVE RemoteType'
    BY <1>20, ZenonT(90) DEF HelperStart, SetProc, SweepStale, HelperEOF, HelperStop, RemoveSelf
  <1>21. ASSUME NEW h \in Helpers, CleanupCache(h) \/ Kill(h) PROVE RemoteType'
    BY <1>21, ZenonT(90) DEF CleanupCache, SetProc, Exit, Kill
  <1>22. ASSUME NEW h \in Helpers, LinkDies(h) PROVE RemoteType'
    BY <1>22 DEF LinkDies
  <1> QED BY <1>1, <1>2, <1>3, <1>4, <1>5, <1>6, <1>7, <1>8, <1>9, <1>10, <1>11,
          <1>12, <1>13, <1>14, <1>15, <1>16, <1>17, <1>18, <1>19, <1>20, <1>21,
          <1>22 DEF Next, Remote, ClientSteps, HelperSteps, Faults

(* The two directions of the control stream. *)
LEMMA WireTypeKept == ASSUME TInv, Next PROVE WireType'
  <1> USE DEF TInv, TypeOK, WireType
  <1>1. CASE UNCHANGED wire
    BY <1>1, Zenon DEF wire
  <1>2. CASE Begin \/ Again
    BY <1>2, SaysNothing DEF Begin, Attempt, Again
  <1>3. CASE Mkdir
    BY <1>3, <1>1 DEF Mkdir, Goto
  <1>4. CASE Write \/ WriteFails
    BY <1>4, <1>1, SaysNothing DEF Write, Goto, WriteFails
  <1>5. CASE Exec
    BY <1>5, <1>1, SaysNothing DEF Exec, Goto
  <1>6. CASE StartFails \/ MuxUp \/ DialHandshake \/ Probe \/ DialFails \/ LanesOpen
            \/ Lost \/ Stop
    BY <1>6, <1>1 DEF StartFails, Goto, Failed, MuxUp, DialHandshake, Probe, Dialed,
       DialFails, LanesOpen, Lost, Stop
  <1>7. CASE Call
    BY <1>7, Written DEF Call, Verbs
  <1>8. CASE Reply
    BY <1>8, Received DEF Reply, Return, Answers, Fallback, Failed
  <1>9. CASE NoReply
    BY <1>9, Received DEF NoReply, Return, Fallback, Failed, Lines
  <1>10. CASE Abandon \/ Quit
    BY <1>10, Written DEF Abandon, Fallback, Failed, Quit, Goto
  <1>11. CASE Close \/ ClientDies
    BY <1>11, SaysNothing DEF Close, CloseAll, ClientDies
  <1>12. CASE OtherSweep \/ OtherCleanup \/ Age
    BY <1>12, <1>1 DEF OtherSweep, SweepStale, OtherCleanup, Age
  <1>13. CASE AnswerICMP \/ AnswerQUIC
    BY <1>13, Handled, Sent DEF AnswerICMP, Lines, AnswerQUIC
  <1>14. CASE AnswerUnlink
    BY <1>14, Handled, Sent DEF AnswerUnlink, Lines
  <1>15. CASE HandleAbandon \/ HandleQuit
    BY <1>15, Handled DEF HandleAbandon, TakeQUIC, HandleQuit
  <1>16. CASE ReturnStops \/ CloseQUIC
    BY <1>16, <1>1 DEF ReturnStops, TakeQUIC, CloseQUIC, CloseSockets
  <1>17. CASE Accept \/ Store \/ ConnEnds
    BY <1>17, <1>1 DEF Accept, Store, ConnEnds
  <1>18. ASSUME NEW l \in Lanes, LaneExec(l) PROVE WireType'
    BY <1>18, <1>1 DEF LaneExec, SetLane
  <1>19. ASSUME NEW l \in Lanes, LaneUp(l) \/ LaneFails(l) PROVE WireType'
    BY <1>19, <1>1 DEF LaneUp, SetLane, LaneFails
  <1>20. ASSUME NEW h \in Helpers, HelperStart(h) \/ HelperEOF(h) \/ HelperStop(h)
            \/ RemoveSelf(h) PROVE WireType'
    BY <1>20, <1>1 DEF HelperStart, SetProc, SweepStale, HelperEOF, HelperStop,
       RemoveSelf
  <1>21. ASSUME NEW h \in Helpers, CleanupCache(h) \/ Kill(h) PROVE WireType'
    BY <1>21, SaysNothing DEF CleanupCache, SetProc, Exit, wire, Kill
  <1>22. ASSUME NEW h \in Helpers, LinkDies(h) PROVE WireType'
    BY <1>22, <1>1 DEF LinkDies
  <1> QED BY <1>1, <1>2, <1>3, <1>4, <1>5, <1>6, <1>7, <1>8, <1>9, <1>10, <1>11,
          <1>12, <1>13, <1>14, <1>15, <1>16, <1>17, <1>18, <1>19, <1>20, <1>21,
          <1>22 DEF Next, Remote, ClientSteps, HelperSteps, Faults

(* The QUIC port. *)
LEMMA QuicTypeKept == ASSUME TInv, Next PROVE QuicType'
  <1> USE DEF TInv, TypeOK, QuicType, Taken, quic
  <1>1. CASE ClientSteps \/ Stop \/ ClientDies
    BY <1>1, PortIsAlone
  <1>2. CASE Begin \/ Again
    BY <1>2 DEF Begin, Attempt, Again
  <1>3. CASE OtherSweep \/ OtherCleanup \/ Age
    BY <1>3 DEF OtherSweep, SweepStale, OtherCleanup, Age
  <1>4. CASE AnswerICMP \/ AnswerQUIC
    BY <1>4 DEF AnswerICMP, Verb, Serving, Send, AnswerQUIC
  <1>5. CASE AnswerUnlink
    BY <1>5 DEF AnswerUnlink, Verb, Serving, Send
  <1>6. CASE HandleAbandon \/ HandleQuit
    BY <1>6 DEF HandleAbandon, Verb, Serving, TakeQUIC, HandleQuit
  <1>7. CASE ReturnStops \/ CloseQUIC
    BY <1>7 DEF ReturnStops, TakeQUIC, CloseQUIC, CloseSockets
  <1>8. CASE Accept \/ Store \/ ConnEnds
    BY <1>8 DEF Accept, Store, ConnEnds
  <1>9. ASSUME NEW h \in Helpers, HelperStart(h) \/ HelperEOF(h) \/ HelperStop(h) \/
            RemoveSelf(h) PROVE QuicType'
    BY <1>9 DEF HelperStart, SetProc, SweepStale, HelperEOF, HelperStop, RemoveSelf
  <1>10. ASSUME NEW h \in Helpers, CleanupCache(h) \/ Kill(h) PROVE QuicType'
    BY <1>10 DEF CleanupCache, SetProc, Exit, Kill
  <1>11. ASSUME NEW h \in Helpers, LinkDies(h) PROVE QuicType'
    BY <1>11 DEF LinkDies
  <1> QED BY <1>1, <1>2, <1>3, <1>4, <1>5, <1>6, <1>7, <1>8, <1>9, <1>10, <1>11 DEF
          Next, Remote, ClientSteps, HelperSteps, Faults

LEMMA TypesKept == ASSUME TInv, Next PROVE TypeOK'
  BY ClientTypeKept, RemoteTypeKept, WireTypeKept, QuicTypeKept
     DEF TypeOK, ClientType, RemoteType, WireType, QuicType
-----------------------------------------------------------------------------
(***************************************************************************)
(* Every step keeps the parts of the invariant.                            *)
(***************************************************************************)

(* No helper runs before Exec, and no answer comes before a helper runs. *)
LEMMA FreshKept == ASSUME TInv, Next PROVE Fresh'
  <1> USE CommandAssumption DEF TInv, TypeOK, Verbs, Running, Connect, Fresh,
          Uploading, client, disk, wire, quic, Helpers
  <1>1. CASE Begin \/ Again
    BY <1>1, ZenonT(90) DEF Begin, Attempt, Again
  <1>2. CASE Mkdir
    BY <1>2 DEF Mkdir, Goto
  <1>3. CASE Write
    BY <1>3 DEF Write, Goto
  <1>4. CASE WriteFails
    BY <1>4 DEF WriteFails, Goto
  <1>5. CASE Exec
    BY <1>5, LaneAssumption DEF Exec, Goto
  <1>6. CASE StartFails \/ MuxUp \/ DialHandshake \/ Probe \/ DialFails \/ LanesOpen
            \/ Lost \/ Stop
    BY <1>6, ZenonT(90) DEF StartFails, Goto, Failed, MuxUp, DialHandshake, Probe, Dialed,
       DialFails, LanesOpen, Lost, Stop
  <1>7. CASE Call
    BY <1>7 DEF Call
  <1>8. CASE Reply
    BY <1>8 DEF Reply, Return, Answers, Fallback, Failed
  <1>9. CASE NoReply
    BY <1>9 DEF NoReply, Return, Fallback, Failed
  <1>10. CASE Abandon \/ Quit
    BY <1>10 DEF Abandon, Fallback, Failed, Quit, Goto
  <1>11. CASE Close \/ ClientDies
    BY <1>11 DEF Close, CloseAll, ClientDies
  <1>12. CASE OtherSweep
    BY <1>12 DEF OtherSweep, SweepStale
  <1>13. CASE OtherCleanup
    BY <1>13 DEF OtherCleanup
  <1>14. CASE AnswerICMP \/ AnswerQUIC
    BY <1>14, ZenonT(90) DEF AnswerICMP, Verb, Serving, Send, AnswerQUIC
  <1>15. CASE AnswerUnlink
    BY <1>15, ZenonT(90) DEF AnswerUnlink, Verb, Serving, Send
  <1>16. CASE HandleAbandon \/ HandleQuit
    BY <1>16, ZenonT(90) DEF HandleAbandon, Verb, Serving, TakeQUIC, HandleQuit
  <1>17. CASE ReturnStops \/ CloseQUIC
    BY <1>17, ZenonT(90) DEF ReturnStops, TakeQUIC, CloseQUIC, CloseSockets
  <1>18. CASE Accept
    BY <1>18 DEF Accept
  <1>19. CASE Store
    BY <1>19 DEF Store
  <1>20. CASE Age
    BY <1>20 DEF Age
  <1>21. CASE ConnEnds
    BY <1>21 DEF ConnEnds
  <1>22. ASSUME NEW l \in Lanes, LaneExec(l) PROVE Fresh'
    BY <1>22, ZenonT(90) DEF LaneExec, SetLane
  <1>23. ASSUME NEW l \in Lanes, LaneUp(l) \/ LaneFails(l) PROVE Fresh'
    BY <1>23 DEF LaneUp, SetLane, LaneFails
  <1>24. ASSUME NEW h \in Helpers, HelperStart(h) \/ HelperEOF(h) \/ HelperStop(h)
            \/ RemoveSelf(h) PROVE Fresh'
    BY <1>24, ZenonT(90) DEF HelperStart, SetProc, SweepStale, HelperEOF, HelperStop, RemoveSelf
  <1>25. ASSUME NEW h \in Helpers, CleanupCache(h) \/ Kill(h) PROVE Fresh'
    BY <1>25, ZenonT(90) DEF CleanupCache, SetProc, Exit, Kill
  <1>26. ASSUME NEW h \in Helpers, LinkDies(h) PROVE Fresh'
    BY <1>26 DEF LinkDies
  <1> QED BY <1>1, <1>2, <1>3, <1>4, <1>5, <1>6, <1>7, <1>8, <1>9, <1>10, <1>11,
          <1>12, <1>13, <1>14, <1>15, <1>16, <1>17, <1>18, <1>19, <1>20, <1>21,
          <1>22, <1>23, <1>24, <1>25, <1>26 DEF Next, Remote, ClientSteps,
          HelperSteps, Faults

(* RemoveSelf and an unlink that comes after the lanes take the file; the  *)
(* helper that is last takes the directory.                                *)
LEMMA FileKeptKept == ASSUME TInv, Next PROVE FileKept'
  <1> USE DEF TInv, TypeOK, Verbs, Connect, Fresh, Uploading, FileKept, NeedsFile,
          BeforeUnlink, Ended, client, disk, wire, quic, Helpers
  <1>1. CASE Begin
    BY <1>1 DEF Begin, Attempt
  <1>2. CASE Again
    BY <1>2 DEF Again, Attempt
  <1>3. CASE Mkdir
    BY <1>3 DEF Mkdir, Goto
  <1>4. CASE Write
    BY <1>4 DEF Write, Goto
  <1>5. CASE WriteFails
    BY <1>5 DEF WriteFails, Goto
  <1>6. CASE Exec
    BY <1>6 DEF Exec, Goto
  <1>7. CASE StartFails
    BY <1>7 DEF StartFails, Goto, Failed
  <1>8. CASE MuxUp
    BY <1>8 DEF MuxUp, Goto
  <1>9. CASE Call
    BY <1>9 DEF Call
  <1>10. CASE Reply
    BY <1>10 DEF Reply, Return, Answers, Fallback, Failed
  <1>11. CASE NoReply
    BY <1>11 DEF NoReply, Return, Fallback, Failed
  <1>12. CASE DialHandshake
    BY <1>12 DEF DialHandshake
  <1>13. CASE Probe
    BY <1>13 DEF Probe, Dialed
  <1>14. CASE DialFails
    BY <1>14 DEF DialFails
  <1>15. CASE Abandon
    BY <1>15 DEF Abandon, Fallback, Failed
  <1>16. CASE LanesOpen
    BY <1>16 DEF LanesOpen, Goto
  <1>17. CASE Lost
    BY <1>17 DEF Lost, Failed
  <1>18. CASE Quit
    BY <1>18 DEF Quit, Goto
  <1>19. CASE Close
    BY <1>19 DEF Close, CloseAll
  <1>20. CASE Stop
    BY <1>20 DEF Stop
  <1>21. CASE ClientDies
    BY <1>21 DEF ClientDies, CloseAll
  <1>22. CASE OtherSweep
    BY <1>22 DEF OtherSweep, SweepStale
  <1>23. CASE OtherCleanup
    BY <1>23 DEF OtherCleanup
  <1>24. CASE AnswerICMP
    BY <1>24 DEF AnswerICMP, Verb, Serving, Send
  <1>25. CASE AnswerQUIC
    BY <1>25 DEF AnswerQUIC, Verb, Serving, Send
  <1>26. CASE AnswerUnlink
    <2>1. Verb("unlink") /\ UNCHANGED <<client, dir, crowd, aged, kept, proc>> /\ file' \in {file, "none"}
      BY <1>26 DEF AnswerUnlink
    <2>2. Says(req, "unlink")
      BY <2>1, Handled DEF WireType
    <2>3. pc \notin BeforeUnlink
      BY <2>2 DEF StreamTrue
    <2> QED BY <2>1, <2>3
  <1>27. CASE HandleAbandon
    BY <1>27 DEF HandleAbandon, Verb, Serving, TakeQUIC
  <1>28. CASE HandleQuit
    BY <1>28, ZenonT(90) DEF HandleQuit, Verb, Serving, TakeQUIC
  <1>29. CASE ReturnStops
    BY <1>29 DEF ReturnStops, TakeQUIC
  <1>30. CASE CloseQUIC
    BY <1>30 DEF CloseQUIC, CloseSockets
  <1>31. CASE Accept
    BY <1>31 DEF Accept
  <1>32. CASE Store
    BY <1>32 DEF Store
  <1>33. CASE Age
    BY <1>33 DEF Age
  <1>34. CASE ConnEnds
    BY <1>34 DEF ConnEnds
  <1>35. ASSUME NEW l \in Lanes, LaneExec(l) PROVE FileKept'
    <2>1. pc \in NeedsFile /\ pc' = pc /\ UNCHANGED <<file, dir, crowd, aged, kept>>
      BY <1>35 DEF LaneExec, SetLane
    <2>2. CASE file # "none"
      <3>1. \A k \in Helpers : proc'[k] \in {proc[k], "start"}
        BY <1>35, <2>2 DEF LaneExec
      <3> QED BY <2>1, <2>2, <3>1
    <2>3. CASE file = "none"
      <3>1. proc' = proc
        BY <1>35, <2>3 DEF LaneExec
      <3> QED BY <2>1, <3>1
    <2> QED BY <2>2, <2>3
  <1>36. ASSUME NEW l \in Lanes, LaneUp(l) PROVE FileKept'
    BY <1>36 DEF LaneUp, SetLane
  <1>37. ASSUME NEW l \in Lanes, LaneFails(l) PROVE FileKept'
    BY <1>37 DEF LaneFails, SetLane
  <1>38. ASSUME NEW h \in Helpers, HelperStart(h) PROVE FileKept'
    BY <1>38 DEF HelperStart, SetProc, SweepStale
  <1>39. ASSUME NEW h \in Helpers, HelperEOF(h) PROVE FileKept'
    BY <1>39 DEF HelperEOF, SetProc
  <1>40. ASSUME NEW h \in Helpers, HelperStop(h) PROVE FileKept'
    BY <1>40 DEF HelperStop, SetProc
  <1>41. ASSUME NEW h \in Helpers, RemoveSelf(h) PROVE FileKept'
    BY <1>41 DEF RemoveSelf, SetProc
  <1>42. ASSUME NEW h \in Helpers, CleanupCache(h) PROVE FileKept'
    BY <1>42 DEF CleanupCache, SetProc, Exit
  <1>43. ASSUME NEW h \in Helpers, LinkDies(h) PROVE FileKept'
    BY <1>43 DEF LinkDies
  <1>44. ASSUME NEW h \in Helpers, Kill(h) PROVE FileKept'
    BY <1>44 DEF Kill, SetProc, Exit
  <1> QED BY <1>1, <1>2, <1>3, <1>4, <1>5, <1>6, <1>7, <1>8, <1>9, <1>10, <1>11,
          <1>12, <1>13, <1>14, <1>15, <1>16, <1>17, <1>18, <1>19, <1>20, <1>21,
          <1>22, <1>23, <1>24, <1>25, <1>26, <1>27, <1>28, <1>29, <1>30, <1>31,
          <1>32, <1>33, <1>34, <1>35, <1>36, <1>37, <1>38, <1>39, <1>40, <1>41,
          <1>42, <1>43, <1>44 DEF Next, Remote, ClientSteps, HelperSteps, Faults

(* An answer is sent when it is true, and stays true while its helper runs. *)
LEMMA StreamTrueKept == ASSUME TInv, Next PROVE StreamTrue'
  <1> USE DEF TInv, TypeOK, Fresh, StreamTrue, Uploading, BeforeUnlink, Connect,
          WireType, client, disk, wire, quic
  <1>1. CASE Begin \/ Again
    BY <1>1, SaysNothing DEF Begin, Attempt, Again
  <1>2. CASE Mkdir
    BY <1>2 DEF Mkdir, Goto
  <1>3. CASE Write \/ WriteFails
    <2>1. pc = "write" /\ UNCHANGED <<req, rep, proc, ql>> /\ pc' \in {"exec", "close"}
      BY <1>3 DEF Write, Goto, WriteFails
    <2>2. rep = <<>> /\ ~Says(req, "unlink")
      BY <2>1
    <2> QED
      BY <2>1, <2>2, SaysNothing
  <1>4. CASE Exec
    BY <1>4, SaysNothing, ZenonT(90) DEF Exec, Goto, Helpers
  <1>5. CASE StartFails \/ MuxUp \/ DialHandshake \/ Probe \/ DialFails \/ LanesOpen
            \/ Lost \/ Stop
    BY <1>5 DEF StartFails, Goto, Failed, MuxUp, DialHandshake, Probe, Dialed,
       DialFails, LanesOpen, Lost, Stop
  <1>6. CASE Call
    BY <1>6, Written DEF Call, Verbs
  <1>7. CASE Reply
    BY <1>7, Received DEF Reply, Return, Answers, Fallback, Failed, Verbs
  <1>8. CASE NoReply
    BY <1>8, Received DEF NoReply, Return, Fallback, Failed, Lines, Verbs
  <1>9. CASE Abandon \/ Quit
    BY <1>9, Written DEF Abandon, Fallback, Failed, Quit, Goto
  <1>10. CASE Close \/ ClientDies
    BY <1>10, SaysNothing DEF Close, CloseAll, ClientDies
  <1>11. CASE OtherSweep \/ OtherCleanup \/ Age
    BY <1>11 DEF OtherSweep, SweepStale, OtherCleanup, Age
  <1>12. CASE AnswerICMP \/ AnswerQUIC
    BY <1>12, Handled, Sent DEF AnswerICMP, Lines, Running, AnswerQUIC
  <1>13. CASE AnswerUnlink
    BY <1>13, Handled, Sent DEF AnswerUnlink, Lines, Running
  <1>14. CASE HandleAbandon \/ HandleQuit
    BY <1>14, Handled DEF HandleAbandon, TakeQUIC, Running, HandleQuit
  <1>15. CASE ReturnStops \/ CloseQUIC
    BY <1>15 DEF ReturnStops, TakeQUIC, Running, Taken, CloseQUIC, CloseSockets
  <1>16. CASE Accept \/ Store \/ ConnEnds
    BY <1>16 DEF Accept, Store, ConnEnds
  <1>17. ASSUME NEW l \in Lanes, LaneExec(l) PROVE StreamTrue'
    BY <1>17, LaneAssumption DEF LaneExec, SetLane, Helpers
  <1>18. ASSUME NEW l \in Lanes, LaneUp(l) \/ LaneFails(l) PROVE StreamTrue'
    BY <1>18 DEF LaneUp, SetLane, LaneFails
  <1>19. ASSUME NEW h \in Helpers, HelperStart(h) \/ HelperEOF(h) \/ HelperStop(h)
            \/ RemoveSelf(h) PROVE StreamTrue'
    BY <1>19 DEF HelperStart, SetProc, SweepStale, Running, Helpers, HelperEOF,
       HelperStop, RemoveSelf
  <1>20. ASSUME NEW h \in Helpers, CleanupCache(h) \/ Kill(h) PROVE StreamTrue'
    BY <1>20, SaysNothing, ZenonT(90) DEF CleanupCache, SetProc, Exit, Running, Helpers, Kill
  <1>21. ASSUME NEW h \in Helpers, LinkDies(h) PROVE StreamTrue'
    BY <1>21 DEF LinkDies
  <1> QED BY <1>1, <1>2, <1>3, <1>4, <1>5, <1>6, <1>7, <1>8, <1>9, <1>10, <1>11,
          <1>12, <1>13, <1>14, <1>15, <1>16, <1>17, <1>18, <1>19, <1>20, <1>21 DEF
          Next, Remote, ClientSteps, HelperSteps, Faults

(* The answer that starts a dial says that the port is open. *)
LEMMA PortKeptKept == ASSUME TInv, Next PROVE PortKept'
  <1> USE DEF TInv, TypeOK, Running, Taken, Connect, Fresh, Uploading, PortKept,
          Helpers, client, disk, wire, quic
  <1>1. CASE Begin \/ Again
    BY <1>1 DEF Begin, Attempt, Again
  <1>2. CASE Mkdir
    BY <1>2 DEF Mkdir, Goto
  <1>3. CASE Write \/ WriteFails
    BY <1>3 DEF Write, Goto, WriteFails
  <1>4. CASE Exec
    BY <1>4 DEF Exec, Goto
  <1>5. CASE StartFails \/ MuxUp \/ DialHandshake \/ Probe \/ DialFails \/ LanesOpen
            \/ Lost \/ Stop
    BY <1>5 DEF StartFails, Goto, Failed, MuxUp, DialHandshake, Probe, Dialed,
       DialFails, LanesOpen, Lost, Stop
  <1>6. CASE Call
    BY <1>6 DEF Call
  <1>7. CASE Reply
    BY <1>7, Received DEF Reply, Return, Answers, Fallback, Failed, StreamTrue,
       Verbs, WireType
  <1>8. CASE NoReply
    BY <1>8 DEF NoReply, Return, Fallback, Failed, Verbs
  <1>9. CASE Abandon \/ Quit
    BY <1>9 DEF Abandon, Fallback, Failed, Quit, Goto
  <1>10. CASE Close \/ ClientDies
    BY <1>10 DEF Close, CloseAll, ClientDies
  <1>11. CASE OtherSweep \/ OtherCleanup \/ Age
    BY <1>11 DEF OtherSweep, SweepStale, OtherCleanup, Age
  <1>12. CASE AnswerICMP \/ AnswerQUIC
    BY <1>12 DEF AnswerICMP, Verb, Serving, Send, AnswerQUIC
  <1>13. CASE AnswerUnlink
    BY <1>13 DEF AnswerUnlink, Verb, Serving, Send
  <1>14. CASE HandleAbandon \/ HandleQuit
    BY <1>14 DEF HandleAbandon, Verb, Serving, TakeQUIC, HandleQuit
  <1>15. CASE ReturnStops \/ CloseQUIC
    BY <1>15 DEF ReturnStops, TakeQUIC, CloseQUIC, CloseSockets
  <1>16. CASE Accept \/ Store \/ ConnEnds
    BY <1>16 DEF Accept, Store, ConnEnds
  <1>17. ASSUME NEW l \in Lanes, LaneExec(l) PROVE PortKept'
    BY <1>17, LaneAssumption DEF LaneExec, SetLane
  <1>18. ASSUME NEW l \in Lanes, LaneUp(l) \/ LaneFails(l) PROVE PortKept'
    BY <1>18 DEF LaneUp, SetLane, LaneFails
  <1>19. ASSUME NEW h \in Helpers, HelperStart(h) \/ HelperEOF(h) \/ HelperStop(h)
            \/ RemoveSelf(h) PROVE PortKept'
    BY <1>19 DEF HelperStart, SetProc, SweepStale, HelperEOF, HelperStop, RemoveSelf
  <1>20. ASSUME NEW h \in Helpers, CleanupCache(h) \/ Kill(h) PROVE PortKept'
    BY <1>20 DEF CleanupCache, SetProc, Exit, Kill
  <1>21. ASSUME NEW h \in Helpers, LinkDies(h) PROVE PortKept'
    BY <1>21 DEF LinkDies
  <1> QED BY <1>1, <1>2, <1>3, <1>4, <1>5, <1>6, <1>7, <1>8, <1>9, <1>10, <1>11,
          <1>12, <1>13, <1>14, <1>15, <1>16, <1>17, <1>18, <1>19, <1>20, <1>21 DEF
          Next, Remote, ClientSteps, HelperSteps, Faults

(* A lane that finds no file: FileKept names the helper that took it, and  *)
(* this helper does not run again in the attempt.                          *)
LEMMA LaneFindsFileKept == ASSUME TInv, Next PROVE LaneFindsFile'
  <1> USE DEF TInv, TypeOK, LaneFindsFile, client, disk, wire, quic
  <1>1. CASE Begin \/ Again
    BY <1>1 DEF Begin, Attempt, Again
  <1>2. CASE Mkdir
    BY <1>2 DEF Mkdir, Goto
  <1>3. CASE Write \/ WriteFails
    BY <1>3 DEF Write, Goto, WriteFails
  <1>4. CASE Exec
    BY <1>4 DEF Exec, Goto, Helpers, Fresh, Uploading
  <1>5. CASE StartFails \/ MuxUp \/ DialHandshake \/ Probe \/ DialFails \/ LanesOpen
            \/ Lost \/ Stop
    BY <1>5 DEF StartFails, Goto, Failed, MuxUp, DialHandshake, Probe, Dialed,
       DialFails, LanesOpen, Lost, Stop
  <1>6. CASE Call
    BY <1>6 DEF Call
  <1>7. CASE Reply
    BY <1>7 DEF Reply, Return, Answers, Fallback, Failed
  <1>8. CASE NoReply
    BY <1>8 DEF NoReply, Return, Fallback, Failed
  <1>9. CASE Abandon \/ Quit
    BY <1>9 DEF Abandon, Fallback, Failed, Quit, Goto
  <1>10. CASE Close \/ ClientDies
    BY <1>10 DEF Close, CloseAll, ClientDies
  <1>11. CASE OtherSweep \/ OtherCleanup \/ Age
    BY <1>11 DEF OtherSweep, SweepStale, OtherCleanup, Age
  <1>12. CASE AnswerICMP \/ AnswerQUIC
    BY <1>12 DEF AnswerICMP, Verb, Serving, Send, AnswerQUIC
  <1>13. CASE AnswerUnlink
    BY <1>13 DEF AnswerUnlink, Verb, Serving, Send
  <1>14. CASE HandleAbandon \/ HandleQuit
    BY <1>14 DEF HandleAbandon, Verb, Serving, TakeQUIC, HandleQuit
  <1>15. CASE ReturnStops \/ CloseQUIC
    BY <1>15 DEF ReturnStops, TakeQUIC, CloseQUIC, CloseSockets
  <1>16. CASE Accept \/ Store \/ ConnEnds
    BY <1>16 DEF Accept, Store, ConnEnds
  <1>17. ASSUME NEW l \in Lanes, LaneExec(l) PROVE LaneFindsFile'
    <2>0. pc = "lanes" /\ lane[l] = "none" /\ proc[l] = "none"
      BY <1>17 DEF LaneExec, Fresh
    <2>1. CASE file # "none"
      <3>1. /\ \A k \in Lanes : lane'[k] = "nofile" => lane[k] = "nofile"
            /\ \A h \in Helpers : h # l => proc'[h] = proc[h]
            /\ aged' = aged
        BY <1>17, <2>1 DEF LaneExec, SetLane
      <3> QED BY <2>0, <3>1
    <2>2. CASE file = "none"
      <3>1. aged \/ \E h \in Helpers : proc[h] \in {"cache", "gone", "killed"}
        BY <2>0, <2>2 DEF FileKept, NeedsFile, BeforeUnlink, Uploading, Connect, Ended
      <3> QED BY <1>17, <2>2, <3>1 DEF LaneExec
    <2> QED BY <2>1, <2>2
  <1>18. ASSUME NEW l \in Lanes, LaneUp(l) \/ LaneFails(l) PROVE LaneFindsFile'
    BY <1>18 DEF LaneUp, SetLane, LaneFails
  <1>19. ASSUME NEW h \in Helpers, HelperStart(h) \/ HelperEOF(h) \/ HelperStop(h)
            \/ RemoveSelf(h) PROVE LaneFindsFile'
    BY <1>19 DEF HelperStart, SetProc, SweepStale, HelperEOF, HelperStop, RemoveSelf
  <1>20. ASSUME NEW h \in Helpers, CleanupCache(h) \/ Kill(h) PROVE LaneFindsFile'
    BY <1>20 DEF CleanupCache, SetProc, Exit, Kill
  <1>21. ASSUME NEW h \in Helpers, LinkDies(h) PROVE LaneFindsFile'
    BY <1>21 DEF LinkDies
  <1> QED BY <1>1, <1>2, <1>3, <1>4, <1>5, <1>6, <1>7, <1>8, <1>9, <1>10, <1>11,
          <1>12, <1>13, <1>14, <1>15, <1>16, <1>17, <1>18, <1>19, <1>20, <1>21 DEF
          Next, Remote, ClientSteps, HelperSteps, Faults

(* The answer ok is true when it is read, and no file is written after it. *)
LEMMA UnlinkKept == ASSUME TInv, Next PROVE UnlinkIsKnown'
  <1> USE DEF TInv, TypeOK, UnlinkIsKnown, client, disk, wire, quic
  <1>1. CASE Begin \/ Again
    BY <1>1 DEF Begin, Attempt, Again
  <1>2. CASE Mkdir
    BY <1>2 DEF Mkdir, Goto
  <1>3. CASE Write \/ WriteFails
    BY <1>3 DEF Write, Goto, Fresh, Uploading, WriteFails
  <1>4. CASE Exec
    BY <1>4 DEF Exec, Goto
  <1>5. CASE StartFails \/ MuxUp \/ DialHandshake \/ Probe \/ DialFails \/ LanesOpen
            \/ Lost \/ Stop
    BY <1>5 DEF StartFails, Goto, Failed, MuxUp, DialHandshake, Probe, Dialed,
       DialFails, LanesOpen, Lost, Stop
  <1>6. CASE Call
    BY <1>6 DEF Call
  <1>7. CASE Reply
    BY <1>7, Received DEF Reply, Return, Answers, Fallback, Failed, StreamTrue,
       WireType
  <1>8. CASE NoReply
    BY <1>8 DEF NoReply, Return, Fallback, Failed
  <1>9. CASE Abandon \/ Quit
    BY <1>9 DEF Abandon, Fallback, Failed, Quit, Goto
  <1>10. CASE Close \/ ClientDies
    BY <1>10 DEF Close, CloseAll, ClientDies
  <1>11. CASE OtherSweep \/ OtherCleanup \/ Age
    BY <1>11 DEF OtherSweep, SweepStale, OtherCleanup, Age
  <1>12. CASE AnswerICMP \/ AnswerQUIC
    BY <1>12 DEF AnswerICMP, Verb, Serving, Send, AnswerQUIC
  <1>13. CASE AnswerUnlink
    BY <1>13 DEF AnswerUnlink, Verb, Serving, Send
  <1>14. CASE HandleAbandon \/ HandleQuit
    BY <1>14 DEF HandleAbandon, Verb, Serving, TakeQUIC, HandleQuit
  <1>15. CASE ReturnStops \/ CloseQUIC
    BY <1>15 DEF ReturnStops, TakeQUIC, CloseQUIC, CloseSockets
  <1>16. CASE Accept \/ Store \/ ConnEnds
    BY <1>16 DEF Accept, Store, ConnEnds
  <1>17. ASSUME NEW l \in Lanes, LaneExec(l) PROVE UnlinkIsKnown'
    BY <1>17 DEF LaneExec, SetLane
  <1>18. ASSUME NEW l \in Lanes, LaneUp(l) \/ LaneFails(l) PROVE UnlinkIsKnown'
    BY <1>18 DEF LaneUp, SetLane, LaneFails
  <1>19. ASSUME NEW h \in Helpers, HelperStart(h) \/ HelperEOF(h) \/ HelperStop(h)
            \/ RemoveSelf(h) PROVE UnlinkIsKnown'
    BY <1>19 DEF HelperStart, SetProc, SweepStale, HelperEOF, HelperStop, RemoveSelf
  <1>20. ASSUME NEW h \in Helpers, CleanupCache(h) \/ Kill(h) PROVE UnlinkIsKnown'
    BY <1>20 DEF CleanupCache, SetProc, Exit, Kill
  <1>21. ASSUME NEW h \in Helpers, LinkDies(h) PROVE UnlinkIsKnown'
    BY <1>21 DEF LinkDies
  <1> QED BY <1>1, <1>2, <1>3, <1>4, <1>5, <1>6, <1>7, <1>8, <1>9, <1>10, <1>11,
          <1>12, <1>13, <1>14, <1>15, <1>16, <1>17, <1>18, <1>19, <1>20, <1>21 DEF
          Next, Remote, ClientSteps, HelperSteps, Faults

(* Nothing is accepted by a closed listener, and what was accepted before  *)
(* died with its socket.                                                   *)
LEMMA StoppedKept == ASSUME TInv, Next PROVE StoppedIsDead'
  <1> USE DEF TInv, TypeOK, StoppedIsDead, Taken, quic
  <1>1. CASE ClientSteps \/ Stop \/ ClientDies
    BY <1>1, PortIsAlone
  <1>2. CASE Begin \/ Again
    BY <1>2 DEF Begin, Attempt, Again
  <1>3. CASE OtherSweep \/ OtherCleanup \/ Age
    BY <1>3 DEF OtherSweep, SweepStale, OtherCleanup, Age
  <1>4. CASE AnswerICMP \/ AnswerQUIC
    BY <1>4 DEF AnswerICMP, Verb, Serving, Send, AnswerQUIC
  <1>5. CASE AnswerUnlink
    BY <1>5 DEF AnswerUnlink, Verb, Serving, Send
  <1>6. CASE HandleAbandon \/ HandleQuit
    BY <1>6 DEF HandleAbandon, Verb, Serving, TakeQUIC, HandleQuit
  <1>7. CASE ReturnStops \/ CloseQUIC
    BY <1>7 DEF ReturnStops, TakeQUIC, CloseQUIC, CloseSockets
  <1>8. CASE Accept \/ Store \/ ConnEnds
    BY <1>8 DEF Accept, Store, ConnEnds
  <1>9. ASSUME NEW h \in Helpers, HelperStart(h) \/ HelperEOF(h) \/ HelperStop(h) \/
            RemoveSelf(h) PROVE StoppedIsDead'
    BY <1>9 DEF HelperStart, SetProc, SweepStale, HelperEOF, HelperStop, RemoveSelf
  <1>10. ASSUME NEW h \in Helpers, CleanupCache(h) \/ Kill(h) PROVE StoppedIsDead'
    BY <1>10 DEF CleanupCache, SetProc, Exit, Kill
  <1>11. ASSUME NEW h \in Helpers, LinkDies(h) PROVE StoppedIsDead'
    BY <1>11 DEF LinkDies
  <1> QED BY <1>1, <1>2, <1>3, <1>4, <1>5, <1>6, <1>7, <1>8, <1>9, <1>10, <1>11 DEF
          Next, Remote, ClientSteps, HelperSteps, Faults
-----------------------------------------------------------------------------
(* The invariant holds when no attempt was made yet. *)
LEMMA TInvInit == ASSUME Init PROVE TInv
  <1>1. TypeOK
    BY SaysNothing DEF Init, TypeOK
  <1>2. Fresh /\ FileKept /\ PortKept /\ LaneFindsFile /\ UnlinkIsKnown /\ StoppedIsDead
    BY DEF Init, Fresh, FileKept, PortKept, LaneFindsFile, UnlinkIsKnown, StoppedIsDead,
           Uploading, NeedsFile, BeforeUnlink, Connect, Helpers, Running
  <1>3. StreamTrue
    BY SaysNothing DEF Init, StreamTrue
  <1> QED BY <1>1, <1>2, <1>3 DEF TInv

LEMMA TInvStutters == ASSUME TInv, UNCHANGED vars PROVE TInv'
  <1> USE DEF vars, client, disk, wire, quic, TInv
  <1>1. ClientType'
    BY ZenonT(90) DEF TypeOK, ClientType
  <1>2. RemoteType' /\ WireType' /\ QuicType'
    BY DEF TypeOK, RemoteType, WireType, QuicType
  <1>3. (Fresh /\ FileKept)'
    BY DEF Fresh, FileKept
  <1>4. (StreamTrue /\ PortKept)'
    BY DEF StreamTrue, PortKept
  <1>5. (LaneFindsFile /\ UnlinkIsKnown /\ StoppedIsDead)'
    BY DEF LaneFindsFile, UnlinkIsKnown, StoppedIsDead
  <1> QED BY <1>1, <1>2, <1>3, <1>4, <1>5 DEF TypeOK, ClientType, RemoteType, WireType, QuicType

(* The inductive invariant, for every set of lanes. *)
THEOREM TransportInvariant == Spec => []TInv
  <1>1. TInv /\ [Next]_vars => TInv'
    BY TInvStutters, TypesKept, FreshKept, FileKeptKept, StreamTrueKept, PortKeptKept,
       LaneFindsFileKept, UnlinkKept, StoppedKept
       DEF TInv
  <1> QED BY <1>1, TInvInit, PTL DEF Spec

(* Every variable keeps its type. *)
THEOREM TransportTypes == Spec => []TypeOK
  <1>1. TInv => TypeOK
    BY DEF TInv
  <1> QED BY <1>1, TransportInvariant, PTL

(* openLane: a lane of an attempt finds the uploaded file, unless a helper *)
(* of the same attempt has ended or the connect outlasted staleAge.        *)
THEOREM LanesFindFile == Spec => []LaneFindsFile
  <1>1. TInv => LaneFindsFile
    BY DEF TInv
  <1> QED BY <1>1, TransportInvariant, PTL

(* Client.Unlink: an answered unlink means that the file is gone. *)
THEOREM UnlinksAreKnown == Spec => []UnlinkIsKnown
  <1>1. TInv => UnlinkIsKnown
    BY DEF TInv
  <1> QED BY <1>1, TransportInvariant, PTL

(* removeSelf and cleanupCache: one helper that comes to its end, and      *)
(* fails in neither, leaves the remote as it was.                          *)
THEOREM RemoteIsClean == Spec => []CleanRemote
  <1>1. TInv => CleanRemote
    BY DEF TInv, FileKept, CleanRemote
  <1> QED BY <1>1, TransportInvariant, PTL

(* DialQUIC: the client dials an open port of its helper, and a connection *)
(* it uses was accepted there.                                             *)
THEOREM DialsAreServed == Spec => []DialIsServed
  <1>1. TInv => DialIsServed
    BY DEF TInv, PortKept, DialIsServed, Running
  <1> QED BY <1>1, TransportInvariant, PTL

(* stopQUIC leaves no connection that is served. *)
THEOREM StoppedIsStopped == Spec => []StoppedIsDead
  <1>1. TInv => StoppedIsDead
    BY DEF TInv
  <1> QED BY <1>1, TransportInvariant, PTL
=============================================================================
