----------------------------- MODULE Transport -----------------------------
(***************************************************************************)
(* One transport to the remote, from the upload of the helper to the exit  *)
(* of its processes: runner.transport with selectTransport and the lanes   *)
(* (internal/session), the control stream and the QUIC listener            *)
(* (internal/mux) and the helper process with its file (internal/helper).  *)
(*                                                                         *)
(* One attempt is modelled at a time: a helper per lane, all executed from *)
(* one uploaded file, the primary lane with the control stream.  The       *)
(* helpers of earlier attempts and of other clients meet it only in the    *)
(* cache directory and are the environment (OtherSweep, OtherCleanup).     *)
(* Time is abstract: a deadline may pass, and a file grow old, at any      *)
(* moment.                                                                 *)
(***************************************************************************)
EXTENDS Naturals, Sequences, FiniteSets

CONSTANTS
    Lanes,        \* the extra lanes of the SSH transport (openLaneSet)
    Commands,     \* who connects: "run" (the session), "doctor", "bench"
    Modes         \* plan.Transport: "auto", "quic", "ssh"

Main == "main"
ASSUME LaneAssumption == IsFiniteSet(Lanes) /\ Main \notin Lanes
ASSUME CommandAssumption == /\ Commands \subseteq {"run", "doctor", "bench"}
                            /\ Modes \subseteq {"auto", "quic", "ssh"}

Helpers == Lanes \cup {Main}

VARIABLES
    cmd, mode, kind, ever,       \* the command, its mode, State.Transport, "was up"
    pc, await, unlinked,         \* the client: place, verb it waits for, Unlink returned nil
    lane, qc,                    \* its lanes and its QUIC connection
    link,                        \* the SSH connection under each helper
    file, dir, crowd,            \* the uploaded file, its directory, what keeps that
    aged, kept,                  \* history: the file was old; helpers that failed to remove
    proc,                        \* the helper processes
    req, rep,                    \* the two directions of the control stream
    ql, hc                       \* Server.quic, and the connection it accepted

client == <<cmd, mode, kind, ever, pc, await, unlinked, lane, qc>>
disk   == <<file, dir, crowd, aged, kept>>
wire   == <<req, rep>>
quic   == <<ql, hc>>
vars   == <<client, link, disk, proc, wire, quic>>

Verbs   == {"icmp", "quic", "unlink"}
Lines   == {"icmp", "quic", "quic-unavailable", "unlink ok", "unlink error", "tail"}
Running == {"start", "serve", "stop", "remove", "cache"}
(* A listener that somebody took out of Server.quic and has not closed yet. *)
Taken   == {"abandon", "quit", "return"}
Connect == {"mkdir", "write", "exec", "mux", "icmp", "quic", "dial", "abandon",
            "lanes", "unlink"}

TypeOK ==
    /\ cmd \in {"run", "doctor", "bench", "none"} /\ mode \in {"auto", "quic", "ssh"}
    /\ kind \in {"", "ssh", "quic"} /\ ever \in BOOLEAN
    /\ pc \in Connect \cup {"up", "quit", "close", "end"}
    /\ await \in Verbs \cup {""} /\ unlinked \in BOOLEAN
    /\ lane \in [Lanes -> {"none", "exec", "up", "failed", "nofile"}]
    /\ qc \in {"none", "handshake", "up"}
    /\ link \in [Helpers -> {"none", "open", "closed"}]
    /\ file \in {"none", "new", "old"} /\ dir \in BOOLEAN /\ crowd \in BOOLEAN
    /\ aged \in BOOLEAN /\ kept \subseteq Helpers
    /\ proc \in [Helpers -> Running \cup {"none", "gone", "killed"}]
    /\ req \in Seq(Verbs \cup {"abandon", "quit"})
    /\ rep \in Seq(Lines)
    /\ ql \in Taken \cup {"none", "bound", "closed"}
    /\ hc \in {"none", "accepted", "stored", "dead"}

Init ==
    /\ cmd = "none" /\ mode = "auto" /\ kind = "" /\ ever = FALSE
    /\ pc = "end" /\ await = "" /\ unlinked = FALSE /\ qc = "none"
    /\ lane = [l \in Lanes |-> "none"]
    /\ link = [h \in Helpers |-> "none"] /\ proc = [h \in Helpers |-> "none"]
    /\ file = "none" /\ dir = FALSE /\ crowd = FALSE /\ aged = FALSE /\ kept = {}
    /\ req = <<>> /\ rep = <<>> /\ ql = "none" /\ hc = "none"
-----------------------------------------------------------------------------
(***************************************************************************)
(* The client: an attempt up to the handshake of the primary helper.       *)
(***************************************************************************)
(* What an earlier attempt still has on the remote joins the environment.  *)
(* crowd: files of other clients keep the directory, or the directory is   *)
(* XDG_RUNTIME_DIR, which is always there and which no helper removes.     *)
Attempt ==
    /\ pc = "end" /\ pc' = "mkdir" /\ await' = "" /\ unlinked' = FALSE /\ qc' = "none"
    /\ lane' = [l \in Lanes |-> "none"] /\ proc' = [h \in Helpers |-> "none"]
    /\ link' = [h \in Helpers |-> IF h = Main THEN "open" ELSE "none"]
    /\ file' = "none" /\ crowd' \in BOOLEAN /\ dir' = (dir \/ crowd')
    /\ aged' = FALSE /\ kept' = {}
    /\ req' = <<>> /\ rep' = <<>> /\ ql' = "none" /\ hc' = "none"

(* A new command, or the next attempt of a session that was up. *)
Begin == /\ Attempt /\ cmd' \in Commands /\ mode' \in Modes
         /\ kind' = "" /\ ever' = FALSE
Again == Attempt /\ cmd = "run" /\ ever /\ UNCHANGED <<cmd, mode, kind, ever>>

Goto(p) == pc' = p /\ UNCHANGED <<cmd, mode, kind, ever, await, unlinked, lane, qc>>

(* What the end of a call that fails means: the session closes what it     *)
(* opened, doctor and bench run their deferred Quit first.                 *)
Failed == IF cmd = "run" THEN "close" ELSE "quit"

(* uploadScript: mkdir, then the write into the directory.  The write can  *)
(* fail or time out with a part of the file written.                       *)
Mkdir == /\ pc = "mkdir" /\ Goto("write") /\ dir' = TRUE
         /\ UNCHANGED <<link, file, crowd, aged, kept, proc, wire, quic>>
Write == /\ pc = "write" /\ dir /\ link[Main] = "open"
         /\ file' = "new"
         /\ Goto("exec") /\ UNCHANGED <<link, dir, crowd, aged, kept, proc, wire, quic>>
WriteFails == /\ pc = "write" /\ Goto("close")
              /\ \/ dir /\ file' = "new"
                 \/ UNCHANGED file
              /\ UNCHANGED <<link, dir, crowd, aged, kept, proc, wire, quic>>

(* execHelper: the exec starts a process when the file is there and the    *)
(* mount lets it run; the client then waits for the handshake line.        *)
Exec == /\ pc = "exec" /\ file # "none" /\ link[Main] = "open"
        /\ proc' = [proc EXCEPT ![Main] = "start"]
        /\ Goto("mux") /\ UNCHANGED <<link, disk, wire, quic>>
StartFails == /\ \/ pc \in {"mkdir", "exec", "mux"} /\ Goto("close")
                 \/ pc = "quic" /\ await = "" /\ Goto(Failed)   \* quicPorts, certificate
                 \/ /\ pc = "lanes" /\ \A l \in Lanes : lane[l] = "none"
                    /\ Goto("close")                            \* parseAddrs
              /\ UNCHANGED <<link, disk, proc, wire, quic>>

(* What follows the info line: the transport the plan or the first connect *)
(* selected; doctor asks for the echo socket before.                       *)
MuxUp ==
    /\ pc = "mux" /\ proc[Main] = "serve" /\ link[Main] = "open"
    /\ \/ cmd = "doctor" /\ Goto("icmp")
       \/ /\ cmd = "run" /\ (kind = "ssh" \/ (kind = "" /\ mode = "ssh"))
          /\ kind' = "ssh" /\ pc' = "lanes"
          /\ UNCHANGED <<cmd, mode, ever, await, unlinked, lane, qc>>
       \/ cmd = "bench" /\ mode = "ssh" /\ Goto("up")
       \/ /\ cmd \in {"run", "bench"} /\ kind # "ssh" /\ (kind = "quic" \/ mode # "ssh")
          /\ Goto("quic")
    /\ UNCHANGED <<link, disk, proc, wire, quic>>
-----------------------------------------------------------------------------
(***************************************************************************)
(* Calls on the control stream.  A call writes its line and reads the next *)
(* line, whichever call that line answers; its deadline may pass first,    *)
(* also in the middle of a line.                                           *)
(***************************************************************************)
Call ==
    /\ pc \in Verbs /\ await = "" /\ link[Main] = "open"
    /\ req' = Append(req, pc) /\ await' = pc
    /\ UNCHANGED <<cmd, mode, kind, ever, pc, unlinked, lane, qc, link, disk, proc, rep, quic>>

(* No QUIC transport: an attempt that may not fall back fails. *)
Fallback ==
    /\ IF cmd = "doctor" \/ mode = "quic" \/ kind = "quic"
       THEN pc' = Failed /\ kind' = kind
       ELSE /\ pc' = IF cmd = "run" THEN "lanes" ELSE "up"
            /\ kind' = IF cmd = "run" THEN "ssh" ELSE kind

(* Mutant: any answer to unlink is taken for ok. *)
AnswersAny(v, line) == CASE v = "icmp"   -> line = "icmp"
                         [] v = "quic"   -> line = "quic"
                         [] v = "unlink" -> line \in {"unlink ok", "unlink error"}

(* parseQUICReply, parseUnlinkReply, parseEchoSocketInfo. *)
Answers(v, line) == CASE v = "icmp"   -> line = "icmp"
                      [] v = "quic"   -> line = "quic"
                      [] v = "unlink" -> line = "unlink ok"

(* What the caller does with the outcome of its call. *)
Return(v, ok, line) ==
    CASE v = "icmp"   -> pc' = "quic" /\ kind' = kind
      [] v = "unlink" -> kind' = kind /\ \/ pc' = "up"
                                         \/ ever /\ pc' = "close"  \* applyDNS fails
      [] v = "quic" /\ ok -> pc' = "dial" /\ kind' = kind
      [] v = "quic" /\ ~ok /\ line = "quic-unavailable" -> Fallback
      [] v = "quic" /\ ~ok /\ line # "quic-unavailable" -> pc' = Failed /\ kind' = kind

Reply ==
    /\ await # "" /\ rep # <<>> /\ link[Main] = "open"
    /\ LET line == Head(rep)
       IN  /\ unlinked' = (unlinked \/ (await = "unlink" /\ Answers(await, line)))
           /\ Return(await, Answers(await, line), line)
    /\ rep' = Tail(rep) /\ await' = ""
    /\ UNCHANGED <<cmd, mode, ever, lane, qc, link, disk, proc, req, quic>>

(* The deadline of a call passes, or its stream is broken. *)
NoReply ==
    /\ pc \in Verbs /\ (await = pc \/ link[Main] # "open")
    /\ Return(pc, FALSE, "") /\ await' = ""
    /\ \/ rep # <<>> /\ rep' = <<"tail">> \o Tail(rep)
       \/ UNCHANGED rep
    /\ UNCHANGED <<cmd, mode, ever, unlinked, lane, qc, link, disk, proc, req, quic>>
-----------------------------------------------------------------------------
(***************************************************************************)
(* DialQUIC.  The handshake of TLS 1.3 ends on the client before the       *)
(* helper has verified it, so only the answered probe counts.              *)
(***************************************************************************)
DialHandshake ==
    /\ pc = "dial" /\ qc = "none" /\ ql \in Taken \cup {"bound"} /\ qc' = "handshake"
    /\ UNCHANGED <<cmd, mode, kind, ever, pc, await, unlinked, lane, link, disk, proc, wire, quic>>

(* runner.transport, Probe and Bench after a dial that succeeded. *)
Dialed == /\ qc' = "up" /\ kind' = IF cmd = "run" THEN "quic" ELSE kind
          /\ pc' = CASE cmd = "run" -> "unlink" [] cmd = "bench" -> "up" [] cmd = "doctor" -> "quit"
          /\ UNCHANGED <<cmd, mode, ever, await, unlinked, lane, link, disk, proc, wire, quic>>
(* Mutant: the end of the handshake is taken for an accepted connection. *)
ProbeSkipped == pc = "dial" /\ qc = "handshake" /\ Dialed
Probe == pc = "dial" /\ qc = "handshake" /\ hc = "stored" /\ Dialed

(* Mutant: a failed dial keeps its half-open connection. *)
DialFailsHeld ==
    /\ pc = "dial" /\ qc' = "failed" /\ pc' = "abandon"
    /\ UNCHANGED <<cmd, mode, kind, ever, await, unlinked, lane, link, disk, proc, wire, quic>>

DialFails ==
    /\ pc = "dial" /\ qc' = "none" /\ pc' = "abandon"
    /\ UNCHANGED <<cmd, mode, kind, ever, await, unlinked, lane, link, disk, proc, wire, quic>>
Abandon ==
    /\ pc = "abandon" /\ Fallback
    /\ req' = IF link[Main] = "open" THEN Append(req, "abandon") ELSE req
    /\ UNCHANGED <<cmd, mode, ever, await, unlinked, lane, qc, link, disk, proc, rep, quic>>
-----------------------------------------------------------------------------
(***************************************************************************)
(* The extra lanes open in parallel, each from the file of the attempt.    *)
(***************************************************************************)
SetLane(l, s) == /\ lane' = [lane EXCEPT ![l] = s]
                 /\ UNCHANGED <<cmd, mode, kind, ever, pc, await, unlinked, qc>>

LaneExec(l) ==
    /\ pc = "lanes" /\ lane[l] = "none"
    /\ IF file # "none"
       THEN /\ SetLane(l, "exec") /\ link' = [link EXCEPT ![l] = "open"]
            /\ proc' = [proc EXCEPT ![l] = "start"]
       ELSE SetLane(l, "nofile") /\ UNCHANGED <<link, proc>>
    /\ UNCHANGED <<disk, wire, quic>>
LaneUp(l) ==
    /\ pc = "lanes" /\ lane[l] = "exec"
    /\ proc[l] = "serve" /\ link[l] = "open"
    /\ SetLane(l, "up") /\ UNCHANGED <<link, disk, proc, wire, quic>>
LaneFails(l) ==
    /\ pc = "lanes" /\ lane[l] \in {"none", "exec"} /\ SetLane(l, "failed")
    /\ link' = [link EXCEPT ![l] = IF @ = "none" THEN @ ELSE "closed"]
    /\ UNCHANGED <<disk, proc, wire, quic>>
LanesOpen ==
    /\ pc = "lanes" /\ \A l \in Lanes : lane[l] \notin {"none", "exec"}
    /\ Goto("unlink") /\ UNCHANGED <<link, disk, proc, wire, quic>>
-----------------------------------------------------------------------------
(***************************************************************************)
(* The session is up, loses a part or stops.  A stop sends quit and closes *)
(* every connection; a loss, a failed attempt or the death of the client   *)
(* closes them without.                                                    *)
(***************************************************************************)
Used == {Main} \cup {l \in Lanes : lane[l] = "up"}
Broken == \/ \E h \in Used : link[h] # "open" \/ proc[h] # "serve"
          \/ qc = "up" /\ hc = "dead"

Lost == /\ pc = "up" /\ Broken /\ pc' = Failed /\ ever' = TRUE
        /\ UNCHANGED <<cmd, mode, kind, await, unlinked, lane, qc, link, disk, proc, wire, quic>>
Stop == /\ pc = "up" /\ pc' = "quit" /\ ever' = FALSE
        /\ UNCHANGED <<cmd, mode, kind, await, unlinked, lane, qc, link, disk, proc, wire, quic>>
Quit == /\ pc = "quit" /\ Goto("close")
        /\ req' = IF link[Main] = "open" THEN Append(req, "quit") ELSE req
        /\ UNCHANGED <<link, disk, proc, rep, quic>>

(* The process that held the attempt is over when ~again. *)
CloseAll(again) ==
    /\ pc' = "end" /\ qc' = "none" /\ await' = "" /\ ever' = again
    /\ IF again THEN UNCHANGED <<cmd, mode, kind>> ELSE cmd' = "none" /\ mode' = "auto" /\ kind' = ""
    /\ link' = [h \in Helpers |-> IF link[h] = "none" THEN "none" ELSE "closed"]
    /\ rep' = <<>> /\ lane' = [l \in Lanes |-> "none"]
    /\ UNCHANGED <<unlinked, disk, proc, req, quic>>
Close == pc = "close" /\ CloseAll(ever)
ClientDies == pc # "end" /\ CloseAll(FALSE)
-----------------------------------------------------------------------------
(***************************************************************************)
(* The helper process: sweepStale, the handshake, the service, and the     *)
(* deferred calls at the end: stopQUIC, removeSelf, cleanupCache.          *)
(***************************************************************************)
SetProc(h, s) == proc' = [proc EXCEPT ![h] = s]

(* Mutant: the age of a file is not compared. *)
SweepAll(own) == IF own THEN file ELSE "none"

(* sweepStale spares the file of the helper that runs it, and every file *)
(* younger than staleAge.                                                *)
SweepStale(own) == IF ~own /\ file = "old" THEN "none" ELSE file

HelperStart(h) ==
    /\ proc[h] = "start" /\ SetProc(h, "serve") /\ file' = SweepStale(TRUE)
    /\ UNCHANGED <<client, link, dir, crowd, aged, kept, wire, quic>>
(* Mutant: only quit ends the service. *)
HelperEOFIgnored(h) ==
    /\ proc[h] = "serve" /\ link[h] # "open" /\ h # Main /\ SetProc(h, "stop")
    /\ UNCHANGED <<client, link, disk, wire, quic>>

(* AcceptStream fails: the connection closed, or the keepalive found it dead. *)
HelperEOF(h) ==
    /\ proc[h] = "serve" /\ link[h] # "open" /\ SetProc(h, "stop")
    /\ UNCHANGED <<client, link, disk, wire, quic>>
HelperStop(h) ==
    /\ proc[h] = "stop" /\ (h = Main => ql \notin {"bound", "return"})
    /\ SetProc(h, "remove") /\ UNCHANGED <<client, link, disk, wire, quic>>
(* The deferred removes ignore their errors: the file, or the directory,   *)
(* then stays, and kept has the helper that left it.                       *)
RemoveSelf(h) ==
    /\ proc[h] = "remove" /\ SetProc(h, "cache")
    /\ \/ file' = "none" /\ UNCHANGED kept
       \/ file # "none" /\ kept' = kept \cup {h} /\ UNCHANGED file
    /\ UNCHANGED <<client, link, dir, crowd, aged, wire, quic>>
(* The end of the process closes its sockets and its end of the stream. *)
Exit(h) == IF h # Main THEN UNCHANGED <<wire, quic>>
              ELSE /\ ql' = "none" /\ hc' = "none"
                   /\ req' = <<>> /\ UNCHANGED rep
(* Mutant: the directory is removed before the file, so it is not empty. *)
CleanupCacheFirst(h) ==
    /\ proc[h] = "cache" /\ SetProc(h, "gone") /\ Exit(h)
    /\ UNCHANGED <<client, link, disk>>

CleanupCache(h) ==
    /\ proc[h] = "cache" /\ SetProc(h, "gone") /\ Exit(h)
    /\ \/ dir' = (dir /\ (crowd \/ file # "none")) /\ UNCHANGED kept
       \/ dir /\ kept' = kept \cup {h} /\ UNCHANGED dir
    /\ UNCHANGED <<client, link, file, crowd, aged>>
Kill(h) ==
    /\ proc[h] \in Running /\ SetProc(h, "killed") /\ Exit(h)
    /\ UNCHANGED <<client, link, disk>>
-----------------------------------------------------------------------------
(***************************************************************************)
(* The control goroutine handles one line at a time.  stopQUIC takes the   *)
(* listener out of the server, closes the connection it finds stored, and  *)
(* then closes the listener and its socket.                                *)
(***************************************************************************)
(* After the return of Serve a line can no longer change what stays behind. *)
Serving == proc[Main] \in {"serve", "stop"} /\ ql \notin {"abandon", "quit"}
Verb(v) == Serving /\ req # <<>> /\ Head(req) = v
              /\ req' = Tail(req)
Send(line) == rep' = Append(rep, line)

AnswerICMP == Verb("icmp") /\ Send("icmp") /\ UNCHANGED <<client, link, disk, proc, quic>>
AnswerQUIC ==
    /\ Verb("quic")
    /\ \/ ql = "none" /\ ql' = "bound" /\ Send("quic")
       \/ Send("quic-unavailable") /\ UNCHANGED ql
    /\ UNCHANGED <<client, link, disk, proc, hc>>
AnswerUnlink ==
    /\ Verb("unlink")
    /\ \/ file' = "none" /\ Send("unlink ok")
       \/ file # "none" /\ Send("unlink error") /\ UNCHANGED file
    /\ UNCHANGED <<client, link, dir, crowd, aged, kept, proc, quic>>

TakeQUIC(by) == /\ ql' = by
                   /\ hc' = IF hc = "stored" THEN "dead" ELSE hc
(* Mutant: abandon is an unknown verb. *)
AbandonIgnored ==
    Verb("abandon") /\ UNCHANGED <<client, link, disk, proc, rep, quic>>

HandleAbandon ==
    /\ Verb("abandon")
    /\ IF ql = "bound" THEN TakeQUIC("abandon") ELSE UNCHANGED quic
    /\ UNCHANGED <<client, link, disk, proc, rep>>
HandleQuit ==
    /\ Verb("quit")
    /\ IF ql = "bound" THEN TakeQUIC("quit") /\ UNCHANGED proc
       ELSE /\ proc' = [proc EXCEPT ![Main] = IF @ = "serve" THEN "stop" ELSE @]
            /\ UNCHANGED quic
    /\ UNCHANGED <<client, link, disk, rep>>
ReturnStops ==
    /\ proc[Main] = "stop" /\ ql = "bound" /\ TakeQUIC("return")
    /\ UNCHANGED <<client, link, disk, proc, wire>>

(* Mutant: the socket stays open, so an accepted connection lives on. *)
CloseListenerOnly == hc' = hc

(* The end of the listener refuses a connection that was not accepted, the *)
(* end of its socket ends one that was.                                    *)
CloseSockets == hc' = IF hc = "none" THEN hc ELSE "dead"
CloseQUIC ==
    /\ ql \in Taken /\ proc[Main] \in Running
    /\ ql' = "closed" /\ CloseSockets
    /\ proc' = [proc EXCEPT ![Main] = IF ql = "quit" /\ @ = "serve" THEN "stop" ELSE @]
    /\ UNCHANGED <<client, link, disk, wire>>

(* serveQUIC: a connection whose certificate is verified is accepted, also *)
(* while stopQUIC is about to close the listener; its streams are served   *)
(* once it is stored.                                                      *)
Accept == /\ qc = "handshake" /\ hc = "none" /\ ql \in Taken \cup {"bound"}
             /\ hc' = "accepted"
             /\ UNCHANGED <<client, link, disk, proc, wire, ql>>
Store  == /\ hc = "accepted" /\ hc' = "stored"
             /\ UNCHANGED <<client, link, disk, proc, wire, ql>>
(* The client closed the connection, or the idle timeout ended it. *)
ConnEnds == /\ hc \in {"accepted", "stored"}
               /\ hc' = "dead"
               /\ UNCHANGED <<client, link, disk, proc, wire, ql>>
-----------------------------------------------------------------------------
(***************************************************************************)
(* The network, the clock, and the helpers of other clients.               *)
(***************************************************************************)
LinkDies(h) == /\ link[h] = "open" /\ link' = [link EXCEPT ![h] = "closed"]
                  /\ UNCHANGED <<client, disk, proc, wire, quic>>
(* staleAge passes, also during a connect: nothing limits the handshakes   *)
(* and the start of the helpers.                                           *)
Age == /\ file = "new" /\ file' = "old" /\ aged' = TRUE
          /\ UNCHANGED <<client, link, dir, crowd, kept, proc, wire, quic>>
OtherSweep == /\ file' = SweepStale(FALSE) /\ file' # file
              /\ UNCHANGED <<client, link, dir, crowd, aged, kept, proc, wire, quic>>
OtherCleanup == /\ dir /\ ~crowd /\ file = "none" /\ dir' = FALSE
                /\ UNCHANGED <<client, link, file, crowd, aged, kept, proc, wire, quic>>

ClientSteps == \/ Mkdir \/ Write \/ WriteFails \/ Exec \/ StartFails \/ MuxUp
               \/ Call \/ Reply \/ NoReply \/ DialHandshake \/ Probe \/ DialFails
               \/ Abandon \/ LanesOpen \/ Lost \/ Quit \/ Close
               \/ \E l \in Lanes : LaneExec(l) \/ LaneUp(l) \/ LaneFails(l)
HelperSteps ==
    \/ AnswerICMP \/ AnswerQUIC \/ AnswerUnlink \/ HandleAbandon
    \/ HandleQuit \/ ReturnStops \/ CloseQUIC
    \/ \E h \in Helpers : HelperStart(h) \/ HelperEOF(h) \/ HelperStop(h)
                          \/ RemoveSelf(h) \/ CleanupCache(h)
Faults == \/ Age \/ ConnEnds
             \/ \E h \in Helpers : LinkDies(h) \/ Kill(h)

Next == \/ Begin \/ Again \/ ClientSteps \/ Stop \/ ClientDies \/ OtherSweep \/ OtherCleanup
        \/ HelperSteps \/ Accept \/ Store \/ Faults
Spec == Init /\ [][Next]_vars
-----------------------------------------------------------------------------
(***************************************************************************)
(* Properties.                                                             *)
(***************************************************************************)
(* openLane executes the file the primary lane uploaded.  A lane finds it  *)
(* gone only when a helper of the same attempt is past its removeSelf or   *)
(* was killed, or when the connect took longer than staleAge: neither the  *)
(* unlink of its own client, which waits for the lanes, nor the sweep of   *)
(* another helper takes a younger file away.                               *)
LaneFindsFile ==
    \A l \in Lanes : lane[l] = "nofile" =>
        aged \/ \E h \in Helpers : proc[h] \in {"cache", "gone", "killed"}

(* An answered unlink means the file is gone (Client.Unlink: "so the       *)
(* caller knows the file is gone before the session reports up").          *)
UnlinkIsKnown == unlinked => file = "none"

(* One helper that came to its end and failed in neither remove is enough  *)
(* for a clean remote: no file and, unless something else keeps it, no     *)
(* cache directory, whichever of the other helpers were killed, still run  *)
(* or failed to remove (removeSelf, cleanupCache).                         *)
CleanRemote ==
    (\E h \in Helpers \ kept : proc[h] = "gone") => file = "none" /\ (dir => crowd)

(* docs/architecture.md:122: "A SIGKILL of the helper and a power loss on  *)
(* the remote are the two paths that leave a file behind".  The code does  *)
(* not keep it: an upload that fails or times out in the middle, and a     *)
(* file that cannot be executed, have no helper that would remove it.      *)
OnlyKillLeavesFile ==
    (pc = "end" /\ \A h \in Helpers : proc[h] \in {"none", "gone"}) => file = "none"

(* The client dials only a port its own helper opened, also when the       *)
(* answer to an earlier verb comes late, and a dial that succeeded was     *)
(* accepted and is served by the helper (QUICClient.Probe).                *)
DialIsServed ==
    proc[Main] = "serve" =>
        /\ pc = "dial" => ql # "none"
        /\ qc = "up" => hc \in {"stored", "dead"}

(* stopQUIC leaves no connection behind, also one that serveQUIC accepted  *)
(* and had not stored when stopQUIC looked for it.                         *)
StoppedIsDead == ql = "closed" => hc \in {"none", "dead"}

(* Fairness: the client and every helper take the steps they can; a wait   *)
(* of theirs has a timeout, a keepalive or a close behind it.  The start   *)
(* of a helper has none, on the first connection and on a lane.            *)
MayHang == pc \in {"exec", "mux", "lanes"}
LiveSpec == /\ Spec /\ WF_vars(~MayHang /\ ClientSteps)
            /\ WF_vars(HelperSteps)

(* The helpers of an attempt end after their client, however it went away. *)
HelpersEnd == pc = "end" ~> (pc # "end" \/ \A h \in Helpers : proc[h] \notin Running)

(* A listener the client does not use (a dial that failed, an answer that  *)
(* came too late, a session that ended) is closed and its port is free.    *)
Unused == pc \notin {"icmp", "quic", "dial"} /\ qc # "up"
ListenerReleased == Unused ~> (ql \in {"none", "closed"} \/ ~Unused)
=============================================================================
