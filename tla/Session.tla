------------------------------ MODULE Session ------------------------------
(***************************************************************************)
(* The session runner, internal/session/run.go and reconnect.go: one       *)
(* process that opens a transport to the remote, changes the host (device, *)
(* routes, rules, DNS), waits for a signal or a loss, rebuilds the         *)
(* transport inside a reconnect window, and reverts the host at its end.   *)
(*                                                                         *)
(* pc is the place of the runner goroutine.  The detector goroutine, the   *)
(* metrics goroutine, the remote, the clock, systemd and the user          *)
(* interleave with it.  A transport is a number: cur counts the transports *)
(* of this process, so a stale channel or a stale dialer is visible as an  *)
(* older number.                                                           *)
(***************************************************************************)
EXTENDS Naturals, FiniteSets

CONSTANTS
    Addrs,        \* tailnet addresses the reference of the plan can resolve to
    PlanAddr,     \* the address in the plan
    Matching,     \* the addresses whose remote serves the manifest of the plan
    Kinds,        \* transports the first connect can select
    Modes,        \* ways to run the process: "unit", "foreground"
    Resolved,     \* systemd-resolved holds the DNS change (else /etc/resolv.conf)
    Windows,      \* values of plan.ReconnectFor in ticks; 0 turns the reconnect off
    Backoff,      \* Backoff[n] is the wait after attempt n
    MaxAttempts,  \* bound: attempts of one loss
    Slack,        \* bound: ticks that the model lets pass after the window
    MaxGen,       \* bound: transports of one process
    MaxRuns       \* bound: sessions run one after the other on the host

ASSUME AddrAssumption == /\ PlanAddr \in Addrs
                         /\ Matching \subseteq Addrs /\ PlanAddr \in Matching
ASSUME EnvAssumption  == /\ Kinds \subseteq {"ssh", "quic"}
                         /\ Modes \subseteq {"unit", "foreground"}
                         /\ Resolved \in BOOLEAN
ASSUME BoundAssumption == /\ Windows \subseteq Nat /\ Slack \in Nat
                          /\ MaxGen \in Nat /\ MaxRuns \in Nat
                          /\ MaxAttempts \in Nat
ASSUME BackoffAssumption == Backoff \in [1..MaxAttempts -> Nat \ {0}]

VARIABLES
    pc, mode, limit, sig, killed, runs,      \* the process, r.plan.ReconnectFor
    file,                                    \* the status in session.json
    host,                                    \* what the session changed
    ready, addr,                             \* r.device # "", r.addr
    cur, kind, link, closed, watched, dialer,\* the transport
    watch, loss, sample, metrics,            \* detector and metrics sampler
    attempts, elapsed, sleep                 \* the reconnect window

process   == <<mode, limit, killed, runs>>
transport == <<cur, kind, link, closed, watched, dialer>>
watches   == <<watch, loss, sample, metrics>>
window    == <<attempts, elapsed, sleep>>
vars == <<pc, sig, file, host, ready, addr, process, transport, watches, window>>

(* The stages of runner.transport, in the order of the code. *)
Stages == {"dial", "handshake", "upload", "exec", "open"}
(* The stages that the context of the attempt ends. *)
CtxBound == {"resolve", "dial", "upload"}
Setup == {"device", "routes", "dns", "dataplane"}
Stopping == {"stopHost", "stopTransport", "stopDevice"}
PCs == Stages \cup Setup \cup Stopping \cup
       {"done", "readPlan", "markUp", "wait", "lost", "deadline", "resolve",
        "install", "backoff", "stop", "exit", "cleanup"}

(* The connections of a transport whose end wait() selects on: the primary *)
(* mux with the QUIC connection, or with the extra SSH lanes.  A lane that *)
(* does not open is left out.                                              *)
Parts(k) == IF k = "quic" THEN {{"mux", "quic"}} ELSE {{"mux"}, {"mux", "lane"}}
AllParts == {"mux", "quic", "lane"}
Gens == 1..MaxGen

(* What the session changed on the host, what the record beside a          *)
(* rewritten resolv.conf holds ("tj" is a content that tj wrote itself,    *)
(* "cut" a copy whose write failed), and the changes whose last call       *)
(* failed.                                                                 *)
Host == [device: BOOLEAN, routes: BOOLEAN, rules: BOOLEAN,
         dns: {"host", "tunnel", "partial"},
         saved: {"none", "host", "tj", "cut"},
         failed: SUBSET {"device", "rules", "dns"}]

TypeOK ==
    /\ pc \in PCs
    /\ mode \in {"unit", "foreground"} /\ limit \in Nat
    /\ sig \in BOOLEAN /\ killed \in BOOLEAN /\ ready \in BOOLEAN
    /\ runs \in 0..MaxRuns
    /\ file \in {"none", "starting", "up", "reconnecting", "stopping"}
    /\ host \in Host
    /\ addr \in Addrs
    /\ cur \in 0..MaxGen
    /\ kind \in {"none", "ssh", "quic"}
    /\ link \in {"none", "alive", "silent", "reset"}
    /\ closed \in SUBSET (Gens \X AllParts)
    /\ watched \in SUBSET (Gens \X AllParts)
    /\ dialer \in 0..MaxGen
    /\ watch \in {"off", "idle", "probing", "ended"}
    /\ loss \in 0..MaxGen /\ sample \in 0..MaxGen /\ metrics \in 0..MaxGen
    /\ attempts \in 0..MaxAttempts
    /\ elapsed \in Nat /\ sleep \in Nat

Init ==
    /\ pc = "done" /\ mode = "foreground" /\ limit = 0 /\ sig = FALSE
    /\ killed = FALSE /\ runs = 0 /\ file = "none" /\ ready = FALSE /\ addr = PlanAddr
    /\ host = [device |-> FALSE, routes |-> FALSE, rules |-> FALSE,
               dns |-> "host", saved |-> "none", failed |-> {}]
    /\ cur = 0 /\ kind = "none" /\ link = "none"
    /\ closed = {} /\ watched = {} /\ dialer = 0
    /\ watch = "off" /\ loss = 0 /\ sample = 0 /\ metrics = 0
    /\ attempts = 0 /\ elapsed = 0 /\ sleep = 0
-----------------------------------------------------------------------------
(***************************************************************************)
(* Changes to the host.  Each operator is the set of outcomes of one call: *)
(* every call can fail, a failed revert is logged and the next step runs.  *)
(* failed names the changes whose last call failed.                        *)
(***************************************************************************)

(* What a revert puts back: resolvectl forgets the link; the fallback      *)
(* restores the record, and does nothing without one.                      *)
Restored(h) ==
    CASE Resolved \/ h.saved = "host" -> "host"
      [] ~Resolved /\ h.saved = "tj"   -> "tunnel"
      [] ~Resolved /\ h.saved = "cut"  -> "partial"
      [] ~Resolved /\ h.saved = "none" -> h.dns

(* A revert of the fallback removes resolv.conf, writes it, and removes    *)
(* the record; each can fail and leaves what came before.                  *)
RevertDNS(h) ==
    {[h EXCEPT !.dns = Restored(h), !.saved = "none",
               !.failed = IF Restored(h) = "host" THEN @ \ {"dns"} ELSE @]}
    \cup {[h EXCEPT !.dns = d, !.failed = @ \cup {"dns"}] :
              d \in IF Resolved \/ h.saved = "none" THEN {h.dns}
                    ELSE {h.dns, "partial", Restored(h)}}

(* The routes and the resolvectl settings of a link go with the link. *)
TeardownDevice(h) ==
    {[h EXCEPT !.device = FALSE, !.routes = FALSE,
               !.dns = IF Resolved THEN "host" ELSE @,
               !.failed = @ \ {"device"}],
     [h EXCEPT !.failed = @ \cup {"device"}]}

RemoveRoutes(h) == {[h EXCEPT !.routes = FALSE], h}

(* Reset flushes the table, then deletes the rules; it stops at an error. *)
ResetRoutes(h) ==
    {[h EXCEPT !.routes = FALSE, !.rules = FALSE, !.failed = @ \ {"rules"}],
     [h EXCEPT !.routes = FALSE, !.failed = @ \cup {"rules"}],
     [h EXCEPT !.failed = @ \cup {"rules"}]}

(* backupResolvConf copies the resolv.conf it finds over an older record.  *)
(* A change that failed part way may have left no file, and then the       *)
(* record stays.                                                           *)
Backup(h) ==
    IF Resolved THEN {h.saved}
    ELSE CASE h.dns = "host"    -> {"host"}
           [] h.dns = "tunnel"  -> {"tj"}
           [] h.dns = "partial" -> {"tj", h.saved}

ApplyDNS(h) == {[h EXCEPT !.dns = "tunnel", !.saved = b] : b \in Backup(h)}

(* ApplySplit and ApplyAll make several calls; the error of a later one    *)
(* leaves the earlier ones in place.  The write of the record can fail     *)
(* half way too.                                                           *)
ApplyDNSFails(h) ==
    {h} \cup {[h EXCEPT !.dns = "partial", !.saved = b,
                       !.failed = IF Resolved THEN @ ELSE @ \cup {"dns"}] :
                 b \in Backup(h)}
        \cup IF Resolved THEN {} ELSE {[h EXCEPT !.saved = "cut", !.failed = @ \cup {"dns"}]}

(* Mutant: the stop path forgets the rules. *)
RevertHostKeepsRules(h) == UNION {RemoveRoutes(h1) : h1 \in RevertDNS(h)}

(* The steps of stopSession on the host, in its order. *)
RevertHost(h) ==
    UNION {UNION {ResetRoutes(h2) : h2 \in RemoveRoutes(h1)} : h1 \in RevertDNS(h)}

(* Mutant: the cleanup forgets the rules. *)
CleanupHostKeepsRules(h) == UNION {TeardownDevice(h1) : h1 \in RevertDNS(h)}

(* The steps of cleanup, in its order. *)
CleanupHost(h) ==
    UNION {UNION {ResetRoutes(h2) : h2 \in TeardownDevice(h1)} : h1 \in RevertDNS(h)}
-----------------------------------------------------------------------------
(***************************************************************************)
(* Start of the process                                                    *)
(***************************************************************************)

(* The process is gone with everything in its memory. *)
ProcessGone ==
    /\ ready' = FALSE /\ addr' = PlanAddr /\ sig' = FALSE
    /\ cur' = 0 /\ kind' = "none" /\ link' = "none"
    /\ closed' = {} /\ watched' = {} /\ dialer' = 0
    /\ watch' = "off" /\ loss' = 0 /\ sample' = 0 /\ metrics' = 0
    /\ attempts' = 0 /\ elapsed' = 0 /\ sleep' = 0

(* _session start runs the unit, or the session in its own process.  A     *)
(* resolv.conf, or a record of it, that an older session left wrong counts *)
(* as a revert that failed.                                                *)
Begin(m, w) ==
    /\ pc = "done" /\ runs < MaxRuns
    /\ pc' = "readPlan" /\ mode' = m /\ limit' = w
    /\ killed' = FALSE /\ runs' = runs + 1
    /\ host' = [host EXCEPT !.failed =
                    IF Resolved \/ (host.dns = "host" /\ host.saved \in {"none", "host"})
                    THEN {} ELSE {"dns"}]
    /\ UNCHANGED <<sig, file, ready, addr, transport, watches, window>>

(* A plan that does not read or parse ends the process. *)
ReadPlanFails ==
    /\ pc = "readPlan"
    /\ pc' = IF mode = "unit" THEN "cleanup" ELSE "done"
    /\ ProcessGone
    /\ UNCHANGED <<file, host, process>>

(* The state file says starting, and the device of a crashed session goes. *)
NewRunner ==
    /\ pc = "readPlan"
    /\ pc' = "dial" /\ file' = "starting"
    /\ host' \in TeardownDevice(host)
    /\ UNCHANGED <<sig, ready, addr, process, transport, watches, window>>
-----------------------------------------------------------------------------
(***************************************************************************)
(* runner.transport: one connect attempt                                   *)
(***************************************************************************)

(* The context of the attempt: the signal, and on a reconnect the window. *)
CtxDone == sig \/ (ready /\ elapsed >= limit)

(* Mutant: the next attempt follows at once. *)
AttemptOverNoWait ==
    /\ pc' = IF ~ready THEN "exit" ELSE IF sig THEN "stop" ELSE "backoff"
    /\ UNCHANGED <<sleep, attempts>>

(* What follows an attempt that failed: Run returns the error of the first *)
(* one; a reconnect stops on the signal or waits for the next attempt.     *)
AttemptOver ==
    IF ~ready THEN pc' = "exit" /\ UNCHANGED <<sleep, attempts>>
    ELSE IF sig THEN pc' = "stop" /\ UNCHANGED <<sleep, attempts>>
    ELSE /\ pc' = "backoff"
         /\ sleep' = Backoff[attempts] /\ UNCHANGED attempts

DialTCP ==
    /\ pc = "dial" /\ ~CtxDone
    /\ pc' = "handshake"
    /\ UNCHANGED <<sig, file, host, ready, addr, process, transport, watches, window>>

(* Mutant: no manifest is compared after a move. *)
HandshakeUnguarded ==
    /\ pc = "handshake" /\ pc' = "upload"
    /\ UNCHANGED <<sig, file, host, ready, addr, process, transport, watches, window>>

(* The SSH handshake and the manifest read of guardManifest take no        *)
(* context: only an answer, or a broken connection, ends this stage.       *)
Handshake ==
    /\ pc = "handshake"
    /\ addr = PlanAddr \/ addr \in Matching
    /\ pc' = "upload"
    /\ UNCHANGED <<sig, file, host, ready, addr, process, transport, watches, window>>

(* Mutant: the error of guardManifest leaves Run without the stop path. *)
RemoteChangedReturns ==
    /\ pc = "handshake" /\ addr # PlanAddr /\ addr \notin Matching
    /\ pc' = "exit"
    /\ UNCHANGED <<sig, file, host, ready, addr, process, transport, watches, window>>

(* guardManifest: another remote answers at the new address, the session ends. *)
RemoteChanged ==
    /\ pc = "handshake"
    /\ addr # PlanAddr /\ addr \notin Matching
    /\ pc' = "stop"
    /\ UNCHANGED <<sig, file, host, ready, addr, process, transport, watches, window>>

Upload ==
    /\ pc = "upload" /\ ~CtxDone
    /\ pc' = "exec"
    /\ UNCHANGED <<sig, file, host, ready, addr, process, transport, watches, window>>

(* execHelper takes no context: the start of the helper and the line it    *)
(* sends first are awaited without a limit.                                *)
ExecHelper ==
    /\ pc = "exec"
    /\ pc' = "open"
    /\ UNCHANGED <<sig, file, host, ready, addr, process, transport, watches, window>>

(* Every stage can fail, and closes what it opened. *)
TransportFails ==
    /\ pc \in Stages
    /\ AttemptOver
    /\ UNCHANGED <<sig, file, host, ready, addr, process, transport, watches, elapsed>>

(* The first connect selects the transport; a reconnect keeps it. *)
OpenTransport(k) ==
    IF kind = "none" THEN k \in Kinds ELSE k = kind

(* The fields of the runner point at the new transport, the dialer last. *)
SetTransport(k) ==
    /\ cur' = cur + 1 /\ kind' = k /\ link' = "alive"
    /\ \E ps \in Parts(k) : watched' = {cur + 1} \X ps
    /\ dialer' = cur + 1
    /\ UNCHANGED closed

(* Mutant: the channels of the last transport are used again. *)
StartWatchesReused ==
    /\ watch' = IF limit > 0 THEN "idle" ELSE "ended"
    /\ UNCHANGED <<loss, sample, metrics>>

(* startWatches: new channels for the new transport.  The detector runs    *)
(* with a reconnect window only.                                           *)
StartWatches ==
    /\ watch' = IF limit > 0 THEN "idle" ELSE "ended"
    /\ loss' = 0 /\ sample' = 0
    /\ UNCHANGED metrics

TransportUp(k) ==
    /\ pc = "open" /\ ~ready /\ cur < MaxGen
    /\ OpenTransport(k) /\ SetTransport(k)
    /\ pc' = "device"
    /\ UNCHANGED <<sig, file, host, ready, addr, process, watches, window>>

(* A reconnect attempt puts the DNS mode back on the device before the     *)
(* dialer has the new transport.                                           *)
ReconnectDNS ==
    /\ pc = "open" /\ ready /\ cur < MaxGen
    /\ host' \in ApplyDNS(host)
    /\ pc' = "install"
    /\ UNCHANGED <<sig, file, ready, addr, process, transport, watches, window>>

(* The attempt succeeds: the dialer of the running data plane has the new  *)
(* transport, and the state file still says reconnecting.                  *)
ReconnectUp(k) ==
    /\ pc = "install"
    /\ OpenTransport(k) /\ SetTransport(k)
    /\ pc' = "markUp"
    /\ UNCHANGED <<sig, file, host, ready, addr, process, watches, window>>

(* applyDNS fails on a reconnect: transport closes what it opened. *)
ReconnectDNSFails ==
    /\ pc = "open" /\ ready
    /\ host' \in ApplyDNSFails(host)
    /\ AttemptOver
    /\ UNCHANGED <<sig, file, ready, addr, process, transport, watches, elapsed>>
-----------------------------------------------------------------------------
(***************************************************************************)
(* runner.setup, then markUp                                               *)
(***************************************************************************)
SetupDevice ==
    /\ pc = "device" /\ ~host.device
    /\ host' = [host EXCEPT !.device = TRUE]
    /\ pc' = "routes"
    /\ UNCHANGED <<sig, file, ready, addr, process, transport, watches, window>>

(* Create fails, or Configure does and the device goes again. *)
SetupDeviceFails ==
    /\ pc = "device"
    /\ host' \in {host} \cup
                 IF host.device THEN {}
                 ELSE TeardownDevice([host EXCEPT !.device = TRUE])
    /\ pc' = "exit"
    /\ UNCHANGED <<sig, file, ready, addr, process, transport, watches, window>>

SetupRoutes ==
    /\ pc = "routes"
    /\ host' = [host EXCEPT !.rules = TRUE, !.routes = TRUE]
    /\ pc' = "dns"
    /\ UNCHANGED <<sig, file, ready, addr, process, transport, watches, window>>

(* Router.Add installs the rules first; an error after that leaves them. *)
SetupRoutesFails ==
    /\ pc = "routes"
    /\ \E h \in {host, [host EXCEPT !.rules = TRUE]} : host' \in TeardownDevice(h)
    /\ pc' = "exit"
    /\ UNCHANGED <<sig, file, ready, addr, process, transport, watches, window>>

SetupDNS ==
    /\ pc = "dns"
    /\ host' \in ApplyDNS(host)
    /\ pc' = "dataplane"
    /\ UNCHANGED <<sig, file, ready, addr, process, transport, watches, window>>

SetupDNSFails ==
    /\ pc = "dns"
    /\ \E h \in ApplyDNSFails(host) : \E h1 \in RemoveRoutes(h) :
           host' \in TeardownDevice(h1)
    /\ pc' = "exit"
    /\ UNCHANGED <<sig, file, ready, addr, process, transport, watches, window>>

(* The data plane runs on the switch dialer and carries flows, while the   *)
(* state file still says starting.                                         *)
SetupDataPlane ==
    /\ pc = "dataplane"
    /\ ready' = TRUE
    /\ pc' = "markUp"
    /\ UNCHANGED <<sig, file, host, addr, process, transport, watches, window>>

(* markUp and startWatches, after the setup or after the attempt that      *)
(* opened a transport again; the progress of the reconnect is dropped.     *)
MarkUp ==
    /\ pc = "markUp"
    /\ file' = "up" /\ StartWatches
    /\ attempts' = 0 /\ elapsed' = 0 /\ sleep' = 0
    /\ pc' = "wait"
    /\ UNCHANGED <<sig, host, ready, addr, process, transport>>

SetupDataPlaneFails ==
    /\ pc = "dataplane"
    /\ \E h \in RevertDNS(host) : \E h1 \in RemoveRoutes(h) :
           host' \in TeardownDevice(h1)
    /\ pc' = "exit"
    /\ UNCHANGED <<sig, file, ready, addr, process, transport, watches, window>>
-----------------------------------------------------------------------------
(***************************************************************************)
(* runner.wait, runner.lost                                                *)
(***************************************************************************)
WaitSignal ==
    /\ pc = "wait" /\ sig
    /\ pc' = "stop"
    /\ UNCHANGED <<sig, file, host, ready, addr, process, transport, watches, window>>

WaitSample ==
    /\ pc = "wait" /\ sample # 0
    /\ metrics' = sample /\ sample' = 0
    /\ UNCHANGED <<pc, sig, file, host, ready, addr, process, transport, watch, loss, window>>

(* dropTransport closes every connection of the transport, which fires its *)
(* channels, and forgets them.                                             *)
DropTransport ==
    /\ closed' = closed \cup watched
    /\ watched' = {} /\ link' = "none"
    /\ UNCHANGED <<cur, kind>>

(* stopResume cancels the probe of the detector.  A cancelled probe is an  *)
(* error, and the detector then either reports it or sees its context end. *)
StopWatches ==
    /\ watch' = "off"
    /\ loss' \in IF watch = "probing" /\ loss = 0 THEN {0, cur} ELSE {loss}
    /\ UNCHANGED sample

(* A loss without a window ends the session. *)
LossEnds ==
    /\ limit = 0
    /\ pc' = "stop"
    /\ UNCHANGED <<sig, file, host, ready, addr, process, transport, watches, window>>

(* Mutant: the dialer keeps the transport that is lost. *)
LossDropsNoClear ==
    /\ limit > 0 /\ StopWatches /\ DropTransport
    /\ attempts' = 0 /\ elapsed' = 0 /\ sleep' = 0
    /\ pc' = "lost"
    /\ UNCHANGED <<dialer, metrics, sig, file, host, ready, addr, process>>

(* With one, lost clears the dialer first, then stops the watches and      *)
(* closes the transport.                                                   *)
LossDrops ==
    /\ limit > 0
    /\ dialer' = 0
    /\ StopWatches /\ UNCHANGED metrics
    /\ DropTransport
    /\ attempts' = 0 /\ elapsed' = 0 /\ sleep' = 0
    /\ pc' = "lost"
    /\ UNCHANGED <<sig, file, host, ready, addr, process>>

Lost == LossEnds \/ LossDrops

(* Mutant: the DNS stays in the tunnel while the session reconnects. *)
LostKeepsDNS ==
    /\ pc = "lost" /\ file' = "reconnecting" /\ metrics' = 0 /\ pc' = "deadline"
    /\ UNCHANGED <<sig, host, ready, addr, process, transport, watch, loss, sample, window>>

(* The rest of lost: the DNS is reverted, then the state is written.  The  *)
(* device and the routes stay.                                             *)
LostRevert ==
    /\ pc = "lost"
    /\ host' \in RevertDNS(host)
    /\ file' = "reconnecting" /\ metrics' = 0
    /\ pc' = "deadline"
    /\ UNCHANGED <<sig, ready, addr, process, transport, watch, loss, sample, window>>

(* Mutant: the select has no case for the QUIC connection. *)
WaitClosedNoQUIC == pc = "wait" /\ (watched \cap closed) \ {<<cur, "quic">>} # {} /\ Lost

(* A channel of the current transport fires, or the detector reports. *)
WaitClosed == pc = "wait" /\ watched \cap closed # {} /\ Lost
WaitResume == pc = "wait" /\ loss # 0 /\ Lost
-----------------------------------------------------------------------------
(***************************************************************************)
(* runner.reconnect, runner.attempt, runner.resolve                        *)
(***************************************************************************)
GiveUp ==
    /\ pc = "deadline" /\ elapsed >= limit
    /\ pc' = "stop"
    /\ UNCHANGED <<sig, file, host, ready, addr, process, transport, watches, window>>

StartAttempt ==
    /\ pc = "deadline" /\ elapsed < limit /\ attempts < MaxAttempts
    /\ attempts' = attempts + 1
    /\ pc' = "resolve"
    /\ UNCHANGED <<sig, file, host, ready, addr, process, transport, watches, elapsed, sleep>>

(* The remote is found again, at the same or at a new address. *)
Resolve ==
    /\ pc = "resolve" /\ ~CtxDone
    /\ addr' \in Addrs
    /\ pc' = "dial"
    /\ UNCHANGED <<sig, file, host, ready, process, transport, watches, window>>

ResolveFails ==
    /\ pc = "resolve"
    /\ AttemptOver
    /\ UNCHANGED <<sig, file, host, ready, addr, process, transport, watches, elapsed>>

BackoffDone ==
    /\ pc = "backoff" /\ sleep = 0
    /\ pc' = "deadline"
    /\ UNCHANGED <<sig, file, host, ready, addr, process, transport, watches, window>>

BackoffCancelled ==
    /\ pc = "backoff" /\ sig
    /\ pc' = "stop"
    /\ UNCHANGED <<sig, file, host, ready, addr, process, transport, watches, window>>
-----------------------------------------------------------------------------
(***************************************************************************)
(* stopSession, the deferred calls of Run, and the cleanup of the unit     *)
(***************************************************************************)
(* Mutant: a status that no reader of the file knows. *)
StopMarkUnknown ==
    /\ pc = "stop" /\ file' = "stopped" /\ StopWatches /\ pc' = "stopHost"
    /\ UNCHANGED <<sig, host, ready, addr, process, transport, metrics, window>>

StopMark ==
    /\ pc = "stop"
    /\ file' = "stopping" /\ StopWatches
    /\ pc' = "stopHost"
    /\ UNCHANGED <<sig, host, ready, addr, process, transport, metrics, window>>

StopHost ==
    /\ pc = "stopHost"
    /\ host' \in RevertHost(host)
    /\ pc' = "stopTransport"
    /\ UNCHANGED <<sig, file, ready, addr, process, transport, watches, window>>

(* quit on the primary, then laneSet.stop.  It closes the mux of a lane    *)
(* before its SSH connection, so with a peer that is gone without a close  *)
(* it does not return.                                                     *)
StopTransport ==
    /\ pc = "stopTransport"
    /\ ~(<<cur, "lane">> \in watched /\ link = "silent")
    /\ pc' = "stopDevice"
    /\ UNCHANGED <<sig, file, host, ready, addr, process, transport, watches, window>>

StopDevice ==
    /\ pc = "stopDevice"
    /\ ready' = FALSE
    /\ host' \in TeardownDevice(host)
    /\ pc' = "exit"
    /\ UNCHANGED <<sig, file, addr, process, transport, watches, window>>

(* Run returns: dropTransport, and the state file goes. *)
Exit ==
    /\ pc = "exit"
    /\ file' = "none"
    /\ ProcessGone
    /\ pc' = IF mode = "unit" THEN "cleanup" ELSE "done"
    /\ UNCHANGED <<host, process>>

(* ExecStopPost of the unit, after every end of the process. *)
Cleanup ==
    /\ pc = "cleanup"
    /\ host' \in CleanupHost(host)
    /\ file' = "none"
    /\ pc' = "done"
    /\ UNCHANGED <<sig, ready, addr, process, transport, watches, window>>

Running == pc \notin {"done", "cleanup"}

(* A kill signal, the out-of-memory killer, or a panic of a goroutine that *)
(* no recover guards.                                                      *)
Crash ==
    /\ Running
    /\ killed' = TRUE
    /\ ProcessGone
    /\ pc' = IF mode = "unit" THEN "cleanup" ELSE "done"
    /\ UNCHANGED <<file, host, mode, limit, runs>>

(* Mutant: the unit has no stop timeout. *)
StopTimeoutNone == FALSE /\ Crash

(* TimeoutStopSec: systemd kills a unit that does not stop on the signal. *)
StopTimeout == mode = "unit" /\ sig /\ Crash
-----------------------------------------------------------------------------
(***************************************************************************)
(* The goroutines beside the runner, the remote, the user and the clock    *)
(***************************************************************************)
Signal ==
    /\ Running /\ pc # "readPlan" /\ ~sig
    /\ sig' = TRUE
    /\ UNCHANGED <<pc, file, host, ready, addr, process, transport, watches, window>>

(* One connection of the transport closes: the helper exits, a lane drops, *)
(* or a keepalive finds a peer that went silent.                           *)
PartCloses(p) ==
    /\ <<cur, p>> \in watched \ closed
    /\ closed' = closed \cup {<<cur, p>>}
    /\ UNCHANGED <<pc, sig, file, host, ready, addr, process, cur, kind, link,
                   watched, dialer, watches, window>>

(* The peer is gone without a close. *)
GoSilent ==
    /\ link = "alive"
    /\ link' = "silent"
    /\ UNCHANGED <<pc, sig, file, host, ready, addr, process, cur, kind, closed,
                   watched, dialer, watches, window>>

(* The kernel gives up on the TCP connections of a peer that is gone: the  *)
(* SSH keepalive keeps data unacknowledged, so the retransmission limit    *)
(* applies.                                                                *)
LinkReset ==
    /\ link = "silent"
    /\ link' = "reset"
    /\ closed' = closed \cup watched
    /\ UNCHANGED <<pc, sig, file, host, ready, addr, process, cur, kind,
                   watched, dialer, watches, window>>

(* A gap in the wall clock starts a probe; suspended machines lose peers. *)
Resume ==
    /\ watch = "idle"
    /\ watch' = "probing"
    /\ UNCHANGED <<pc, sig, file, host, ready, addr, process, transport, loss,
                   sample, metrics, window>>

ProbeAnswered ==
    /\ watch = "probing" /\ link = "alive"
    /\ watch' = "idle"
    /\ UNCHANGED <<pc, sig, file, host, ready, addr, process, transport, loss,
                   sample, metrics, window>>

(* The probe fails or has no answer within its limit. *)
ProbeFails ==
    /\ watch = "probing"
    /\ watch' = "ended" /\ loss' = cur
    /\ UNCHANGED <<pc, sig, file, host, ready, addr, process, transport,
                   sample, metrics, window>>

(* The sampler sends a sample and drops it when the last one is unread. *)
SendSample ==
    /\ watch # "off" /\ sample = 0
    /\ sample' = cur
    /\ UNCHANGED <<pc, sig, file, host, ready, addr, process, transport, watch,
                   loss, metrics, window>>

Reconnecting ==
    ready /\ pc \in Stages \cup {"lost", "deadline", "resolve", "install", "backoff"}

(* A tick of the monotonic clock.  A stage that the context bounds ends at *)
(* the window; the timer bounds the backoff; nothing bounds the others.    *)
Tick ==
    /\ Reconnecting
    /\ pc = "backoff" => sleep > 0
    /\ pc \in CtxBound => elapsed < limit
    /\ pc # "backoff" => elapsed < limit + Slack
    /\ elapsed' = elapsed + 1
    /\ sleep' = IF pc = "backoff" THEN sleep - 1 ELSE sleep
    /\ UNCHANGED <<pc, sig, file, host, ready, addr, process, transport, watches, attempts>>
-----------------------------------------------------------------------------
Connecting == \/ DialTCP \/ Handshake \/ RemoteChanged \/ Upload \/ ExecHelper
              \/ TransportFails
              \/ \E k \in {"ssh", "quic"} : TransportUp(k) \/ ReconnectUp(k)
              \/ ReconnectDNS \/ ReconnectDNSFails

SettingUp == \/ SetupDevice \/ SetupDeviceFails \/ SetupRoutes \/ SetupRoutesFails
             \/ SetupDNS \/ SetupDNSFails \/ SetupDataPlane \/ SetupDataPlaneFails
             \/ MarkUp

Waiting == WaitSignal \/ WaitClosed \/ WaitResume \/ LostRevert

Retrying == \/ GiveUp \/ StartAttempt \/ Resolve \/ ResolveFails
            \/ BackoffDone \/ BackoffCancelled

Ending == StopMark \/ StopHost \/ StopTransport \/ StopDevice \/ Exit \/ Cleanup

Environment ==
    \/ \E m \in Modes, w \in Windows : Begin(m, w)
    \/ Signal \/ Crash \/ GoSilent \/ Resume \/ SendSample
    \/ \E p \in AllParts : PartCloses(p)

Next == \/ Environment
        \/ ReadPlanFails \/ NewRunner
        \/ Connecting \/ SettingUp \/ Waiting \/ WaitSample \/ Retrying \/ Ending
        \/ ProbeAnswered \/ ProbeFails \/ LinkReset \/ Tick

Spec == Init /\ [][Next]_vars

(***************************************************************************)
(* Fairness.  The runner goroutine is scheduled, its timers and timeouts   *)
(* fire, and a select that stays ready is taken.  The waits of a connect   *)
(* that nothing but the remote ends are left out (MayHang).  The           *)
(* keepalives of yamux and QUIC, the retransmission limit of TCP and the   *)
(* stop timeout of systemd act in the end; signals, crashes and failures   *)
(* never have to happen.                                                   *)
(***************************************************************************)

(* A connect waits for the remote without a deadline: in the handshake of  *)
(* the first connection and in the start of its helper, and, unless the    *)
(* session has chosen QUIC, in those of the lanes.                         *)
MayHang == pc \in {"handshake", "exec"} \/ (pc = "open" /\ kind # "quic")

RunnerStep ==
    \/ ReadPlanFails \/ NewRunner
    \/ ~MayHang /\ Connecting
    \/ SettingUp \/ Waiting \/ Retrying \/ Ending

Keepalive == link = "silent" /\ \E p \in AllParts : PartCloses(p)

Fairness == /\ WF_vars(RunnerStep) /\ WF_vars(ProbeAnswered \/ ProbeFails)
            /\ WF_vars(Keepalive) /\ WF_vars(LinkReset)
            /\ WF_vars(Tick) /\ WF_vars(StopTimeout)

FairSpec == Spec /\ Fairness
-----------------------------------------------------------------------------
(***************************************************************************)
(* Safety                                                                  *)
(***************************************************************************)

(* What the session still has on the host, by the revert that removes it. *)
Residue(h) == (IF h.device THEN {"device"} ELSE {}) \cup
              (IF h.rules THEN {"rules"} ELSE {}) \cup
              (IF h.dns # "host" THEN {"dns"} ELSE {})

(* Whenever the state file of a live session says up, the host carries all *)
(* of the session: device, routes, rules, the whole DNS mode, the data     *)
(* plane, and a dialer on the newest transport, to a remote whose manifest *)
(* is the manifest of the plan.  The one exception is lost, which takes    *)
(* the transport down before it writes the file (markUp, setup, transport, *)
(* guardManifest, lost).                                                   *)
UpIsComplete ==
    (Running /\ pc \notin {"readPlan", "lost"} /\ file = "up") =>
        /\ host.device /\ host.routes /\ host.rules /\ host.dns = "tunnel"
        /\ ready /\ dialer = cur /\ cur > 0
        /\ addr \in Matching

(* The runner acts on the current transport only: the channels it selects  *)
(* on, the dialer of the data plane, and, while it waits, the report of    *)
(* the detector, the queued sample and the metrics it published are of the *)
(* newest transport; with no transport the dialer is empty (wait,          *)
(* dropTransport, startWatches, lost).                                     *)
CurrentTransportOnly ==
    /\ \A w \in watched : w[1] = cur
    /\ dialer \in {0, cur}
    /\ Reconnecting => dialer = 0 /\ watched = {}
    /\ (Reconnecting /\ pc # "lost") => metrics = 0
    /\ pc = "wait" => /\ loss \in {0, cur} /\ sample \in {0, cur}
                      /\ metrics \in {0, cur}

(* While the session has no transport, from the end of lost to the end of  *)
(* an attempt that opened one, the DNS mode is not in force, so a name     *)
(* lookup does not go into a tunnel nobody serves; only a revert that      *)
(* failed leaves it (lost, transport).                                     *)
NoDNSWithoutTransport ==
    (Reconnecting /\ pc \notin {"lost", "install"}) =>
        host.dns # "tunnel" \/ "dns" \in host.failed

(* After a session of the unit has ended, on every path, by a signal, a    *)
(* loss, a failed setup or a kill, nothing is left on the host except what *)
(* the cleanup itself tried to revert and could not, and a resolv.conf     *)
(* whose record an earlier failed call had spoilt (Cleanup).               *)
CleanupReverts ==
    (pc = "done" /\ mode = "unit") => Residue(host) \subseteq host.failed

(* The step of the stop path that a dead peer can block comes after the    *)
(* DNS, the routes and the rules are reverted, so a stop that hangs costs  *)
(* the user no connectivity (stopSession, laneSet.stop).                   *)
BlockedStopHarmless ==
    pc \in {"stopTransport", "stopDevice"} =>
        /\ host.dns = "host" \/ "dns" \in host.failed
        /\ ~host.rules \/ "rules" \in host.failed

(* The wait before attempt n+1 follows attempt n, so n attempts take at    *)
(* least the sum of the first n-1 waits, and the bound on the attempts is  *)
(* never what stops a reconnect (reconnect, backoffAfter).                 *)
Paced[n \in 0..MaxAttempts] ==
    IF n <= 1 THEN 0 ELSE Paced[n - 1] + Backoff[n - 1]
AttemptsPaced ==
    Reconnecting => /\ elapsed + sleep >= Paced[attempts]
                    /\ attempts <= limit

(* A session is declared lost only for a transport that is really broken:  *)
(* without a signal, the step out of the wait finds a closed connection of *)
(* the current transport, or a failed probe of it, never the echo of a     *)
(* loss that was handled before (wait, lost, startWatches).                *)
LossIsReal ==
    [][ (pc = "wait" /\ pc' \in {"lost", "stop"} /\ ~sig)
        => (\E p \in AllParts : <<cur, p>> \in closed) \/ loss = cur ]_vars

(* What the rest of tj sees of the session: the interface Lifecycle. *)
L == INSTANCE Lifecycle WITH alive <- Running /\ pc # "readPlan",
                             status <- file,
                             carrying <- ready /\ dialer # 0

(* Every step of the session is a step of the interface the command line   *)
(* relies on, or is invisible there: flows are carried before the file     *)
(* says up, up is left through reconnecting or stopping only, a loss is    *)
(* written after the flows have ended, and stopping is final.              *)
Implements == L!Spec
-----------------------------------------------------------------------------
(***************************************************************************)
(* Liveness                                                                *)
(***************************************************************************)

(* A signal ends the session of a unit, even when the runner hangs in a    *)
(* handshake, in the start of a helper or in the stop of the lanes (Run,   *)
(* TimeoutStopSec).                                                        *)
SignalEnds == (sig /\ mode = "unit") ~> (pc = "done")

Broken  == pc = "wait" /\ (link \in {"silent", "reset"} \/ \E p \in AllParts : <<cur, p>> \in closed)
Healthy == pc = "wait" /\ link = "alive" /\ \A p \in AllParts : <<cur, p>> \notin closed

(* A broken transport is noticed, also when no close reports it, and the   *)
(* session then is up on a working transport or ends: it never stays in a  *)
(* reconnect, provided that no wait without a deadline, for a handshake or *)
(* for the start of a helper, lasts for ever (wait, lost, reconnect,       *)
(* stopSession).                                                           *)
LossResolves == ([]<>~MayHang) => (Broken ~> (Healthy \/ pc = "done"))
-----------------------------------------------------------------------------
(***************************************************************************)
(* What the documentation says and the code does not do                    *)
(***************************************************************************)

(* reconnect.go: "The attempt runs under the window, so a dial that hangs  *)
(* ends with the window instead of outliving it." The handshake takes no   *)
(* context.                                                                *)
AttemptInsideWindow == (Reconnecting /\ pc \in Stages) => elapsed <= limit

(* run.go: "On exit it reverts every change." A setup that fails after     *)
(* Router.Add returns without Router.Reset.                                *)
ExitReverts ==
    (pc = "done" /\ ~killed) => Residue(host) \subseteq host.failed
=============================================================================
