--------------------------- MODULE SessionProofs ---------------------------
(***************************************************************************)
(* Proofs about Session, for every set of addresses, every window, every   *)
(* backoff and every bound: type correctness, the safety invariants that   *)
(* the runs check, and that Session implements Lifecycle.                  *)
(***************************************************************************)
EXTENDS Session, WellFoundedInduction, TLAPS

(***************************************************************************)
(* The inductive invariant: what holds at each place of the runner.        *)
(***************************************************************************)

(* No process: its memory is empty. *)
NoProcess ==
    pc \in {"done", "cleanup", "readPlan"} =>
        /\ ~ready /\ cur = 0 /\ dialer = 0 /\ kind = "none" /\ link = "none"
        /\ watched = {} /\ watch = "off" /\ loss = 0 /\ sample = 0
        /\ metrics = 0 /\ addr = PlanAddr

(* The host is on its own DNS, or a DNS call failed.  Where a fallback has *)
(* rewritten resolv.conf, the record beside it is the original, or a DNS   *)
(* call failed.                                                            *)
OnHostDNS(h) == Resolved \/ h.dns = "host" \/ "dns" \in h.failed

Recorded(h) ==
    Resolved \/ /\ h.dns # "host" => h.saved = "host" \/ "dns" \in h.failed
                /\ h.saved \in {"tj", "cut"} => "dns" \in h.failed

DNSRecord ==
    /\ Recorded(host)
    /\ (~ready /\ pc \in Stages \cup {"readPlan", "device", "routes", "dns"}) =>
           OnHostDNS(host)
    /\ (Reconnecting /\ pc \notin {"lost", "install"}) => OnHostDNS(host)

(* The first connect: the transport comes first, then the host changes in  *)
(* the order of setup.                                                     *)
FirstConnect ==
    /\ (~ready /\ pc \in Stages) =>
           /\ cur = 0 /\ dialer = 0 /\ watched = {} /\ file = "starting"
           /\ kind = "none" /\ link = "none"
           /\ watch = "off" /\ loss = 0 /\ sample = 0 /\ metrics = 0
           /\ addr = PlanAddr
    /\ pc \in Setup =>
           /\ ~ready /\ cur > 0 /\ dialer = cur /\ file = "starting"
           /\ watch = "off" /\ loss = 0 /\ sample = 0 /\ metrics = 0
           /\ addr = PlanAddr
    /\ pc = "routes" => host.device
    /\ pc \in {"dns", "dataplane"} => host.device /\ host.routes /\ host.rules
    /\ pc = "dataplane" => host.dns = "tunnel"

(* From the first up to the stop path the host keeps the session. *)
HostKept ==
    /\ pc \in {"markUp", "wait", "lost", "deadline", "resolve", "install",
               "backoff", "stop"} \cup Stopping => ready
    /\ ready => pc \in Stages \cup Stopping \cup
                       {"markUp", "wait", "lost", "deadline", "resolve",
                        "install", "backoff", "stop"}
    /\ (ready /\ pc \notin Stopping) => host.device /\ host.routes /\ host.rules

UpState ==
    /\ host.dns = "tunnel" /\ dialer = cur /\ cur > 0 /\ addr \in Matching

(* Where the session waits it is up in every part, and so it is before the *)
(* file says it.                                                           *)
Up ==
    /\ pc = "markUp" => /\ file \in {"starting", "reconnecting"} /\ UpState
                        /\ watch = "off" /\ metrics = 0
    /\ pc = "wait" => /\ file = "up" /\ UpState
                      /\ loss \in {0, cur} /\ sample \in {0, cur}
                      /\ metrics \in {0, cur}
    /\ pc = "stop" => \/ file = "up" /\ UpState
                      \/ file = "reconnecting" /\ dialer = 0

(* Where the session reconnects it holds nothing of a transport. *)
Gap ==
    Reconnecting =>
        /\ dialer = 0 /\ watched = {} /\ link = "none" /\ watch = "off" /\ cur > 0
        /\ pc = "lost" => file = "up"
        /\ pc # "lost" => file = "reconnecting" /\ metrics = 0
        /\ pc = "install" => host.dns = "tunnel" /\ cur < MaxGen
        /\ pc \notin {"lost", "install"} =>
               host.dns # "tunnel" \/ "dns" \in host.failed
        /\ pc \in {"upload", "exec", "open", "install"} => addr \in Matching
        /\ pc \in Stages \cup {"resolve"} => attempts > 0

(* The status in the file follows the place of the runner. *)
FileFollows ==
    /\ pc \in Stopping => file = "stopping"
    /\ pc = "exit" => file \in {"starting", "stopping"} /\ ~ready

(* Everything the runner holds is of the newest transport. *)
Newest ==
    /\ \A w \in watched : w[1] = cur
    /\ dialer \in {0, cur}
    /\ watch # "off" => pc \in {"wait", "stop"} /\ cur > 0
    /\ link # "none" => cur > 0

IInv ==
    /\ TypeOK /\ NoProcess /\ FirstConnect /\ HostKept /\ Up /\ Gap
    /\ FileFollows /\ Newest /\ DNSRecord /\ BlockedStopHarmless /\ CleanupReverts
-----------------------------------------------------------------------------
(***************************************************************************)
(* What the calls on the host leave behind.                                *)
(***************************************************************************)

(* A revert of the DNS changes nothing else, and with a good record it     *)
(* leaves the host on its own DNS unless the call failed (RevertDNS).      *)
LEMMA RevertDNSOutcome ==
    ASSUME NEW h \in Host, NEW g \in RevertDNS(h)
    PROVE  /\ g \in Host
           /\ g.device = h.device /\ g.routes = h.routes /\ g.rules = h.rules
           /\ Recorded(h) => Recorded(g)
           /\ Recorded(h) => g.dns = "host" \/ "dns" \in g.failed
  <1> DEFINE r == Restored(h)
  <1>1. r \in {"host", "tunnel", "partial"}
    BY DEF Restored, Host
  <1>2. /\ Resolved \/ h.saved = "host" => r = "host"
        /\ ~Resolved /\ h.saved = "tj" => r = "tunnel"
        /\ ~Resolved /\ h.saved = "cut" => r = "partial"
        /\ ~Resolved /\ h.saved = "none" => r = h.dns
    BY DEF Restored
  <1>3. CASE g = [h EXCEPT !.dns = r, !.saved = "none",
                           !.failed = IF r = "host" THEN @ \ {"dns"} ELSE @]
    <2> HIDE DEF r
    <2>1. CASE r = "host"
      BY <1>1, <1>2, <1>3, <2>1 DEF Host, Recorded
    <2>2. CASE r # "host"
      <3>1. g = [h EXCEPT !.dns = r, !.saved = "none"]
        BY <1>3, <2>2 DEF Host
      <3>2. ~Resolved /\ h.saved \in {"tj", "cut", "none"}
        BY <1>2, <2>2 DEF Host
      <3>3. Recorded(h) => "dns" \in h.failed
        BY <1>2, <2>2, <3>2 DEF Recorded
      <3> QED
        BY <1>1, <3>1, <3>3 DEF Host, Recorded
    <2> QED
      BY <2>1, <2>2
  <1>4. ASSUME NEW d \in {h.dns, "partial", r},
               g = [h EXCEPT !.dns = d, !.failed = @ \cup {"dns"}]
        PROVE  /\ g \in Host
               /\ g.device = h.device /\ g.routes = h.routes /\ g.rules = h.rules
               /\ Recorded(h) => Recorded(g)
               /\ "dns" \in g.failed
    <2> HIDE DEF r
    <2> QED
      BY <1>1, <1>2, <1>4 DEF Host, Recorded
  <1> QED
    BY <1>3, <1>4 DEF RevertDNS

(* A teardown of the device leaves the rules, and never puts DNS settings  *)
(* back (TeardownDevice).                                                  *)
LEMMA TeardownOutcome ==
    ASSUME NEW h \in Host, NEW g \in TeardownDevice(h)
    PROVE  /\ g \in Host
           /\ g.rules = h.rules
           /\ g.dns \in {"host", h.dns}
           /\ ~g.device \/ "device" \in g.failed
           /\ "dns" \in h.failed => "dns" \in g.failed
           /\ "rules" \in h.failed => "rules" \in g.failed
           /\ Recorded(h) => Recorded(g)
           /\ OnHostDNS(h) => OnHostDNS(g)
  <1>1. CASE g = [h EXCEPT !.failed = @ \cup {"device"}]
    BY <1>1 DEF Host, Recorded, OnHostDNS
  <1>2. CASE g # [h EXCEPT !.failed = @ \cup {"device"}]
    <2> DEFINE d == IF Resolved THEN "host" ELSE h.dns
    <2>1. g = [h EXCEPT !.device = FALSE, !.routes = FALSE, !.dns = d,
                        !.failed = @ \ {"device"}]
      BY <1>2 DEF TeardownDevice
    <2>2. d \in {"host", h.dns} /\ (~Resolved => d = h.dns)
      OBVIOUS
    <2>3. d \in {"host", "tunnel", "partial"}
      BY <2>2 DEF Host
    <2> HIDE DEF d
    <2> QED
      BY <2>1, <2>2, <2>3 DEF Host, Recorded, OnHostDNS
  <1> QED
    BY <1>1, <1>2

(* A removal of the routes touches the routes only (RemoveRoutes). *)
LEMMA RemoveRoutesOutcome ==
    ASSUME NEW h \in Host, NEW g \in RemoveRoutes(h)
    PROVE  /\ g \in Host /\ g.rules = h.rules /\ g.dns = h.dns
           /\ g.device = h.device /\ g.failed = h.failed
           /\ Recorded(h) => Recorded(g)
  BY DEF RemoveRoutes, Host, Recorded

(* A reset leaves no rule unless the call failed (ResetRoutes). *)
LEMMA ResetOutcome ==
    ASSUME NEW h \in Host, NEW g \in ResetRoutes(h)
    PROVE  /\ g \in Host /\ g.dns = h.dns /\ g.device = h.device
           /\ ~g.rules \/ "rules" \in g.failed
           /\ "dns" \in h.failed => "dns" \in g.failed
           /\ "device" \in h.failed => "device" \in g.failed
           /\ Recorded(h) => Recorded(g)
  <1>1. CASE g = [h EXCEPT !.failed = @ \cup {"rules"}]
    BY <1>1 DEF Host, Recorded
  <1>2. CASE g = [h EXCEPT !.routes = FALSE, !.rules = FALSE, !.failed = @ \ {"rules"}]
    BY <1>2 DEF Host, Recorded
  <1>3. CASE g = [h EXCEPT !.routes = FALSE, !.failed = @ \cup {"rules"}]
    BY <1>3 DEF Host, Recorded
  <1> QED
    BY <1>1, <1>2, <1>3 DEF ResetRoutes

(* The host steps of stopSession leave DNS changes and rules only where    *)
(* the revert failed (RevertHost).                                         *)
LEMMA RevertHostOutcome ==
    ASSUME NEW h \in Host, NEW g \in RevertHost(h), Recorded(h)
    PROVE  /\ g \in Host /\ Recorded(g)
           /\ g.dns = "host" \/ "dns" \in g.failed
           /\ ~g.rules \/ "rules" \in g.failed
  <1>a. PICK h1 \in RevertDNS(h) : \E x \in RemoveRoutes(h1) : g \in ResetRoutes(x)
    BY DEF RevertHost
  <1>1. PICK h2 \in RemoveRoutes(h1) : g \in ResetRoutes(h2)
    BY <1>a
  <1>2. h1 \in Host /\ Recorded(h1) /\ (h1.dns = "host" \/ "dns" \in h1.failed)
    BY <1>a, RevertDNSOutcome
  <1>3. h2 \in Host /\ Recorded(h2) /\ h2.dns = h1.dns /\ h2.failed = h1.failed
    BY <1>1, <1>2, RemoveRoutesOutcome
  <1> QED
    BY <1>1, <1>2, <1>3, ResetOutcome

(* The cleanup leaves exactly what it could not revert (CleanupHost). *)
LEMMA CleanupHostOutcome ==
    ASSUME NEW h \in Host, NEW g \in CleanupHost(h), Recorded(h)
    PROVE  g \in Host /\ Recorded(g) /\ Residue(g) \subseteq g.failed
  <1>a. PICK h1 \in RevertDNS(h) : \E x \in TeardownDevice(h1) : g \in ResetRoutes(x)
    BY DEF CleanupHost
  <1>1. PICK h2 \in TeardownDevice(h1) : g \in ResetRoutes(h2)
    BY <1>a
  <1>2. h1 \in Host /\ Recorded(h1) /\ (h1.dns = "host" \/ "dns" \in h1.failed)
    BY <1>a, RevertDNSOutcome
  <1>3. /\ h2 \in Host /\ Recorded(h2)
        /\ h2.dns = "host" \/ "dns" \in h2.failed
        /\ ~h2.device \/ "device" \in h2.failed
    BY <1>1, <1>2, TeardownOutcome
  <1>4. /\ g \in Host /\ Recorded(g)
        /\ g.dns = "host" \/ "dns" \in g.failed
        /\ ~g.device \/ "device" \in g.failed
        /\ ~g.rules \/ "rules" \in g.failed
    BY <1>1, <1>3, ResetOutcome
  <1> QED
    BY <1>4 DEF Residue

(* A record of a host on its own DNS is a good one (Backup). *)
LEMMA BackupOutcome ==
    ASSUME NEW h \in Host, NEW b \in Backup(h)
    PROVE  /\ b \in {"none", "host", "tj", "cut"}
           /\ Resolved \/ h.dns # "host" \/ b = "host"
  BY DEF Backup, Host

(* The DNS mode goes on the device and changes nothing else (ApplyDNS). *)
LEMMA ApplyOutcome ==
    ASSUME NEW h \in Host, NEW g \in ApplyDNS(h), OnHostDNS(h)
    PROVE  /\ g \in Host /\ Recorded(g) /\ g.dns = "tunnel"
           /\ g.device = h.device /\ g.routes = h.routes
           /\ g.rules = h.rules /\ g.failed = h.failed
  <1>1. PICK b \in Backup(h) : g = [h EXCEPT !.dns = "tunnel", !.saved = b]
    BY DEF ApplyDNS
  <1>2. b \in {"none", "host", "tj", "cut"} /\ (Resolved \/ h.dns # "host" \/ b = "host")
    BY <1>1, BackupOutcome
  <1> QED
    BY <1>1, <1>2 DEF Host, Recorded, OnHostDNS

(* A DNS mode that failed part way is never the whole mode, unless it was  *)
(* there before (ApplyDNSFails).                                           *)
LEMMA ApplyFailsOutcome ==
    ASSUME NEW h \in Host, NEW g \in ApplyDNSFails(h), OnHostDNS(h), Recorded(h)
    PROVE  /\ g \in Host /\ Recorded(g) /\ OnHostDNS(g)
           /\ g.dns \in {h.dns, "partial"}
           /\ "dns" \in h.failed => "dns" \in g.failed
           /\ g.device = h.device /\ g.routes = h.routes /\ g.rules = h.rules
  <1>1. CASE g = h
    BY <1>1
  <1>2. ASSUME NEW b \in Backup(h), NEW f \in {h.failed, h.failed \cup {"dns"}},
               f = IF Resolved THEN h.failed ELSE h.failed \cup {"dns"},
               g = [h EXCEPT !.dns = "partial", !.saved = b, !.failed = f]
        PROVE  /\ g \in Host /\ Recorded(g) /\ OnHostDNS(g)
               /\ g.dns \in {h.dns, "partial"}
               /\ "dns" \in h.failed => "dns" \in g.failed
               /\ g.device = h.device /\ g.routes = h.routes /\ g.rules = h.rules
    <2>1. b \in {"none", "host", "tj", "cut"}
      BY <1>2, BackupOutcome
    <2>2. f \in SUBSET {"device", "rules", "dns"} /\ (Resolved \/ "dns" \in f)
          /\ ("dns" \in h.failed => "dns" \in f)
      BY <1>2 DEF Host
    <2> QED
      BY <1>2, <2>1, <2>2 DEF Host, Recorded, OnHostDNS
  <1>3. CASE g = [h EXCEPT !.saved = "cut", !.failed = @ \cup {"dns"}]
    BY <1>3 DEF Host, Recorded, OnHostDNS
  <1> QED
    BY <1>1, <1>2, <1>3 DEF ApplyDNSFails

(* The device, the rules and the routes appear one after the other (setup). *)
LEMMA SetupOutcome ==
    ASSUME NEW h \in Host
    PROVE  /\ [h EXCEPT !.device = TRUE] \in Host
           /\ [h EXCEPT !.rules = TRUE] \in Host
           /\ [h EXCEPT !.failed = {}] \in Host
           /\ [h EXCEPT !.rules = TRUE, !.routes = TRUE] \in Host
           /\ [h EXCEPT !.failed = {"dns"}] \in Host
           /\ [h EXCEPT !.device = TRUE].device
           /\ \A g \in {[h EXCEPT !.device = TRUE], [h EXCEPT !.rules = TRUE],
                        [h EXCEPT !.rules = TRUE, !.routes = TRUE]} :
                  (Recorded(h) => Recorded(g)) /\ (OnHostDNS(h) => OnHostDNS(g))
           /\ [h EXCEPT !.rules = TRUE, !.routes = TRUE].device = h.device
           /\ [h EXCEPT !.rules = TRUE, !.routes = TRUE].rules
           /\ [h EXCEPT !.rules = TRUE, !.routes = TRUE].routes
  BY DEF Host, Recorded, OnHostDNS
-----------------------------------------------------------------------------
(***************************************************************************)
(* One lemma per part of Next: it preserves the invariant.  Leaves that    *)
(* change the host cite what the call leaves behind instead of expanding   *)
(* it.                                                                     *)
(***************************************************************************)
USE DEF process, transport, watches, window
USE AddrAssumption, EnvAssumption, BoundAssumption, BackoffAssumption
USE DEF TypeOK, NoProcess, FirstConnect, HostKept, Up, UpState, Gap, FileFollows,
        Newest, DNSRecord, BlockedStopHarmless, CleanupReverts, Reconnecting, Stages, Setup,
        Stopping, PCs, Gens, IInv

(* An end of the process on any path leaves an empty memory (ProcessGone). *)
LEMMA GoneStep ==
    ASSUME IInv, ProcessGone, UNCHANGED <<mode, limit, runs, host>>,
           killed' \in BOOLEAN,
           file' \in {"none", "starting", "up", "reconnecting", "stopping"},
           pc' = IF mode = "unit" THEN "cleanup" ELSE "done"
    PROVE  IInv'
  <1>1. pc' \in {"cleanup", "done"} /\ (pc' = "done" => mode' # "unit")
    OBVIOUS
  <1>2. closed' \in SUBSET (Gens \X AllParts) /\ watched' \in SUBSET (Gens \X AllParts)
    BY DEF ProcessGone
  <1>3. TypeOK'
    <2>1. /\ pc' \in PCs /\ addr' \in Addrs /\ host' \in Host /\ runs' \in 0..MaxRuns /\ limit' \in Nat
          /\ mode' \in {"unit", "foreground"} /\ sig' \in BOOLEAN /\ ready' \in BOOLEAN
          /\ kind' \in {"none", "ssh", "quic"}
          /\ link' \in {"none", "alive", "silent", "reset"}
          /\ watch' \in {"off", "idle", "probing", "ended"}
      BY <1>1 DEF ProcessGone
    <2>2. /\ cur' \in 0..MaxGen /\ dialer' \in 0..MaxGen /\ loss' \in 0..MaxGen
          /\ sample' \in 0..MaxGen /\ metrics' \in 0..MaxGen
          /\ attempts' \in 0..MaxAttempts /\ elapsed' \in Nat /\ sleep' \in Nat
      BY DEF ProcessGone
    <2> QED
      BY <1>2, <2>1, <2>2
  <1>4. /\ NoProcess' /\ FirstConnect' /\ HostKept' /\ Up' /\ Gap' /\ FileFollows'
        /\ Newest' /\ DNSRecord'
    BY <1>1 DEF ProcessGone
  <1>5. BlockedStopHarmless' /\ CleanupReverts'
    BY <1>1
  <1> QED
    BY <1>3, <1>4, <1>5

(* The start of the process (Begin, ReadPlanFails, NewRunner). *)
LEMMA StartStep ==
    ASSUME IInv, ReadPlanFails \/ NewRunner \/ \E m \in Modes, w \in Windows : Begin(m, w)
    PROVE  IInv'
  <1>h. host \in Host
    OBVIOUS
  <1>1. CASE ReadPlanFails
    BY <1>1, GoneStep DEF ReadPlanFails
  <1>2. CASE NewRunner
    BY <1>2, <1>h, TeardownOutcome DEF NewRunner
  <1>3. ASSUME NEW m \in Modes, NEW w \in Windows, Begin(m, w)
        PROVE  IInv'
    <2>1. host' \in Host /\ Recorded(host') /\ OnHostDNS(host')
      <3>1. CASE Resolved \/ (host.dns = "host" /\ host.saved \in {"none", "host"})
        <4>1. host' = [host EXCEPT !.failed = {}]
          BY <1>3, <3>1 DEF Begin
        <4>2. Recorded(host)
          OBVIOUS
        <4> QED
          BY <1>h, <3>1, <4>1, <4>2 DEF Host, Recorded, OnHostDNS
      <3>2. CASE ~(Resolved \/ (host.dns = "host" /\ host.saved \in {"none", "host"}))
        <4>1. host' = [host EXCEPT !.failed = {"dns"}]
          BY <1>3, <3>2 DEF Begin
        <4>2. Recorded(host)
          OBVIOUS
        <4> QED
          BY <1>h, <3>2, <4>1, <4>2 DEF Host, Recorded, OnHostDNS
      <3> QED
        BY <3>1, <3>2
    <2>2. TypeOK'
      <3>1. runs' \in 0..MaxRuns /\ mode' \in {"unit", "foreground"} /\ limit' \in Nat
        BY <1>3 DEF Begin
      <3> QED
        BY <1>3, <2>1, <3>1 DEF Begin
    <2> QED
      BY <1>3, <2>1, <2>2 DEF Begin
  <1> QED
    BY <1>1, <1>2, <1>3

(* A connect attempt (runner.transport). *)
LEMMA ConnectStep ==
    ASSUME IInv, Connecting
    PROVE  IInv'
  <1>h. host \in Host
    OBVIOUS
  <1>1. CASE DialTCP
    BY <1>1 DEF DialTCP
  <1>2. CASE Handshake
    BY <1>2 DEF Handshake
  <1>3. CASE RemoteChanged
    BY <1>3 DEF RemoteChanged
  <1>4. CASE Upload
    BY <1>4 DEF Upload
  <1>5. CASE TransportFails
    BY <1>5 DEF TransportFails, AttemptOver
  <1>6. ASSUME NEW k \in {"ssh", "quic"}, TransportUp(k) \/ ReconnectUp(k)
        PROVE  IInv'
    <2>1. SetTransport(k) /\ cur < MaxGen
      BY <1>6 DEF TransportUp, ReconnectUp
    <2>2. PICK ps \in Parts(k) : watched' = {cur + 1} \X ps
      BY <2>1 DEF SetTransport
    <2>3. ps \subseteq AllParts
      BY <2>2 DEF Parts, AllParts
    <2>4. cur + 1 \in Gens
      BY <2>1
    <2>5. watched' \in SUBSET (Gens \X AllParts) /\ \A w \in watched' : w[1] = cur + 1
      BY <2>2, <2>3, <2>4
    <2>6. CASE TransportUp(k)
      BY <2>1, <2>4, <2>5, <2>6 DEF TransportUp, SetTransport
    <2>7. CASE ReconnectUp(k)
      <3>1. TypeOK'
        BY <2>1, <2>4, <2>5, <2>7 DEF ReconnectUp, SetTransport
      <3> QED
        BY <2>1, <2>4, <2>5, <2>7, <3>1 DEF ReconnectUp, SetTransport
    <2> QED
      BY <1>6, <2>6, <2>7
  <1>7. CASE ReconnectDNS
    BY <1>7, <1>h, ApplyOutcome DEF ReconnectDNS
  <1>8. CASE ReconnectDNSFails
    BY <1>8, <1>h, ApplyFailsOutcome DEF ReconnectDNSFails, AttemptOver
  <1>9. CASE ExecHelper
    BY <1>9 DEF ExecHelper
  <1> QED
    BY <1>1, <1>2, <1>3, <1>4, <1>5, <1>6, <1>7, <1>8, <1>9 DEF Connecting

(* The first setup of the host (runner.setup). *)
LEMMA SetupStep ==
    ASSUME IInv, SettingUp
    PROVE  IInv'
  <1>h. host \in Host
    OBVIOUS
  <1>1. CASE SetupDevice
    BY <1>1, <1>h, SetupOutcome, ZenonT(90) DEF SetupDevice
  <1>2. CASE SetupDeviceFails
    <2> DEFINE d == [host EXCEPT !.device = TRUE]
    <2>1. d \in Host /\ (Recorded(host) => Recorded(d))
      BY <1>h, SetupOutcome
    <2> HIDE DEF d
    <2>2. host' \in TeardownDevice(d) => host' \in Host /\ (Recorded(d) => Recorded(host'))
      BY <2>1, TeardownOutcome
    <2>3. host' = host \/ host' \in TeardownDevice(d)
      BY <1>2 DEF SetupDeviceFails, d
    <2>4. host' \in Host /\ Recorded(host')
      BY <1>h, <2>1, <2>2, <2>3
    <2> QED
      BY <1>2, <2>4 DEF SetupDeviceFails
  <1>3. CASE SetupRoutes
    BY <1>3, <1>h, SetupOutcome, ZenonT(90) DEF SetupRoutes
  <1>4. CASE SetupRoutesFails
    BY <1>4, <1>h, SetupOutcome, TeardownOutcome, ZenonT(90) DEF SetupRoutesFails
  <1>5. CASE SetupDNS
    BY <1>5, <1>h, ApplyOutcome DEF SetupDNS
  <1>6. CASE SetupDNSFails
    BY <1>6, <1>h, ApplyFailsOutcome, RemoveRoutesOutcome, TeardownOutcome DEF SetupDNSFails
  <1>7. CASE SetupDataPlane
    BY <1>7 DEF SetupDataPlane
  <1>8. CASE SetupDataPlaneFails
    BY <1>8, <1>h, RevertDNSOutcome, RemoveRoutesOutcome, TeardownOutcome
       DEF SetupDataPlaneFails
  <1>9. CASE MarkUp
    BY <1>9 DEF MarkUp, StartWatches
  <1> QED
    BY <1>1, <1>2, <1>3, <1>4, <1>5, <1>6, <1>7, <1>8, <1>9 DEF SettingUp

(* The wait and the loss (wait, lost). *)
LEMMA WaitStep ==
    ASSUME IInv, Waiting \/ WaitSample
    PROVE  IInv'
  <1>h. host \in Host
    OBVIOUS
  <1>1. CASE WaitSignal
    BY <1>1 DEF WaitSignal
  <1>2. CASE WaitSample
    BY <1>2 DEF WaitSample
  <1>3. CASE pc = "wait" /\ Lost
    <2>1. CASE LossEnds
      BY <1>3, <2>1 DEF LossEnds
    <2>2. CASE LossDrops
      <3>9. closed' = closed \cup watched /\ watched' = {}
        BY <1>3, <2>2 DEF LossDrops, DropTransport
      <3>1. closed' \in SUBSET (Gens \X AllParts) /\ watched' = {}
        BY <3>9
      <3>2. loss' \in 0..MaxGen
        BY <1>3, <2>2 DEF LossDrops, StopWatches
      <3>3. TypeOK'
        <4>1. /\ dialer' \in 0..MaxGen /\ attempts' \in 0..MaxAttempts
              /\ elapsed' \in Nat /\ sleep' \in Nat
          BY <1>3, <2>2 DEF LossDrops
        <4> QED
          BY <1>3, <2>2, <3>1, <3>2, <4>1 DEF LossDrops, DropTransport, StopWatches
      <3>4. HostKept' /\ Gap'
        BY <1>3, <2>2, <3>1 DEF LossDrops, DropTransport, StopWatches
      <3> QED
        BY <1>3, <2>2, <3>1, <3>3, <3>4 DEF LossDrops, DropTransport, StopWatches
    <2> QED
      BY <1>3, <2>1, <2>2 DEF Lost
  <1>4. CASE LostRevert
    BY <1>4, <1>h, RevertDNSOutcome DEF LostRevert, OnHostDNS
  <1> QED
    BY <1>1, <1>2, <1>3, <1>4 DEF Waiting, WaitClosed, WaitResume

(* The attempts and the waits between them (reconnect, attempt, resolve). *)
LEMMA RetryStep ==
    ASSUME IInv, Retrying
    PROVE  IInv'
  <1>1. CASE GiveUp
    BY <1>1 DEF GiveUp
  <1>2. CASE StartAttempt
    BY <1>2 DEF StartAttempt
  <1>3. CASE Resolve
    BY <1>3 DEF Resolve
  <1>4. CASE ResolveFails
    BY <1>4 DEF ResolveFails, AttemptOver
  <1>5. CASE BackoffDone
    BY <1>5 DEF BackoffDone
  <1>6. CASE BackoffCancelled
    BY <1>6 DEF BackoffCancelled
  <1> QED
    BY <1>1, <1>2, <1>3, <1>4, <1>5, <1>6 DEF Retrying

(* The stop path and the cleanup (stopSession, Run, cleanup). *)
LEMMA EndStep ==
    ASSUME IInv, Ending
    PROVE  IInv'
  <1>h. host \in Host
    OBVIOUS
  <1>1. CASE StopMark
    BY <1>1 DEF StopMark, StopWatches
  <1>2. CASE StopHost
    BY <1>2, <1>h, RevertHostOutcome DEF StopHost
  <1>3. CASE StopTransport
    BY <1>3 DEF StopTransport
  <1>4. CASE StopDevice
    BY <1>4, <1>h, TeardownOutcome, ZenonT(90) DEF StopDevice
  <1>5. CASE Exit
    BY <1>5, GoneStep DEF Exit
  <1>6. CASE Cleanup
    BY <1>6, <1>h, CleanupHostOutcome DEF Cleanup
  <1> QED
    BY <1>1, <1>2, <1>3, <1>4, <1>5, <1>6 DEF Ending

(* The detector, the sampler, the remote, the user, systemd and the clock. *)
LEMMA BesideStep ==
    ASSUME IInv,
           \/ Signal \/ Crash \/ GoSilent \/ Resume \/ SendSample
           \/ \E p \in AllParts : PartCloses(p)
           \/ ProbeAnswered \/ ProbeFails \/ LinkReset \/ Tick
    PROVE  IInv'
  <1>1. CASE Signal
    BY <1>1 DEF Signal, Running
  <1>2. CASE Crash
    BY <1>2, GoneStep DEF Crash
  <1>3. CASE GoSilent
    BY <1>3 DEF GoSilent
  <1>4. CASE Resume
    BY <1>4 DEF Resume
  <1>5. CASE SendSample
    BY <1>5 DEF SendSample
  <1>6. ASSUME NEW p \in AllParts, PartCloses(p)
        PROVE  IInv'
    BY <1>6 DEF PartCloses
  <1>7. CASE ProbeAnswered
    BY <1>7 DEF ProbeAnswered
  <1>8. CASE ProbeFails
    BY <1>8 DEF ProbeFails
  <1>9. CASE LinkReset
    BY <1>9 DEF LinkReset
  <1>10. CASE Tick
    BY <1>10 DEF Tick
  <1> QED
    BY <1>1, <1>2, <1>3, <1>4, <1>5, <1>6, <1>7, <1>8, <1>9, <1>10

(* The invariant holds at the start (Init). *)
LEMMA InitInv == Init => IInv
  <1> SUFFICES ASSUME Init PROVE IInv
    OBVIOUS
  <1>1. host \in Host
    BY DEF Init, Host
  <1>2. closed \in SUBSET (Gens \X AllParts) /\ watched \in SUBSET (Gens \X AllParts)
    BY DEF Init
  <1>3. /\ cur \in 0..MaxGen /\ dialer \in 0..MaxGen /\ loss \in 0..MaxGen
        /\ sample \in 0..MaxGen /\ metrics \in 0..MaxGen /\ runs \in 0..MaxRuns
        /\ attempts \in 0..MaxAttempts /\ elapsed \in Nat /\ sleep \in Nat
    BY DEF Init
  <1>4. TypeOK
    BY <1>1, <1>2, <1>3 DEF Init
  <1>5. DNSRecord
    BY <1>1 DEF Init, Recorded, OnHostDNS
  <1> QED
    BY <1>4, <1>5 DEF Init

(* Every step keeps the invariant (Next). *)
LEMMA NextInv == IInv /\ [Next]_vars => IInv'
  <1> SUFFICES ASSUME IInv, [Next]_vars PROVE IInv'
    OBVIOUS
  <1>1. CASE UNCHANGED vars
    BY <1>1 DEF vars
  <1>2. CASE Next
    BY <1>2, StartStep, ConnectStep, SetupStep, WaitStep, RetryStep, EndStep, BesideStep
       DEF Next, Environment
  <1> QED
    BY <1>1, <1>2
-----------------------------------------------------------------------------
(***************************************************************************)
(* The theorems.                                                           *)
(***************************************************************************)
HIDE DEF IInv, TypeOK, CleanupReverts, BlockedStopHarmless, Gens

(* The inductive invariant holds in every reachable state. *)
THEOREM Inductive == Spec => []IInv
  BY InitInv, NextInv, PTL DEF Spec

(* Every variable of the session keeps its type (all of Session). *)
THEOREM TypeCorrect == Spec => []TypeOK
  <1>1. IInv => TypeOK
    BY DEF IInv
  <1> QED
    BY <1>1, Inductive, PTL

(* A state file that says up means a complete session: device, routes,     *)
(* rules, DNS mode, data plane, dialer, and the planned remote (markUp,    *)
(* setup, transport, guardManifest).                                       *)
THEOREM UpCorrect == Spec => []UpIsComplete
  <1>1. IInv => UpIsComplete
    BY DEF IInv, UpIsComplete, Running, TypeOK
  <1> QED
    BY <1>1, Inductive, PTL

(* The runner never acts on a transport it has replaced or dropped (wait,  *)
(* dropTransport, startWatches).                                           *)
THEOREM CurrentCorrect == Spec => []CurrentTransportOnly
  <1>1. IInv => CurrentTransportOnly
    BY DEF IInv, CurrentTransportOnly, TypeOK
  <1> QED
    BY <1>1, Inductive, PTL

(* A session without a transport does not hold the DNS of the host (lost). *)
THEOREM DNSCorrect == Spec => []NoDNSWithoutTransport
  <1>1. IInv => NoDNSWithoutTransport
    BY DEF IInv, NoDNSWithoutTransport, TypeOK
  <1> QED
    BY <1>1, Inductive, PTL

(* After every end of a unit the host is as it was before, except for a    *)
(* revert that failed (cleanup, CleanupHost).                              *)
THEOREM CleanupCorrect == Spec => []CleanupReverts
  <1>1. IInv => CleanupReverts
    BY DEF IInv
  <1> QED
    BY <1>1, Inductive, PTL

(* A stop that a dead peer blocks has reverted DNS and rules (stopSession). *)
THEOREM StopCorrect == Spec => []BlockedStopHarmless
  <1>1. IInv => BlockedStopHarmless
    BY DEF IInv
  <1> QED
    BY <1>1, Inductive, PTL

(* Only a fired channel and a report of the detector take the runner out   *)
(* of the wait without a signal.                                           *)
LEMMA LossStep ==
    ASSUME IInv, Next, pc = "wait", pc' \in {"lost", "stop"}, ~sig
    PROVE  (\E p \in AllParts : <<cur, p>> \in closed) \/ loss = cur
  <1>1. WaitClosed \/ WaitResume
    BY DEF Next, Environment, Begin, Signal, Crash, GoSilent, Resume, SendSample,
           PartCloses, ReadPlanFails, NewRunner, Connecting, DialTCP, Handshake,
           RemoteChanged, Upload, ExecHelper, TransportFails, TransportUp, ReconnectUp, ReconnectDNS,
           ReconnectDNSFails, SettingUp, SetupDevice, SetupDeviceFails, SetupRoutes,
           SetupRoutesFails, SetupDNS, SetupDNSFails, SetupDataPlane,
           SetupDataPlaneFails, MarkUp, Waiting, WaitSignal, LostRevert, WaitSample, Retrying,
           GiveUp, StartAttempt, Resolve, ResolveFails, BackoffDone, BackoffCancelled,
           Ending, StopMark, StopHost, StopTransport, StopDevice, Exit, Cleanup,
           ProbeAnswered, ProbeFails, LinkReset, Tick
  <1>2. CASE WaitClosed
    <2>1. PICK w \in watched : w \in closed
      BY <1>2 DEF WaitClosed
    <2>2. w \in Gens \X AllParts /\ w[1] = cur
      BY <2>1 DEF IInv, TypeOK
    <2>3. w = <<cur, w[2]>> /\ w[2] \in AllParts
      BY <2>2
    <2> QED
      BY <2>1, <2>3
  <1>3. CASE WaitResume
    BY <1>3 DEF WaitResume, IInv
  <1> QED
    BY <1>1, <1>2, <1>3

(* A session is lost for a transport that is broken, never for the echo of *)
(* an older loss (wait, lost, startWatches).                               *)
THEOREM LossCorrect == Spec => LossIsReal
  <1>1. IInv /\ [Next]_vars =>
            [ (pc = "wait" /\ pc' \in {"lost", "stop"} /\ ~sig)
              => (\E p \in AllParts : <<cur, p>> \in closed) \/ loss = cur ]_vars
    BY LossStep
  <1> QED
    BY <1>1, Inductive, PTL DEF Spec, LossIsReal
-----------------------------------------------------------------------------
(***************************************************************************)
(* The attempts are paced.  The sum of the waits is a recursive function;  *)
(* that it satisfies its equation is shown with the least bound for which  *)
(* there is no such function, and its type with the least argument.        *)
(***************************************************************************)
LEMMA LeastNat ==
    ASSUME NEW T \in SUBSET Nat, T # {}
    PROVE  \E x \in T : \A y \in T : x <= y
  <1>1. IsWellFoundedOn(OpToRel(<, Nat), Nat)
    BY NatLessThanWellFounded
  <1>2. PICK x \in T : \A y \in T : ~(<<y, x>> \in OpToRel(<, Nat))
    BY <1>1, WFMin, Zenon
  <1>3. \A y \in T : ~(y < x)
    BY <1>2 DEF OpToRel
  <1> QED
    BY <1>3

(* A function on 0..k that satisfies the equation of Paced. *)
Sums(k, g) ==
    /\ g \in [0..k -> Nat]
    /\ \A n \in 0..k : g[n] = IF n <= 1 THEN 0 ELSE g[n - 1] + Backoff[n - 1]

LEMMA SumsExist == \E g : Sums(MaxAttempts, g)
  <1> DEFINE T == {k \in 0..MaxAttempts : ~\E g : Sums(k, g)}
  <1>1. T = {}
    <2> SUFFICES ASSUME T # {} PROVE FALSE
      OBVIOUS
    <2>1. T \in SUBSET Nat
      OBVIOUS
    <2>2. PICK k \in T : \A y \in T : k <= y
      BY <2>1, LeastNat
    <2>3. k \in 0..MaxAttempts /\ ~\E g : Sums(k, g)
      OBVIOUS
    <2>4. k # 0
      <3>1. Sums(0, [n \in 0..0 |-> 0])
        BY DEF Sums
      <3> QED
        BY <2>3, <3>1
    <2>5. k - 1 \in 0..MaxAttempts /\ k - 1 \notin T
      <3> HIDE DEF T
      <3> QED
        BY <2>2, <2>3, <2>4
    <2>6. PICK g : Sums(k - 1, g)
      BY <2>5
    <2> DEFINE h == [n \in 0..k |-> IF n < k THEN g[n]
                                    ELSE IF n <= 1 THEN 0 ELSE g[n - 1] + Backoff[n - 1]]
    <2>7. Sums(k, h)
      <3>1. k \in 1..MaxAttempts
        BY <2>3, <2>4
      <3>2. \A n \in 0..k : h[n] \in Nat
        BY <2>6, <3>1 DEF Sums
      <3>3. \A n \in 0..k : h[n] = IF n <= 1 THEN 0 ELSE h[n - 1] + Backoff[n - 1]
        BY <2>6, <3>1 DEF Sums
      <3> QED
        BY <3>2, <3>3 DEF Sums
    <2> QED
      BY <2>3, <2>7
  <1>2. MaxAttempts \in 0..MaxAttempts
    OBVIOUS
  <1> QED
    BY <1>1, <1>2

LEMMA PacedIs ==
    \A n \in 0..MaxAttempts : Paced[n] = IF n <= 1 THEN 0 ELSE Paced[n - 1] + Backoff[n - 1]
  <1>1. PICK g : Sums(MaxAttempts, g)
    BY SumsExist
  <1>2. g = [n \in 0..MaxAttempts |-> IF n <= 1 THEN 0 ELSE g[n - 1] + Backoff[n - 1]]
    BY <1>1 DEF Sums
  <1>3. Paced = [n \in 0..MaxAttempts |-> IF n <= 1 THEN 0 ELSE Paced[n - 1] + Backoff[n - 1]]
    BY <1>2, Zenon DEF Paced
  <1> QED
    BY <1>3

LEMMA PacedType == \A n \in 0..MaxAttempts : Paced[n] \in Nat
  <1> DEFINE T == {n \in 0..MaxAttempts : Paced[n] \notin Nat}
  <1> SUFFICES ASSUME T # {} PROVE FALSE
    OBVIOUS
  <1>1. T \in SUBSET Nat
    OBVIOUS
  <1>2. PICK n \in T : \A y \in T : n <= y
    BY <1>1, LeastNat
  <1>3. n \in 0..MaxAttempts /\ Paced[n] \notin Nat
    OBVIOUS
  <1>4. n > 1
    BY <1>3, PacedIs
  <1>5. n - 1 \in 0..MaxAttempts /\ n - 1 \notin T /\ n - 1 \in 1..MaxAttempts
    <2> HIDE DEF T
    <2> QED
      BY <1>2, <1>3, <1>4
  <1> QED
    BY <1>3, <1>4, <1>5, PacedIs

(* What the time of the window pays for: at the deadline check the wait of *)
(* the latest attempt is over, during it the rest is still in sleep.       *)
Waits ==
    Reconnecting =>
        /\ attempts <= limit
        /\ pc = "lost" => attempts = 0 /\ sleep = 0
        /\ pc = "deadline" =>
               /\ sleep = 0 /\ attempts <= elapsed
               /\ attempts > 0 => elapsed >= Paced[attempts] + Backoff[attempts]
        /\ pc = "backoff" =>
               /\ attempts > 0 /\ attempts <= elapsed + sleep
               /\ elapsed + sleep >= Paced[attempts] + Backoff[attempts]
        /\ pc \in Stages \cup {"resolve", "install"} =>
               /\ attempts > 0 /\ sleep = 0 /\ attempts <= elapsed + 1
               /\ elapsed >= Paced[attempts]

(* The steps inside a reconnect (AttemptOver, StartAttempt, BackoffDone,   *)
(* LossDrops, Tick); every other step leaves the window, or is outside it. *)
LEMMA WaitsStep ==
    ASSUME IInv, Waits, [Next]_vars
    PROVE  Waits'
  <1>1. /\ attempts \in 0..MaxAttempts /\ elapsed \in Nat /\ sleep \in Nat /\ limit \in Nat
    BY DEF IInv, TypeOK
  <1>2. \A n \in 1..MaxAttempts : Paced[n] \in Nat /\ Backoff[n] \in Nat \ {0}
    BY PacedType
  <1>3. CASE ~Reconnecting'
    BY <1>3 DEF Waits
  <1>4. CASE UNCHANGED <<pc, ready, window, limit>>
    BY <1>4 DEF Waits
  <1>5. CASE /\ pc \in Stages \cup {"resolve"} /\ pc' \in Stages \cup {"install"}
             /\ UNCHANGED <<ready, window, limit>>
    BY <1>5 DEF Waits
  <1>6. CASE /\ pc \in Stages \cup {"resolve"} /\ AttemptOver
             /\ UNCHANGED <<ready, elapsed, limit>>
    <2>1. CASE Reconnecting /\ ~sig
      <3>1. pc' = "backoff" /\ sleep' = Backoff[attempts] /\ UNCHANGED <<attempts, elapsed, limit>>
        BY <1>6, <2>1 DEF AttemptOver
      <3>2. attempts \in 1..MaxAttempts /\ elapsed >= Paced[attempts] /\ attempts <= elapsed + 1
            /\ attempts <= limit
        BY <1>1, <1>6, <2>1 DEF Waits
      <3> QED
        BY <1>1, <1>2, <3>1, <3>2 DEF Waits
    <2>2. CASE ~(Reconnecting /\ ~sig)
      BY <1>6, <2>2 DEF AttemptOver, Waits
    <2> QED
      BY <2>1, <2>2
  <1>7. CASE LossDrops
    BY <1>1, <1>7 DEF LossDrops, Waits
  <1>8. CASE LostRevert
    BY <1>1, <1>8 DEF LostRevert, Waits
  <1>9. CASE StartAttempt
    <2>1. ready /\ ready' /\ pc = "deadline" /\ pc' = "resolve" /\ elapsed < limit
          /\ attempts' = attempts + 1 /\ attempts < MaxAttempts /\ UNCHANGED <<elapsed, sleep, limit>>
      BY <1>9 DEF StartAttempt, IInv
    <2>2. elapsed >= Paced[attempts + 1]
      <3>1. CASE attempts = 0
        BY <1>1, <2>1, <3>1, PacedIs
      <3>2. CASE attempts > 0
        <4>1. Paced[attempts + 1] = Paced[attempts] + Backoff[attempts]
          BY <1>1, <2>1, <3>2, PacedIs
        <4> QED
          BY <2>1, <3>2, <4>1 DEF Waits
      <3> QED
        BY <1>1, <3>1, <3>2
    <2> QED
      BY <1>1, <2>1, <2>2 DEF Waits
  <1>10. CASE BackoffDone
    BY <1>1, <1>2, <1>10 DEF BackoffDone, Waits
  <1>11. CASE Tick
    <2>1. elapsed' = elapsed + 1 /\ UNCHANGED <<pc, ready, attempts, limit>> /\ Reconnecting
      BY <1>11 DEF Tick
    <2>2. CASE pc = "backoff"
      <3>1. sleep > 0 /\ sleep' = sleep - 1
        BY <1>11, <2>2 DEF Tick
      <3> QED
        BY <1>1, <2>1, <2>2, <3>1 DEF Waits
    <2>3. CASE pc # "backoff"
      <3>1. sleep' = sleep
        BY <1>11, <2>3 DEF Tick
      <3>2. attempts > 0 => Paced[attempts] \in Nat /\ Backoff[attempts] \in Nat
        BY <1>1, <1>2
      <3> QED
        BY <1>1, <2>1, <2>3, <3>1, <3>2 DEF Waits
    <2> QED
      BY <2>2, <2>3
  <1>12. \/ ~Reconnecting' \/ UNCHANGED <<pc, ready, window, limit>>
         \/ /\ pc \in Stages \cup {"resolve"} /\ pc' \in Stages \cup {"install"}
            /\ UNCHANGED <<ready, window, limit>>
         \/ /\ pc \in Stages \cup {"resolve"} /\ AttemptOver
            /\ UNCHANGED <<ready, elapsed, limit>>
         \/ LossDrops \/ LostRevert \/ StartAttempt \/ BackoffDone \/ Tick
    <2>1. CASE UNCHANGED vars
      BY <2>1 DEF vars
    <2>2. CASE Environment \/ ReadPlanFails \/ NewRunner
      BY <2>2, ZenonT(90) DEF Environment, Begin, Signal, Crash, GoSilent, Resume, SendSample,
                  PartCloses, ReadPlanFails, NewRunner, ProcessGone, IInv
    <2>3. CASE Connecting
      BY <2>3 DEF Connecting, DialTCP, Handshake, RemoteChanged, Upload, ExecHelper, TransportFails,
                  TransportUp, ReconnectUp, ReconnectDNS, ReconnectDNSFails
    <2>4. CASE SettingUp
      BY <2>4 DEF SettingUp, SetupDevice, SetupDeviceFails, SetupRoutes, SetupRoutesFails,
                  SetupDNS, SetupDNSFails, SetupDataPlane, SetupDataPlaneFails, MarkUp, IInv
    <2>5. CASE Waiting \/ WaitSample \/ Retrying
      BY <2>5 DEF Waiting, WaitSignal, WaitClosed, WaitResume, Lost, LossEnds, WaitSample,
                  Retrying, GiveUp, Resolve, ResolveFails, BackoffCancelled
    <2>6. CASE Ending \/ ProbeAnswered \/ ProbeFails \/ LinkReset \/ Tick
      BY <2>6 DEF Ending, StopMark, StopHost, StopTransport, StopDevice, Exit, Cleanup,
                  ProcessGone, ProbeAnswered, ProbeFails, LinkReset
    <2> QED
      BY <2>1, <2>2, <2>3, <2>4, <2>5, <2>6 DEF Next
  <1> QED
    BY <1>3, <1>4, <1>5, <1>6, <1>7, <1>8, <1>9, <1>10, <1>11, <1>12

(* For every backoff and every window: n attempts of one loss take at      *)
(* least the sum of the first n-1 waits, and there are never more of them  *)
(* than ticks in the window (reconnect, backoffAfter).                     *)
THEOREM PaceCorrect == Spec => []AttemptsPaced
  <1>1. Init => Waits
    BY DEF Init, Waits
  <1>2. IInv /\ Waits /\ [Next]_vars => Waits'
    BY WaitsStep
  <1>3. IInv /\ Waits => AttemptsPaced
    <2> SUFFICES ASSUME IInv, Waits, Reconnecting
                 PROVE  elapsed + sleep >= Paced[attempts] /\ attempts <= limit
      BY DEF AttemptsPaced
    <2>1. attempts \in 0..MaxAttempts /\ elapsed \in Nat /\ sleep \in Nat
      BY DEF IInv, TypeOK
    <2>2. Paced[attempts] \in Nat /\ (attempts = 0 => Paced[attempts] = 0)
          /\ (attempts > 0 => Backoff[attempts] \in Nat)
      BY <2>1, PacedType, PacedIs
    <2> QED
      BY <2>1, <2>2 DEF Waits
  <1> QED
    BY <1>1, <1>2, <1>3, Inductive, PTL DEF Spec
-----------------------------------------------------------------------------
(***************************************************************************)
(* Session implements Lifecycle.                                           *)
(***************************************************************************)

(* Every step of the session is a step of the interface, or leaves what    *)
(* the interface sees unchanged (all of Session).                          *)
LEMMA SimStep == IInv /\ [Next]_vars => [L!Next]_(L!vars)
  <1> SUFFICES ASSUME IInv, [Next]_vars PROVE [L!Next]_(L!vars)
    OBVIOUS
  <1> USE DEF L!vars, Running, IInv, TypeOK
  <1>1. CASE UNCHANGED vars
    BY <1>1 DEF vars
  <1>2. CASE ReadPlanFails \/ \E m \in Modes, w \in Windows : Begin(m, w)
    BY <1>2 DEF ReadPlanFails, Begin, ProcessGone
  <1>3. CASE NewRunner
    BY <1>3 DEF NewRunner, L!Next, L!Start
  <1>4. CASE DialTCP \/ Handshake \/ RemoteChanged \/ Upload \/ ExecHelper \/ ReconnectDNS
    BY <1>4 DEF DialTCP, Handshake, RemoteChanged, Upload, ExecHelper, ReconnectDNS
  <1>5. CASE TransportFails \/ ReconnectDNSFails
    BY <1>5 DEF TransportFails, ReconnectDNSFails, AttemptOver
  <1>6. ASSUME NEW k \in {"ssh", "quic"}, TransportUp(k)
        PROVE  UNCHANGED L!vars
    BY <1>6 DEF TransportUp
  <1>7. ASSUME NEW k \in {"ssh", "quic"}, ReconnectUp(k)
        PROVE  L!Next
    BY <1>7 DEF ReconnectUp, SetTransport, L!Next, L!Carry
  <1>8. CASE SetupDevice \/ SetupRoutes \/ SetupDNS
    BY <1>8 DEF SetupDevice, SetupRoutes, SetupDNS
  <1>9. CASE SetupDeviceFails \/ SetupRoutesFails \/ SetupDNSFails \/ SetupDataPlaneFails
    BY <1>9 DEF SetupDeviceFails, SetupRoutesFails, SetupDNSFails, SetupDataPlaneFails
  <1>10. CASE SetupDataPlane
    BY <1>10 DEF SetupDataPlane, L!Next, L!Carry
  <1>11. CASE WaitSignal \/ WaitSample
    BY <1>11 DEF WaitSignal, WaitSample
  <1>12. CASE pc = "wait" /\ LossEnds
    BY <1>12 DEF LossEnds
  <1>13. CASE pc = "wait" /\ LossDrops
    BY <1>13 DEF LossDrops, L!Next, L!Break
  <1>14. CASE LostRevert
    BY <1>14 DEF LostRevert, L!Next, L!Lose
  <1>15. CASE GiveUp \/ StartAttempt \/ Resolve \/ BackoffDone \/ BackoffCancelled
    BY <1>15 DEF GiveUp, StartAttempt, Resolve, BackoffDone, BackoffCancelled
  <1>16. CASE ResolveFails
    BY <1>16 DEF ResolveFails, AttemptOver
  <1>17. CASE StopMark
    BY <1>17 DEF StopMark, L!Next, L!Stop
  <1>18. CASE StopHost \/ StopTransport
    BY <1>18 DEF StopHost, StopTransport
  <1>19. CASE StopDevice
    BY <1>19 DEF StopDevice, L!Next, L!Drain
  <1>20. CASE Exit
    BY <1>20 DEF Exit, ProcessGone, L!Next, L!End
  <1>21. CASE Cleanup
    BY <1>21 DEF Cleanup, L!Next, L!Sweep
  <1>22. CASE Crash
    BY <1>22 DEF Crash, ProcessGone, L!Next, L!Die
  <1>23. CASE Signal \/ GoSilent \/ Resume \/ SendSample \/ \E p \in AllParts : PartCloses(p)
    BY <1>23 DEF Signal, GoSilent, Resume, SendSample, PartCloses
  <1>24. CASE ProbeAnswered \/ ProbeFails \/ LinkReset \/ Tick
    BY <1>24 DEF ProbeAnswered, ProbeFails, LinkReset, Tick
  <1>25. CASE MarkUp
    BY <1>25 DEF MarkUp, L!Next, L!ComeUp
  <1> QED
    BY <1>1, <1>2, <1>3, <1>4, <1>5, <1>6, <1>7, <1>8, <1>9, <1>10, <1>11, <1>12, <1>13,
       <1>14, <1>15, <1>16, <1>17, <1>18, <1>19, <1>20, <1>21, <1>22, <1>23, <1>24, <1>25
       DEF Next, Environment, Connecting, SettingUp, Waiting, WaitClosed, WaitResume, Lost,
           Retrying, Ending

(* The session implements the interface that the command line relies on    *)
(* (Lifecycle).                                                            *)
THEOREM ImplementsLifecycle == Spec => Implements
  <1>1. Init => L!Init
    BY DEF Init, L!Init, Running
  <1> QED
    BY <1>1, SimStep, Inductive, PTL DEF Spec, L!Spec, Implements
=============================================================================
