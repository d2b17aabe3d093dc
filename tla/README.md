# tailjump in TLA+

`tj` connects a workstation to a private network through a host of a tailnet.
`tj connect` starts one long-lived session process; the process opens an SSH or
QUIC transport to a helper on the remote, gives the host a TUN device, routes,
rules and a DNS mode, and reverts all of it at its end. This directory models
that program: what the host looks like at every moment of a session, what
several `tj` commands at once can believe about it, how a transport and the
helpers on the remote come and go, what happens to a flow inside it, and the
congestion control under its QUIC connection.

All paths below are relative to `src/internal/`.

## 1. Inventory

| Component | State | Operations | Talks to | Hard about it | Correct when |
|---|---|---|---|---|---|
| Session runner (`session/run.go`, `reconnect.go`, `lanes.go`, `metrics.go`) | runner fields, state file, host changes | `Run`, `transport`, `setup`, `wait`, `lost`, `reconnect`, `attempt`, `stopSession`, `Cleanup` | platform, mux, sshc, systemd | signal, loss, probe and sample race; a kill anywhere; stages without a context; failures half way | `up` means a complete session; no DNS into a dead tunnel; the host is clean after every end |
| Commands (`session/connect.go`, `disconnect.go`, `lock.go`, `Start` in `run.go`) | `plan.json`, `session.json`, the unit | `Connect`, `Start`, `awaitUp`, `stopCancelled`, `stopActive`, `Disconnect` | unit, session through files | no lock: only the unit name excludes two commands | a report is about the session that was asked for; every command returns |
| Status, logs (`session/status.go`, `logs.go`) | none | `Active` | files, unit | reads two things that change between | shows a session that exists |
| Linux platform (`platform/linux`) | device, table, rules, links, `resolv.conf` and its records, the unit | `Create`, `Add`, `Reset`, `ApplySplit`, `ApplyAll`, `Revert`, `Start`, `Stop`, `Active` | kernel, `resolvectl`, systemd | every call can fail part way; `resolv.conf` survives the process | a revert gives back the original |
| macOS platform (`platform/darwin`) | same | same | `networksetup`, launchd | same | same |
| Mux (`mux`) | control stream, flows, QUIC listener | `Dial*`, `NegotiateQUIC`, `AbandonQUIC`, `Unlink`, `Quit`; server loops | SSH channel, helper | one control stream, replies with a deadline; accept races stop | a reply belongs to its request; nothing stays open |
| Echo sockets (`mux/echo*.go`, `errqueue_linux.go`) | kernel socket per flow | send, read, error queue | remote kernel | ident rewriting, idle timeout | a reply goes to the flow that asked |
| Helper (`helper`) | its own file on the remote | serve, unlink, sweep | mux | one file for several lanes | no lane finds its file gone; no file stays |
| Data plane (`dataplane`) | netstack, TCP and UDP relays, echo flows | relay, half close, echo queue | mux dialer | half close against reset; bounded queues | no byte lost or reordered; every relay ends |
| Transport selection (`session/quic.go`, `transport`) | the chosen kind | select, fall back | mux | fallback after a half-open negotiation | one kind per session |
| Tailnet (`tailnet`) | none | `Resolve` | `tailscale status` | ambiguous names | the match is the one the reference names |
| SSH client (`sshc`) | known hosts | dial, handshake, run | remote | handshake without a context | |
| Discovery, manifest (`discovery`, `manifest`) | none | compute networks | remote | | networks as the manifest says |
| Congestion (`congestion`) | BBR and Brutal senders, samplers, filters | packet sent, acked, lost | quic-go | index arithmetic, numeric edges | bounded windows, ordered queues |
| Command line, configuration (`cli`, `config`) | config file | flags, printing | all of the above | | |

`PROJECT.json` lists every component with its status, and under `hazards` the
places where the code is hard to test.

## 2. Modules

| Module | What it is |
|---|---|
| `Lifecycle` | Abstract specification: what one session promises to everyone outside its process, in the state file and the data plane |
| `Session` | The session runner, the host it changes, its detector and sampler, the remote, the clock, systemd |
| `SessionProofs` | Inductive invariant of `Session`, its safety theorems, and `Spec => L!Spec` |
| `Connect` | Several `tj connect` and `tj disconnect`, the unit, both files; the session inside is an instance of `Lifecycle` |
| `ConnectProofs` | Inductive invariant of `Connect` and its safety theorems |
| `ResolvConf` | The `resolv.conf` fallback of the Linux resolver, one file operation at a time, called by any number of sessions |
| `ResolvConfProofs` | Inductive invariant of `ResolvConf` and its theorems |
| `Transport` | One attempt at a transport: upload, helpers of all lanes, control stream, QUIC negotiation and listener, for the session, `doctor` and `bench` |
| `TransportProofs` | Inductive invariant of `Transport` and its safety theorems, for any set of lanes |
| `Channel` | Abstract specification: what one direction of a TCP flow promises to the two programs at its ends |
| `TcpFlow` | One TCP flow: both relays, the stream between them, both ends |
| `TcpFlowProofs` | Inductive invariants of `TcpFlow`, its safety theorems, and that it implements two `Channel`s, for any amount of data |
| `Datagram` | UDP and ICMP echo flows: capture, table, queues, streams, sockets of the helper |
| `DatagramProofs` | Inductive invariant of `Datagram` and its safety theorems, for any number of flows and requests |
| `BbrSender` | Modes, windows and recovery of the BBR sender |
| `BbrSenderProofs` | Inductive invariant of `BbrSender` and the limits of its window |
| `BbrSampler` | The bandwidth sampler, its packet queue on the ring buffer, the windowed filter |
| `BbrSamplerProofs` | The ring buffer and the queue as a sequence, the filter, and their two theorems |
| `MCSession`, `MCConnect` | Values of the constants for TLC |

`ResolvConf` opens what `RevertDNS`, `ApplyDNS` and `ApplyDNSFails` of `Session`
take for one step. `Session` and `Connect` meet in `Lifecycle`: `Session` is proved to implement
it, and `Connect` uses nothing else of a session. What `Connect` shows of the
commands therefore holds over the session that the code runs. `Transport` opens
`Upload`, `OpenTransport` and `StopTransport` of `Session`; `TcpFlow` and
`Datagram` are what the data plane does on a transport that is up, which they
see as "open" or "lost"; the two BBR modules are what `quic-go` calls on the
QUIC kind of it.

### Session

`pc` is the place of the runner goroutine; one value stands between two calls
that another actor can separate.

| In the model | In the code |
|---|---|
| `Begin`, `ReadPlanFails`, `NewRunner` | `_session run`, `ReadPlan`, `Run` up to the first connect |
| `DialTCP`, `Handshake`, `RemoteChanged`, `Upload`, `ExecHelper`, `TransportUp`, `ReconnectDNS`, `ReconnectUp`, `TransportFails` | `runner.transport`, `guardManifest`, `startHelper`, `execHelper`, `openTransport` |
| `SetupDevice` ... `SetupDataPlane`, each with its `...Fails` | `runner.setup` and its error paths |
| `MarkUp` | `markUp` and `startWatches`, after the first setup and after a reconnect |
| `WaitSignal`, `WaitClosed`, `WaitResume`, `WaitSample` | the cases of the select in `wait` |
| `LossDrops`, `LostRevert`, `LossEnds` | `lost`, or the end without a window |
| `GiveUp`, `StartAttempt`, `Resolve`, `ResolveFails`, `BackoffDone`, `BackoffCancelled` | `reconnect`, `attempt`, `resolve` |
| `StopMark`, `StopHost`, `StopTransport`, `StopDevice`, `Exit` | `stopSession` and the deferred calls of `Run` |
| `Cleanup` | `_session cleanup`, the `ExecStopPost` of the unit |
| `Resume`, `ProbeAnswered`, `ProbeFails`, `SendSample` | `resumeWatch.run`, `metricsWatch.run` |
| `Signal`, `Crash`, `StopTimeout`, `PartCloses`, `GoSilent`, `LinkReset`, `Tick` | user, kernel, systemd, remote, clock |

`host` is what the session has on the host. A change of the host is the set of
the outcomes its calls can have (`RevertDNS`, `ApplyDNSFails`, `ResetRoutes`
...); `host.failed` remembers the changes whose last call failed, so that a
property can say "reverted, unless the revert was tried and failed". Without
systemd-resolved (`Resolved = FALSE`) the record beside `/etc/resolv.conf` is
modelled too, since a later session can overwrite it.

A transport is a number. A channel, a probe report, a sample or a dialer of an
older transport is visible as a smaller number.

The data plane carries flows as soon as it runs and its dialer is set, which is
before `markUp` writes the state file: `pc = "markUp"` is the moment between, with
the file at `starting` or `reconnecting`. `Lifecycle` has the same two steps,
`Carry` and `ComeUp`. What it promises is the other direction: a file that says
`up` is written only for a session that carries flows.

### Connect

`cpc[c]` is the place of command `c`. A command can be interrupted at every
call that reads or changes the unit or a file. `unit` is the transient unit:
`active` while `systemctl is-active` says so, `stopping` after the signal,
`post` while `ExecStopPost` runs, `dead` when its name is free. `inst` numbers
the units. Three history variables serve the properties: `mine` (the unit a
connect started or a disconnect found), `told` (whose state file said `up`),
`quiet` (no other command acted since the check, or since the own stop).
Time limits are one flag, `late`, that may become true at any moment. A session
of an earlier connect may be up before the first command (`Earlier`).

`Launch` is `Start` without `--foreground`: `tj connect` always passes
`foreground = false` (`cli/connect.go:116`, `session/connect.go`). The other branch,
reached only by the hidden `_session start --foreground`, starts no unit and waits
for no state file: it is `Run` itself, which is `mode = "foreground"` of `Session`.

### ResolvConf

`call` is the next file operation of an apply (`record`, `clear`, `write`) or of
a revert (`read`, `remove`, `restore`, `drop`), `stage` the place of the session
that makes it. `etc` is `/etc/resolv.conf`; `link` and `backup` are the two
records. A failed or killed write leaves a part of the file (`Cut`); removals
and links are all or nothing. `stage` goes through `setup`, `up`, `lost`, `gap`,
`stop`, and in a unit `cleanup`, whose revert follows the one of the stop path.

### Transport

`pc` is the place of the client in `runner.transport`, `selectTransport` and the
close path, `proc[h]` the place of the helper process of lane `h`. `req` and
`rep` are the control stream; a verb whose deadline passes leaves its answer in
`rep`. `file` and `dir` are the uploaded file and its directory, `~/.cache/tj`.
`crowd` says that no helper can remove the directory: other clients have files in
it, or the upload went to `XDG_RUNTIME_DIR`, which `cleanupCache` does not touch.
The start of a helper, its first line and the handshake of a lane have no limit, so
the file may become older than `staleAge` at any moment (`Age`), also while a lane
is about to execute it, and the helper of another client may then sweep it. `aged`
remembers that. The helper ignores the errors of its removals; `kept` has the
helpers that left the file or the directory behind.

| In the model | In the code |
|---|---|
| `Mkdir`, `Write`, `WriteFails`, `Exec`, `StartFails` | `uploadHelper`, `execHelper`, `NewClient` |
| `Call`, `Reply`, `NoReply`, `Fallback` | `NegotiateQUIC`, `QueryEchoSocket`, `Unlink` with their deadlines; `redialQUIC` |
| `DialHandshake`, `Probe`, `DialFails`, `Abandon` | `DialQUIC`, `QUICClient.Probe`, `AbandonQUIC` |
| `LaneExec`, `LaneUp`, `LaneFails`, `LanesOpen` | `openLaneSet`, `openLanes`, `openLane` |
| `Lost`, `Stop`, `Quit`, `Close`, `ClientDies` | `dropTransport`, `stopSession`, `closeTransport`, a killed client |
| `HelperStart`, `HelperEOF`, `HelperStop`, `RemoveSelf`, `CleanupCache` | `helper.run` with `sweepStale`, `removeSelf`, `cleanupCache` |
| `AnswerICMP`, `AnswerQUIC`, `AnswerUnlink`, `HandleAbandon`, `HandleQuit` | `Server.handleControl` |
| `TakeQUIC`, `CloseQUIC`, `ReturnStops`, `Accept`, `Store` | `stopQUIC` and `serveQUIC`, whose order is open |
| `LinkDies`, `ConnEnds`, `Kill`, `Age`, `OtherSweep`, `OtherCleanup` | network, kernel, time, the helpers of other clients |

### TcpFlow

Six pipes with bounded buffers from the application `A` to the server `B` and
back, four copying goroutines. A pipe is two counters and the way it ended:
`fin`, `cut` (buffer, then a clean EOF, although nobody closed) or `err`. The
dial with its status byte, both `relayTCP`, the half-closes, the close of both
ends when both copies are done, and the second `Close` of a QUIC stream are
actions; resets of `A` and `B`, a lost transport, an endpoint that gVisor
refuses and the close timeout of yamux are recorded in `faults`.

`Channel` is what is left when `tj` is taken away: units sent and received, the
state of the source, what the sink read at the end, and whether anything broke.
`UpChannel` and `DownChannel` are its two instances; `source` is the end of the
pipe that `A` or `B` writes, `sink` what the other one read at the end, `broken`
is `faults # {}`, and the room is that of the three pipes. A copying goroutine
reads and writes in one step: what its buffer holds counts as in the pipe it
reads. A broken channel may end early, but it never repeats a unit and delivers
nothing after its end.

### Datagram

`Capture` is the pump of the device with the table of echo flows and their
queues. A flow on the client goes through `dial`, relaying and `over`; its
writer and reader are `Write`, `WriterEnds`, `Read`, `ReaderEnds`. On the helper
`ServeUDP`, `OpenEcho` or a refusal open it, `Take`, `Send`, `SendFails`,
`Recv`, `RecvFails`, `Drain`, `Idle` and `Return` are the two goroutines of
`relayUDP` and `relayEcho`. An answer on the `wire` reaches every raw socket of
the helper (`Mine` is the test of `recv` and `rawError`). A ping socket gets only
its own. An ICMP error on a send or a read goes to the client as a frame and the
flow goes on; any other error, and a ninth empty error queue in a row, ends it.
`Told` is what the client makes of the status byte of an echo stream.
`BuildEchoReply`, `BuildICMPError` and `Inner` keep of a packet whose request it
answers or quotes and where it goes.

`closeEchoFlows` takes the flows out of the table while some of them still run; such
a flow drops its key again when it ends, and by then the key may lead to a newer
flow. `TableServes` says that an entry always leads to a flow that still reads its
queue, and that it goes only when that flow ends or all flows are closed.

### BbrSender, BbrSampler

`OnCongestionEventEx` is one action, as in the code one call: its helper
functions keep their names and their order, each an operator from the fields to
the fields, or to the set of outcomes that a comparison of bandwidths or RTTs
leaves open. A comparison with a target window has only the outcomes that its
lower limit, the minimum window, allows. In `BbrSender` packet numbers are
places in the flight, so behaviours are unbounded; in `BbrSampler` they are
numbers up to `MaxPacket`, because gaps and the wrap of the ring are the point.
Both take every set of acked packets; a lost set is the oldest packets, as
`quic-go` declares them.

## 3. What the runs check

| Run | Instance | Distinct states | Shows |
|---|---|---|---|
| `SessionSafety` | two sessions in a row, foreground or unit, resolv.conf fallback, no window and window 4, two transports, a planned, an equal and a foreign address | 8.1 million | `TypeOK`, `UpIsComplete`, `CurrentTransportOnly`, `NoDNSWithoutTransport`, `BlockedStopHarmless`, `AttemptsPaced`, `CleanupReverts`, `LossIsReal`, `Implements`, also on a host that a killed session left dirty |
| `SessionLive` | fairness, no window and window 2 | 0.5 million | `SignalEnds`, `LossResolves` |
| `ConnectSafety` | two commands that ask for two remotes, one of which moves; none or an earlier session up at first | 4.2 million | `TypeOK`, `ReportIsFresh`, `ReportIsAsked`, `ReplaceReady`, `StopIsOver` |
| `ConnectLive` | fairness, two commands, one plan | 0.5 million | `CommandEnds` |
| `ResolvConf` | a file, a link or nothing at first; unit and foreground; no bound on the sessions | 2713 | `TypeOK`, `Restorable`, `EndIsOriginal` |
| `Transport` | the primary and one more lane; three commands, three modes; no bound on the attempts | 430 thousand | `TypeOK`, `LaneFindsFile`, `UnlinkIsKnown`, `CleanRemote`, `DialIsServed`, `StoppedIsDead`, `HelpersEnd`, `ListenerReleased` |
| `TcpFlow` | both transports, two units up, one down, buffers of one | 464 thousand | `EofIsEnd`, `DialIsReal`, `CarriesChannels`, `Delivered`, `FlowEnds` |
| `Datagram` | a UDP and an echo key, three kinds of socket, two flows, two requests, a queue of one | 1.3 million | `AnswerIsMine`, `TableServes`, `FlowsEnd` |
| `BbrSender` | three packets in flight, two datagram sizes | 27 thousand | `WindowHolds`, `ProbeRttEnds` |
| `BbrSampler` | seven packet numbers, two in flight, a ring of one cell at first, a window of three rounds | 848 thousand | `EntriesKept`, `BestHolds` |
| `DocCancelUp`, `DocRevertTwice` | | | violations, section 6 |

Every property has a mutant in `PROJECT.json`: a plausible slip in the code
(a forgotten revert, a reused channel, a missing case of the select, a stop
that does not wait) under which TLC finds the property violated. A mutant is an
operator beside the definition it replaces, and no specification uses it.

### Bounds

- `MaxGen = 2`: two transports are enough for a stale channel; the second loss
  of a session meets the same state as the first, since `startWatches` and
  `lost` reset all of it.
- `Windows` and `Backoff`: window 0 is `reconnect_for` 0; the backoff 1, 2, 2, ... reaches its cap inside a
  window of four ticks. `MaxAttempts` never stops a reconnect, because every
  wait takes at least a tick (`attempts <= limit`, part of `AttemptsPaced`).
- `Slack`: how long after the window TLC lets an attempt without a context
  run; one tick is enough to be outside.
- `MaxRuns = 2`: one session leaves something behind, the next one starts on it.
- Two commands: `ReportIsAsked` and `ReplaceReady` speak of one command and its
  rivals; with `Earlier` two commands also meet the case that needs a third
  start. The theorems remove the bound.
- `ResolvConf`, `Transport` and `BbrSender` have no bound on the length of a
  behaviour: their state is finite.
- `Transport`: lanes beyond the first extra one do the same as it; the race of
  `unlink`, `sweep` and `exec` needs two helpers.
- `TcpFlow`: two units through buffers of one make every pipe block once.
  That the room of a `Channel` is never exceeded needs more data than that; the
  theorem has no bound on them.
- `Datagram`: two flows are one key used again, or two raw sockets that see each
  other's answers; two requests and a queue of one make a request wait and a
  request drop.
- `BbrSender`: windows 1, 2, 3 stand for `minCongestionWindowPackets`,
  `initialCongestionWindowPackets` and the maximum; the flight reaches the
  largest window of the first datagram size. The recovery window is cut at
  `RecoveryBound`, above everything it is compared with.
- `BbrSampler`: two packets in flight over a gap of ack-only packets reach the
  distance of `packetThreshold`; seven rounds are enough for an estimate and
  its successor to expire one after the other in a window of three.
- `CHECK_DEADLOCK FALSE`: the last session is over, the last command has
  returned, the flow has ended or the packet numbers are used up, so the system
  really may stop. A hang is the business of the liveness properties.

### Fairness

Weak fairness, for what the code or the system below it guarantees:

- the runner goroutine and the commands are scheduled (`RunnerStep`, `Step`);
  the places in `MayHang` are left out, because only the remote ends them: the SSH
  handshake, the start of the helper with its info line, and on the SSH transport
  the same two calls for each lane;
- timers and time limits fire (`Tick`, `LimitPasses`, the probe limit);
- yamux and QUIC keepalives, and the TCP retransmission limit, find a dead peer
  (`Keepalive`, `LinkReset`);
- systemd kills a unit that does not stop (`TimeoutStopSec`, `StopTimeout`) and
  runs `ExecStopPost` (`Cleanup`).

- the client and the helpers run (`ClientSteps`, `HelperSteps`); a wait of theirs
  has a deadline, a keepalive or a close behind it, except those in `MayHang`, where
  nothing is assumed of the client;
- relays run and the two applications of a TCP flow read what arrives (`Dials`,
  `Relays`, `Peers`); flows run and their idle times pass (`Client`, `Helper`);
- for BBR: the application has data, the peer acks, `probeRttTime` passes, and,
  the one strong fairness (`RoundAck`), not every packet of every round is lost;
  a connection that loses all of them is ended by its idle timeout.

Nothing makes a user send a signal, a remote answer, a call fail, or a session
come up. `LossResolves` is stated under `[]<>~MayHang`: a remote that accepts
connections and never speaks, or stops speaking before the helper has answered,
holds the runner for ever, and that is a fact about the code (section 6), not about
the scheduler. `SignalEnds` needs no such premise: systemd ends a unit that hangs.
`HelpersEnd` needs none either: it is about a client that is gone.

## 4. What is proved

TLAPS checks the proofs in the eight modules `...Proofs`. Every safety property of
a run that passes, invariant or action property, is a theorem there. It holds for
every set of addresses, plans, commands, lanes, flows and datagram sizes and for
every window, backoff, buffer and bound, under the `ASSUME`s of the modules. Most
of those only give the constants their types. The ones that say more:

| Assumption | Why the code justifies it |
|---|---|
| `AddrAssumption` of `Session` | The address in the plan serves the manifest in the plan: `tj connect` discovers it there |
| `PacketAssumption`, `CycleAssumption` of `BbrSender` | The minimum, initial and maximum window are constants in this order; three flat rounds, eight phases of the gain cycle |
| `BoundAssumption` of `BbrSender` | The bound at which the recovery window of the model saturates is above every window |
| `IdentAssumption` of `Datagram` | An identifier is a number, and "none" is not one |
| `ThresholdAssumption` of `BbrSampler` | `packetThreshold` of `quic-go` is 3; with 4, the estimate of the least unacked packet drops an entry that is still needed |

`SessionProofs`. None of the safety invariants is inductive: that `up` is
complete at `wait` depends on what was true at each stage of `setup`. `IInv`
says for every place of the runner which part of the host it owns and which
transport the fields point at: `NoProcess`, `FirstConnect`, `HostKept`, `Up`,
`Gap`, `FileFollows`, `Newest`, and for the DNS `DNSRecord`. The last one is the
delicate part. Without systemd-resolved a revert is as good as the record, so
it says that a rewritten `resolv.conf` has the original beside it, unless a
call failed. The lemmas `...Outcome` say what one operator on the host keeps of
it; the lemmas `...Step` treat one group of actions each.

- `TypeCorrect`, `UpCorrect`, `CurrentCorrect`, `DNSCorrect`, `CleanupCorrect`,
  `StopCorrect`: the invariants of the runs.
- `LossCorrect`: the action property `LossIsReal`.
- `PaceCorrect`: `AttemptsPaced`, from `Waits`, which says at each place of the
  reconnect what the time since the loss has paid for: the waits before the
  latest attempt, and during a backoff the part of it that is still to sleep.
- `ImplementsLifecycle`: refinement, with `alive` as "the process has written
  its state file", `status` as that file, `carrying` as "the data plane runs and
  its dialer has a transport". `MarkUp` maps to `ComeUp`; `SetupDataPlane` and
  `ReconnectUp`, which leave the file alone, map to `Carry`.

`ConnectProofs`. `CInv` adds to the types that the state file, when there is
one, is of the newest unit and goes before its name is free (`FileOfUnit`), and
for each command `Own(c)`: what its history says as long as it was alone.

- `ConnectTypeCorrect`, `FreshCorrect`, `AskedCorrect`, `ReplaceCorrect`,
  `StopOverCorrect`.

`ResolvConfProofs`. `Restorable` is not inductive: after the record of a link is
dropped a leftover copy could decide. `RInv` adds that a sound host has one kind
of record (`OneRecord`), that an apply changes the file only beside a record
(`RecordFirst`), and that a revert restores before it drops (`ReadFirst`).

- `ResolvTypeCorrect`, `RestorableCorrect`, `EndCorrect`. `Sound` in their
  statements names the two ways to lose the original, an apply over a file of
  `tj` and a torn record; section 6 shows that both happen. It also excludes a
  host without a `resolv.conf`: nothing is recorded there, a revert does nothing,
  and the file of the session stays.

`TransportProofs`. The properties look at the end of an attempt; what makes them
true is said along the way. `TInv` adds that an attempt begins with nothing of an
earlier one (`Fresh`), that the uploaded file goes only by a helper of the attempt
or once it is older than `staleAge` (`FileKept`), that an answer on its way is true for as long as its helper runs,
also when its deadline has passed (`StreamTrue`), and that a client that
dials a helper that runs finds its listener (`PortKept`).

- `TransportTypes`, `LanesFindFile`, `UnlinksAreKnown`, `RemoteIsClean`,
  `DialsAreServed`, `StoppedIsStopped`. `LanesFindFile` exempts an attempt whose file
  was old at some moment, and `RemoteIsClean` is about the helpers whose removals
  succeeded: one of them is enough, whatever failed for the others.

`TcpFlowProofs`. `EofIsEnd` relates the first and the last of three pipes. `FInv`
has one formula, `Line`, for both directions: without a fault a pipe ends only
after the pipe before it has ended and was read to its end, and a copying
goroutine is done exactly when it has closed the pipe it writes. `Carried` counts
the data, `Dialed` and `Begun` hold the two sides back until the status byte.

- `FlowTypes`, `EofsAreEnds`, `DialsAreReal`.
- `FlowCarriesChannels`: refinement of `Channel` by both directions. `FInv` says
  little once something broke, and a channel promises something then too, so
  `CInv` adds what holds always: no pipe exceeds its buffer (`Bounded`), `A` and
  `B` have sent nothing before their connection is up (`Sources`), an end that
  was read stays one and everything before it has been read (`Sinks`); and that
  without a fault only a refusal is an error (`Refusals`). `UpSteps` and
  `DownSteps` name, for each action, the step of the channel it is.

`DatagramProofs`. An answer is right because of where it has been. `DInv` follows
a request from the queue of its flow (`Keyed`, `Queues`) through the stream to the
socket of the helper (`Phased`) and its answer back by the identifier (`Answers`).
`Serving` relates the table and the flows; it needs the comparison in `dropEchoFlow`
(`EndServes`).

- `DatagramInvariant`, `AnswersAreMine`, `TablesServe`. The first also has the types.

`BbrSenderProofs`. `SInv` adds the limits of both windows at the current datagram
size; the recovery window has them only during a recovery. Each helper function of
`OnCongestionEventEx` has a lemma, cited in the order of the calls.

- `SenderTypes`, `WindowsHold`.

`BbrSamplerProofs`. For the filter, `BInv` says that the three estimates are ordered
by bandwidth and by age, so that the successor of an expired one is the best of the
later ones. For the queue, the ring buffer is first shown to be a sequence: lemmas
say what `Grow`, `PushBack` and `PopFront` do to its length and its cells, through
every wrap of head and tail. `QInv` then says that a cell is absent or of the packet
of its place, that the front is present, and that `count` is the number of present
cells, because `Emplace` and `GetEntry` take a count of 0 for an empty ring. `EInv`
bounds the entries by the packets sent under the controller. The last piece is
`SurvivorsAbove`: no packet still in flight is below the estimate by which the
obsolete ones are removed.

- `EstimatesRanked`, `BestHoldsAlways`, `EntriesAreKept`.

Sums and loops over data (`Paced`, `Filled`) are recursive functions. What they
compute is proved with the least element of a set of naturals (`LeastNat`): the
least argument for which the claim fails would have a predecessor for which it
holds. That such a function exists at all is proved the same way (`SumsExist`,
`FillsExist`). TLC has checked every inductive invariant with the constants of the
run of its module.

Only model-checked: liveness (`SignalEnds`, `LossResolves`, `CommandEnds`,
`HelpersEnd`, `ListenerReleased`, `Delivered`, `FlowEnds`, `FlowsEnd`,
`ProbeRttEnds`), which needs fairness and `ENABLED`, out of the prover's reach,
and the violations of section 6.

## 5. Abstractions

- Device, routes and rules are one flag each. `Router.Add` and `Reset` work on
  several routes and rules; what the properties tell apart is none or some, and
  a partial failure counts as some.
- The plan has a DNS mode. With mode `none` `applyDNS` returns at once, which is
  the same path with less on the host.
- In `Session` `saved` is one record of `resolv.conf`, for a link and for a file,
  and `/etc/resolv.conf` is assumed to exist on a clean host. `ResolvConf` has
  both records and the missing file.
- In `Session` a kill falls between two calls. A kill inside a call leaves what
  a failure of it leaves, so it is a failed call followed by `Crash`.
- In `ResolvConf` nobody but `tj` writes `/etc/resolv.conf`, and the machine does
  not lose its power: a reboot clears the records and keeps the file.
- A write of the state file after the first one only warns when it fails; the
  model lets it succeed.
- A panic of the runner goroutine is recovered by `Run`, but it skips `stopSession`
  (`run.go:237-242`, `292-293`): the deferred calls close the transport and remove the
  state file, and what the session changed on the host stays until the cleanup of the
  unit, or in the foreground until the next session. That is `Crash` with the file
  gone, which no path of the model is. Only the congestion code calls `panic`, so no action
  stands for it; a panic in another goroutine is `Crash`.
- `Connect` starts at the call of `session.Connect`: resolving, discovery and
  the plan are done. It models the path of root and of `sudo tj` together: what
  a `sudo` in between can add are an early failure (`SudoFails`), a stop that
  the terminal interrupts (`StopInterrupted`) and a success turned into an error
  (second disjunct of `PrintUp`).
- A reconnect attempt whose `applyDNS` fails half way leaves a part of the DNS
  mode on the device until the next attempt or the stop; `NoDNSWithoutTransport`
  therefore excludes the whole mode (`tunnel`), not a part of it.
- Removing a file below `/run` succeeds.
- The flap watch of `session/watch.go` only logs.
- `Transport` has one attempt at a time. What an earlier one still has on the
  remote, and other clients, meet it in the cache directory only; there they may
  sweep old files and remove the directory when it is empty.
- In `TcpFlow` a unit is any number of bytes. How yamux and QUIC retransmit and
  their windows are below the model; what they do when an end closes twice,
  cancels or is lost is in it, from how `mux/quic.go` and `mux/mux.go` use them.
- In `Datagram` the order of the frames of one direction is left out. Packet
  formats are reduced to whose request an answer or an error quotes. The end of an
  echo flow (its last frame, the close of its stream, the drop of its key) is one
  step, and so are the lookup of a flow in `captureEcho` and the queueing.
- BBR has the standard profile, the only one that `congestion/apply.go` installs;
  `drainToTarget`, overestimate avoidance and overshoot detection are off in it.
  Rates are floating point and left out: `calculatePacingRate`, the pacer and
  the ack height tracker, which adds to a target window that is open anyway.
  A sample with bandwidth 0 is a packet without a valid sample.
- `Remove` of the packet queue (`OnPacketNeutered`) has no caller in the
  repository.

## 6. Where the code and its documentation disagree

Two of them have a run that expects the violation. The others are definitions of
their modules; TLC gives the counterexample when one is named in place of the
properties in the configuration of the safety run of that module.

| Definition | Documentation | Code |
|---|---|---|
| `CancelSparesUp`, run `DocCancelUp` | `session/run.go:79`: a session that came up stays up | it can come up between the last read and the signal, and is stopped |
| `SecondRevertIdle`, run `DocRevertTwice` | `platform/linux/resolvconf.go:65`, `resolver.go:91`: a second revert does nothing | a link record and a copy can be there at once; the second revert puts the copy, the file of `tj`, over the restored link |
| `CancelStopsOwn` (`Connect`) | `session/run.go:77`: the cancel stops the unit of this connect | it stops the unit that has the name, also of another connect |
| `CleanupRestores` (`ResolvConf`) | `session/run.go:612`: the cleanup reverts after a kill | a torn copy is restored over an intact original |
| `AttemptInsideWindow` (`Session`) | `session/reconnect.go:244`: an attempt ends with the window | `ssh.NewClientConn`, the manifest read and `execHelper` have no context |
| `ExitReverts` (`Session`) | `session/run.go:231`: `Run` reverts every change on exit | `setup` returns after `Router.Add` without `Reset`; a foreground session leaves the rules |
| `OnlyKillLeavesFile` (`Transport`) | `docs/architecture.md:122`: only a SIGKILL and a power loss leave the helper file | a failed upload, exec or handshake leaves it too, until a later helper sweeps it |
| `HalfCloseHolds` (`TcpFlow`) | `docs/architecture.md:134`: after a half-close the other side can still write | `muxConfig` keeps the `StreamCloseTimeout` of yamux (5 minutes); the side that closed then reads a clean EOF while the other still writes |
| `OverIsReleased` (`Datagram`) | `mux/quic.go:204`: a second `Close` releases the read side | refused flows and the client relays close once (`server.go:254`, `261`, `netstack.go:216`, `icmp.go:131`); over QUIC the reading side of a flow that is over stays until the connection ends |

Smaller ones, met while modelling and not stated as properties: the sender of
`relayUDP` ends a flow on an ICMP error whose queue entry the reader has already
taken (`mux/server.go:366`), while `docs/architecture.md:135` says the flow goes
on; `congestion/bbr/bbr_sender.go:578` says that `total_bytes_acked()` does not
change when no acked packet has a valid sample, but it does, and the filter is
updated with 0.

## 7. Plan

Done: all modules of section 2, every safety property of their runs proved, and the
refinements of `Lifecycle` by `Session` and of `Channel` by `TcpFlow`. Left, in the
order of importance:

1. That `ResolvConf` implements the three DNS operators of `Session` on a host whose
   `resolv.conf` is a file. It needs the state of the host at the start of a call as
   a history variable. With a link the two differ after an apply over a file of
   `tj`: the first revert restores the link and the next one undoes that, while the
   one record of `Session` is spoilt at once; `Session` counts both as failed.
2. Pure algorithms against reference definitions: `Resolve` of `tailnet`, the
   choice of a lane, `routePrefixes` and the computed networks, `ParseRate`.

### Not modelled

- Printing, configuration files, packet formats and checksums, host keys and
  authentication: input and output.
- The rest of `tj doctor`, `tj bench`, `tj list`, `tj describe`, `tj alias`:
  one-shot commands without shared state, beyond the transports they open.
- `tj status` and `tj logs`: readers on which nothing acts.
- The macOS platform, which the repository calls unverified, and the fake one.
- Pacing, the brutal sender (a fixed rate) and the other BBR profiles, which
  `Apply` never installs: floating point rates.
