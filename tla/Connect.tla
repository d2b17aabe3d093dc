------------------------------ MODULE Connect ------------------------------
(***************************************************************************)
(* The commands tj connect and tj disconnect, internal/session/connect.go, *)
(* disconnect.go, lock.go and the Start half of run.go, with the transient *)
(* unit they share (internal/platform/linux/runner.go) and the two files   *)
(* between them, plan.json and session.json.                               *)
(*                                                                         *)
(* Nothing but the name of the unit excludes two commands from each other, *)
(* so the commands interleave at every call that reads or changes the unit *)
(* or a file.  The session inside the unit is the interface Lifecycle,     *)
(* which the module Session implements.                                    *)
(***************************************************************************)
EXTENDS Naturals

CONSTANTS
    Commands,   \* the commands a user runs, each once
    Plans,      \* records of ref and addr: a reference at an address
    Asked,      \* the plans that the commands ask for
    Earlier,    \* the plans whose session may be up before the first command
    NoPlan      \* no plan file, or no state file

ASSUME PlansAssumption == /\ \A p \in Plans : p = [ref |-> p.ref, addr |-> p.addr]
                          /\ NoPlan \notin Plans
                          /\ Asked \subseteq Plans /\ Earlier \subseteq Plans

VARIABLES
    unit,                     \* the transient unit
    inst,                     \* the number of units started so far
    plan,                     \* plan.json
    alive, status, carrying,  \* the session in the unit
    at,                       \* the reference and the address in session.json
    wrote,                    \* the unit whose session wrote session.json
    cpc, want, flag, sig, late, waits,  \* the commands
    mine,    \* history: the unit a connect started, or a disconnect found
    told,    \* history: whose state said up to a connect, and what it said
    quiet    \* history: no other command acted since the check or the stop

unitVars    == <<unit, inst>>
sessionVars == <<alive, status, carrying, at, wrote>>
commandVars == <<cpc, want, flag, sig, late, waits>>
history     == <<mine, told, quiet>>
vars == <<unitVars, plan, sessionVars, commandVars, history>>

S == INSTANCE Lifecycle

(* How a command can end.  cancelledWarned is a cancelled connect that     *)
(* logged a warning, because the stop or the wait for it failed.           *)
Results == {"up", "already", "refused", "failed", "cancelled", "cancelledWarned",
            "ended", "nothing", "killed"}
Awaiting == {"await", "poll", "sleep"}
CPCs == Results \cup Awaiting \cup
        {"idle", "check", "ask", "stop", "stopped", "inactive", "write", "launch",
         "print", "cancel", "cancelStopped", "cancelInactive", "dcheck", "dstop", "dstopped"}

(* active is what systemctl is-active reports.  stopping has the signal,   *)
(* post runs the ExecStopPost command; the name is free when it is dead.   *)
UnitStates == {"dead", "active", "stopping", "post"}

TypeOK ==
    /\ unit \in UnitStates /\ inst \in Nat
    /\ plan \in Plans \cup {NoPlan}
    /\ S!TypeOK
    /\ at \in Plans \cup {NoPlan} /\ wrote \in Nat
    /\ cpc \in [Commands -> CPCs]
    /\ want \in [Commands -> Plans \cup {NoPlan}]
    /\ flag \in [Commands -> {"none", "replace", "stopped"}]
    /\ sig \in [Commands -> BOOLEAN] /\ late \in [Commands -> BOOLEAN]
    /\ waits \in SUBSET Commands
    /\ mine \in [Commands -> Nat]
    /\ told \in [Commands -> [by: Nat, plan: Plans \cup {NoPlan}]]
    /\ quiet \in [Commands -> BOOLEAN]

(* No unit, or the unit of an earlier connect with its session up. *)
InitUnit ==
    \/ /\ unit = "dead" /\ inst = 0 /\ plan = NoPlan
       /\ S!Init /\ at = NoPlan /\ wrote = 0
    \/ /\ unit = "active" /\ inst = 1 /\ plan \in Earlier
       /\ alive = TRUE /\ status = "up" /\ carrying = TRUE
       /\ at = plan /\ wrote = 1

Init ==
    /\ InitUnit
    /\ cpc = [c \in Commands |-> "idle"]
    /\ want = [c \in Commands |-> NoPlan]
    /\ flag = [c \in Commands |-> "none"]
    /\ sig = [c \in Commands |-> FALSE] /\ late = [c \in Commands |-> FALSE]
    /\ waits = {}
    /\ mine = [c \in Commands |-> 0]
    /\ told = [c \in Commands |-> [by |-> 0, plan |-> NoPlan]]
    /\ quiet = [c \in Commands |-> FALSE]

(* c acts on what the commands share: the others are no longer alone. *)
Interferes(c) == quiet' = [d \in Commands |-> d = c /\ quiet[d]]

(* c passes from one place to the next and changes nothing else; a process *)
(* that ends takes its context and its timers with it.                     *)
Goes(c, from, to) ==
    /\ cpc[c] = from
    /\ cpc' = [cpc EXCEPT ![c] = to]
    /\ sig' = [sig EXCEPT ![c] = @ /\ to \notin Results]
    /\ late' = [late EXCEPT ![c] = @ /\ to \notin Results]
    /\ UNCHANGED <<unitVars, plan, sessionVars, want, flag, waits, history>>

Active == unit = "active"
-----------------------------------------------------------------------------
(***************************************************************************)
(* The unit and its session                                                *)
(***************************************************************************)

(* The process reads the plan that is there now, and says starting. *)
Boot ==
    /\ unit \in {"active", "stopping"} /\ plan # NoPlan
    /\ S!Start
    /\ at' = plan /\ wrote' = inst
    /\ UNCHANGED <<unitVars, plan, commandVars, history>>

(* The plan is missing or does not parse, or the signal comes first. *)
BootFails ==
    /\ unit \in {"active", "stopping"} /\ ~alive
    /\ unit' = "post"
    /\ UNCHANGED <<inst, plan, sessionVars, commandVars, history>>

SessionRuns ==
    /\ S!Carry \/ S!ComeUp \/ S!Break \/ S!Lose \/ S!Stop \/ S!Drain
    /\ UNCHANGED <<unitVars, plan, at, wrote, commandVars, history>>

(* A reconnect attempt finds the reference at another address. *)
Moves ==
    /\ alive /\ status = "reconnecting"
    /\ \E p \in Plans : p.ref = at.ref /\ at' = p
    /\ UNCHANGED <<unitVars, plan, alive, status, carrying, wrote, commandVars, history>>

(* Mutant: the process writes a last status instead of removing the file. *)
SessionEndsInFile ==
    /\ alive /\ status = "stopping"
    /\ alive' = FALSE /\ status' = "ended" /\ carrying' = FALSE
    /\ unit' = "post"
    /\ UNCHANGED <<at, inst, plan, wrote, commandVars, history>>

(* The process returns and removes its state file. *)
SessionEnds ==
    /\ S!End
    /\ at' = NoPlan /\ unit' = "post"
    /\ UNCHANGED <<inst, plan, wrote, commandVars, history>>

(* The process is killed. *)
SessionDies ==
    /\ S!Die
    /\ unit' = "post"
    /\ UNCHANGED <<inst, plan, at, wrote, commandVars, history>>

(* TimeoutStopSec: a unit that does not stop on the signal is killed. *)
StopTimeout == unit = "stopping" /\ (SessionDies \/ BootFails)

(* Mutant: the cleanup leaves the state file of a killed session. *)
CleanupKeepsState ==
    /\ unit = "post"
    /\ plan' = NoPlan /\ unit' = "dead" /\ waits' = {}
    /\ UNCHANGED <<sessionVars, inst, cpc, want, flag, sig, late, history>>

(* _session cleanup removes the files, whoever wrote the plan; the name is *)
(* free then, and every stop job is done.                                  *)
Cleanup ==
    /\ unit = "post"
    /\ S!Sweep
    /\ at' = NoPlan /\ plan' = NoPlan
    /\ unit' = "dead" /\ waits' = {}
    /\ UNCHANGED <<inst, wrote, cpc, want, flag, sig, late, history>>
-----------------------------------------------------------------------------
(***************************************************************************)
(* tj connect                                                              *)
(***************************************************************************)
Begin(c, p, f) ==
    /\ cpc[c] = "idle"
    /\ cpc' = [cpc EXCEPT ![c] = "check"]
    /\ want' = [want EXCEPT ![c] = p] /\ flag' = [flag EXCEPT ![c] = f]
    /\ quiet' = [quiet EXCEPT ![c] = TRUE]
    /\ UNCHANGED <<unitVars, plan, sessionVars, sig, late, waits, mine, told>>

(* activeSession: the unit is the authority. *)
Check(c) ==
    \/ ~Active /\ Goes(c, "check", "write")
    \/ Active /\ flag[c] = "none" /\ Goes(c, "check", "ask")
    \/ Active /\ flag[c] = "replace" /\ Goes(c, "check", "stop")

(* The session in the state file is the one the plan asks for: its         *)
(* address, or its reference while the session reconnects.                 *)
AlreadyUp(p) ==
    /\ status # "none"
    /\ at.addr = p.addr \/ (status = "reconnecting" /\ at.ref = p.ref)

Ask(c) == Goes(c, "ask", IF AlreadyUp(want[c]) THEN "already" ELSE "refused")

(* Mutant: systemctl stop does not wait for the unit. *)
StopUnitNoBlock(c, from, to) ==
    /\ cpc[c] = from
    /\ cpc' = [cpc EXCEPT ![c] = to]
    /\ unit' = IF unit = "active" THEN "stopping" ELSE unit
    /\ quiet' = [d \in Commands |-> d = c]
    /\ UNCHANGED <<waits, inst, plan, sessionVars, want, flag, sig, late, mine, told>>

(* systemctl stop: the unit gets the signal, and the command waits for the *)
(* job.  A unit that is not loaded is no error.  What the rivals of c did  *)
(* to the old unit does not count from here on.                            *)
StopUnit(c, from, to) ==
    /\ cpc[c] = from
    /\ cpc' = [cpc EXCEPT ![c] = to]
    /\ unit' = IF unit = "active" THEN "stopping" ELSE unit
    /\ waits' = IF unit = "dead" THEN waits ELSE waits \cup {c}
    /\ quiet' = [d \in Commands |-> d = c]
    /\ UNCHANGED <<inst, plan, sessionVars, want, flag, sig, late, mine, told>>

(* stopActive returns from the stop. *)
ReplaceStopped(c) ==
    /\ cpc[c] = "stopped" /\ c \notin waits
    /\ cpc' = [cpc EXCEPT ![c] = "inactive"]
    /\ flag' = [flag EXCEPT ![c] = "stopped"]
    /\ UNCHANGED <<unitVars, plan, sessionVars, want, sig, late, waits, history>>

ReplaceStops(c) ==
    \/ StopUnit(c, "stop", "stopped")
    \/ Goes(c, "stop", "failed")
    \/ ReplaceStopped(c)

(* waitInactive of a replace: inactive, a signal, or the time limit. *)
WaitInactive(c) ==
    \/ ~Active /\ Goes(c, "inactive", "write")
    \/ Active /\ (sig[c] \/ late[c]) /\ Goes(c, "inactive", "failed")

(* The root copy is missing or stale, or a signal came before sudo. *)
SudoFails(c) == Goes(c, "write", "failed")

(* Mutant: a plan file that is there is kept. *)
WritePlanKeepsOld(c) ==
    /\ cpc[c] = "write"
    /\ plan' = IF plan = NoPlan THEN want[c] ELSE plan
    /\ cpc' = [cpc EXCEPT ![c] = "launch"]
    /\ Interferes(c)
    /\ UNCHANGED <<unitVars, sessionVars, want, flag, sig, late, waits, mine, told>>

WritePlan(c) ==
    /\ cpc[c] = "write"
    /\ plan' = want[c]
    /\ cpc' = [cpc EXCEPT ![c] = "launch"]
    /\ Interferes(c)
    /\ UNCHANGED <<unitVars, sessionVars, want, flag, sig, late, waits, mine, told>>

(* systemd-run takes the name of the unit, and fails when it is in use.    *)
(* tj connect always asks Start for the unit; a foreground session, which  *)
(* has no unit, is a process of the module Session only.                   *)
Launch(c) ==
    /\ cpc[c] = "launch" /\ unit = "dead"
    /\ unit' = "active" /\ inst' = inst + 1
    /\ mine' = [mine EXCEPT ![c] = inst + 1]
    /\ cpc' = [cpc EXCEPT ![c] = "await"]
    /\ late' = [late EXCEPT ![c] = FALSE]
    /\ Interferes(c)
    /\ UNCHANGED <<plan, sessionVars, want, flag, sig, waits, told>>

LaunchFails(c) == Goes(c, "launch", "failed")

(* awaitUp reads the state file, then asks for the unit, then sleeps. *)
AwaitRead(c) ==
    /\ cpc[c] = "await"
    /\ cpc' = [cpc EXCEPT ![c] = IF status = "up" THEN "print" ELSE "poll"]
    /\ told' = [told EXCEPT ![c] =
                   IF status = "up" THEN [by |-> wrote, plan |-> at] ELSE @]
    /\ UNCHANGED <<unitVars, plan, sessionVars, want, flag, sig, late, waits, mine, quiet>>

(* Start: the error of a wait whose context is done leads to the cancel. *)
WaitFails(c) == Goes(c, "poll", IF sig[c] THEN "cancel" ELSE "failed")

(* Mutant: the wait has no time limit. *)
AwaitPollNoLimit(c) ==
    \/ ~Active /\ WaitFails(c)
    \/ Goes(c, "poll", "sleep")

(* An inactive unit counts after a grace of three seconds. *)
AwaitPoll(c) ==
    \/ ~Active /\ WaitFails(c)
    \/ late[c] /\ WaitFails(c)
    \/ ~late[c] /\ Goes(c, "poll", "sleep")

AwaitSleep(c) ==
    \/ Goes(c, "sleep", "await")
    \/ sig[c] /\ Goes(c, "sleep", "cancel")

(* printUp: the line is for the user, a missing state prints none.  A      *)
(* signal before sudo has returned makes its success an error.             *)
PrintUp(c) ==
    \/ Goes(c, "print", "up")
    \/ sig[c] /\ Goes(c, "print", "failed")

(* stopCancelled stops the unit that has the name now.  After a stop that  *)
(* fails the wait runs too, and the line is the same.                      *)
CancelStops(c) ==
    \/ StopUnit(c, "cancel", "cancelStopped")
    \/ Goes(c, "cancel", "cancelledWarned")
    \/ c \notin waits /\ Goes(c, "cancelStopped", "cancelInactive")

CancelWaits(c) ==
    \/ ~Active /\ Goes(c, "cancelInactive", "cancelled")
    \/ Active /\ late[c] /\ Goes(c, "cancelInactive", "cancelledWarned")
-----------------------------------------------------------------------------
(***************************************************************************)
(* tj disconnect                                                           *)
(***************************************************************************)
BeginDisconnect(c) == Goes(c, "idle", "dcheck")

DisconnectCheck(c) ==
    /\ cpc[c] = "dcheck"
    /\ cpc' = [cpc EXCEPT ![c] = IF Active THEN "dstop" ELSE "nothing"]
    /\ mine' = [mine EXCEPT ![c] = inst]
    /\ UNCHANGED <<unitVars, plan, sessionVars, want, flag, sig, late, waits, told, quiet>>

(* Mutant: the error of the stop is dropped. *)
DisconnectStopsAnyway(c) ==
    \/ StopUnit(c, "dstop", "dstopped")
    \/ Goes(c, "dstop", "ended")
    \/ c \notin waits /\ Goes(c, "dstopped", "ended")

DisconnectStops(c) ==
    \/ StopUnit(c, "dstop", "dstopped")
    \/ Goes(c, "dstop", "failed")
    \/ c \notin waits /\ Goes(c, "dstopped", "ended")
-----------------------------------------------------------------------------
(***************************************************************************)
(* The user and the clock                                                  *)
(***************************************************************************)
Interrupt(c) ==
    /\ cpc[c] \notin Results \cup {"idle"} /\ ~sig[c]
    /\ sig' = [sig EXCEPT ![c] = TRUE]
    /\ UNCHANGED <<unitVars, plan, sessionVars, cpc, want, flag, late, waits, history>>

(* A time limit of the command passes: of waitInactive, or of awaitUp. *)
LimitPasses(c) ==
    /\ cpc[c] \in Awaiting \cup {"inactive", "cancelInactive"} /\ ~late[c]
    /\ late' = [late EXCEPT ![c] = TRUE]
    /\ UNCHANGED <<unitVars, plan, sessionVars, cpc, want, flag, sig, waits, history>>

Kill(c) ==
    /\ cpc[c] \notin Results \cup {"idle"}
    /\ cpc' = [cpc EXCEPT ![c] = "killed"]
    /\ waits' = waits \ {c}
    /\ sig' = [sig EXCEPT ![c] = FALSE] /\ late' = [late EXCEPT ![c] = FALSE]
    /\ UNCHANGED <<unitVars, plan, sessionVars, want, flag, history>>

(* systemctl is-active does not run. *)
ActiveFails(c) ==
    \/ Goes(c, "check", "failed") \/ Goes(c, "dcheck", "failed")
    \/ Goes(c, "inactive", "failed") \/ Goes(c, "cancelInactive", "cancelledWarned")

(* A signal of the terminal ends systemctl; the job of the stop goes on. *)
StopInterrupted(c) ==
    /\ cpc[c] \in {"stopped", "dstopped", "cancelStopped"} /\ sig[c]
    /\ cpc' = [cpc EXCEPT ![c] =
                  IF @ = "cancelStopped" THEN "cancelledWarned" ELSE "failed"]
    /\ waits' = waits \ {c}
    /\ sig' = [sig EXCEPT ![c] = FALSE] /\ late' = [late EXCEPT ![c] = FALSE]
    /\ UNCHANGED <<unitVars, plan, sessionVars, want, flag, history>>

Step(c) ==
    \/ Check(c) \/ Ask(c) \/ ReplaceStops(c) \/ WaitInactive(c) \/ SudoFails(c)
    \/ WritePlan(c) \/ Launch(c) \/ LaunchFails(c) \/ AwaitRead(c) \/ AwaitPoll(c)
    \/ AwaitSleep(c) \/ PrintUp(c) \/ CancelStops(c) \/ CancelWaits(c)
    \/ DisconnectCheck(c) \/ DisconnectStops(c)

UserStarts(c) ==
    \/ \E p \in Asked, f \in {"none", "replace"} : Begin(c, p, f)
    \/ BeginDisconnect(c)

Unit == Boot \/ BootFails \/ SessionRuns \/ Moves \/ SessionEnds \/ SessionDies \/ Cleanup

Next ==
    \/ Unit
    \/ \E c \in Commands :
           \/ Step(c) \/ UserStarts(c) \/ LimitPasses(c)
           \/ Interrupt(c) \/ StopInterrupted(c) \/ ActiveFails(c) \/ Kill(c)

Spec == Init /\ [][Next]_vars

(* A command is scheduled and its time limits pass; systemd kills a unit   *)
(* that does not stop, and runs the cleanup.  Nothing makes a session come *)
(* up or end.                                                              *)
Fairness ==
    /\ \A c \in Commands : WF_vars(Step(c)) /\ WF_vars(LimitPasses(c))
    /\ WF_vars(StopTimeout) /\ WF_vars(Cleanup)

FairSpec == Spec /\ Fairness
-----------------------------------------------------------------------------
(* A connect that waits takes no state of an older session for its own:    *)
(* the up it read was written by the unit it started, or by a newer one    *)
(* (awaitUp, Cleanup: the state file goes before the name is free).        *)
ReportIsFresh ==
    \A c \in Commands : told[c].plan # NoPlan => told[c].by >= mine[c]

(* A connect that was alone since its check, or since its own stop of the  *)
(* unit, reports the session it asked for: the unit it started read the    *)
(* plan it wrote (Start, writePlan, ReadPlan).                             *)
ReportIsAsked ==
    \A c \in Commands : told[c].plan # NoPlan /\ quiet[c] =>
        told[c].by = mine[c] /\ told[c].plan.ref = want[c].ref

(* After its own stop, and alone since, a replace finds the name of the    *)
(* unit free, no state of the old session, and its plan in place: neither  *)
(* a clash of the names nor a late cleanup of the old unit can fail it     *)
(* (stopActive, Runner.Stop).                                              *)
ReplaceReady ==
    \A c \in Commands : (cpc[c] = "launch" /\ flag[c] = "stopped" /\ quiet[c]) =>
        unit = "dead" /\ status = "none" /\ plan = want[c]

(* A disconnect that says ended, and a cancelled connect without a         *)
(* warning, leave nothing of the session they were about, whatever other   *)
(* commands did meanwhile (Disconnect, stopCancelled).                     *)
StopIsOver ==
    \A c \in Commands : cpc[c] \in {"ended", "cancelled"} =>
        inst > mine[c] \/ unit = "dead"

(* Every command returns: no stop waits for a hung session for ever, and   *)
(* no connect for one that neither comes up nor ends (awaitUp,             *)
(* waitInactive, TimeoutStopSec).                                          *)
CommandEnds ==
    \A c \in Commands : (cpc[c] \in {"check", "dcheck"}) ~> (cpc[c] \in Results)
-----------------------------------------------------------------------------
(* run.go: "A session that already came up stays up, because the caller    *)
(* reaches this path on a failed wait only." The wait can fail on the      *)
(* signal after the session came up and before the state is read again.    *)
CancelSparesUp ==
    [][ \A c \in Commands :
            (cpc[c] = "cancel" /\ cpc'[c] = "cancelStopped" /\ inst = mine[c])
                => ~(unit = "active" /\ status = "up") ]_vars

(* run.go: "stopCancelled stops the unit of a connect that a signal        *)
(* cancelled".  It stops the unit that has the name, which can be the unit *)
(* of another connect.                                                     *)
CancelStopsOwn ==
    [][ \A c \in Commands :
            (cpc[c] = "cancel" /\ cpc'[c] = "cancelStopped" /\ unit = "active")
                => inst = mine[c] ]_vars
=============================================================================
