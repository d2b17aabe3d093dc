--------------------------- MODULE ConnectProofs ---------------------------
(***************************************************************************)
(* Proofs about Connect, for any number of commands and any plans.  The    *)
(* invariant has a part for the unit with its files, and a part for each   *)
(* command: what it started, what it was told, what it may rely on while   *)
(* no other command interferes.                                            *)
(***************************************************************************)
EXTENDS Connect, TLAPS

(* The state file is of the newest unit, and goes before the name is free. *)
FileOfUnit ==
    /\ alive => unit \in {"active", "stopping"} /\ status # "none"
    /\ (~alive /\ unit # "post") => status = "none"
    /\ status # "none" => wrote = inst /\ at \in Plans

(* The session that c is about is over. *)
Over(c) == inst > mine[c] \/ unit = "dead"

Tellable == {"print", "up", "failed", "killed"}

(* What c was told is not older than what it started. *)
ToldOwn(c) ==
    /\ mine[c] <= inst
    /\ told[c].plan # NoPlan => cpc[c] \in Tellable /\ told[c].by >= mine[c]
    /\ (told[c].plan # NoPlan /\ quiet[c]) =>
           told[c].by = mine[c] /\ told[c].plan.ref = want[c].ref

(* A stop that has returned has ended the session it was for. *)
StopOwn(c) ==
    /\ (cpc[c] \in {"dstopped", "cancelStopped"} /\ c \notin waits) => Over(c)
    /\ cpc[c] \in {"cancelInactive", "ended", "cancelled"} => Over(c)

(* A replace that is alone since its stop has the name and the files. *)
ReplaceOwn(c) ==
    /\ flag[c] = "stopped" => cpc[c] \notin {"idle", "check"}
    /\ (quiet[c] /\ cpc[c] = "stopped" /\ c \notin waits) => unit = "dead"
    /\ (quiet[c] /\ flag[c] = "stopped" /\ cpc[c] \in {"inactive", "write", "launch"})
           => unit = "dead"
    /\ (quiet[c] /\ flag[c] = "stopped" /\ cpc[c] = "launch") => plan = want[c]

(* A connect that is alone has its plan, and its unit runs it. *)
PlanOwn(c) ==
    /\ (quiet[c] /\ cpc[c] = "launch") => plan \in {want[c], NoPlan}
    /\ (quiet[c] /\ cpc[c] \in Awaiting) =>
           /\ inst = mine[c] /\ plan \in {want[c], NoPlan}
           /\ status # "none" => at.ref = want[c].ref

Own(c) == ToldOwn(c) /\ StopOwn(c) /\ ReplaceOwn(c) /\ PlanOwn(c)

CInv == TypeOK /\ FileOfUnit /\ \A c \in Commands : Own(c)
-----------------------------------------------------------------------------
(* Own(c) speaks of the variables of c, of the unit and of the files only:  *)
(* it survives a step that leaves these alone.                             *)
LEMMA OwnKept ==
    ASSUME NEW c \in Commands, Own(c),
           cpc'[c] = cpc[c], want'[c] = want[c], flag'[c] = flag[c],
           mine'[c] = mine[c], told'[c] = told[c], quiet'[c] => quiet[c],
           c \in waits' <=> c \in waits,
           UNCHANGED <<unit, inst, plan, status, at>>
    PROVE  Own(c)'
  BY DEF Own, ToldOwn, StopOwn, ReplaceOwn, PlanOwn, Over

(* A command that passes on to a place it may pass on to keeps CInv (Goes). *)
LEMMA GoesKeeps ==
    ASSUME CInv, NEW c \in Commands, NEW from \in CPCs, NEW to \in CPCs,
           Goes(c, from, to),
           from \in Tellable => to \in Tellable,
           to \in {"cancelInactive", "ended", "cancelled"} => Over(c),
           to \in Awaiting => from \in Awaiting,
           to \notin {"idle", "check", "stopped", "launch", "dstopped", "cancelStopped"},
           (to \in {"inactive", "write"} /\ flag[c] = "stopped" /\ quiet[c]) => unit = "dead"
    PROVE  CInv'
  <1>1. TypeOK'
    BY DEF CInv, TypeOK, Goes, unitVars, sessionVars, history, S!TypeOK
  <1>2. FileOfUnit'
    BY DEF CInv, FileOfUnit, Goes, unitVars, sessionVars
  <1>3. ASSUME NEW d \in Commands PROVE Own(d)'
    <2>1. CASE d # c
      BY <2>1, OwnKept DEF CInv, TypeOK, Goes, unitVars, sessionVars, history
    <2>2. CASE d = c
      <3>0. Own(c) /\ cpc[c] = from /\ cpc'[c] = to
        BY DEF CInv, TypeOK, Goes
      <3>00. UNCHANGED <<unit, inst, plan, alive, status, carrying, at, wrote,
                         want, flag, waits, mine, told, quiet>>
        BY DEF Goes, unitVars, sessionVars, history
      <3>1. ToldOwn(c)'
        BY <3>0, <3>00 DEF Own, ToldOwn, Tellable
      <3>2. StopOwn(c)'
        BY <3>0, <3>00 DEF Own, StopOwn, Over
      <3>3. ReplaceOwn(c)'
        BY <3>0, <3>00 DEF Own, ReplaceOwn
      <3>4. PlanOwn(c)'
        BY <3>0, <3>00 DEF Own, PlanOwn
      <3> QED BY <2>2, <3>1, <3>2, <3>3, <3>4 DEF Own
    <2> QED BY <2>1, <2>2
  <1> QED BY <1>1, <1>2, <1>3 DEF CInv

(* Every command may stop the unit (StopUnit). *)
LEMMA StopKeeps ==
    ASSUME CInv, NEW c \in Commands,
           NEW from \in {"stop", "cancel", "dstop"},
           NEW to \in {"stopped", "cancelStopped", "dstopped"},
           StopUnit(c, from, to)
    PROVE  CInv'
  <1>0. UNCHANGED <<inst, plan, alive, status, carrying, at, wrote, want, flag,
                    sig, late, mine, told>>
    BY DEF StopUnit, sessionVars
  <1>u. /\ unit' = IF unit = "active" THEN "stopping" ELSE unit
        /\ waits' = IF unit = "dead" THEN waits ELSE waits \cup {c}
        /\ cpc[c] = from /\ cpc' = [cpc EXCEPT ![c] = to]
        /\ quiet' = [d \in Commands |-> d = c]
    BY DEF StopUnit
  <1>1. TypeOK'
    BY <1>0, <1>u DEF CInv, TypeOK, S!TypeOK, UnitStates, CPCs
  <1>2. FileOfUnit'
    BY <1>0, <1>u DEF CInv, FileOfUnit, TypeOK, UnitStates
  <1>3. ASSUME NEW d \in Commands PROVE Own(d)'
    <2>0. Own(d) /\ (unit = "dead" <=> unit' = "dead") /\ (Over(d) => Over(d)')
      BY <1>0, <1>u DEF CInv, Over, TypeOK
    <2>1. CASE d # c
      <3>0. cpc'[d] = cpc[d] /\ ~quiet'[d] /\ (d \in waits' <=> d \in waits)
        BY <1>u, <2>1 DEF CInv, TypeOK
      <3> QED BY <3>0, <2>0, <1>0 DEF Own, ToldOwn, StopOwn, ReplaceOwn, PlanOwn
    <2>2. CASE d = c
      <3>0. cpc[c] = from /\ cpc'[c] = to
        BY <1>u DEF CInv, TypeOK
      <3>0a. c \notin waits' => unit' = "dead"
        BY <1>u
      <3>1. ToldOwn(c)'
        BY <3>0, <2>0, <2>2, <1>0 DEF Own, ToldOwn, Tellable
      <3>2. StopOwn(c)'
        BY <3>0, <3>0a DEF StopOwn, Over
      <3>3. ReplaceOwn(c)'
        BY <3>0, <3>0a, <2>0, <2>2, <1>0 DEF Own, ReplaceOwn
      <3>4. PlanOwn(c)'
        BY <3>0 DEF PlanOwn, Awaiting
      <3> QED BY <2>2, <3>1, <3>2, <3>3, <3>4 DEF Own
    <2> QED BY <2>1, <2>2
  <1> QED BY <1>1, <1>2, <1>3 DEF CInv
-----------------------------------------------------------------------------
(* The unit and its session keep CInv (Boot, Run, Cleanup). *)
LEMMA UnitKeeps == ASSUME CInv, Unit PROVE CInv'
  <1> USE DEF S!TypeOK, S!Statuses
  <1>0. TypeOK /\ FileOfUnit /\ \A c \in Commands : Own(c)
    BY DEF CInv
  <1>1. CASE Boot
    <2>0. /\ UNCHANGED <<unit, inst, plan, cpc, want, flag, sig, late, waits, mine, told, quiet>>
          /\ unit \in {"active", "stopping"} /\ plan # NoPlan /\ ~alive
          /\ alive' = TRUE /\ status' = "starting" /\ carrying' = FALSE
          /\ at' = plan /\ wrote' = inst
      BY <1>1 DEF Boot, S!Start, unitVars, commandVars, history
    <2>1. TypeOK' /\ FileOfUnit'
      BY <1>0, <2>0 DEF TypeOK, FileOfUnit
    <2>2. ASSUME NEW c \in Commands PROVE Own(c)'
      BY <1>0, <2>0 DEF Own, ToldOwn, StopOwn, ReplaceOwn, PlanOwn, Over
    <2> QED BY <2>1, <2>2 DEF CInv
  <1>2. CASE BootFails
    <2>0. /\ UNCHANGED <<inst, plan, alive, status, carrying, at, wrote,
                         cpc, want, flag, sig, late, waits, mine, told, quiet>>
          /\ unit \in {"active", "stopping"} /\ ~alive /\ unit' = "post"
      BY <1>2 DEF BootFails, sessionVars, commandVars, history
    <2>1. TypeOK' /\ FileOfUnit'
      BY <1>0, <2>0 DEF TypeOK, FileOfUnit, UnitStates
    <2>2. ASSUME NEW c \in Commands PROVE Own(c)'
      BY <1>0, <2>0 DEF Own, ToldOwn, StopOwn, ReplaceOwn, PlanOwn, Over
    <2> QED BY <2>1, <2>2 DEF CInv
  <1>3. CASE SessionRuns
    <2>0. /\ UNCHANGED <<unit, inst, plan, at, wrote,
                         cpc, want, flag, sig, late, waits, mine, told, quiet>>
          /\ alive /\ alive' = alive
          /\ status' \in {"up", "reconnecting", "stopping"} \cup {status}
          /\ carrying' \in BOOLEAN
      BY <1>3, <1>0 DEF SessionRuns, S!Carry, S!ComeUp, S!Break, S!Lose, S!Stop, S!Drain,
         unitVars, commandVars, history, TypeOK
    <2>1. TypeOK' /\ FileOfUnit'
      BY <1>0, <2>0 DEF TypeOK, FileOfUnit
    <2>2. status # "none" /\ status' # "none"
      BY <1>0, <2>0 DEF FileOfUnit
    <2>3. ASSUME NEW c \in Commands PROVE Own(c)'
      BY <1>0, <2>0, <2>2 DEF Own, ToldOwn, StopOwn, ReplaceOwn, PlanOwn, Over
    <2> QED BY <2>1, <2>3 DEF CInv
  <1>4. CASE Moves
    <2>0. /\ UNCHANGED <<unit, inst, plan, alive, status, carrying, wrote,
                         cpc, want, flag, sig, late, waits, mine, told, quiet>>
          /\ alive /\ status = "reconnecting" /\ at' \in Plans /\ at'.ref = at.ref
      BY <1>4 DEF Moves, unitVars, commandVars, history
    <2>1. TypeOK' /\ FileOfUnit'
      BY <1>0, <2>0 DEF TypeOK, FileOfUnit
    <2>2. ASSUME NEW c \in Commands PROVE Own(c)'
      BY <1>0, <2>0 DEF Own, ToldOwn, StopOwn, ReplaceOwn, PlanOwn, Over
    <2> QED BY <2>1, <2>2 DEF CInv
  <1>5. CASE SessionEnds
    <2>0. /\ UNCHANGED <<inst, plan, wrote, cpc, want, flag, sig, late, waits, mine, told, quiet>>
          /\ alive /\ ~alive' /\ alive' = FALSE /\ status' = "none" /\ carrying' = FALSE
          /\ at' = NoPlan /\ unit' = "post"
      BY <1>5 DEF SessionEnds, S!End, commandVars, history
    <2>1. TypeOK' /\ FileOfUnit' /\ unit # "dead"
      BY <1>0, <2>0 DEF TypeOK, FileOfUnit, UnitStates
    <2>2. ASSUME NEW c \in Commands PROVE Own(c)'
      BY <1>0, <2>0, <2>1 DEF Own, ToldOwn, StopOwn, ReplaceOwn, PlanOwn, Over
    <2> QED BY <2>1, <2>2 DEF CInv
  <1>6. CASE SessionDies
    <2>0. /\ UNCHANGED <<inst, plan, status, at, wrote,
                         cpc, want, flag, sig, late, waits, mine, told, quiet>>
          /\ alive /\ alive' = FALSE /\ carrying' = FALSE /\ unit' = "post"
      BY <1>6 DEF SessionDies, S!Die, commandVars, history
    <2>1. TypeOK' /\ FileOfUnit' /\ unit # "dead"
      BY <1>0, <2>0 DEF TypeOK, FileOfUnit, UnitStates
    <2>2. ASSUME NEW c \in Commands PROVE Own(c)'
      BY <1>0, <2>0, <2>1 DEF Own, ToldOwn, StopOwn, ReplaceOwn, PlanOwn, Over
    <2> QED BY <2>1, <2>2 DEF CInv
  <1>7. CASE Cleanup
    <2>0. /\ UNCHANGED <<inst, wrote, alive, carrying, cpc, want, flag, sig, late, mine, told, quiet>>
          /\ unit = "post" /\ unit' = "dead" /\ waits' = {} /\ ~alive
          /\ status' = "none" /\ at' = NoPlan /\ plan' = NoPlan
      BY <1>7 DEF Cleanup, S!Sweep, history
    <2>1. TypeOK' /\ FileOfUnit'
      BY <1>0, <2>0 DEF TypeOK, FileOfUnit, UnitStates
    <2>2. ASSUME NEW c \in Commands PROVE Own(c)'
      BY <1>0, <2>0 DEF Own, ToldOwn, StopOwn, ReplaceOwn, PlanOwn, Over
    <2> QED BY <2>1, <2>2 DEF CInv
  <1> QED
    BY <1>1, <1>2, <1>3, <1>4, <1>5, <1>6, <1>7 DEF Unit
-----------------------------------------------------------------------------
(* The user and the clock keep CInv. *)
LEMMA UserKeeps ==
    ASSUME CInv, NEW c \in Commands,
           UserStarts(c) \/ LimitPasses(c) \/ Interrupt(c) \/ StopInterrupted(c) \/ Kill(c)
    PROVE  CInv'
  <1> USE DEF S!TypeOK
  <1>0. TypeOK /\ FileOfUnit /\ \A d \in Commands : Own(d)
    BY DEF CInv
  <1>1. CASE \E p \in Plans, f \in {"none", "replace"} : Begin(c, p, f)
    <2>0. PICK p \in Plans, f \in {"none", "replace"} : Begin(c, p, f)
      BY <1>1
    <2>1. /\ UNCHANGED <<unit, inst, plan, alive, status, carrying, at, wrote,
                         sig, late, waits, mine, told>>
          /\ cpc[c] = "idle" /\ cpc' = [cpc EXCEPT ![c] = "check"]
          /\ want' = [want EXCEPT ![c] = p] /\ flag' = [flag EXCEPT ![c] = f]
          /\ quiet' = [quiet EXCEPT ![c] = TRUE]
      BY <2>0 DEF Begin, unitVars, sessionVars
    <2>2. TypeOK' /\ FileOfUnit'
      BY <1>0, <2>1 DEF TypeOK, FileOfUnit, CPCs
    <2>3. ASSUME NEW d \in Commands, d # c PROVE Own(d)'
      BY <1>0, <2>1, <2>3, OwnKept DEF TypeOK
    <2>4. Own(c)'
      <3>0. cpc'[c] = "check" /\ flag'[c] # "stopped"
        BY <1>0, <2>1 DEF TypeOK
      <3> QED
        BY <1>0, <2>1, <3>0 DEF Own, ToldOwn, StopOwn, ReplaceOwn, PlanOwn, Tellable, Awaiting
    <2> QED BY <2>2, <2>3, <2>4 DEF CInv
  <1>2. CASE BeginDisconnect(c)
    BY <1>2, GoesKeeps DEF BeginDisconnect, CPCs, Tellable, Awaiting
  <1>3. CASE LimitPasses(c) \/ Interrupt(c)
    <2>1. /\ UNCHANGED <<unit, inst, plan, alive, status, carrying, at, wrote,
                         cpc, want, flag, waits, mine, told, quiet>>
          /\ sig' \in [Commands -> BOOLEAN] /\ late' \in [Commands -> BOOLEAN]
      BY <1>0, <1>3 DEF LimitPasses, Interrupt, unitVars, sessionVars, history, TypeOK
    <2>2. TypeOK' /\ FileOfUnit'
      BY <1>0, <2>1 DEF TypeOK, FileOfUnit
    <2>3. ASSUME NEW d \in Commands PROVE Own(d)'
      BY <1>0, <2>1, OwnKept
    <2> QED BY <2>2, <2>3 DEF CInv
  <1>4. CASE StopInterrupted(c) \/ Kill(c)
    <2>1. /\ UNCHANGED <<unit, inst, plan, alive, status, carrying, at, wrote,
                         want, flag, mine, told, quiet>>
          /\ sig' = [sig EXCEPT ![c] = FALSE] /\ late' = [late EXCEPT ![c] = FALSE]
          /\ waits' = waits \ {c}
          /\ \E to \in {"cancelledWarned", "failed", "killed"} :
                /\ cpc' = [cpc EXCEPT ![c] = to]
                /\ to = "cancelledWarned" => cpc[c] \notin Tellable
      BY <1>4 DEF StopInterrupted, Kill, unitVars, sessionVars, history, Tellable
    <2>2. TypeOK' /\ FileOfUnit'
      BY <1>0, <2>1 DEF TypeOK, FileOfUnit, CPCs, Results
    <2>3. ASSUME NEW d \in Commands, d # c PROVE Own(d)'
      BY <1>0, <2>1, <2>3, OwnKept DEF TypeOK
    <2>4. Own(c)'
      <3>0. /\ cpc'[c] \in {"cancelledWarned", "failed", "killed"}
            /\ cpc'[c] = "cancelledWarned" => cpc[c] \notin Tellable
        BY <1>0, <2>1 DEF TypeOK
      <3> QED
        BY <1>0, <2>1, <3>0 DEF Own, ToldOwn, StopOwn, ReplaceOwn, PlanOwn, Tellable, Awaiting
    <2> QED BY <2>2, <2>3, <2>4 DEF CInv
  <1> QED
    BY <1>1, <1>2, <1>3, <1>4, PlansAssumption DEF UserStarts, PlansAssumption

(* The steps of a command that only pass on (Goes). *)
LEMMA PassKeeps ==
    ASSUME CInv, NEW c \in Commands,
           \/ Check(c) \/ Ask(c) \/ WaitInactive(c) \/ SudoFails(c) \/ LaunchFails(c)
           \/ AwaitPoll(c) \/ AwaitSleep(c) \/ PrintUp(c) \/ CancelWaits(c) \/ ActiveFails(c)
    PROVE  CInv'
  <1> USE DEF CPCs, Results, Tellable, Awaiting
  <1>0. Own(c) /\ TypeOK
    BY DEF CInv
  <1>1. CASE Check(c)
    <2>1. (cpc[c] = "check" /\ flag[c] = "stopped") => FALSE
      BY <1>0 DEF Own, ReplaceOwn
    <2>2. CASE ~Active /\ Goes(c, "check", "write")
      <3>1. flag[c] # "stopped"
        BY <2>1, <2>2 DEF Goes
      <3> QED BY <2>2, <3>1, GoesKeeps
    <2>3. CASE Goes(c, "check", "ask")
      BY <2>3, GoesKeeps
    <2>4. CASE Goes(c, "check", "stop")
      BY <2>4, GoesKeeps
    <2> QED BY <1>1, <2>2, <2>3, <2>4 DEF Check
  <1>2. CASE Ask(c)
    BY <1>2, GoesKeeps DEF Ask
  <1>3. CASE WaitInactive(c)
    <2>1. (cpc[c] = "inactive" /\ flag[c] = "stopped" /\ quiet[c]) => unit = "dead"
      BY <1>0 DEF Own, ReplaceOwn
    <2> QED BY <1>3, <2>1, GoesKeeps, ZenonT(90) DEF WaitInactive, Goes
  <1>4. CASE SudoFails(c) \/ LaunchFails(c)
    BY <1>4, GoesKeeps DEF SudoFails, LaunchFails
  <1>5. CASE AwaitPoll(c) \/ AwaitSleep(c)
    BY <1>5, GoesKeeps DEF AwaitPoll, AwaitSleep, WaitFails
  <1>6. CASE PrintUp(c)
    BY <1>6, GoesKeeps DEF PrintUp
  <1>7. CASE CancelWaits(c)
    <2>1. cpc[c] = "cancelInactive" => Over(c)
      BY <1>0 DEF Own, StopOwn
    <2>2. CASE Goes(c, "cancelInactive", "cancelled")
      <3>1. Over(c)
        BY <2>1, <2>2 DEF Goes
      <3> QED BY <3>1, <2>2, GoesKeeps
    <2>3. CASE Goes(c, "cancelInactive", "cancelledWarned")
      BY <2>3, GoesKeeps
    <2> QED BY <1>7, <2>2, <2>3 DEF CancelWaits
  <1>8. CASE ActiveFails(c)
    BY <1>8, GoesKeeps DEF ActiveFails
  <1> QED BY <1>1, <1>2, <1>3, <1>4, <1>5, <1>6, <1>7, <1>8

(* The steps of a command that stop the unit (stopActive, stopCancelled,   *)
(* Disconnect).                                                            *)
LEMMA StopsKeep ==
    ASSUME CInv, NEW c \in Commands,
           ReplaceStops(c) \/ CancelStops(c) \/ DisconnectStops(c)
    PROVE  CInv'
  <1> USE DEF CPCs, Results, Tellable, Awaiting
  <1>0. TypeOK /\ FileOfUnit /\ \A d \in Commands : Own(d)
    BY DEF CInv
  <1>1. CASE \/ StopUnit(c, "stop", "stopped") \/ StopUnit(c, "cancel", "cancelStopped")
             \/ StopUnit(c, "dstop", "dstopped")
    BY <1>1, StopKeeps
  <1>2. CASE \/ Goes(c, "stop", "failed") \/ Goes(c, "cancel", "cancelledWarned")
             \/ Goes(c, "dstop", "failed")
    BY <1>2, GoesKeeps
  <1>3. CASE c \notin waits /\ Goes(c, "cancelStopped", "cancelInactive")
    <2>1. Over(c)
      BY <1>3, <1>0 DEF Goes, Own, StopOwn
    <2> QED BY <1>3, <2>1, GoesKeeps
  <1>4. CASE c \notin waits /\ Goes(c, "dstopped", "ended")
    <2>1. Over(c)
      BY <1>4, <1>0 DEF Goes, Own, StopOwn
    <2> QED BY <1>4, <2>1, GoesKeeps
  <1>5. CASE ReplaceStopped(c)
    <2>1. /\ UNCHANGED <<unit, inst, plan, alive, status, carrying, at, wrote,
                         want, sig, late, waits, mine, told, quiet>>
          /\ cpc[c] = "stopped" /\ c \notin waits
          /\ cpc' = [cpc EXCEPT ![c] = "inactive"]
          /\ flag' = [flag EXCEPT ![c] = "stopped"]
      BY <1>5 DEF ReplaceStopped, unitVars, sessionVars, history
    <2>2. TypeOK' /\ FileOfUnit'
      BY <1>0, <2>1 DEF TypeOK, FileOfUnit, S!TypeOK
    <2>3. ASSUME NEW d \in Commands, d # c PROVE Own(d)'
      BY <1>0, <2>1, <2>3, OwnKept DEF TypeOK
    <2>4. Own(c)'
      <3>0. cpc'[c] = "inactive" /\ (quiet[c] => unit = "dead")
        BY <1>0, <2>1 DEF TypeOK, Own, ReplaceOwn
      <3> QED
        BY <1>0, <2>1, <3>0 DEF Own, ToldOwn, StopOwn, ReplaceOwn, PlanOwn
    <2> QED BY <2>2, <2>3, <2>4 DEF CInv
  <1> QED
    BY <1>1, <1>2, <1>3, <1>4, <1>5 DEF ReplaceStops, CancelStops, DisconnectStops

(* The plan file is the plan of c, and c alone may rely on it (writePlan). *)
LEMMA WriteKeeps == ASSUME CInv, NEW c \in Commands, WritePlan(c) PROVE CInv'
  <1>0. TypeOK /\ FileOfUnit /\ \A d \in Commands : Own(d)
    BY DEF CInv
  <1>1. /\ UNCHANGED <<unit, inst, alive, status, carrying, at, wrote,
                       want, flag, sig, late, waits, mine, told>>
        /\ cpc[c] = "write" /\ cpc' = [cpc EXCEPT ![c] = "launch"]
        /\ plan' = want[c] /\ quiet' = [d \in Commands |-> d = c /\ quiet[d]]
    BY DEF WritePlan, Interferes, unitVars, sessionVars
  <1>2. TypeOK' /\ FileOfUnit'
    BY <1>0, <1>1 DEF TypeOK, FileOfUnit, S!TypeOK, CPCs
  <1>3. ASSUME NEW d \in Commands, d # c PROVE Own(d)'
    <2>1. cpc'[d] = cpc[d] /\ ~quiet'[d]
      BY <1>0, <1>1, <1>3 DEF TypeOK
    <2> QED
      BY <1>0, <1>1, <2>1 DEF Own, ToldOwn, StopOwn, ReplaceOwn, PlanOwn, Over
  <1>4. Own(c)'
    <2>1. cpc'[c] = "launch" /\ (quiet'[c] => quiet[c])
      BY <1>0, <1>1 DEF TypeOK
    <2> QED
      BY <1>0, <1>1, <2>1
      DEF Own, ToldOwn, StopOwn, ReplaceOwn, PlanOwn, Tellable, Awaiting
  <1> QED BY <1>2, <1>3, <1>4 DEF CInv

(* A new unit starts with no state file, and only when the name is free    *)
(* (Runner.Start).                                                         *)
LEMMA LaunchKeeps == ASSUME CInv, NEW c \in Commands, Launch(c) PROVE CInv'
  <1>0. TypeOK /\ FileOfUnit /\ \A d \in Commands : Own(d)
    BY DEF CInv
  <1>1. /\ UNCHANGED <<plan, alive, status, carrying, at, wrote,
                       want, flag, sig, waits, told>>
        /\ cpc[c] = "launch" /\ cpc' = [cpc EXCEPT ![c] = "await"]
        /\ unit = "dead" /\ unit' = "active" /\ inst' = inst + 1
        /\ mine' = [mine EXCEPT ![c] = inst + 1]
        /\ late' = [late EXCEPT ![c] = FALSE]
        /\ quiet' = [d \in Commands |-> d = c /\ quiet[d]]
    BY DEF Launch, Interferes, sessionVars
  <1>2. TypeOK'
    BY <1>0, <1>1 DEF TypeOK, S!TypeOK, CPCs, Awaiting, UnitStates
  <1>3. FileOfUnit' /\ status = "none"
    BY <1>0, <1>1 DEF TypeOK, FileOfUnit
  <1>4. inst \in Nat /\ \A d \in Commands : mine[d] \in Nat /\ told[d].by \in Nat
    BY <1>0 DEF TypeOK
  <1>5. ASSUME NEW d \in Commands, d # c PROVE Own(d)'
    <2>1. cpc'[d] = cpc[d] /\ ~quiet'[d] /\ mine'[d] = mine[d]
      BY <1>0, <1>1, <1>5 DEF TypeOK
    <2>2. mine[d] <= inst
      BY <1>0 DEF Own, ToldOwn
    <2>3. Over(d)'
      BY <2>1, <2>2, <1>1, <1>4 DEF Over
    <2>4. ToldOwn(d)'
      BY <1>0, <1>1, <1>4, <2>1, <2>2 DEF Own, ToldOwn
    <2>5. StopOwn(d)'
      BY <2>3 DEF StopOwn
    <2>6. ReplaceOwn(d)' /\ PlanOwn(d)'
      BY <1>0, <1>1, <2>1 DEF Own, ReplaceOwn, PlanOwn
    <2> QED BY <2>4, <2>5, <2>6 DEF Own
  <1>6. Own(c)'
    <2>1. cpc'[c] = "await" /\ (quiet'[c] => quiet[c]) /\ mine'[c] = inst'
      BY <1>0, <1>1 DEF TypeOK
    <2>2. told'[c].plan = NoPlan
      BY <1>0, <1>1 DEF Own, ToldOwn, Tellable
    <2>3. ToldOwn(c)'
      BY <2>1, <2>2, <1>1, <1>4 DEF ToldOwn
    <2>4. StopOwn(c)' /\ ReplaceOwn(c)'
      BY <2>1 DEF StopOwn, ReplaceOwn
    <2>5. PlanOwn(c)'
      BY <1>0, <1>1, <1>3, <2>1 DEF Own, PlanOwn
    <2> QED BY <2>3, <2>4, <2>5 DEF Own
  <1> QED BY <1>2, <1>3, <1>5, <1>6 DEF CInv

(* The state that says up is the state of the newest unit (awaitUp). *)
LEMMA ReadKeeps == ASSUME CInv, NEW c \in Commands, AwaitRead(c) PROVE CInv'
  <1>0. TypeOK /\ FileOfUnit /\ \A d \in Commands : Own(d)
    BY DEF CInv
  <1>1. /\ UNCHANGED <<unit, inst, plan, alive, status, carrying, at, wrote,
                       want, flag, sig, late, waits, mine, quiet>>
        /\ cpc[c] = "await"
        /\ cpc' = [cpc EXCEPT ![c] = IF status = "up" THEN "print" ELSE "poll"]
        /\ told' = [told EXCEPT ![c] =
                       IF status = "up" THEN [by |-> wrote, plan |-> at] ELSE told[c]]
    BY DEF AwaitRead, unitVars, sessionVars
  <1>2. TypeOK' /\ FileOfUnit'
    BY <1>0, <1>1 DEF TypeOK, FileOfUnit, S!TypeOK, CPCs, Awaiting
  <1>3. ASSUME NEW d \in Commands, d # c PROVE Own(d)'
    BY <1>0, <1>1, <1>3, OwnKept DEF TypeOK
  <1>4. Own(c)'
    <2>0. Own(c) /\ mine[c] \in Nat /\ inst \in Nat
      BY <1>0 DEF TypeOK
    <2>1. CASE status = "up"
      <3>1. cpc'[c] = "print" /\ told'[c] = [by |-> inst, plan |-> at]
        BY <1>0, <1>1, <2>1 DEF TypeOK, FileOfUnit
      <3>2. ToldOwn(c)'
        BY <3>1, <2>0, <2>1, <1>1 DEF Own, ToldOwn, PlanOwn, Tellable, Awaiting
      <3> QED
        BY <3>1, <3>2, <2>0, <1>1 DEF Own, StopOwn, ReplaceOwn, PlanOwn, Awaiting
    <2>2. CASE status # "up"
      <3>1. cpc'[c] = "poll" /\ told'[c] = told[c]
        BY <1>0, <1>1, <2>2 DEF TypeOK
      <3> QED
        BY <3>1, <2>0, <1>1 DEF Own, ToldOwn, StopOwn, ReplaceOwn, PlanOwn, Tellable, Awaiting
    <2> QED BY <2>1, <2>2
  <1> QED BY <1>2, <1>3, <1>4 DEF CInv

(* A disconnect notes the unit it found (Disconnect). *)
LEMMA FindKeeps == ASSUME CInv, NEW c \in Commands, DisconnectCheck(c) PROVE CInv'
  <1>0. TypeOK /\ FileOfUnit /\ \A d \in Commands : Own(d)
    BY DEF CInv
  <1>1. /\ UNCHANGED <<unit, inst, plan, alive, status, carrying, at, wrote,
                       want, flag, sig, late, waits, told, quiet>>
        /\ cpc[c] = "dcheck"
        /\ cpc' = [cpc EXCEPT ![c] = IF Active THEN "dstop" ELSE "nothing"]
        /\ mine' = [mine EXCEPT ![c] = inst]
    BY DEF DisconnectCheck, unitVars, sessionVars
  <1>2. TypeOK' /\ FileOfUnit'
    BY <1>0, <1>1 DEF TypeOK, FileOfUnit, S!TypeOK, CPCs, Results
  <1>3. ASSUME NEW d \in Commands, d # c PROVE Own(d)'
    BY <1>0, <1>1, <1>3, OwnKept DEF TypeOK
  <1>4. Own(c)'
    <2>1. cpc'[c] \in {"dstop", "nothing"} /\ mine'[c] = inst /\ inst \in Nat
      BY <1>0, <1>1 DEF TypeOK
    <2> QED
      BY <1>0, <1>1, <2>1
      DEF Own, ToldOwn, StopOwn, ReplaceOwn, PlanOwn, Tellable, Awaiting
  <1> QED BY <1>2, <1>3, <1>4 DEF CInv
-----------------------------------------------------------------------------
(* CInv is an invariant of Connect. *)
THEOREM ConnectInductive == Spec => []CInv
  <1>1. Init => CInv
    <2> SUFFICES ASSUME Init PROVE CInv
      OBVIOUS
    <2>1. TypeOK
      <3>1. unit \in UnitStates /\ inst \in Nat /\ wrote \in Nat
        BY DEF Init, InitUnit, UnitStates
      <3>2. plan \in Plans \cup {NoPlan} /\ at \in Plans \cup {NoPlan}
        BY PlansAssumption DEF Init, InitUnit, PlansAssumption
      <3>3. S!TypeOK
        BY DEF Init, InitUnit, S!Init, S!TypeOK, S!Statuses
      <3> QED BY <3>1, <3>2, <3>3 DEF Init, TypeOK, CPCs
    <2>2. FileOfUnit
      BY PlansAssumption DEF Init, InitUnit, FileOfUnit, S!Init, PlansAssumption
    <2>3. ASSUME NEW c \in Commands PROVE Own(c)
      <3>1. cpc[c] = "idle" /\ flag[c] = "none" /\ told[c].plan = NoPlan /\ mine[c] = 0
        BY DEF Init
      <3> QED BY <2>1, <3>1 DEF TypeOK, Own, ToldOwn, StopOwn, ReplaceOwn, PlanOwn, Awaiting
    <2> QED BY <2>1, <2>2, <2>3 DEF CInv
  <1>2. CInv /\ [Next]_vars => CInv'
    <2> SUFFICES ASSUME CInv, [Next]_vars PROVE CInv'
      OBVIOUS
    <2>1. CASE Unit
      BY <2>1, UnitKeeps
    <2>2. ASSUME NEW c \in Commands, Step(c) PROVE CInv'
      BY <2>2, PassKeeps, StopsKeep, WriteKeeps, LaunchKeeps, ReadKeeps, FindKeeps DEF Step
    <2>3. ASSUME NEW c \in Commands, \/ UserStarts(c) \/ LimitPasses(c)
                                     \/ Interrupt(c) \/ StopInterrupted(c) \/ Kill(c)
          PROVE  CInv'
      BY <2>3, UserKeeps
    <2>4. ASSUME NEW c \in Commands, ActiveFails(c) PROVE CInv'
      BY <2>4, PassKeeps
    <2>5. CASE UNCHANGED vars
      <3>1. UNCHANGED <<unit, inst, plan, alive, status, carrying, at, wrote, cpc, want,
                        flag, sig, late, waits, mine, told, quiet>>
        BY <2>5 DEF vars, unitVars, sessionVars, commandVars, history
      <3>2. TypeOK' /\ FileOfUnit'
        BY <3>1 DEF CInv, TypeOK, FileOfUnit, S!TypeOK
      <3>3. ASSUME NEW d \in Commands PROVE Own(d)'
        BY <3>1, OwnKept DEF CInv
      <3> QED BY <3>2, <3>3 DEF CInv
    <2> QED BY <2>1, <2>2, <2>3, <2>4, <2>5 DEF Next
  <1> QED BY <1>1, <1>2, PTL DEF Spec

(* The unit, the files and the commands keep their types. *)
THEOREM ConnectTypeCorrect == Spec => []TypeOK
  <1>1. CInv => TypeOK
    BY DEF CInv
  <1> QED BY <1>1, ConnectInductive, PTL

(* No connect takes the state of an older session for its own, for any     *)
(* number of commands.                                                     *)
THEOREM FreshCorrect == Spec => []ReportIsFresh
  <1>1. CInv => ReportIsFresh
    BY DEF CInv, Own, ToldOwn, ReportIsFresh
  <1> QED BY <1>1, ConnectInductive, PTL

(* A connect that no other command disturbs reports the session it asked   *)
(* for.                                                                    *)
THEOREM AskedCorrect == Spec => []ReportIsAsked
  <1>1. CInv => ReportIsAsked
    BY DEF CInv, Own, ToldOwn, ReportIsAsked
  <1> QED BY <1>1, ConnectInductive, PTL

(* A replace that no other command disturbs has the name of the unit and   *)
(* its plan when it starts the unit.                                       *)
THEOREM ReplaceCorrect == Spec => []ReplaceReady
  <1>1. CInv => ReplaceReady
    <2> SUFFICES ASSUME CInv, NEW c \in Commands,
                        cpc[c] = "launch", flag[c] = "stopped", quiet[c]
                 PROVE  unit = "dead" /\ status = "none" /\ plan = want[c]
      BY DEF ReplaceReady
    <2>1. unit = "dead" /\ plan = want[c]
      BY DEF CInv, Own, ReplaceOwn
    <2> QED BY <2>1 DEF CInv, FileOfUnit
  <1> QED BY <1>1, ConnectInductive, PTL

(* A stop that is reported as done has ended the session it was for.       *)
THEOREM StopOverCorrect == Spec => []StopIsOver
  <1>1. CInv => StopIsOver
    BY DEF CInv, Own, StopOwn, Over, StopIsOver
  <1> QED BY <1>1, ConnectInductive, PTL
=============================================================================
