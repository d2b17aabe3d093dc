----------------------------- MODULE ResolvConf -----------------------------
(***************************************************************************)
(* The fallback of the Linux resolver, platform/linux/resolvconf.go, one   *)
(* file operation at a time: /etc/resolv.conf, and the two records in the  *)
(* runtime directory that say how to restore it.  Sessions call it one     *)
(* after the other (internal/session/run.go); every operation can fail,    *)
(* every process can be killed, also inside a write.                       *)
(*                                                                         *)
(* Session takes a call of the resolver for one step; here it is opened.   *)
(***************************************************************************)

CONSTANTS
    Origs,    \* what resolv.conf can be before the first session
    Modes     \* ways to run a session: "unit", "foreground"

ASSUME OrigsAssumption == /\ Origs \subseteq {"file", "link", "none"}
                          /\ Modes \subseteq {"unit", "foreground"}

VARIABLES
    orig,           \* resolv.conf as the host had it
    etc,            \* /etc/resolv.conf
    link, backup,   \* the records resolv.conf.link and resolv.conf.backup
    mode, stage,    \* the session, or the cleanup of its unit
    call,           \* the next file operation, "none" outside a call
    mem,            \* what the revert has read of the records
    over,     \* history: an apply recorded a file that tj had left
    torn,     \* history: the write of a record was cut
    reverted  \* history: the last call was a revert without an error

files   == <<etc, link, backup>>
history == <<over, torn, reverted>>
vars == <<orig, files, mode, stage, call, mem, history>>

Contents == {"file", "tj", "cut"}
ApplyCalls  == {"record", "clear", "write"}
RevertCalls == {"read", "remove", "restore", "drop"}

TypeOK ==
    /\ orig \in Origs
    /\ etc \in Contents \cup {"link", "none"}
    /\ link \in {"none", "target", "cut"}
    /\ backup \in Contents \cup {"none"}
    /\ mode \in {"unit", "foreground"}
    /\ stage \in {"off", "setup", "up", "lost", "gap", "stop", "cleanup"}
    /\ call \in ApplyCalls \cup RevertCalls \cup {"none"}
    /\ mem \in [link: {"none", "target", "cut"}, backup: Contents \cup {"none"}]
    /\ over \in BOOLEAN /\ torn \in BOOLEAN /\ reverted \in BOOLEAN

NoMem == [link |-> "none", backup |-> "none"]

Init ==
    /\ orig \in Origs /\ etc = orig /\ link = "none" /\ backup = "none"
    /\ mode = "foreground" /\ stage = "off" /\ call = "none" /\ mem = NoMem
    /\ over = FALSE /\ torn = FALSE /\ reverted = TRUE
-----------------------------------------------------------------------------
(* A session reaches applyDNS in its setup. *)
Begin(m) ==
    /\ stage = "off"
    /\ mode' = m /\ stage' = "setup" /\ call' = "record" /\ reverted' = FALSE
    /\ UNCHANGED <<orig, files, mem, over, torn>>

(* The process is gone: the unit runs its cleanup, which reverts again. *)
Exit ==
    /\ mem' = NoMem
    /\ \/ /\ stage # "cleanup" /\ mode = "unit"
          /\ stage' = "cleanup" /\ call' = "read"
       \/ /\ stage = "cleanup" \/ mode = "foreground"
          /\ stage' = "off" /\ call' = "none"

(* An error of the setup ends the process; a reconnect tries again. *)
ApplyReturns(ok) ==
    \/ stage = "setup" /\ ~ok /\ Exit
    \/ /\ stage = "gap" \/ ok
       /\ stage' = IF ok THEN "up" ELSE "gap"
       /\ call' = "none" /\ UNCHANGED mem

(* lost, stopSession and cleanup log an error and go on. *)
RevertReturns ==
    \/ stage = "lost" /\ stage' = "gap" /\ call' = "none" /\ mem' = NoMem
    \/ stage \in {"stop", "cleanup"} /\ Exit
-----------------------------------------------------------------------------
(***************************************************************************)
(* applyResolvConfFallback                                                 *)
(***************************************************************************)

(* A symbolic link keeps its target, a file is copied over an older copy;  *)
(* without a resolv.conf there is no record.                               *)
BackupResolvConf ==
    /\ call = "record"
    /\ link' = IF etc = "link" THEN "target" ELSE link
    /\ backup' = IF etc \in Contents THEN etc ELSE backup
    /\ over' = (over \/ (etc \in Contents /\ etc # orig))
    /\ call' = "clear"
    /\ UNCHANGED <<orig, etc, mode, stage, mem, torn, reverted>>

RemoveForApply ==
    /\ call = "clear"
    /\ etc' = "none" /\ call' = "write"
    /\ UNCHANGED <<orig, link, backup, mode, stage, mem, history>>

WriteResolvConf ==
    /\ call = "write"
    /\ etc' = "tj" /\ ApplyReturns(TRUE)
    /\ UNCHANGED <<orig, link, backup, mode, history>>
-----------------------------------------------------------------------------
(***************************************************************************)
(* revertResolvConfFallback                                                *)
(***************************************************************************)

(* Mutants: a revert without a record goes on; the two paths are swapped. *)
ReadRecordsGoesOn ==
    /\ call = "read"
    /\ mem' = [link |-> link, backup |-> backup] /\ call' = "remove"
    /\ UNCHANGED <<orig, files, mode, stage, history>>
ReadRecordsSwapped ==
    /\ call = "read"
    /\ mem' = [link |-> backup, backup |-> link] /\ call' = "remove"
    /\ UNCHANGED <<orig, files, mode, stage, history>>

(* Without a record there is nothing to do. *)
ReadRecords ==
    /\ call = "read"
    /\ \/ /\ link # "none" \/ backup # "none"
          /\ mem' = [link |-> link, backup |-> backup] /\ call' = "remove"
          /\ UNCHANGED <<stage, reverted>>
       \/ /\ link = "none" /\ backup = "none"
          /\ RevertReturns /\ reverted' = TRUE
    /\ UNCHANGED <<orig, files, mode, over, torn>>

RemoveForRevert ==
    /\ call = "remove"
    /\ etc' = "none" /\ call' = "restore"
    /\ UNCHANGED <<orig, link, backup, mode, stage, mem, history>>

(* What a revert writes: the link record goes before the copy. *)
Restored(l, b) ==
    CASE l = "target" -> "link"
      [] l = "cut"    -> "cut"
      [] l = "none"   -> b

Restore ==
    /\ call = "restore"
    /\ etc' = Restored(mem.link, mem.backup) /\ call' = "drop"
    /\ UNCHANGED <<orig, link, backup, mode, stage, mem, history>>

(* Mutant: the record stays. *)
DropRecordNot ==
    /\ call = "drop" /\ RevertReturns /\ reverted' = TRUE
    /\ UNCHANGED <<orig, files, mode, over, torn>>

(* The record that was used goes; one beside it stays. *)
DropRecord ==
    /\ call = "drop"
    /\ link' = "none"
    /\ backup' = IF mem.link # "none" THEN backup ELSE "none"
    /\ RevertReturns /\ reverted' = TRUE
    /\ UNCHANGED <<orig, etc, mode, over, torn>>
-----------------------------------------------------------------------------
(* A write that stops half way leaves a part of its file; the creation of  *)
(* a link and a removal are all or nothing.                                *)
Cut ==
    \/ /\ call = "record" /\ etc = "link" /\ link' = "cut" /\ torn' = TRUE
       /\ UNCHANGED <<etc, backup>>
    \/ /\ call = "record" /\ etc \in Contents /\ backup' = "cut" /\ torn' = TRUE
       /\ UNCHANGED <<etc, link>>
    \/ /\ call = "write" \/ (call = "restore" /\ mem.link = "none")
       /\ etc' = "cut" /\ UNCHANGED <<link, backup, torn>>

Interrupted == Cut \/ UNCHANGED <<files, torn>>

ApplyFails ==
    /\ call \in ApplyCalls
    /\ Interrupted /\ ApplyReturns(FALSE)
    /\ UNCHANGED <<orig, mode, over, reverted>>

RevertFails ==
    /\ call \in RevertCalls
    /\ Interrupted /\ RevertReturns /\ reverted' = FALSE
    /\ UNCHANGED <<orig, mode, over>>

Kill ==
    /\ stage # "off"
    /\ Interrupted /\ Exit /\ reverted' = FALSE
    /\ UNCHANGED <<orig, mode, over>>
-----------------------------------------------------------------------------
(* The session calls the resolver again: at a loss, at a reconnect attempt *)
(* and at its end.                                                         *)
Calls(from, to, c) ==
    /\ stage \in from /\ call = "none"
    /\ stage' = to /\ call' = c
    /\ reverted' = (reverted /\ c = "read")
    /\ UNCHANGED <<orig, files, mode, mem, over, torn>>

Lost      == Calls({"up"}, "lost", "read")
Reconnect == Calls({"gap"}, "gap", "record")
Stop      == Calls({"up", "gap"}, "stop", "read")

Next ==
    \/ \E m \in Modes : Begin(m)
    \/ BackupResolvConf \/ RemoveForApply \/ WriteResolvConf
    \/ ReadRecords \/ RemoveForRevert \/ Restore \/ DropRecord
    \/ ApplyFails \/ RevertFails \/ Kill
    \/ Lost \/ Reconnect \/ Stop

Spec == Init /\ [][Next]_vars
-----------------------------------------------------------------------------
(* What a revert would make of the host now. *)
WouldRestore == IF link = "none" /\ backup = "none" THEN etc ELSE Restored(link, backup)

(* Nothing has spoilt the records: no apply recorded a file that tj itself *)
(* had left, no write of a record was cut, and there was a file to record. *)
Sound == ~over /\ ~torn /\ orig # "none"

(* Between any two file operations of an apply or a revert, a revert gives *)
(* the host its own resolv.conf back: no failure and no kill loses it,     *)
(* except the two that Sound names (applyResolvConfFallback,               *)
(* revertResolvConfFallback: record first, restore before the drop).       *)
Restorable == Sound => WouldRestore = orig

(* A session, or the cleanup of its unit, whose last revert returned       *)
(* without an error leaves the resolv.conf of the host and no record, also *)
(* after kills and failures before it.                                     *)
EndIsOriginal ==
    (Sound /\ stage = "off" /\ reverted) =>
        etc = orig /\ link = "none" /\ backup = "none"
-----------------------------------------------------------------------------
(* resolvconf.go: "removes that record, so a second call finds neither and *)
(* does nothing."  A revert after an apply over the file of an older       *)
(* session leaves the copy beside the link, and the next revert, which the *)
(* cleanup makes at once, puts the file of tj back.                        *)
SecondRevertIdle ==
    (reverted /\ ~torn /\ stage \in {"gap", "cleanup"} /\ call \in {"none", "read"}) =>
        link = "none" /\ backup = "none"

(* run.go: "Cleanup reverts every session change on the device [...]       *)
(* systemd runs it through ExecStopPost after every stop, including a      *)
(* crash or a kill signal".  After a write of the copy that failed or was  *)
(* killed half way, the cleanup puts that part in the place of the         *)
(* original.                                                               *)
CleanupRestores == (stage = "off" /\ reverted /\ ~over) => etc = orig
=============================================================================
