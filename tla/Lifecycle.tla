----------------------------- MODULE Lifecycle -----------------------------
(***************************************************************************)
(* What one tj session promises to everyone outside its process: the       *)
(* status in the state file (session.json) and whether the data plane has  *)
(* a transport to carry flows.  tj status, tj connect and tj disconnect    *)
(* see nothing of a session but this file and the unit, so this is the     *)
(* interface the command line relies on.  Session implements it.           *)
(***************************************************************************)

VARIABLES alive,     \* the session process has written its state file and runs
          status,    \* the status in the state file, "none" without a file
          carrying   \* the data plane has a transport to dial flows on

vars == <<alive, status, carrying>>

Statuses == {"none", "starting", "up", "reconnecting", "stopping"}

TypeOK == /\ alive \in BOOLEAN
          /\ status \in Statuses
          /\ carrying \in BOOLEAN

Init == alive = FALSE /\ status = "none" /\ carrying = FALSE
-----------------------------------------------------------------------------
(* A new process replaces whatever file a dead one left. *)
Start == /\ ~alive
         /\ alive' = TRUE /\ status' = "starting" /\ carrying' = FALSE

(* The data plane has a transport, for the first time or again.  Flows are *)
(* carried from here on, before the file says so.                          *)
Carry == /\ alive /\ status \in {"starting", "reconnecting"} /\ ~carrying
         /\ carrying' = TRUE
         /\ UNCHANGED <<alive, status>>

(* The file says up, of a session that carries flows only. *)
ComeUp == /\ alive /\ status \in {"starting", "reconnecting"} /\ carrying
          /\ status' = "up"
          /\ UNCHANGED <<alive, carrying>>

(* A loss: the flows end first. *)
Break == /\ alive /\ status = "up" /\ carrying
         /\ carrying' = FALSE
         /\ UNCHANGED <<alive, status>>

(* The loss is in the file; only a session that lost its transport says so. *)
Lose == /\ alive /\ status = "up" /\ ~carrying
        /\ status' = "reconnecting"
        /\ UNCHANGED <<alive, carrying>>

(* The stop path has begun; it cannot be left for "up" again. *)
Stop == /\ alive
        /\ \/ status = "up" /\ carrying
           \/ status = "reconnecting" /\ ~carrying
        /\ status' = "stopping"
        /\ UNCHANGED <<alive, carrying>>

(* The data plane closes while the session stops. *)
Drain == /\ alive /\ status = "stopping"
         /\ carrying' = FALSE
         /\ UNCHANGED <<alive, status>>

(* The process returns and removes its file.  A session that carries flows *)
(* never returns without the stop path.                                    *)
End == /\ alive
       /\ \/ status = "starting" /\ ~carrying
          \/ status = "stopping"
       /\ alive' = FALSE /\ status' = "none" /\ carrying' = FALSE

(* The process dies and leaves its file behind. *)
Die == /\ alive
       /\ alive' = FALSE /\ carrying' = FALSE
       /\ UNCHANGED status

(* The cleanup of the unit removes the file of a dead process. *)
Sweep == /\ ~alive
         /\ status' = "none"
         /\ UNCHANGED <<alive, carrying>>

Next == Start \/ Carry \/ ComeUp \/ Break \/ Lose \/ Stop \/ Drain \/ End \/ Die \/ Sweep

Spec == Init /\ [][Next]_vars
=============================================================================
