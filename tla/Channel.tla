------------------------------ MODULE Channel ------------------------------
(***************************************************************************)
(* What one direction of a TCP flow promises to the two programs at its    *)
(* ends, as if tj were not between them: a first-in first-out channel with *)
(* a bounded buffer and a half-close.  TcpFlow implements it twice, once   *)
(* in each direction.                                                      *)
(***************************************************************************)
EXTENDS Naturals

CONSTANT Room      \* units on their way, at most

VARIABLES sent,      \* units the source wrote
          received,  \* units the sink read
          source,    \* the writing side: "open", "fin" (closed) or "err" (aborted)
          sink,      \* what the sink read at the end: "none", "fin" or "err"
          broken     \* a reset, a timer or a lost transport

vars == <<sent, received, source, sink, broken>>

Init == sent = 0 /\ received = 0 /\ source = "open" /\ sink = "none" /\ broken = FALSE
-----------------------------------------------------------------------------
(* The source writes while there is room.  A channel that was refused, and *)
(* one that was read to its end, carries nothing any more.                 *)
Send == /\ source = "open" /\ (sink = "none" \/ broken) /\ sent - received < Room
        /\ sent' = sent + 1
        /\ UNCHANGED <<received, source, sink, broken>>

(* The sink reads the next unit, and none after the end. *)
Receive == /\ received < sent /\ sink = "none"
           /\ received' = received + 1
           /\ UNCHANGED <<sent, source, sink, broken>>

(* The source has sent everything. *)
Close == /\ source = "open" /\ source' = "fin"
         /\ UNCHANGED <<sent, received, sink, broken>>

(* No connection: the source loses its channel before it has sent.  Only a *)
(* break takes it away later.                                              *)
Refuse == /\ source = "open" /\ sent = 0 /\ source' = "err"
          /\ UNCHANGED <<sent, received, sink, broken>>

(* A reset, a timer or a loss, and what a broken channel does to its       *)
(* source, open or closed.                                                 *)
Break == /\ broken' = TRUE /\ source' \in {source, "err"}
         /\ UNCHANGED <<sent, received, sink>>

(* An end of file is the end of what was sent; an error is a refusal.      *)
(* Neither can be told from a break.                                       *)
EndOfFile == /\ sink = "none" /\ (broken \/ (source = "fin" /\ received = sent))
             /\ sink' = "fin"
             /\ UNCHANGED <<sent, received, source, broken>>
Error == /\ sink = "none" /\ (broken \/ sent = 0)
         /\ sink' = "err"
         /\ UNCHANGED <<sent, received, source, broken>>

Next == Send \/ Receive \/ Close \/ Refuse \/ Break \/ EndOfFile \/ Error

Spec == Init /\ [][Next]_vars
=============================================================================
