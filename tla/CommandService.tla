---------------------------- MODULE CommandService ----------------------------
(***************************************************************************)
(* What the gateway promises the ESP about its commands, without queues,   *)
(* tasks and transactions (src/host.c, src/bus.c): a command it takes for  *)
(* a bus is answered at most once, and the answers of a bus come in the    *)
(* order of its commands.  It may refuse a command, lose its answer, and a *)
(* reset forgets all it has taken.                                         *)
(***************************************************************************)
EXTENDS Naturals

CONSTANTS
  Buses,
  MaxCommands  \* bound: commands of the ESP

VARIABLES
  issued,   \* commands the ESP has numbered so far
  waiting,  \* numbers of the commands a bus has taken and not answered
  answered  \* number of the last one of each bus that was answered

vars == <<issued, waiting, answered>>

Init ==
  /\ issued = 0
  /\ waiting = [b \in Buses |-> {}]
  /\ answered = [b \in Buses |-> 0]

Issue == issued < MaxCommands /\ issued' = issued + 1

Take(b) ==
  /\ Issue
  /\ waiting' = [waiting EXCEPT ![b] = @ \cup {issued + 1}]
  /\ UNCHANGED answered

Refuse == Issue /\ UNCHANGED <<waiting, answered>>

(* The oldest one is answered; it is younger than all answered before.     *)
Answer(b) ==
  /\ \E n \in waiting[b] :
       /\ n > answered[b]
       /\ \A m \in waiting[b] : n <= m
       /\ waiting' = [waiting EXCEPT ![b] = @ \ {n}]
       /\ answered' = [answered EXCEPT ![b] = n]
  /\ UNCHANGED issued

LoseAnswer(b) ==
  /\ \E n \in waiting[b] : waiting' = [waiting EXCEPT ![b] = @ \ {n}]
  /\ UNCHANGED <<issued, answered>>

Reset ==
  /\ waiting' = [b \in Buses |-> {}]
  /\ UNCHANGED <<issued, answered>>

Next ==
  \/ Refuse \/ Reset
  \/ \E b \in Buses : Take(b) \/ Answer(b) \/ LoseAnswer(b)

Spec == Init /\ [][Next]_vars
=============================================================================
