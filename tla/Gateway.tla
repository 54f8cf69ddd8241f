------------------------------- MODULE Gateway -------------------------------
(***************************************************************************)
(* The gateway: the host task, the bus tasks and the lines, composed.      *)
(***************************************************************************)
EXTENDS Host

vars == <<lineVars, busVars, hostVars>>

Init == Rs485Init /\ BusInit /\ HostInit

Next ==
  \/ HostStep \/ Watchdog
  \/ \E b \in Buses :
       \/ BusStep(b) /\ UNCHANGED hostVars
       \/ LineStep(b) /\ UNCHANGED <<busVars, hostVars>>

(* The scheduler: every task that can run runs, they all sleep in each     *)
(* pass of their loops and have one priority.  The watchdog does its work. *)
(* Nothing is asked of the lines, the slaves or the ESP.                   *)
Fairness ==
  /\ WF_vars(HostStep) /\ WF_vars(Watchdog)
  /\ \A b \in Buses : WF_vars(BusStep(b) /\ UNCHANGED hostVars)

Spec == Init /\ [][Next]_vars
FairSpec == Spec /\ Fairness

(* Every variable holds a value of its type.                               *)
TypeOK == Rs485TypeOK /\ BusTypeOK /\ HostTypeOK

(***************************************************************************)
(* Safety.                                                                 *)
(***************************************************************************)

(* The replies of a bus reach the ESP in the order of the commands and     *)
(* none twice: the sequence numbers delivered, queued for the ESP, in hand *)
(* and waiting in the command queue increase in this order                 *)
(* (bus.c:157-257, host.c:85-88 and 161-185).                              *)
Replies(b) == {k \in 1 .. Len(host_command_queue) :
                 /\ host_command_queue[k].type # "config"
                 /\ host_command_queue[k].bus = b}
InHand(b) == job[b].type \in {"read", "write"}
InOrder(b) ==
  /\ \A k \in Replies(b) :
       /\ esp_seq[b] < host_command_queue[k].seq
       /\ \A n \in Replies(b) :
            k < n => host_command_queue[k].seq < host_command_queue[n].seq
       /\ InHand(b) => host_command_queue[k].seq < job[b].seq
       /\ \A n \in 1 .. Len(command_queue[b]) :
            host_command_queue[k].seq < command_queue[b][n].seq
  /\ InHand(b) =>
       /\ esp_seq[b] < job[b].seq
       /\ \A n \in 1 .. Len(command_queue[b]) : job[b].seq < command_queue[b][n].seq
  /\ \A n \in 1 .. Len(command_queue[b]) :
       /\ esp_seq[b] < command_queue[b][n].seq
       /\ \A m \in 1 .. Len(command_queue[b]) :
            n < m => command_queue[b][n].seq < command_queue[b][m].seq
RepliesInOrder == \A b \in Buses : InOrder(b)

(* The gateway keeps the promise of CommandService: a command is answered  *)
(* at most once and its place in the order is kept on its way through the  *)
(* queue of its bus, the transaction and the queue the buses share; only a *)
(* full queue, an invalid function, MIN or a reset loses it                *)
(* (bus.c:157-257, host.c:85-97 and 161-185).                              *)
ToDo(b) == {command_queue[b][n].seq : n \in 1 .. Len(command_queue[b])}
Held(b) == IF InHand(b) THEN {job[b].seq} ELSE {}
Done(b) == {host_command_queue[k].seq : k \in Replies(b)}
Waiting(b) == ToDo(b) \cup Held(b) \cup Done(b)
Service == INSTANCE CommandService
             WITH issued <- next_seq - 1, waiting <- [b \in Buses |-> Waiting(b)],
                  answered <- esp_seq
ImplementsService == Service!Spec

(* If no slave owes an answer and nothing is on the wire when a            *)
(* transaction flushes its receive buffer, then whatever it takes for its  *)
(* answer is the answer to its own request (bus.c:32-77).                  *)
QuietLineAnswersFresh ==
  \A b \in Buses : clean[b] /\ TakesAnswer(b) => Head(rx_buffer[b]).fresh

(* The ESP hears of every change: the latest change that is queued for it, *)
(* or the last one it got when none is queued, is the bus's last_data, as  *)
(* long as that change was not dropped.  A reset makes last_data 0 without *)
(* a change: the ready message has told the ESP before anything else is    *)
(* sent, unless it was lost (bus.c:263-295, host.c:90-97 and 143-159).     *)
Latest(b, i, k) ==
  /\ IsFor(host_change_queue[k], b, i)
  /\ \A n \in (k + 1) .. Len(host_change_queue) :
       ~ IsFor(host_change_queue[n], b, i)
NoneQueued(b, i) ==
  \A k \in 1 .. Len(host_change_queue) : ~ IsFor(host_change_queue[k], b, i)
Follows(b, i) ==
  ~ missed[b][i] =>
    /\ \A k \in 1 .. Len(host_change_queue) :
         Latest(b, i, k) => host_change_queue[k].data = last_data[b][i]
    /\ NoneQueued(b, i) => esp_data[b][i] = last_data[b][i]
EspFollows ==
  host_pc # "ready" => \A b \in Buses : \A i \in Entries(b) : Follows(b, i)

(***************************************************************************)
(* Liveness.                                                               *)
(***************************************************************************)

(* A command the host accepted leaves the gateway: its bus gets to it in   *)
(* spite of its periodic reads, finishes it in spite of the slaves, and    *)
(* the host task takes its reply, or a reset ends it all (bus.c:102-260,   *)
(* host.c:90-97 and 146-194).                                              *)
InGateway(seq) ==
  \/ \E b \in Buses :
       \/ \E k \in 1 .. Len(command_queue[b]) : command_queue[b][k].seq = seq
       \/ InHand(b) /\ job[b].seq = seq
  \/ \E k \in 1 .. Len(host_command_queue) :
       /\ host_command_queue[k].type # "config"
       /\ host_command_queue[k].seq = seq
CommandsLeave ==
  \A seq \in 1 .. MaxCommands : InGateway(seq) ~> ~ InGateway(seq)

(* A bus that stays configured starts over with its first entry again and  *)
(* again, however many commands it is sent (bus.c:102-153).                *)
ReadsKeepRunning ==
  \A b \in Buses : []<>(Configured(b) => task[b] = "scan" /\ idx[b] = 1)

(* A command in hand ends with its reply, whatever the slaves answer and   *)
(* whichever configurations arrive meanwhile: the reply goes last in the   *)
(* queue the buses share, unless that is full.  Only a reset ends it       *)
(* without one (bus.c:157-257, host.c:37-43 and 90-97).                    *)
ReplyTo(b) == [type |-> job[b].type, bus |-> b, seq |-> job[b].seq]
CommandsAnswered ==
  [][\A b \in Buses : InHand(b) /\ job'[b] # job[b] =>
       \/ host_pc = "reset" /\ host_pc' = "ready"
       \/ Full(host_command_queue)
       \/ host_command_queue' = Append(host_command_queue, ReplyTo(b))]_vars

(***************************************************************************)
(* What the source says and the code does not do.                          *)
(***************************************************************************)

(* The data a periodic entry records was read from the slave the entry     *)
(* names: "Modbus Slave address" and "Last data read" (bus.h:20-24).       *)
AnswerOfItsSlave ==
  \A b \in Buses : TakesAnswer(b) /\ job[b].type = "periodic"
    => Head(rx_buffer[b]).header.slave = job[b].device.slave
=============================================================================
