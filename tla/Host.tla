-------------------------------- MODULE Host --------------------------------
(***************************************************************************)
(* The host task (src/host.c), on core 0, and the ESP it talks to over MIN *)
(* frames.  One pass of its loop feeds received bytes to the MIN library,  *)
(* which calls the handler of a complete message, then sends at most one   *)
(* change and at most one reply.  It begins with the message that the Pico *)
(* is ready, and the ESP may ask for a reset of the Pico, which forgets    *)
(* everything.                                                             *)
(*                                                                         *)
(* EXTERNAL: the ESP sends what it likes, numbering its commands, and      *)
(* takes every entry for 0 when it hears that the Pico is ready; MIN drops *)
(* a frame for which the transmit buffer has no space, and without its     *)
(* transport protocol nothing is sent twice.                               *)
(***************************************************************************)
EXTENDS Bus

CONSTANTS
  Commands,     \* what the ESP asks for: records of type, bus and device
  MaxCommands,  \* bound: commands the ESP sends
  MinDrops,     \* whether a frame to the ESP may be lost
  PicoResets    \* whether the ESP asks for resets

ASSUME HostAssumption ==
  /\ Commands \subseteq [type : {"read", "write"}, bus : Buses, device : Device]
  /\ MaxCommands \in Nat
  /\ MinDrops \in BOOLEAN /\ PicoResets \in BOOLEAN

VARIABLES
  host_pc,    \* where the host task is; "reset": it waits for the watchdog
  next_seq,   \* EXTERNAL: the seq of the ESP's next command
  esp_data,   \* EXTERNAL: what the ESP last heard of each periodic entry
  esp_seq     \* EXTERNAL: the seq of the last reply it had from each bus

hostVars == <<host_pc, next_seq, esp_data, esp_seq>>

HostTypeOK ==
  /\ host_pc \in {"ready", "poll", "change", "reply", "reset"}
  /\ next_seq \in Nat
  /\ DOMAIN esp_data = Buses
  /\ \A b \in Buses : esp_data[b] \in [Entries(b) -> Word]
  /\ esp_seq \in [Buses -> Nat]

HostInit ==
  /\ host_pc = "ready"
  /\ next_seq = 1
  /\ esp_data = [b \in Buses |-> [i \in Entries(b) |-> {}]]
  /\ esp_seq = [b \in Buses |-> 0]

(***************************************************************************)
(* The start and the end of the host task.                                 *)
(***************************************************************************)
StartSilently ==  \* mutant: the ready message is not sent
  /\ host_pc = "ready"
  /\ host_pc' = "poll"
  /\ UNCHANGED <<busVars, next_seq, esp_data, esp_seq, lineVars>>

SendReady ==
  /\ host_pc = "ready"
  /\ host_pc' = "poll"
  /\ esp_data' = [b \in Buses |-> [i \in Entries(b) |-> {}]]
  /\ UNCHANGED <<busVars, next_seq, esp_seq, lineVars>>

(* The ESP does not hear of it, and keeps what it knew before.             *)
LoseReady ==
  /\ host_pc = "ready"
  /\ host_pc' = "poll"
  /\ MinDrops
  /\ missed' = [b \in Buses |-> [i \in Entries(b) |-> TRUE]]
  /\ UNCHANGED <<taskVars, last_data, command_queue, host_change_queue,
                 host_command_queue, next_seq, esp_data, esp_seq, lineVars>>

(* The watchdog is enabled; the host task waits for it in its handler,     *)
(* while the other tasks go on.                                            *)
handle_m_pico_reset ==
  /\ PicoResets
  /\ host_pc = "poll"
  /\ host_pc' = "reset"
  /\ UNCHANGED <<busVars, next_seq, esp_data, esp_seq, lineVars>>

(* EXTERNAL: the watchdog resets the Pico.  What was received is gone and  *)
(* no bus is configured; the slaves do not notice.                         *)
Watchdog ==
  /\ host_pc = "reset"
  /\ host_pc' = "ready"
  /\ BusReset
  /\ AbandonAll
  /\ UNCHANGED <<next_seq, esp_data, esp_seq>>

(***************************************************************************)
(* Messages of the ESP.                                                    *)
(***************************************************************************)
Configured(b) == task[b] # "none"

(* The reply names no bus: neither config_bus_reply.bus nor device.bus is  *)
(* set, both stay 0.                                                       *)
ConfigReply ==
  host_command_queue' =
    Enqueue(host_command_queue, [type |-> "config", bus |-> 0, seq |-> 0])

ReconfigureAny(b) ==  \* mutant: the context is not looked up first
  /\ host_pc = "poll"
  /\ host_pc' = "change"
  /\ task' = [task EXCEPT ![b] = "start"]
  /\ ConfigReply
  /\ UNCHANGED <<idx, job, parser, clean, dataVars, command_queue,
                 host_change_queue, next_seq, esp_data, esp_seq, lineVars>>

HandleConfig(b) ==
  /\ host_pc = "poll"
  /\ host_pc' = "change"
  /\ ~ Configured(b)
  /\ task' = [task EXCEPT ![b] = "start"]
  /\ ConfigReply
  /\ UNCHANGED <<idx, job, parser, clean, dataVars, command_queue,
                 host_change_queue, next_seq, esp_data, esp_seq, lineVars>>

(* The bus is configured already, or its number is past the array and      *)
(* bus_contexts is read out of its bounds: already_configured or           *)
(* invalid_bus is replied, nothing else happens.                           *)
RefuseConfig ==
  /\ host_pc = "poll"
  /\ host_pc' = "change"
  /\ ConfigReply
  /\ UNCHANGED <<taskVars, dataVars, command_queue, host_change_queue, next_seq,
                 esp_data, esp_seq, lineVars>>

(* The code does not look whether the bus is configured: the ESP is        *)
(* assumed to wait for the reply to its configuration.                     *)
HandleCommand ==
  /\ host_pc = "poll"
  /\ host_pc' = "change"
  /\ next_seq <= MaxCommands
  /\ next_seq' = next_seq + 1
  /\ \E c \in Commands :
       /\ Configured(c.bus)
       /\ command_queue' = [command_queue EXCEPT ![c.bus] =
            Enqueue(@, [type |-> c.type, device |-> c.device, seq |-> next_seq])]
  /\ UNCHANGED <<taskVars, dataVars, host_change_queue, host_command_queue,
                 esp_data, esp_seq, lineVars>>

(* No byte, or one that does not complete a message.                       *)
PollNothing ==
  /\ host_pc = "poll"
  /\ host_pc' = "change"
  /\ UNCHANGED <<busVars, next_seq, esp_data, esp_seq, lineVars>>

(***************************************************************************)
(* Messages to the ESP.                                                    *)
(***************************************************************************)
IsFor(change, b, i) == change.bus = b /\ change.device = Reads[b][i]

NoChange ==
  /\ host_pc = "change"
  /\ host_change_queue = <<>>
  /\ host_pc' = "reply"
  /\ UNCHANGED <<busVars, next_seq, esp_data, esp_seq, lineVars>>

TakeChange ==
  /\ host_pc = "change"
  /\ host_change_queue # <<>>
  /\ host_pc' = "reply"
  /\ host_change_queue' = Tail(host_change_queue)
  /\ UNCHANGED <<taskVars, last_data, command_queue, host_command_queue,
                 next_seq, esp_seq, lineVars>>

SendChange ==
  /\ TakeChange
  /\ LET change == Head(host_change_queue) IN
       esp_data' = [b \in Buses |-> [i \in Entries(b) |->
         IF IsFor(change, b, i) THEN change.data ELSE esp_data[b][i]]]
  /\ UNCHANGED missed

(* min_send_frame finds no space; the change is already off the queue.     *)
LoseChange ==
  /\ TakeChange
  /\ MinDrops
  /\ missed' = [b \in Buses |-> [i \in Entries(b) |->
       \/ missed[b][i]
       \/ /\ IsFor(Head(host_change_queue), b, i)
          /\ \A k \in 2 .. Len(host_change_queue) :
               ~ IsFor(host_change_queue[k], b, i)]]
  /\ UNCHANGED esp_data

NoReply ==
  /\ host_pc = "reply"
  /\ host_command_queue = <<>>
  /\ host_pc' = "poll"
  /\ UNCHANGED <<busVars, next_seq, esp_data, esp_seq, lineVars>>

TakeReply ==
  /\ host_pc = "reply"
  /\ host_command_queue # <<>>
  /\ host_pc' = "poll"
  /\ host_command_queue' = Tail(host_command_queue)
  /\ UNCHANGED <<taskVars, dataVars, command_queue, host_change_queue,
                 next_seq, esp_data, lineVars>>

SendReply ==
  /\ TakeReply
  /\ LET reply == Head(host_command_queue) IN
       esp_seq' = IF reply.type = "config" THEN esp_seq
                  ELSE [esp_seq EXCEPT ![reply.bus] = reply.seq]

LoseReply ==
  /\ TakeReply
  /\ MinDrops
  /\ UNCHANGED esp_seq

(* The last byte of a message was read: its handler runs.                  *)
min_application_handler ==
  \/ \E b \in Buses : HandleConfig(b)
  \/ RefuseConfig \/ HandleCommand \/ handle_m_pico_reset

HostStep ==
  \/ SendReady \/ LoseReady
  \/ min_application_handler \/ PollNothing
  \/ NoChange \/ SendChange \/ LoseChange
  \/ NoReply \/ SendReply \/ LoseReply
=============================================================================
