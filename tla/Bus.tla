--------------------------------- MODULE Bus ---------------------------------
(***************************************************************************)
(* The bus task (src/bus.c): one task per configured bus, all of them on   *)
(* core 1.  It reads its periodic entries one after the other, then takes  *)
(* one command of its queue, forever.  Each read or write is a transaction *)
(* of send_modbus_frame: flush what was received, send the request, then   *)
(* parse what arrives until a frame is complete, an error or a timeout.    *)
(*                                                                         *)
(* Time is abstracted: an entry may be due at any pass, and a transaction  *)
(* may time out whenever no byte is waiting.                               *)
(***************************************************************************)
EXTENDS Rs485

CONSTANTS
  Reads,        \* Reads[b]: the periodic_reads of the configuration of bus b
  QueueLength   \* HOST_QUEUE_LENGTH

ASSUME BusAssumption ==
  /\ Reads \in [Buses -> Seq(Device)]
  /\ \A b \in Buses : \A i, j \in 1 .. Len(Reads[b]) :
       Reads[b][i] = Reads[b][j] => i = j
  /\ QueueLength \in Nat \ {0}

VARIABLES
  task,               \* where the task of a bus is; "none": not configured
  idx,                \* i of the periodic loop, past the end: commands
  job,                \* the transaction in hand
  parser,             \* parser and rx_frame of send_modbus_frame
  last_data,          \* periodic_reads[i].last_data
  command_queue,      \* per bus
  host_change_queue,  \* shared by all buses, emptied by the host task
  host_command_queue,
  clean,              \* ghost: the line was quiet when it was last flushed
  missed              \* ghost: the latest change of an entry was dropped

taskVars == <<task, idx, job, parser, clean>>
dataVars == <<last_data, missed>>
busVars == <<taskVars, dataVars, command_queue, host_change_queue,
             host_command_queue>>

Entries(b) == 1 .. Len(Reads[b])
Command == [type : {"read", "write"}, device : Device, seq : Nat]
Job == [type : {"none", "periodic", "read", "write"}, device : Device, seq : Nat]
Change == [bus : Buses, device : Device, data : Word]
Reply == [type : {"config", "read", "write"}, bus : Buses \cup {0}, seq : Nat]

NoJob == [type |-> "none", device |-> CHOOSE d \in Device : TRUE, seq |-> 0]

(* A task has a transaction in hand from the flush on; a periodic one is   *)
(* that of the entry the loop is at.                                       *)
JobOK(b) ==
  /\ job[b].type = "none" <=> task[b] \notin {"send", "receive"}
  /\ job[b].type = "periodic" =>
       idx[b] \in Entries(b) /\ job[b].device = Reads[b][idx[b]]

BusTypeOK ==
  /\ task \in [Buses -> {"none", "start", "scan", "send", "receive"}]
  /\ idx \in [Buses -> Nat \ {0}]
  /\ \A b \in Buses : idx[b] <= Len(Reads[b]) + 1
  /\ job \in [Buses -> Job]
  /\ \A b \in Buses : JobOK(b)
  /\ parser \in [Buses -> Parser]
  /\ DOMAIN last_data = Buses
  /\ \A b \in Buses : last_data[b] \in [Entries(b) -> Word]
  /\ command_queue \in [Buses -> Seq(Command)]
  /\ host_change_queue \in Seq(Change)
  /\ host_command_queue \in Seq(Reply)
  /\ clean \in [Buses -> BOOLEAN]
  /\ DOMAIN missed = Buses
  /\ \A b \in Buses : missed[b] \in [Entries(b) -> BOOLEAN]

BusInit ==
  /\ task = [b \in Buses |-> "none"]
  /\ idx = [b \in Buses |-> 1]
  /\ job = [b \in Buses |-> NoJob]
  /\ parser = [b \in Buses |-> WaitSlave]
  /\ last_data = [b \in Buses |-> [i \in Entries(b) |-> {}]]
  /\ command_queue = [b \in Buses |-> <<>>]
  /\ host_change_queue = <<>>
  /\ host_command_queue = <<>>
  /\ clean = [b \in Buses |-> FALSE]
  /\ missed = [b \in Buses |-> [i \in Entries(b) |-> FALSE]]

(* After a reset no bus is configured and the queues are empty.            *)
BusReset ==
  /\ task' = [b \in Buses |-> "none"]
  /\ idx' = [b \in Buses |-> 1]
  /\ job' = [b \in Buses |-> NoJob]
  /\ parser' = [b \in Buses |-> WaitSlave]
  /\ last_data' = [b \in Buses |-> [i \in Entries(b) |-> {}]]
  /\ command_queue' = [b \in Buses |-> <<>>]
  /\ host_change_queue' = <<>>
  /\ host_command_queue' = <<>>
  /\ clean' = [b \in Buses |-> FALSE]
  /\ missed' = [b \in Buses |-> [i \in Entries(b) |-> FALSE]]

(* xQueueSend with FREERTOS_NO_WAIT: a full queue drops the item.          *)
Full(queue) == Len(queue) >= QueueLength
EnqueueInFront(queue, item) ==  \* mutant: xQueueSendToFront
  IF Full(queue) THEN queue ELSE <<item>> \o queue
Enqueue(queue, item) == IF Full(queue) THEN queue ELSE Append(queue, item)

(* UART initialization, then BUS_START_DELAY.                              *)
StartTask(b) ==
  /\ task[b] = "start"
  /\ task' = [task EXCEPT ![b] = "scan"]
  /\ UNCHANGED <<idx, job, parser, clean, dataVars, command_queue,
                 host_change_queue, host_command_queue, lineVars>>

FlushNothing(b) ==  \* mutant: the receive buffer is not flushed
  /\ clean' = [clean EXCEPT ![b] = Quiet(b)]
  /\ UNCHANGED lineVars

(* pio_uart_rx_flush: drops what was received, not what is on its way.     *)
Flush(b) ==
  /\ rx_buffer' = [rx_buffer EXCEPT ![b] = <<>>]
  /\ clean' = [clean EXCEPT ![b] = Quiet(b)]
  /\ UNCHANGED <<asked, line>>

(* A frame was created for the transaction; send_modbus_frame begins.      *)
Begin(b, type, device, seq) ==
  /\ task' = [task EXCEPT ![b] = "send"]
  /\ job' = [job EXCEPT ![b] = [type |-> type, device |-> device, seq |-> seq]]
  /\ Flush(b)
  /\ UNCHANGED <<idx, parser>>

BeginPeriodic(b) ==
  /\ task[b] = "scan"
  /\ idx[b] \in Entries(b)
  /\ CanFrame("read", Reads[b][idx[b]])
  /\ Begin(b, "periodic", Reads[b][idx[b]], 0)
  /\ UNCHANGED <<dataVars, command_queue, host_change_queue, host_command_queue>>

(* The entry is not due, or no frame can be created for its function.      *)
SkipPeriodic(b) ==
  /\ task[b] = "scan"
  /\ idx[b] \in Entries(b)
  /\ idx' = [idx EXCEPT ![b] = @ + 1]
  /\ UNCHANGED <<task, job, parser, clean, dataVars, command_queue,
                 host_change_queue, host_command_queue, lineVars>>

PastLastEntry(b) == task[b] = "scan" /\ idx[b] \notin Entries(b)

BeginCommand(b) ==
  /\ PastLastEntry(b)
  /\ command_queue[b] # <<>>
  /\ command_queue' = [command_queue EXCEPT ![b] = Tail(@)]
  /\ LET command == Head(command_queue[b]) IN
       /\ CanFrame(command.type, command.device)
       /\ Begin(b, command.type, command.device, command.seq)
  /\ UNCHANGED <<dataVars, host_change_queue, host_command_queue>>

(* No frame for the command's function: it is dropped without a reply.     *)
DropCommand(b) ==
  /\ PastLastEntry(b)
  /\ command_queue[b] # <<>>
  /\ ~ CanFrame(Head(command_queue[b]).type, Head(command_queue[b]).device)
  /\ command_queue' = [command_queue EXCEPT ![b] = Tail(@)]
  /\ idx' = [idx EXCEPT ![b] = 1]
  /\ UNCHANGED <<task, job, parser, clean, dataVars,
                 host_change_queue, host_command_queue, lineVars>>

NoCommandGoesOn(b) ==  \* mutant: i is not reset to the first entry
  /\ PastLastEntry(b)
  /\ command_queue[b] = <<>>
  /\ idx' = [idx EXCEPT ![b] = @ + 1]
  /\ UNCHANGED <<task, job, parser, clean, dataVars, command_queue,
                 host_change_queue, host_command_queue, lineVars>>

NoCommandWaits(b) ==  \* mutant: portMAX_DELAY, the task waits for a command
  /\ PastLastEntry(b)
  /\ command_queue[b] # <<>>
  /\ UNCHANGED <<busVars, lineVars>>

NoCommand(b) ==
  /\ PastLastEntry(b)
  /\ command_queue[b] = <<>>
  /\ idx' = [idx EXCEPT ![b] = 1]
  /\ UNCHANGED <<task, job, parser, clean, dataVars, command_queue,
                 host_change_queue, host_command_queue, lineVars>>

(* The frame is written, BUS_DELAY_WRITE_READ passes, the parser is reset. *)
WriteFrame(b) ==
  /\ task[b] = "send"
  /\ task' = [task EXCEPT ![b] = "receive"]
  /\ parser' = [parser EXCEPT ![b] = WaitSlave]
  /\ SendRequest(b, job[b].device)
  /\ UNCHANGED <<line, rx_buffer, idx, job, clean, dataVars, command_queue,
                 host_change_queue, host_command_queue>>

(***************************************************************************)
(* The end of a transaction, with the bytes it leaves unread.  A command's *)
(* reply goes to the host whatever happened, unless the queue is full.     *)
(***************************************************************************)
Finish(b, unread) ==
  /\ task' = [task EXCEPT ![b] = "scan"]
  /\ parser' = [parser EXCEPT ![b] = WaitSlave]
  /\ job' = [job EXCEPT ![b] = NoJob]
  /\ clean' = [clean EXCEPT ![b] = FALSE]
  /\ idx' = [idx EXCEPT ![b] = IF job[b].type = "periodic" THEN @ + 1 ELSE 1]
  /\ host_command_queue' =
       IF job[b].type = "periodic" THEN host_command_queue
       ELSE Enqueue(host_command_queue,
              [type |-> job[b].type, bus |-> b, seq |-> job[b].seq])
  /\ Abandon(b, unread)
  /\ UNCHANGED command_queue

(* process_periodic_reply: two bytes of data, compared with the last ones. *)
ProcessPeriodicReply(b, unit) ==
  LET data == FirstByteHigh(unit.data)
      changed == Xor(data, last_data[b][idx[b]]) # {}
      change == [bus |-> b, device |-> Reads[b][idx[b]], data |-> data]
  IN  IF unit.header.size # "word" THEN UNCHANGED <<dataVars, host_change_queue>>
      ELSE /\ last_data' = [last_data EXCEPT ![b][idx[b]] = data]
           /\ host_change_queue' = IF changed THEN Enqueue(host_change_queue, change)
                                   ELSE host_change_queue
           /\ missed' = [missed EXCEPT ![b][idx[b]] =
                IF changed THEN Full(host_change_queue) ELSE @]

(* The loop has the next unit in hand.                                     *)
HasUnit(b) == task[b] = "receive" /\ rx_buffer[b] # <<>>

(* MODBUS_INCOMPLETE: the parser goes on in the given state.               *)
KeepReading(b, state, header) ==
  /\ parser' = [parser EXCEPT ![b] = [state |-> state, header |-> header]]
  /\ rx_buffer' = [rx_buffer EXCEPT ![b] = Tail(@)]
  /\ UNCHANGED <<asked, line, task, idx, job, clean, dataVars, command_queue,
                 host_change_queue, host_command_queue>>

ReadHead(b) ==
  /\ HasUnit(b)
  /\ StartsFrame(parser[b], Head(rx_buffer[b]))
  /\ KeepReading(b, "data", Head(rx_buffer[b]).header)

(* MODBUS_COMPLETE with the function code of the request: whatever slave   *)
(* and whatever request it answers, it is taken for the answer.            *)
TakesAnswer(b) ==
  /\ HasUnit(b)
  /\ EndsFrame(parser[b], Head(rx_buffer[b]))
  /\ Head(rx_buffer[b]).header.function = job[b].device.function

ReadPeriodicAnswer(b) ==
  /\ TakesAnswer(b)
  /\ job[b].type = "periodic"
  /\ ProcessPeriodicReply(b, Head(rx_buffer[b]))
  /\ Finish(b, Tail(rx_buffer[b]))

ReadCommandAnswer(b) ==
  /\ TakesAnswer(b)
  /\ job[b].type # "periodic"
  /\ Finish(b, Tail(rx_buffer[b]))
  /\ UNCHANGED <<dataVars, host_change_queue>>

(* A complete frame with another function code ends the transaction too.   *)
ReadOtherFunction(b) ==
  /\ HasUnit(b)
  /\ EndsFrame(parser[b], Head(rx_buffer[b]))
  /\ ~ TakesAnswer(b)
  /\ Finish(b, Tail(rx_buffer[b]))
  /\ UNCHANGED <<dataVars, host_change_queue>>

(* The parser reports an error: what is left of the frame stays unread.    *)
ReadError(b) ==
  /\ HasUnit(b)
  /\ \/ IsException(parser[b], Head(rx_buffer[b]))
     \/ Misframed(parser[b], Head(rx_buffer[b]))
  /\ Finish(b, Tail(rx_buffer[b]))
  /\ UNCHANGED <<dataVars, host_change_queue>>

(* ... or takes the bytes for something else and waits for more.           *)
ReadAstray(b) ==
  /\ HasUnit(b)
  /\ Misframed(parser[b], Head(rx_buffer[b]))
  /\ KeepReading(b, "astray", NoHeader)

TimeoutInsideFrame(b) ==  \* mutant: the timeout starts with the first byte
  /\ task[b] = "receive"
  /\ rx_buffer[b] = <<>>
  /\ parser[b].state # "slave"
  /\ Finish(b, <<>>)
  /\ UNCHANGED <<dataVars, host_change_queue>>

(* BUS_TIMEOUT_RESPONSE is over and no byte is waiting.                    *)
Timeout(b) ==
  /\ task[b] = "receive"
  /\ rx_buffer[b] = <<>>
  /\ Finish(b, <<>>)
  /\ UNCHANGED <<dataVars, host_change_queue>>

BusStep(b) ==
  \/ StartTask(b) \/ BeginPeriodic(b) \/ SkipPeriodic(b) \/ BeginCommand(b)
  \/ DropCommand(b) \/ NoCommand(b) \/ WriteFrame(b) \/ ReadHead(b)
  \/ ReadPeriodicAnswer(b) \/ ReadCommandAnswer(b) \/ ReadOtherFunction(b)
  \/ ReadError(b) \/ ReadAstray(b) \/ Timeout(b)
=============================================================================
