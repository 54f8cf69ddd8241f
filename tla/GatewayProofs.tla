---------------------------- MODULE GatewayProofs ----------------------------
(***************************************************************************)
(* Theorems about the gateway, for every number of buses, every            *)
(* configuration and every queue length.                                   *)
(***************************************************************************)
EXTENDS Gateway, SequenceTheorems, TLAPS

(***************************************************************************)
(* The operators the modules are built from.                               *)
(***************************************************************************)

(* A queue keeps the type of its items.                                    *)
LEMMA EnqueueType ==
  ASSUME NEW S, NEW queue \in Seq(S), NEW item \in S
  PROVE  Enqueue(queue, item) \in Seq(S)
  BY DEF Enqueue

(* The parser has a header of its type before it has read one.             *)
LEMMA NoHeaderType == NoHeader \in Header
<1>1. PICK s \in Slaves : TRUE BY ModbusAssumption
<1>2. [slave |-> s, function |-> "read_coils", size |-> "byte"] \in Header
  BY DEF Header, Functions, ReadFunctions
<1> QED BY <1>2 DEF NoHeader

(* A task that has no transaction has a job of its type.                   *)
LEMMA NoJobType == NoJob \in Job
<1>1. PICK s \in Slaves, a \in Addresses : TRUE BY ModbusAssumption
<1>2. [slave |-> s, function |-> "read_coils", address |-> a] \in Device
  BY DEF Device, Functions, ReadFunctions
<1>3. (CHOOSE d \in Device : TRUE) \in Device BY <1>2
<1> QED BY <1>3 DEF NoJob, Job

(* A parser that is reset is of its type.                                  *)
LEMMA WaitSlaveType == WaitSlave \in Parser
  BY NoHeaderType DEF WaitSlave, Parser

(* Units that come late are units still.                                   *)
LEMMA AllLateType ==
  ASSUME NEW units \in Seq(Unit)
  PROVE  /\ AllLate(units) \in Seq(Unit)
         /\ Len(AllLate(units)) = Len(units)
         /\ \A k \in 1 .. Len(units) : AllLate(units)[k] = Late(units[k])
<1>1. ASSUME NEW u \in Unit PROVE Late(u) \in Unit
  BY DEF Late, Unit
<1>2. \A k \in 1 .. Len(units) : units[k] \in Unit
  OBVIOUS
<1>3. \A k \in 1 .. Len(units) : Late(units[k]) \in Unit
  BY <1>1, <1>2
<1> QED BY <1>3 DEF AllLate

(* What a slave sends is a sequence of units.                              *)
LEMMA ReplyUnitsType ==
  ASSUME NEW device \in Device, NEW function \in Functions \cup {"exception"},
         NEW data \in FrameData, NEW fresh \in BOOLEAN
  PROVE  ReplyUnits(device, function, data, fresh) \in Seq(Unit)
<1>1. AnswerSize(device) \in {"byte", "word"} BY DEF AnswerSize
<1>2. data \cap {0} \in FrameData /\ {} \in FrameData BY DEF FrameData
<1> QED BY <1>1, <1>2 DEF ReplyUnits, Unit, Header, Device

(***************************************************************************)
(* Types, one lemma for what an action does to the line, one per group of  *)
(* actions of a bus, one for the host.                                     *)
(***************************************************************************)
DataOK ==
  /\ DOMAIN last_data = Buses
  /\ \A b \in Buses : last_data[b] \in [Entries(b) -> Word]
  /\ DOMAIN missed = Buses
  /\ \A b \in Buses : missed[b] \in [Entries(b) -> BOOLEAN]
  /\ host_change_queue \in Seq(Change)

(* A bus task that ends its transaction keeps the types.                   *)
LEMMA FinishType ==
  ASSUME TypeOK, NEW b \in Buses, NEW unread \in Seq(Unit), Finish(b, unread),
         task[b] = "receive", DataOK', UNCHANGED hostVars
  PROVE  TypeOK'
<1> USE DEF TypeOK
<1>1. Rs485TypeOK'
  <2>1. AllLate(line[b]) \in Seq(Unit) /\ AllLate(unread) \in Seq(Unit)
    BY AllLateType DEF Rs485TypeOK
  <2>2. ASSUME NEW r \in Request PROVE Late(r) \in Request
    BY DEF Late, Request
  <2>3. {Late(r) : r \in asked[b]} \in SUBSET Request
    BY <2>2 DEF Rs485TypeOK
  <2> QED BY <2>1, <2>3 DEF Rs485TypeOK, Finish, Abandon
<1>2. BusTypeOK'
  <2>1. idx' \in [Buses -> Nat \ {0}] /\ \A c \in Buses : idx'[c] <= Len(Reads[c]) + 1
    BY BusAssumption DEF BusTypeOK, Finish, JobOK, Entries
  <2>2. task' \in [Buses -> {"none", "start", "scan", "send", "receive"}]
    BY DEF BusTypeOK, Finish
  <2>3. job' \in [Buses -> Job]
    BY NoJobType DEF BusTypeOK, Finish
  <2>4. \A c \in Buses : JobOK(c)'
    BY DEF BusTypeOK, Finish, JobOK, NoJob
  <2>5. parser' \in [Buses -> Parser] /\ clean' \in [Buses -> BOOLEAN]
    BY WaitSlaveType DEF BusTypeOK, Finish
  <2>6. host_command_queue' \in Seq(Reply)
    <3> DEFINE reply == [type |-> job[b].type, bus |-> b, seq |-> job[b].seq]
    <3>1. CASE job[b].type = "periodic"
      BY <3>1 DEF BusTypeOK, Finish
    <3>2. CASE job[b].type # "periodic"
      <4>1. job[b] \in Job /\ job[b].type # "none"
        BY DEF BusTypeOK, JobOK
      <4>2. reply \in Reply
        BY <3>2, <4>1 DEF Job, Reply
      <4>3. host_command_queue' = Enqueue(host_command_queue, reply)
        BY <3>2 DEF Finish
      <4> QED BY <4>2, <4>3, EnqueueType DEF BusTypeOK
    <3> QED BY <3>1, <3>2
  <2>7. command_queue' = command_queue
    BY DEF Finish
  <2> QED BY <2>1, <2>2, <2>3, <2>4, <2>5, <2>6, <2>7 DEF BusTypeOK, DataOK
<1>3. HostTypeOK'
  BY DEF HostTypeOK, hostVars
<1> QED BY <1>1, <1>2, <1>3

(* A bus task keeps the types.                                             *)
LEMMA BusStepType ==
  ASSUME TypeOK, NEW b \in Buses, BusStep(b), UNCHANGED hostVars
  PROVE  TypeOK'
<1> USE DEF TypeOK
<1>host. HostTypeOK'
  BY DEF HostTypeOK, hostVars
<1>data. DataOK
  BY DEF DataOK, BusTypeOK
<1>same. ASSUME UNCHANGED <<dataVars, host_change_queue>> PROVE DataOK'
  BY <1>data, <1>same DEF DataOK, dataVars
<1>1. CASE StartTask(b)
  BY <1>1, <1>host DEF StartTask, BusTypeOK, JobOK, Rs485TypeOK, lineVars, dataVars
<1>begin. ASSUME NEW type \in {"periodic", "read", "write"}, NEW device \in Device,
                 NEW seq \in Nat, Begin(b, type, device, seq),
                 type = "periodic" =>
                   idx[b] \in Entries(b) /\ device = Reads[b][idx[b]],
                 command_queue' \in [Buses -> Seq(Command)],
                 UNCHANGED <<dataVars, host_change_queue, host_command_queue>>
          PROVE TypeOK'
  <2>1. Rs485TypeOK'
    BY <1>begin DEF Begin, Flush, Rs485TypeOK
  <2>2. [type |-> type, device |-> device, seq |-> seq] \in Job
    BY <1>begin DEF Job
  <2>3. job' \in [Buses -> Job] /\ \A c \in Buses : JobOK(c)'
    BY <1>begin, <2>2 DEF Begin, BusTypeOK, JobOK
  <2>4. Quiet(b) \in BOOLEAN BY DEF Quiet
  <2>5. BusTypeOK'
    BY <1>begin, <2>3, <2>4 DEF Begin, Flush, BusTypeOK, dataVars
  <2> QED BY <2>1, <2>5, <1>host
<1>2. CASE BeginPeriodic(b)
  <2>1. Reads[b][idx[b]] \in Device
    BY <1>2, BusAssumption DEF BeginPeriodic, Entries, BusTypeOK
  <2> QED BY <1>2, <2>1, <1>begin DEF BeginPeriodic, BusTypeOK
<1>3. CASE SkipPeriodic(b)
  <2>1. Len(Reads[b]) \in Nat
    BY BusAssumption
  <2>2. idx' \in [Buses -> Nat \ {0}] /\ \A c \in Buses : idx'[c] <= Len(Reads[c]) + 1
    BY <1>3, <2>1 DEF SkipPeriodic, BusTypeOK, Entries
  <2>3. \A c \in Buses : JobOK(c)'
    BY <1>3 DEF SkipPeriodic, BusTypeOK, JobOK
  <2>4. BusTypeOK'
    BY <1>3, <2>2, <2>3 DEF SkipPeriodic, BusTypeOK, dataVars
  <2> QED BY <1>3, <1>host, <2>4 DEF SkipPeriodic, Rs485TypeOK, lineVars
<1>4. CASE BeginCommand(b)
  <2>1. Head(command_queue[b]) \in Command /\ Tail(command_queue[b]) \in Seq(Command)
    BY <1>4 DEF BeginCommand, BusTypeOK
  <2> DEFINE command == Head(command_queue[b])
  <2>2. /\ command.type \in {"periodic", "read", "write"}
        /\ command.type # "periodic"
        /\ command.device \in Device
        /\ command.seq \in Nat
    BY <2>1 DEF Command
  <2>3. command_queue' \in [Buses -> Seq(Command)]
    BY <1>4, <2>1 DEF BeginCommand, BusTypeOK
  <2>4. Begin(b, command.type, command.device, command.seq)
    BY <1>4 DEF BeginCommand
  <2>5. UNCHANGED <<dataVars, host_change_queue, host_command_queue>>
    BY <1>4 DEF BeginCommand
  <2> QED BY <2>2, <2>3, <2>4, <2>5, <1>begin
<1>5. CASE DropCommand(b)
  <2>1. Tail(command_queue[b]) \in Seq(Command)
    BY <1>5 DEF DropCommand, BusTypeOK
  <2>2. idx' \in [Buses -> Nat \ {0}] /\ \A c \in Buses : idx'[c] <= Len(Reads[c]) + 1
    BY <1>5, BusAssumption DEF DropCommand, BusTypeOK
  <2>3. \A c \in Buses : JobOK(c)'
    BY <1>5 DEF DropCommand, PastLastEntry, BusTypeOK, JobOK
  <2>4. command_queue' \in [Buses -> Seq(Command)]
    BY <1>5, <2>1 DEF DropCommand, BusTypeOK
  <2>5. BusTypeOK'
    BY <1>5, <2>2, <2>3, <2>4 DEF DropCommand, BusTypeOK, dataVars
  <2> QED BY <1>5, <1>host, <2>5 DEF DropCommand, Rs485TypeOK, lineVars
<1>6. CASE NoCommand(b)
  BY <1>6, <1>host, BusAssumption
     DEF NoCommand, PastLastEntry, BusTypeOK, JobOK, Rs485TypeOK, lineVars, dataVars
<1>7. CASE WriteFrame(b)
  <2>1. [device |-> job[b].device, fresh |-> TRUE] \in Request
    BY DEF Request, BusTypeOK, Job
  <2>2. Rs485TypeOK'
    BY <1>7, <2>1 DEF WriteFrame, SendRequest, Rs485TypeOK
  <2>3. BusTypeOK'
    BY <1>7, WaitSlaveType DEF WriteFrame, BusTypeOK, JobOK, dataVars
  <2> QED BY <2>2, <2>3, <1>host
<1>rx. ASSUME HasUnit(b)
       PROVE Head(rx_buffer[b]) \in Unit /\ Tail(rx_buffer[b]) \in Seq(Unit)
  BY <1>rx DEF HasUnit, Rs485TypeOK
<1>keep. ASSUME NEW state \in {"data", "astray"}, NEW header \in Header,
                HasUnit(b), KeepReading(b, state, header)
         PROVE TypeOK'
  <2>1. [state |-> state, header |-> header] \in Parser
    BY DEF Parser
  <2>2. Rs485TypeOK'
    BY <1>keep, <1>rx DEF KeepReading, Rs485TypeOK
  <2>3. BusTypeOK'
    BY <1>keep, <2>1 DEF KeepReading, BusTypeOK, JobOK, dataVars
  <2> QED BY <2>2, <2>3, <1>host
<1>8. CASE ReadHead(b)
  BY <1>8, <1>rx, <1>keep DEF ReadHead, Unit
<1>9. CASE ReadPeriodicAnswer(b)
  <2>1. DataOK'
    <3>1. Head(rx_buffer[b]) \in Unit
      BY <1>9, <1>rx DEF ReadPeriodicAnswer, TakesAnswer
    <3>2. FirstByteHigh(Head(rx_buffer[b]).data) \in Word
      BY <3>1 DEF Unit, FrameData, FirstByteHigh, Word
    <3>3. idx[b] \in Entries(b) /\ Reads[b][idx[b]] \in Device
      BY <1>9, BusAssumption DEF ReadPeriodicAnswer, BusTypeOK, JobOK, Entries
    <3> DEFINE change == [bus |-> b, device |-> Reads[b][idx[b]],
                          data |-> FirstByteHigh(Head(rx_buffer[b]).data)]
    <3>4. change \in Change
      BY <3>2, <3>3 DEF Change
    <3>5. Enqueue(host_change_queue, change) \in Seq(Change)
      BY <3>4, <1>data, EnqueueType DEF DataOK
    <3>6. CASE Head(rx_buffer[b]).header.size # "word"
      BY <1>9, <1>same, <3>6 DEF ReadPeriodicAnswer, ProcessPeriodicReply
    <3>7. CASE Head(rx_buffer[b]).header.size = "word"
      <4>1. host_change_queue' \in Seq(Change)
        BY <1>9, <1>data, <3>5, <3>7
           DEF ReadPeriodicAnswer, ProcessPeriodicReply, DataOK
      <4>2. /\ DOMAIN last_data' = Buses
            /\ \A c \in Buses : last_data'[c] \in [Entries(c) -> Word]
        BY <1>9, <1>data, <3>2, <3>3, <3>7
           DEF ReadPeriodicAnswer, ProcessPeriodicReply, DataOK
      <4>3. Full(host_change_queue) \in BOOLEAN
        BY DEF Full
      <4>4. /\ DOMAIN missed' = Buses
            /\ \A c \in Buses : missed'[c] \in [Entries(c) -> BOOLEAN]
        BY <1>9, <1>data, <3>3, <3>7, <4>3
           DEF ReadPeriodicAnswer, ProcessPeriodicReply, DataOK
      <4> QED BY <4>1, <4>2, <4>4 DEF DataOK
    <3> QED BY <3>6, <3>7
  <2> QED BY <1>9, <1>rx, <1>data, <2>1, FinishType
          DEF ReadPeriodicAnswer, TakesAnswer, HasUnit
<1>10. CASE ReadCommandAnswer(b)
  BY <1>10, <1>rx, <1>same, FinishType DEF ReadCommandAnswer, TakesAnswer, HasUnit
<1>11. CASE ReadOtherFunction(b)
  BY <1>11, <1>rx, <1>same, FinishType DEF ReadOtherFunction, HasUnit
<1>12. CASE ReadError(b)
  BY <1>12, <1>rx, <1>same, FinishType DEF ReadError, HasUnit
<1>13. CASE ReadAstray(b)
  BY <1>13, <1>keep, NoHeaderType DEF ReadAstray
<1>14. CASE Timeout(b)
  <2>1. <<>> \in Seq(Unit)
    OBVIOUS
  <2>2. Finish(b, <<>>) /\ task[b] = "receive" /\ DataOK'
    BY <1>14, <1>same DEF Timeout
  <2> QED BY <2>1, <2>2, FinishType
<1> QED
  BY <1>1, <1>2, <1>3, <1>4, <1>5, <1>6, <1>7, <1>8, <1>9, <1>10, <1>11, <1>12,
     <1>13, <1>14 DEF BusStep

(* A slave, or the line, keeps the types.                                  *)
LEMMA LineStepType ==
  ASSUME TypeOK, NEW b \in Buses, LineStep(b), UNCHANGED <<busVars, hostVars>>
  PROVE  TypeOK'
<1>1. BusTypeOK' /\ HostTypeOK'
  BY DEF TypeOK, BusTypeOK, HostTypeOK, JobOK, busVars, taskVars, dataVars, hostVars
<1>2. Rs485TypeOK'
  <2>1. CASE Answer(b)
    <3>1. PICK request \in asked[b], data \in Answers, exception \in BOOLEAN :
            LET function == IF exception THEN "exception" ELSE request.device.function
            IN  /\ asked' = [asked EXCEPT ![b] = @ \ {request}]
                /\ line' = [line EXCEPT ![b] = @ \o
                     ReplyUnits(request.device, function, data, request.fresh)]
      BY <2>1 DEF Answer
    <3> DEFINE function == IF exception THEN "exception" ELSE request.device.function
    <3>2. request \in Request /\ data \in FrameData
      BY ModbusAssumption DEF TypeOK, Rs485TypeOK
    <3>3. /\ request.device \in Device /\ request.fresh \in BOOLEAN
          /\ function \in Functions \cup {"exception"}
      BY <3>2 DEF Request, Device
    <3>4. ReplyUnits(request.device, function, data, request.fresh) \in Seq(Unit)
      BY <3>2, <3>3, ReplyUnitsType
    <3> HIDE DEF function
    <3>5. line[b] \o ReplyUnits(request.device, function, data, request.fresh)
            \in Seq(Unit)
      BY <3>4 DEF TypeOK, Rs485TypeOK
    <3>6. line' \in [Buses -> Seq(Unit)]
      BY <3>1, <3>5 DEF TypeOK, Rs485TypeOK, function
    <3> QED BY <2>1, <3>1, <3>6 DEF Answer, TypeOK, Rs485TypeOK
  <2>2. CASE Ignore(b)
    BY <2>2 DEF Ignore, TypeOK, Rs485TypeOK
  <2>3. CASE Disturb(b)
    <3>1. Tail(line[b]) \in Seq(Unit)
      BY <2>3 DEF Disturb, TypeOK, Rs485TypeOK
    <3> QED BY <2>3, <3>1 DEF Disturb, TypeOK, Rs485TypeOK
  <2>4. CASE Receive(b)
    <3>1. Tail(line[b]) \in Seq(Unit) /\ Head(line[b]) \in Unit
      BY <2>4 DEF Receive, TypeOK, Rs485TypeOK
    <3> QED BY <2>4, <3>1 DEF Receive, TypeOK, Rs485TypeOK
  <2> QED BY <2>1, <2>2, <2>3, <2>4 DEF LineStep
<1> QED BY <1>1, <1>2 DEF TypeOK

(* The host task keeps the types.                                          *)
LEMMA HostStepType ==
  ASSUME TypeOK, HostStep
  PROVE  TypeOK'
<1> USE DEF TypeOK
<1> DEFINE config == [type |-> "config", bus |-> 0, seq |-> 0]
<1>config. ASSUME ConfigReply PROVE host_command_queue' \in Seq(Reply)
  <2>1. config \in Reply
    BY DEF Reply
  <2> QED BY <1>config, <2>1, EnqueueType DEF ConfigReply, BusTypeOK
<1>1. ASSUME NEW b \in Buses, HandleConfig(b) PROVE TypeOK'
  BY <1>1, <1>config
     DEF HandleConfig, Configured, BusTypeOK, HostTypeOK, Rs485TypeOK, JobOK,
         lineVars, dataVars
<1>2. CASE RefuseConfig
  BY <1>2, <1>config
     DEF RefuseConfig, BusTypeOK, HostTypeOK, Rs485TypeOK, JobOK, lineVars, dataVars,
         taskVars
<1>3. CASE HandleCommand
  <2>1. PICK c \in Commands :
          command_queue' = [command_queue EXCEPT ![c.bus] =
            Enqueue(@, [type |-> c.type, device |-> c.device, seq |-> next_seq])]
    BY <1>3 DEF HandleCommand
  <2> DEFINE command == [type |-> c.type, device |-> c.device, seq |-> next_seq]
  <2>2. c.bus \in Buses /\ command \in Command
    BY HostAssumption DEF HostTypeOK, Command
  <2>3. Enqueue(command_queue[c.bus], command) \in Seq(Command)
    BY <2>2, EnqueueType DEF BusTypeOK
  <2>4. command_queue' \in [Buses -> Seq(Command)]
    BY <2>1, <2>2, <2>3 DEF BusTypeOK
  <2> QED
    BY <1>3, <2>4
       DEF HandleCommand, BusTypeOK, HostTypeOK, Rs485TypeOK, JobOK, lineVars,
           dataVars, taskVars
<1>quiet. ASSUME UNCHANGED <<lineVars, taskVars, last_data, command_queue>>,
                 /\ DOMAIN missed' = Buses
                 /\ \A b \in Buses : missed'[b] \in [Entries(b) -> BOOLEAN],
                 host_change_queue' \in Seq(Change),
                 host_command_queue' \in Seq(Reply),
                 HostTypeOK'
          PROVE  TypeOK'
  BY <1>quiet DEF BusTypeOK, JobOK, Rs485TypeOK, lineVars, taskVars
<1>same. ASSUME UNCHANGED missed
         PROVE  /\ DOMAIN missed' = Buses
                /\ \A b \in Buses : missed'[b] \in [Entries(b) -> BOOLEAN]
  BY <1>same DEF BusTypeOK
<1>idle. ASSUME UNCHANGED <<busVars, next_seq, esp_data, esp_seq, lineVars>>,
                host_pc' \in {"poll", "change", "reply", "reset"}
         PROVE TypeOK'
  BY <1>idle, <1>quiet, <1>same DEF busVars, dataVars, BusTypeOK, HostTypeOK
<1>4. CASE PollNothing
  BY <1>4, <1>idle DEF PollNothing
<1>5. CASE NoChange
  BY <1>5, <1>idle DEF NoChange
<1>change. ASSUME TakeChange
           PROVE  /\ Head(host_change_queue) \in Change
                  /\ host_change_queue' \in Seq(Change)
                  /\ host_command_queue' \in Seq(Reply)
                  /\ UNCHANGED <<lineVars, taskVars, last_data, command_queue,
                                 next_seq, esp_seq>>
                  /\ host_pc' = "reply"
  BY <1>change DEF TakeChange, BusTypeOK
<1>6. CASE SendChange
  <2>1. Head(host_change_queue).data \in Word
    BY <1>6, <1>change DEF SendChange, Change
  <2>2. /\ DOMAIN esp_data' = Buses
        /\ \A b \in Buses : esp_data'[b] \in [Entries(b) -> Word]
    BY <1>6, <2>1 DEF SendChange, HostTypeOK
  <2>3. HostTypeOK'
    BY <1>6, <1>change, <2>2 DEF SendChange, HostTypeOK
  <2> QED BY <1>6, <1>change, <1>quiet, <1>same, <2>3 DEF SendChange
<1>7. CASE LoseChange
  <2>1. /\ DOMAIN missed' = Buses
        /\ \A b \in Buses : missed'[b] \in [Entries(b) -> BOOLEAN]
    BY <1>7 DEF LoseChange, BusTypeOK
  <2>2. HostTypeOK'
    BY <1>7, <1>change DEF LoseChange, HostTypeOK
  <2> QED BY <1>7, <1>change, <1>quiet, <2>1, <2>2 DEF LoseChange
<1>8. CASE NoReply
  BY <1>8, <1>idle DEF NoReply
<1>reply. ASSUME TakeReply, esp_seq' \in [Buses -> Nat] PROVE TypeOK'
  <2>1. host_command_queue' \in Seq(Reply)
    BY <1>reply DEF TakeReply, BusTypeOK
  <2>2. HostTypeOK'
    BY <1>reply DEF TakeReply, HostTypeOK
  <2> QED BY <1>reply, <1>quiet, <1>same, <2>1, <2>2
          DEF TakeReply, BusTypeOK, dataVars
<1>9. CASE SendReply
  <2>1. Head(host_command_queue) \in Reply
    BY <1>9 DEF SendReply, TakeReply, BusTypeOK
  <2>2. esp_seq' \in [Buses -> Nat]
    BY <1>9, <2>1 DEF SendReply, HostTypeOK, Reply
  <2> QED BY <1>9, <1>reply, <2>2 DEF SendReply
<1>10. CASE LoseReply
  BY <1>10, <1>reply DEF LoseReply, HostTypeOK
<1>11. CASE SendReady
  <2>1. /\ DOMAIN esp_data' = Buses
        /\ \A b \in Buses : esp_data'[b] \in [Entries(b) -> Word]
    BY <1>11 DEF SendReady, Word
  <2>2. HostTypeOK'
    BY <1>11, <2>1 DEF SendReady, HostTypeOK
  <2> QED BY <1>11, <1>quiet, <1>same, <2>2 DEF SendReady, BusTypeOK, busVars, dataVars
<1>12. CASE LoseReady
  <2>1. /\ DOMAIN missed' = Buses
        /\ \A b \in Buses : missed'[b] \in [Entries(b) -> BOOLEAN]
    BY <1>12 DEF LoseReady
  <2>2. HostTypeOK'
    BY <1>12 DEF LoseReady, HostTypeOK
  <2> QED BY <1>12, <1>quiet, <2>1, <2>2 DEF LoseReady, BusTypeOK
<1>13. CASE handle_m_pico_reset
  BY <1>13, <1>idle DEF handle_m_pico_reset
<1> QED
  BY <1>1, <1>2, <1>3, <1>4, <1>5, <1>6, <1>7, <1>8, <1>9, <1>10, <1>11, <1>12, <1>13
     DEF HostStep, min_application_handler

(* A reset keeps the types.                                                *)
LEMMA WatchdogType ==
  ASSUME TypeOK, Watchdog
  PROVE  TypeOK'
<1> USE DEF TypeOK
<1>1. Rs485TypeOK'
  <2>1. ASSUME NEW b \in Buses
        PROVE  AllLate(line[b]) \in Seq(Unit) /\ <<>> \in Seq(Unit)
    BY AllLateType DEF Rs485TypeOK
  <2>2. ASSUME NEW b \in Buses PROVE {Late(r) : r \in asked[b]} \in SUBSET Request
    <3>1. ASSUME NEW r \in Request PROVE Late(r) \in Request
      BY DEF Late, Request
    <3> QED BY <3>1 DEF Rs485TypeOK
  <2> QED BY <2>1, <2>2 DEF Watchdog, AbandonAll, Rs485TypeOK
<1>2. BusTypeOK'
  <2>1. job' \in [Buses -> Job] /\ parser' \in [Buses -> Parser]
    BY NoJobType, WaitSlaveType DEF Watchdog, BusReset
  <2>2. \A b \in Buses : JobOK(b)'
    BY DEF Watchdog, BusReset, JobOK, NoJob
  <2>3. \A b \in Buses : idx'[b] <= Len(Reads[b]) + 1
    BY BusAssumption DEF Watchdog, BusReset
  <2>4. /\ DOMAIN last_data' = Buses
        /\ \A b \in Buses : last_data'[b] \in [Entries(b) -> Word]
        /\ DOMAIN missed' = Buses
        /\ \A b \in Buses : missed'[b] \in [Entries(b) -> BOOLEAN]
    BY DEF Watchdog, BusReset, Word
  <2> QED BY <2>1, <2>2, <2>3, <2>4 DEF Watchdog, BusReset, BusTypeOK
<1>3. HostTypeOK'
  BY DEF Watchdog, HostTypeOK
<1> QED BY <1>1, <1>2, <1>3

(* Type correctness, with the coherence of a task and its transaction.     *)
LEMMA TypeInit == Init => TypeOK
<1> SUFFICES ASSUME Init PROVE TypeOK
  OBVIOUS
<1>1. Rs485TypeOK
  BY DEF Init, Rs485Init, Rs485TypeOK
<1>2. BusTypeOK
  <2>1. job \in [Buses -> Job] /\ parser \in [Buses -> Parser]
    BY NoJobType, WaitSlaveType DEF Init, BusInit
  <2>2. \A b \in Buses : JobOK(b)
    BY DEF Init, BusInit, JobOK, NoJob
  <2>3. \A b \in Buses : idx[b] <= Len(Reads[b]) + 1
    BY BusAssumption DEF Init, BusInit
  <2>4. /\ DOMAIN last_data = Buses
        /\ \A b \in Buses : last_data[b] \in [Entries(b) -> Word]
        /\ DOMAIN missed = Buses
        /\ \A b \in Buses : missed[b] \in [Entries(b) -> BOOLEAN]
    BY DEF Init, BusInit, Word
  <2> QED BY <2>1, <2>2, <2>3, <2>4 DEF Init, BusInit, BusTypeOK
<1>3. HostTypeOK
  BY DEF Init, HostInit, HostTypeOK, Word
<1> QED BY <1>1, <1>2, <1>3 DEF TypeOK

(* Every step keeps the types.                                             *)
LEMMA TypeNext == TypeOK /\ [Next]_vars => TypeOK'
<1> SUFFICES ASSUME TypeOK, [Next]_vars PROVE TypeOK'
  OBVIOUS
<1>1. CASE HostStep
  BY <1>1, HostStepType
<1>2. ASSUME NEW b \in Buses, BusStep(b), UNCHANGED hostVars PROVE TypeOK'
  BY <1>2, BusStepType
<1>3. ASSUME NEW b \in Buses, LineStep(b), UNCHANGED <<busVars, hostVars>>
      PROVE TypeOK'
  BY <1>3, LineStepType
<1>4. CASE UNCHANGED vars
  BY <1>4 DEF TypeOK, Rs485TypeOK, BusTypeOK, HostTypeOK, JobOK, vars, lineVars,
              busVars, taskVars, dataVars, hostVars
<1>5. CASE Watchdog
  BY <1>5, WatchdogType
<1> QED BY <1>1, <1>2, <1>3, <1>4, <1>5 DEF Next

(* Every variable always has a value of its type, whatever the buses,      *)
(* their configuration and the queue length (bus.c, host.c).               *)
THEOREM TypeCorrect == Spec => []TypeOK
  BY TypeInit, TypeNext, PTL DEF Spec

(***************************************************************************)
(* A quiet line.  The invariant says why the answer is fresh: in such a    *)
(* transaction there is nothing but fresh answers to be had.               *)
(***************************************************************************)
AllFresh(units) == \A k \in 1 .. Len(units) : units[k].fresh
QuietLine(b) ==
  clean[b] =>
    /\ task[b] = "send" \/ task[b] = "receive"
    /\ task[b] = "send" => asked[b] = {} /\ line[b] = <<>> /\ rx_buffer[b] = <<>>
    /\ \A r \in asked[b] : r.fresh
    /\ AllFresh(line[b]) /\ AllFresh(rx_buffer[b])
QuietLines == \A b \in Buses : QuietLine(b)

(* Two runs of answers to the request in hand are one such run.            *)
LEMMA ConcatFresh ==
  ASSUME NEW s \in Seq(Unit), NEW t \in Seq(Unit), AllFresh(s), AllFresh(t)
  PROVE  AllFresh(s \o t)
<1> SUFFICES ASSUME NEW k \in 1 .. Len(s \o t) PROVE (s \o t)[k].fresh
  BY DEF AllFresh
<1>1. CASE k <= Len(s)
  BY <1>1 DEF AllFresh
<1>2. CASE k > Len(s)
  <2>1. (s \o t)[k] = t[k - Len(s)] /\ k - Len(s) \in 1 .. Len(t)
    BY <1>2
  <2> QED BY <2>1 DEF AllFresh
<1> QED BY <1>1, <1>2

(* What happens on a bus leaves the other ones alone.                      *)
LEMMA OtherBus ==
  ASSUME TypeOK, NEW b \in Buses, NEW c \in Buses, c # b,
         \/ BusStep(b) /\ UNCHANGED hostVars
         \/ LineStep(b) /\ UNCHANGED <<busVars, hostVars>>
  PROVE  /\ task'[c] = task[c] /\ job'[c] = job[c] /\ clean'[c] = clean[c]
         /\ asked'[c] = asked[c] /\ line'[c] = line[c]
         /\ rx_buffer'[c] = rx_buffer[c] /\ command_queue'[c] = command_queue[c]
<1> USE DEF TypeOK, Rs485TypeOK, BusTypeOK
<1>1. CASE LineStep(b) /\ UNCHANGED <<busVars, hostVars>>
  BY <1>1 DEF LineStep, Answer, Ignore, Disturb, Receive, busVars, taskVars
<1>2. CASE StartTask(b) \/ SkipPeriodic(b) \/ DropCommand(b) \/ NoCommand(b)
  BY <1>2 DEF StartTask, SkipPeriodic, DropCommand, NoCommand, lineVars
<1>3. CASE BeginPeriodic(b) \/ BeginCommand(b)
  BY <1>3 DEF BeginPeriodic, BeginCommand, Begin, Flush
<1>4. CASE WriteFrame(b)
  BY <1>4 DEF WriteFrame, SendRequest
<1>5. CASE ReadHead(b) \/ ReadAstray(b)
  BY <1>5 DEF ReadHead, ReadAstray, KeepReading
<1>6. ASSUME NEW unread, Finish(b, unread) PROVE
         /\ task'[c] = task[c] /\ job'[c] = job[c] /\ clean'[c] = clean[c]
         /\ asked'[c] = asked[c] /\ line'[c] = line[c]
         /\ rx_buffer'[c] = rx_buffer[c] /\ command_queue'[c] = command_queue[c]
  BY <1>6 DEF Finish, Abandon
<1>7. CASE ReadPeriodicAnswer(b) \/ ReadCommandAnswer(b) \/ ReadOtherFunction(b)
             \/ ReadError(b) \/ Timeout(b)
  BY <1>6, <1>7
     DEF ReadPeriodicAnswer, ReadCommandAnswer, ReadOtherFunction, ReadError, Timeout
<1> QED BY <1>1, <1>2, <1>3, <1>4, <1>5, <1>7 DEF BusStep

(* No step puts an old answer on a quiet line.                             *)
LEMMA QuietNext ==
  ASSUME TypeOK, QuietLines, [Next]_vars
  PROVE  QuietLines'
<1> SUFFICES ASSUME NEW c \in Buses PROVE QuietLine(c)'
  BY DEF QuietLines
<1> USE DEF QuietLines, QuietLine, AllFresh, TypeOK, BusTypeOK, Rs485TypeOK
<1>1. CASE HostStep
  <2>1. UNCHANGED <<lineVars, clean>> /\ (task'[c] # task[c] => task[c] = "none")
    BY <1>1 DEF HostStep, min_application_handler, HandleConfig, Configured,
                RefuseConfig, HandleCommand, handle_m_pico_reset, SendReady, LoseReady,
                PollNothing, NoChange, SendChange, LoseChange, TakeChange, NoReply,
                SendReply, LoseReply, TakeReply, busVars, taskVars
  <2> QED BY <2>1 DEF lineVars
<1>2. ASSUME NEW b \in Buses, BusStep(b), UNCHANGED hostVars PROVE QuietLine(c)'
  <2>1. CASE c # b
    BY <1>2, <2>1, OtherBus
  <2>2. CASE c = b
    <3>1. CASE StartTask(b) \/ SkipPeriodic(b) \/ DropCommand(b) \/ NoCommand(b)
      BY <2>2, <3>1 DEF StartTask, SkipPeriodic, DropCommand, NoCommand,
                        PastLastEntry, lineVars
    <3>2. CASE BeginPeriodic(b) \/ BeginCommand(b)
      <4>1. task'[b] = "send" /\ Flush(b)
        BY <3>2 DEF BeginPeriodic, BeginCommand, Begin
      <4>2. /\ rx_buffer'[b] = <<>> /\ asked'[b] = asked[b] /\ line'[b] = line[b]
            /\ clean'[b] = Quiet(b)
        BY <4>1 DEF Flush
      <4>3. clean'[b] => asked'[b] = {} /\ line'[b] = <<>>
        BY <4>2 DEF Quiet
      <4>4. AllFresh(<<>>)
        OBVIOUS
      <4> HIDE DEF AllFresh
      <4> QED BY <2>2, <4>1, <4>2, <4>3, <4>4
    <3>3. CASE WriteFrame(b)
      <4>1. PICK kept \in SUBSET asked[b] :
              asked' = [asked EXCEPT ![b] =
                kept \cup {[device |-> job[b].device, fresh |-> TRUE]}]
        BY <3>3 DEF WriteFrame, SendRequest
      <4>2. clean[b] => \A r \in asked'[b] : r.fresh
        BY <4>1
      <4> QED BY <2>2, <3>3, <4>2 DEF WriteFrame
    <3>4. CASE ReadHead(b) \/ ReadAstray(b)
      <4>1. /\ HasUnit(b)
            /\ rx_buffer' = [rx_buffer EXCEPT ![b] = Tail(@)]
            /\ UNCHANGED <<asked, line, task, clean>>
        BY <3>4 DEF ReadHead, ReadAstray, KeepReading
      <4>2. rx_buffer[b] # <<>> /\ task[b] = "receive"
        BY <4>1 DEF HasUnit
      <4>3. AllFresh(rx_buffer[b]) => AllFresh(Tail(rx_buffer[b]))
        BY <4>2
      <4>4. rx_buffer'[b] = Tail(rx_buffer[b])
        BY <4>1
      <4> HIDE DEF AllFresh
      <4> QED BY <2>2, <4>1, <4>2, <4>3, <4>4
    <3>5. ASSUME NEW unread, Finish(b, unread) PROVE QuietLine(b)'
      BY <3>5 DEF Finish
    <3>6. CASE ReadPeriodicAnswer(b) \/ ReadCommandAnswer(b) \/ ReadOtherFunction(b)
                 \/ ReadError(b) \/ Timeout(b)
      BY <2>2, <3>5, <3>6 DEF ReadPeriodicAnswer, ReadCommandAnswer,
                              ReadOtherFunction, ReadError, Timeout
    <3> QED BY <1>2, <3>1, <3>2, <3>3, <3>4, <3>6 DEF BusStep
  <2> QED BY <2>1, <2>2
<1>3. ASSUME NEW b \in Buses, LineStep(b), UNCHANGED <<busVars, hostVars>>
      PROVE QuietLine(c)'
  <2>1. CASE c # b
    BY <1>3, <2>1, OtherBus
  <2>2. CASE c = b
    <3>0. UNCHANGED <<clean, task>>
      BY <1>3 DEF busVars, taskVars
    <3>1. CASE Answer(b)
      <4>1. ASSUME clean[b] PROVE AllFresh(line'[b])
        <5>1. PICK request \in asked[b], data \in Answers, exception \in BOOLEAN :
                LET function == IF exception THEN "exception"
                                ELSE request.device.function
                IN  line' = [line EXCEPT ![b] = @ \o
                      ReplyUnits(request.device, function, data, request.fresh)]
          BY <3>1 DEF Answer
        <5> DEFINE function == IF exception THEN "exception" ELSE request.device.function
                   units == ReplyUnits(request.device, function, data, request.fresh)
        <5>2. request.fresh
          BY <4>1
        <5>3. Len(units) = 2 /\ units[1].fresh /\ units[2].fresh
          BY <5>2 DEF ReplyUnits
        <5>4. units \in Seq(Unit)
          <6>1. request \in Request /\ data \in FrameData
            BY ModbusAssumption
          <6>2. request.device \in Device /\ request.fresh \in BOOLEAN
                /\ function \in Functions \cup {"exception"}
            BY <6>1 DEF Request, Device
          <6> QED BY <6>1, <6>2, ReplyUnitsType
        <5>5. line'[b] = line[b] \o units
          BY <5>1
        <5> HIDE DEF units
        <5>6. AllFresh(line[b]) /\ AllFresh(units)
          BY <4>1, <5>3
        <5>7. line[b] \in Seq(Unit)
          OBVIOUS
        <5> QED BY <5>4, <5>5, <5>6, <5>7, ConcatFresh
      <4> QED BY <2>2, <3>0, <3>1, <4>1 DEF Answer
    <3>2. CASE Ignore(b)
      BY <2>2, <3>0, <3>2 DEF Ignore
    <3>3. CASE Disturb(b)
      BY <2>2, <3>0, <3>3 DEF Disturb
    <3>4. CASE Receive(b)
      BY <2>2, <3>0, <3>4 DEF Receive
    <3> QED BY <1>3, <3>1, <3>2, <3>3, <3>4 DEF LineStep
  <2> QED BY <2>1, <2>2
<1>4. CASE UNCHANGED vars
  BY <1>4 DEF vars, lineVars, busVars, taskVars
<1>5. CASE Watchdog
  BY <1>5 DEF Watchdog, BusReset
<1> QED BY <1>1, <1>2, <1>3, <1>4, <1>5 DEF Next

(* On a line that is quiet when its receive buffer is flushed, a           *)
(* transaction takes nothing for its answer but the answer to its own      *)
(* request (bus.c:32-77), on every bus and for every slave behaviour.      *)
THEOREM QuietLineCorrect == Spec => []QuietLineAnswersFresh
<1>1. Init => QuietLines
  BY DEF Init, BusInit, QuietLines, QuietLine
<1>2. ASSUME TypeOK, QuietLines PROVE QuietLineAnswersFresh
  <2> SUFFICES ASSUME NEW b \in Buses, clean[b], TakesAnswer(b)
               PROVE  Head(rx_buffer[b]).fresh
    BY DEF QuietLineAnswersFresh
  <2>1. rx_buffer[b] \in Seq(Unit) /\ rx_buffer[b] # <<>>
    BY <1>2 DEF TypeOK, Rs485TypeOK, TakesAnswer, HasUnit
  <2>2. AllFresh(rx_buffer[b])
    BY <1>2 DEF QuietLines, QuietLine
  <2>3. 1 \in 1 .. Len(rx_buffer[b]) /\ Head(rx_buffer[b]) = rx_buffer[b][1]
    BY <2>1
  <2> QED BY <2>2, <2>3 DEF AllFresh
<1> QED BY <1>1, <1>2, QuietNext, TypeCorrect, PTL DEF Spec

(***************************************************************************)
(* The order of replies.  The invariant adds that the ESP numbers its      *)
(* commands upwards: whatever is in the gateway was issued before.         *)
(***************************************************************************)
Issued(b) ==
  /\ esp_seq[b] < next_seq
  /\ \A k \in Replies(b) : host_command_queue[k].seq < next_seq
  /\ InHand(b) => job[b].seq < next_seq
  /\ \A n \in 1 .. Len(command_queue[b]) : command_queue[b][n].seq < next_seq
Ordered(b) == InOrder(b) /\ Issued(b)
AllOrdered == \A b \in Buses : Ordered(b)

(* The numbers the types give the comparisons.                             *)
LEMMA SeqNumbers ==
  ASSUME TypeOK, NEW b \in Buses
  PROVE  /\ esp_seq[b] \in Nat /\ job[b].seq \in Nat /\ next_seq \in Nat
         /\ \A k \in 1 .. Len(host_command_queue) :
              host_command_queue[k].seq \in Nat
         /\ \A n \in 1 .. Len(command_queue[b]) : command_queue[b][n].seq \in Nat
         /\ host_command_queue \in Seq(Reply)
         /\ command_queue[b] \in Seq(Command)
<1>1. job[b] \in Job /\ host_command_queue \in Seq(Reply)
      /\ command_queue[b] \in Seq(Command)
  BY DEF TypeOK, BusTypeOK
<1>2. \A k \in 1 .. Len(host_command_queue) : host_command_queue[k] \in Reply
  BY <1>1
<1>3. \A n \in 1 .. Len(command_queue[b]) : command_queue[b][n] \in Command
  BY <1>1
<1> QED BY <1>1, <1>2, <1>3 DEF TypeOK, HostTypeOK, Job, Reply, Command

(* Nothing that concerns the bus changes.                                  *)
LEMMA OrderedSame ==
  ASSUME NEW c \in Buses, Ordered(c),
         esp_seq'[c] = esp_seq[c], job'[c] = job[c], next_seq' = next_seq,
         command_queue'[c] = command_queue[c],
         host_command_queue' = host_command_queue
  PROVE  Ordered(c)'
  BY DEF Ordered, InOrder, Issued, Replies, InHand

(* A reply that is not the bus's is queued, or finds the queue full.       *)
LEMMA OrderedOtherReply ==
  ASSUME TypeOK, NEW c \in Buses, Ordered(c), NEW reply \in Reply,
         host_command_queue' = Enqueue(host_command_queue, reply),
         reply.type = "config" \/ reply.bus # c,
         esp_seq'[c] = esp_seq[c], job'[c] = job[c], next_seq' = next_seq,
         command_queue'[c] = command_queue[c]
  PROVE  Ordered(c)'
<1> DEFINE q == host_command_queue
<1>1. q \in Seq(Reply)
  BY SeqNumbers
<1>2. CASE Full(q)
  BY <1>2, OrderedSame DEF Enqueue
<1>3. CASE ~ Full(q)
  <2>1. q' = Append(q, reply)
    BY <1>3 DEF Enqueue
  <2>2. /\ Len(q') = Len(q) + 1 /\ q'[Len(q) + 1] = reply
        /\ \A k \in 1 .. Len(q) : q'[k] = q[k]
    BY <1>1, <2>1
  <2>3. Replies(c)' = Replies(c)
    BY <1>1, <2>2 DEF Replies
  <2>4. \A k \in Replies(c) : q'[k] = q[k]
    BY <2>2 DEF Replies
  <2> QED BY <2>3, <2>4 DEF Ordered, InOrder, Issued, InHand
<1> QED BY <1>2, <1>3

(* The reply to the command in hand is queued, or finds the queue full.    *)
LEMMA OrderedOwnReply ==
  ASSUME TypeOK, NEW c \in Buses, Ordered(c), NEW reply \in Reply, InHand(c),
         host_command_queue' = Enqueue(host_command_queue, reply),
         reply.seq = job[c].seq, job'[c].type = "none",
         esp_seq'[c] = esp_seq[c], next_seq' = next_seq,
         command_queue'[c] = command_queue[c]
  PROVE  Ordered(c)'
<1> DEFINE q == host_command_queue
<1>1. q \in Seq(Reply)
  BY SeqNumbers
<1>2. CASE Full(q)
  BY <1>2 DEF Enqueue, Ordered, InOrder, Issued, Replies, InHand
<1>3. CASE ~ Full(q)
  <2>1. q' = Append(q, reply)
    BY <1>3 DEF Enqueue
  <2>2. /\ Len(q') = Len(q) + 1 /\ q'[Len(q) + 1] = reply
        /\ \A k \in 1 .. Len(q) : q'[k] = q[k]
    BY <1>1, <2>1
  <2>3. \A k \in Replies(c)' :
          k \in 1 .. Len(q) + 1 /\ (k \in Replies(c) \/ k = Len(q) + 1)
    BY <1>1, <2>2 DEF Replies
  <2>4. \A k \in Replies(c) : q'[k] = q[k] /\ k \in 1 .. Len(q)
    BY <2>2 DEF Replies
  <2>5. \A k \in Replies(c) : k < Len(q) + 1
    BY <1>1 DEF Replies
  <2>6. ~ InHand(c)'
    BY DEF InHand
  <2>7. ASSUME NEW k \in Replies(c)'
        PROVE  /\ esp_seq[c] < q'[k].seq /\ q'[k].seq < next_seq
               /\ \A n \in 1 .. Len(command_queue[c]) :
                    q'[k].seq < command_queue[c][n].seq
    <3>1. CASE k \in Replies(c)
      BY <2>4, <3>1 DEF Ordered, InOrder, Issued
    <3>2. CASE k = Len(q) + 1
      BY <2>2, <3>2 DEF Ordered, InOrder, Issued
    <3> QED BY <2>3, <3>1, <3>2
  <2>8. ASSUME NEW k \in Replies(c)', NEW n \in Replies(c)', k < n
        PROVE  q'[k].seq < q'[n].seq
    <3>1. k \in Replies(c)
      BY <1>1, <2>3, <2>5, <2>8
    <3>2. CASE n \in Replies(c)
      BY <2>4, <2>8, <3>1, <3>2 DEF Ordered, InOrder
    <3>3. CASE n = Len(q) + 1
      BY <2>2, <2>4, <3>1, <3>3 DEF Ordered, InOrder
    <3> QED BY <2>3, <3>2, <3>3
  <2> QED BY <2>6, <2>7, <2>8 DEF Ordered, InOrder, Issued
<1> QED BY <1>2, <1>3

(* The next command is taken: it is in hand, or dropped.                   *)
LEMMA OrderedTail ==
  ASSUME TypeOK, NEW c \in Buses, Ordered(c),
         command_queue[c] # <<>>, command_queue'[c] = Tail(command_queue[c]),
         InHand(c)' => job'[c].seq = Head(command_queue[c]).seq,
         host_command_queue' = host_command_queue,
         esp_seq'[c] = esp_seq[c], next_seq' = next_seq
  PROVE  Ordered(c)'
<1> DEFINE q == command_queue[c]
<1>1. /\ Len(q') = Len(q) - 1 /\ 1 \in 1 .. Len(q) /\ Head(q) = q[1]
      /\ \A n \in 1 .. Len(q') :
           q'[n] = q[n + 1] /\ n + 1 \in 1 .. Len(q) /\ 1 < n + 1
  BY SeqNumbers
<1>2. Replies(c)' = Replies(c)
  BY DEF Replies
<1>3. \A k \in Replies(c) : host_command_queue'[k] = host_command_queue[k]
  OBVIOUS
<1>4. InOrder(c)'
  BY <1>1, <1>2, <1>3 DEF Ordered, InOrder
<1>5. Issued(c)'
  BY <1>1, <1>2, <1>3 DEF Ordered, Issued
<1> QED BY <1>4, <1>5 DEF Ordered

(* No step puts a reply out of the order of the commands.                  *)
LEMMA OrderedNext ==
  ASSUME TypeOK, AllOrdered, [Next]_vars
  PROVE  AllOrdered'
<1> SUFFICES ASSUME NEW c \in Buses PROVE Ordered(c)'
  BY DEF AllOrdered
<1>c. Ordered(c)
  BY DEF AllOrdered
<1>1. CASE HostStep
  <2>1. ASSUME ConfigReply, UNCHANGED <<job, command_queue, next_seq, esp_seq>>
        PROVE  Ordered(c)'
    <3>1. [type |-> "config", bus |-> 0, seq |-> 0] \in Reply
      BY DEF Reply
    <3> QED BY <1>c, <2>1, <3>1, OrderedOtherReply DEF ConfigReply
  <2>2. ASSUME NEW b \in Buses, HandleConfig(b) PROVE Ordered(c)'
    BY <2>1, <2>2 DEF HandleConfig
  <2>3. CASE RefuseConfig
    BY <2>1, <2>3 DEF RefuseConfig, taskVars
  <2>4. CASE HandleCommand
    <3>1. PICK d \in Commands :
            command_queue' = [command_queue EXCEPT ![d.bus] =
              Enqueue(@, [type |-> d.type, device |-> d.device, seq |-> next_seq])]
      BY <2>4 DEF HandleCommand
    <3> DEFINE command == [type |-> d.type, device |-> d.device, seq |-> next_seq]
    <3>2. /\ next_seq' = next_seq + 1
          /\ UNCHANGED <<job, host_command_queue, esp_seq>>
      BY <2>4 DEF HandleCommand, taskVars
    <3>3. \/ command_queue'[c] = command_queue[c]
          \/ command_queue'[c] = Append(command_queue[c], command)
      BY <3>1 DEF Enqueue, TypeOK, BusTypeOK
    <3>4. command_queue'[c] = command_queue[c] => Ordered(c)'
      BY <1>c, <3>2, SeqNumbers DEF Ordered, InOrder, Issued, Replies, InHand
    <3>5. ASSUME command_queue'[c] = Append(command_queue[c], command)
          PROVE  Ordered(c)'
      <4>1. /\ Len(command_queue'[c]) = Len(command_queue[c]) + 1
            /\ command_queue'[c][Len(command_queue[c]) + 1].seq = next_seq
            /\ \A n \in 1 .. Len(command_queue[c]) :
                 command_queue'[c][n] = command_queue[c][n]
        BY <3>5, SeqNumbers
      <4>2. Replies(c)' = Replies(c)
        BY <3>2 DEF Replies
      <4>3. \A k \in Replies(c) : k \in 1 .. Len(host_command_queue)
        BY DEF Replies
      <4>4. \A n \in 1 .. Len(command_queue'[c]) :
              \/ /\ n \in 1 .. Len(command_queue[c])
                 /\ command_queue'[c][n] = command_queue[c][n]
              \/ /\ n = Len(command_queue[c]) + 1
                 /\ command_queue'[c][n].seq = next_seq
        BY <4>1, SeqNumbers
      <4>5. ASSUME NEW n \in 1 .. Len(command_queue'[c])
            PROVE  /\ esp_seq'[c] < command_queue'[c][n].seq
                   /\ InHand(c) => job[c].seq < command_queue'[c][n].seq
                   /\ \A k \in Replies(c) :
                        host_command_queue[k].seq < command_queue'[c][n].seq
                   /\ command_queue'[c][n].seq < next_seq'
        <5>1. CASE n \in 1 .. Len(command_queue[c])
          <6>1. command_queue'[c][n] = command_queue[c][n]
            BY <4>1, <5>1
          <6>2. command_queue[c][n].seq < next_seq'
            BY <1>c, <3>2, <5>1, SeqNumbers DEF Ordered, Issued
          <6> QED BY <1>c, <3>2, <5>1, <6>1, <6>2 DEF Ordered, InOrder
        <5>2. CASE n = Len(command_queue[c]) + 1
          BY <1>c, <3>2, <4>1, <5>2, SeqNumbers DEF Ordered, Issued
        <5> QED BY <4>4, <5>1, <5>2
      <4>6. ASSUME NEW n \in 1 .. Len(command_queue'[c]),
                   NEW m \in 1 .. Len(command_queue'[c]), n < m
            PROVE  command_queue'[c][n].seq < command_queue'[c][m].seq
        <5>1. n \in 1 .. Len(command_queue[c])
          BY <4>1, <4>6, SeqNumbers
        <5> QED BY <1>c, <4>1, <4>4, <4>6, <5>1, SeqNumbers
                DEF Ordered, InOrder, Issued
      <4>7. InHand(c)' = InHand(c) /\ job' = job
        BY <3>2 DEF InHand
      <4>8. /\ esp_seq'[c] < next_seq' /\ (InHand(c) => job[c].seq < next_seq')
            /\ \A k \in Replies(c) : host_command_queue[k].seq < next_seq'
        BY <1>c, <3>2, <4>3, SeqNumbers DEF Ordered, Issued
      <4> QED BY <1>c, <3>2, <4>2, <4>5, <4>6, <4>7, <4>8
              DEF Ordered, InOrder, Issued
    <3> QED BY <3>3, <3>4, <3>5
  <2>5. CASE \/ PollNothing \/ NoChange \/ SendChange \/ LoseChange \/ NoReply
             \/ SendReady \/ LoseReady \/ handle_m_pico_reset
    BY <1>c, <2>5, OrderedSame
       DEF PollNothing, NoChange, SendChange, LoseChange, TakeChange, NoReply,
           SendReady, LoseReady, handle_m_pico_reset, busVars, taskVars
  <2>6. CASE SendReply \/ LoseReply
    <3> DEFINE q == host_command_queue
    <3>1. /\ q # <<>> /\ q' = Tail(q)
          /\ UNCHANGED <<job, command_queue, next_seq>>
      BY <2>6 DEF SendReply, LoseReply, TakeReply, taskVars
    <3>2. /\ Len(q') = Len(q) - 1 /\ 1 \in 1 .. Len(q) /\ Head(q) = q[1]
          /\ \A k \in 1 .. Len(q') : q'[k] = q[k + 1] /\ k + 1 \in 1 .. Len(q)
      BY <3>1, SeqNumbers
    <3>3. \A k \in Replies(c)' : k + 1 \in Replies(c) /\ q'[k] = q[k + 1] /\ k \in Nat
                                /\ 1 < k + 1
      BY <3>2 DEF Replies
    <3>4. \/ esp_seq'[c] = esp_seq[c]
          \/ 1 \in Replies(c) /\ esp_seq'[c] = q[1].seq
      BY <2>6, <3>2 DEF SendReply, LoseReply, Replies, TypeOK, HostTypeOK
    <3>5. /\ esp_seq'[c] < next_seq
          /\ InHand(c) => esp_seq'[c] < job[c].seq
          /\ \A n \in 1 .. Len(command_queue[c]) : esp_seq'[c] < command_queue[c][n].seq
          /\ \A k \in Replies(c)' : esp_seq'[c] < q'[k].seq
      BY <1>c, <3>3, <3>4 DEF Ordered, InOrder, Issued
    <3>6. ASSUME NEW k \in Replies(c)', NEW n \in Replies(c)', k < n
          PROVE  q'[k].seq < q'[n].seq
      BY <1>c, <3>3, <3>6 DEF Ordered, InOrder
    <3>7. \A k \in Replies(c)' :
            /\ q'[k].seq < next_seq
            /\ InHand(c) => q'[k].seq < job[c].seq
            /\ \A n \in 1 .. Len(command_queue[c]) :
                 q'[k].seq < command_queue[c][n].seq
      BY <1>c, <3>3 DEF Ordered, InOrder, Issued
    <3> QED BY <1>c, <3>1, <3>5, <3>6, <3>7 DEF Ordered, InOrder, Issued, InHand
  <2> QED BY <1>1, <2>2, <2>3, <2>4, <2>5, <2>6 DEF HostStep, min_application_handler
<1>2. ASSUME NEW b \in Buses, BusStep(b), UNCHANGED hostVars PROVE Ordered(c)'
  <2>0. next_seq' = next_seq /\ esp_seq' = esp_seq
    BY <1>2 DEF hostVars
  <2>1. CASE StartTask(b) \/ SkipPeriodic(b) \/ NoCommand(b) \/ WriteFrame(b)
             \/ ReadHead(b) \/ ReadAstray(b)
    BY <1>c, <2>0, <2>1, OrderedSame
       DEF StartTask, SkipPeriodic, NoCommand, WriteFrame, ReadHead, ReadAstray,
           KeepReading
  <2>2. CASE BeginPeriodic(b)
    <3>1. job'[c] = job[c] \/ (job'[c].type = "periodic" /\ c = b)
      BY <2>2 DEF BeginPeriodic, Begin, TypeOK, BusTypeOK
    <3> QED BY <1>c, <2>0, <2>2, <3>1
            DEF BeginPeriodic, Ordered, InOrder, Issued, Replies, InHand
  <2>3. CASE BeginCommand(b)
    <3>1. CASE c # b
      BY <1>2, <1>c, <2>0, <2>3, <3>1, OtherBus, OrderedSame DEF BeginCommand
    <3>2. CASE c = b
      <4>1. /\ command_queue[c] # <<>> /\ command_queue'[c] = Tail(command_queue[c])
            /\ job'[c].seq = Head(command_queue[c]).seq
            /\ host_command_queue' = host_command_queue
        BY <2>3, <3>2 DEF BeginCommand, Begin, TypeOK, BusTypeOK
      <4> QED BY <1>c, <2>0, <4>1, OrderedTail
    <3> QED BY <3>1, <3>2
  <2>4. CASE DropCommand(b)
    <3>1. CASE c # b
      BY <1>2, <1>c, <2>0, <2>4, <3>1, OtherBus, OrderedSame DEF DropCommand
    <3>2. CASE c = b
      <4>1. /\ command_queue[c] # <<>> /\ command_queue'[c] = Tail(command_queue[c])
            /\ job'[c] = job[c] /\ ~ InHand(c)
            /\ host_command_queue' = host_command_queue
        BY <2>4, <3>2
           DEF DropCommand, PastLastEntry, InHand, TypeOK, BusTypeOK, JobOK
      <4> QED BY <1>c, <2>0, <4>1, OrderedTail DEF InHand
    <3> QED BY <3>1, <3>2
  <2>5. ASSUME NEW unread, Finish(b, unread), task[b] = "receive" PROVE Ordered(c)'
    <3> DEFINE reply == [type |-> job[b].type, bus |-> b, seq |-> job[b].seq]
    <3>1. /\ command_queue' = command_queue /\ job'[b].type = "none"
          /\ c # b => job'[c] = job[c]
      BY <2>5 DEF Finish, NoJob, TypeOK, BusTypeOK
    <3>2. job[b] \in Job /\ job[b].type # "none"
      BY <2>5 DEF TypeOK, BusTypeOK, JobOK
    <3>3. CASE job[b].type = "periodic"
      <4>1. host_command_queue' = host_command_queue
        BY <2>5, <3>3 DEF Finish
      <4> QED BY <1>c, <2>0, <3>1, <3>3, <4>1
              DEF Ordered, InOrder, Issued, Replies, InHand
    <3>4. CASE job[b].type # "periodic"
      <4>1. reply \in Reply
        BY <3>2, <3>4 DEF Job, Reply
      <4>2. host_command_queue' = Enqueue(host_command_queue, reply)
        BY <2>5, <3>4 DEF Finish
      <4>3. CASE c # b
        BY <1>c, <2>0, <3>1, <4>1, <4>2, <4>3, OrderedOtherReply
      <4>4. CASE c = b
        <5>1. InHand(c)
          BY <3>2, <3>4, <4>4 DEF InHand, Job
        <5> QED BY <1>c, <2>0, <3>1, <4>1, <4>2, <4>4, <5>1, OrderedOwnReply
      <4> QED BY <4>3, <4>4
    <3> QED BY <3>3, <3>4
  <2>6. CASE ReadPeriodicAnswer(b) \/ ReadCommandAnswer(b) \/ ReadOtherFunction(b)
             \/ ReadError(b) \/ Timeout(b)
    BY <2>5, <2>6
       DEF ReadPeriodicAnswer, ReadCommandAnswer, ReadOtherFunction, ReadError,
           Timeout, TakesAnswer, HasUnit
  <2> QED BY <1>2, <2>1, <2>2, <2>3, <2>4, <2>6 DEF BusStep
<1>3. ASSUME NEW b \in Buses, LineStep(b), UNCHANGED <<busVars, hostVars>>
      PROVE Ordered(c)'
  BY <1>c, <1>3, OrderedSame DEF busVars, taskVars, hostVars
<1>4. CASE UNCHANGED vars
  BY <1>c, <1>4, OrderedSame DEF vars, busVars, taskVars, hostVars
<1>5. CASE Watchdog
  <2>1. /\ host_command_queue' = <<>> /\ command_queue'[c] = <<>>
        /\ ~ InHand(c)' /\ UNCHANGED <<next_seq, esp_seq>>
    BY <1>5 DEF Watchdog, BusReset, InHand, NoJob
  <2>2. Replies(c)' = {}
    BY <2>1 DEF Replies
  <2> QED BY <1>c, <2>1, <2>2 DEF Ordered, InOrder, Issued
<1> QED BY <1>1, <1>2, <1>3, <1>4, <1>5 DEF Next

(* The replies of a bus reach the ESP in the order of its commands and     *)
(* none twice, with any number of buses sharing the host's queue           *)
(* (bus.c:157-257, host.c:85-88 and 161-185).                              *)
THEOREM RepliesCorrect == Spec => []RepliesInOrder
<1>1. Init => AllOrdered
  BY DEF Init, BusInit, HostInit, NoJob, AllOrdered, Ordered, InOrder, Issued,
         Replies, InHand
<1>2. AllOrdered => RepliesInOrder
  BY DEF AllOrdered, Ordered, RepliesInOrder
<1> QED BY <1>1, <1>2, OrderedNext, TypeCorrect, PTL DEF Spec

(***************************************************************************)
(* The promise of CommandService: what each step does to the commands that *)
(* wait for an answer.                                                     *)
(***************************************************************************)

(* The command that is taken from its queue.                               *)
LEMMA ToDoTail ==
  ASSUME TypeOK, NEW c \in Buses,
         command_queue[c] # <<>>, command_queue'[c] = Tail(command_queue[c])
  PROVE  ToDo(c) = ToDo(c)' \cup {Head(command_queue[c]).seq}
<1> DEFINE q == command_queue[c]
<1>1. /\ Len(q) \in Nat /\ Len(q') = Len(q) - 1 /\ 1 \in 1 .. Len(q) /\ Head(q) = q[1]
      /\ \A n \in 1 .. Len(q') : q'[n] = q[n + 1] /\ n + 1 \in 1 .. Len(q)
  BY SeqNumbers
<1>2. ASSUME NEW n \in 1 .. Len(q), n # 1
      PROVE  n - 1 \in 1 .. Len(q') /\ q'[n - 1] = q[n]
  <2>1. n - 1 \in 1 .. Len(q') /\ (n - 1) + 1 = n
    BY <1>1, <1>2
  <2> QED BY <1>1, <2>1
<1>3. ToDo(c)' \subseteq ToDo(c)
  BY <1>1 DEF ToDo
<1>4. ToDo(c) \subseteq ToDo(c)' \cup {q[1].seq}
  BY <1>2 DEF ToDo
<1>5. q[1].seq \in ToDo(c)
  BY <1>1 DEF ToDo
<1> QED BY <1>1, <1>3, <1>4, <1>5

(* The command that is put there.                                          *)
LEMMA ToDoAppend ==
  ASSUME TypeOK, NEW c \in Buses, NEW command \in Command,
         command_queue'[c] = Append(command_queue[c], command)
  PROVE  ToDo(c)' = ToDo(c) \cup {command.seq}
<1> DEFINE q == command_queue[c]
<1>1. /\ Len(q) \in Nat /\ Len(q') = Len(q) + 1 /\ q'[Len(q) + 1] = command
      /\ \A n \in 1 .. Len(q) : q'[n] = q[n] /\ n \in 1 .. Len(q')
      /\ Len(q) + 1 \in 1 .. Len(q')
  BY SeqNumbers
<1>2. \A n \in 1 .. Len(q') : n \in 1 .. Len(q) \/ n = Len(q) + 1
  BY <1>1
<1> QED BY <1>1, <1>2 DEF ToDo

(* The reply that is taken from the host's queue.                          *)
LEMMA DoneTail ==
  ASSUME TypeOK, NEW c \in Buses,
         host_command_queue # <<>>, host_command_queue' = Tail(host_command_queue)
  PROVE  Done(c) = Done(c)' \cup
           (IF 1 \in Replies(c) THEN {Head(host_command_queue).seq} ELSE {})
<1> DEFINE q == host_command_queue
<1>1. /\ Len(q) \in Nat /\ Len(q') = Len(q) - 1 /\ 1 \in 1 .. Len(q) /\ Head(q) = q[1]
      /\ \A n \in 1 .. Len(q') : q'[n] = q[n + 1] /\ n + 1 \in 1 .. Len(q)
  BY SeqNumbers
<1>2. \A n \in Replies(c)' : n + 1 \in Replies(c) /\ q'[n] = q[n + 1]
  BY <1>1 DEF Replies
<1>3. ASSUME NEW n \in Replies(c), n # 1
      PROVE  n - 1 \in Replies(c)' /\ q'[n - 1] = q[n]
  <2>1. n \in 1 .. Len(q)
    BY DEF Replies
  <2>2. n - 1 \in 1 .. Len(q') /\ (n - 1) + 1 = n
    BY <1>1, <1>3, <2>1
  <2>3. q'[n - 1] = q[n]
    BY <1>1, <2>2
  <2> QED BY <2>2, <2>3 DEF Replies
<1>4. Done(c)' \subseteq Done(c)
  BY <1>2 DEF Done
<1>5. Done(c) \subseteq Done(c)' \cup (IF 1 \in Replies(c) THEN {q[1].seq} ELSE {})
  BY <1>3 DEF Done
<1>6. 1 \in Replies(c) => q[1].seq \in Done(c)
  BY DEF Done
<1> QED BY <1>1, <1>4, <1>5, <1>6

(* The reply that is put there, if there is room.                          *)
LEMMA DoneEnqueue ==
  ASSUME TypeOK, NEW c \in Buses, NEW reply \in Reply,
         host_command_queue' = Enqueue(host_command_queue, reply)
  PROVE  Done(c)' = Done(c) \cup
           (IF ~ Full(host_command_queue) /\ reply.type # "config" /\ reply.bus = c
            THEN {reply.seq} ELSE {})
<1> DEFINE q == host_command_queue
           end == Len(q) + 1
<1>1. CASE Full(q)
  BY <1>1 DEF Enqueue, Done, Replies
<1>2. CASE ~ Full(q)
  <2>1. q' = Append(q, reply)
    BY <1>2 DEF Enqueue
  <2>2. /\ Len(q) \in Nat /\ Len(q') = end /\ q'[end] = reply /\ end \in 1 .. Len(q')
        /\ \A n \in 1 .. Len(q) : q'[n] = q[n] /\ n \in 1 .. Len(q')
    BY <2>1, SeqNumbers
  <2>3. \A n \in 1 .. Len(q') : n \in 1 .. Len(q) \/ n = end
    BY <2>2
  <2>4. \A n \in Replies(c) : n \in Replies(c)' /\ q'[n] = q[n]
    BY <2>2 DEF Replies
  <2>5. ASSUME NEW n \in Replies(c)'
        PROVE  \/ n \in Replies(c) /\ q'[n] = q[n]
               \/ n = end /\ reply.type # "config" /\ reply.bus = c
    BY <2>2, <2>3 DEF Replies
  <2>6. reply.type # "config" /\ reply.bus = c => end \in Replies(c)'
    BY <2>2 DEF Replies
  <2> QED BY <1>2, <2>2, <2>4, <2>5, <2>6 DEF Done
<1> QED BY <1>1, <1>2

(* The bus has the same commands to do, in hand and done.                  *)
LEMMA WaitingSame ==
  ASSUME NEW c \in Buses, command_queue'[c] = command_queue[c], job'[c] = job[c],
         host_command_queue' = host_command_queue
  PROVE  Waiting(c)' = Waiting(c)
  BY DEF Waiting, ToDo, Held, Done, InHand, Replies

(* The promise is kept by a step that changes nothing of it.               *)
LEMMA ServiceStutters ==
  ASSUME UNCHANGED <<next_seq, esp_seq>>, \A c \in Buses : Waiting(c)' = Waiting(c)
  PROVE  [Service!Next]_(Service!vars)
<1>1. [c \in Buses |-> Waiting(c)]' = [c \in Buses |-> Waiting(c)]
  OBVIOUS
<1> QED BY <1>1 DEF Service!vars

(* It is kept when a bus loses a command ...                               *)
LEMMA ServiceLoses ==
  ASSUME UNCHANGED <<next_seq, esp_seq>>, NEW b \in Buses, NEW n \in Waiting(b),
         Waiting(b)' = Waiting(b) \ {n},
         \A c \in Buses : c # b => Waiting(c)' = Waiting(c)
  PROVE  [Service!Next]_(Service!vars)
<1>1. [c \in Buses |-> Waiting(c)]' =
        [[c \in Buses |-> Waiting(c)] EXCEPT ![b] = @ \ {n}]
  OBVIOUS
<1>2. Service!LoseAnswer(b)
  BY <1>1 DEF Service!LoseAnswer
<1> QED BY <1>2 DEF Service!Next

(* ... and when it answers its oldest one.                                 *)
LEMMA ServiceAnswers ==
  ASSUME next_seq' = next_seq, NEW b \in Buses, NEW n \in Waiting(b),
         n > esp_seq[b], \A m \in Waiting(b) : n <= m,
         esp_seq' = [esp_seq EXCEPT ![b] = n],
         Waiting(b)' = Waiting(b) \ {n},
         \A c \in Buses : c # b => Waiting(c)' = Waiting(c)
  PROVE  [Service!Next]_(Service!vars)
<1>1. [c \in Buses |-> Waiting(c)]' =
        [[c \in Buses |-> Waiting(c)] EXCEPT ![b] = @ \ {n}]
  OBVIOUS
<1>2. Service!Answer(b)
  BY <1>1 DEF Service!Answer
<1> QED BY <1>2 DEF Service!Next

(* Every step keeps the promise.                                           *)
LEMMA ServiceNext ==
  ASSUME TypeOK, AllOrdered, [Next]_vars
  PROVE  [Service!Next]_(Service!vars)
<1>same. ASSUME UNCHANGED <<next_seq, esp_seq, command_queue, job, host_command_queue>>
         PROVE  [Service!Next]_(Service!vars)
  BY <1>same, WaitingSame, ServiceStutters
<1>1. CASE \/ SendReady \/ LoseReady \/ PollNothing \/ handle_m_pico_reset \/ NoChange
           \/ SendChange \/ LoseChange \/ NoReply
  BY <1>1, <1>same DEF SendReady, LoseReady, PollNothing, handle_m_pico_reset, NoChange,
     SendChange, LoseChange, TakeChange, NoReply, busVars, taskVars
<1>2. CASE RefuseConfig \/ \E b \in Buses : HandleConfig(b)
  <2>1. ConfigReply /\ UNCHANGED <<next_seq, esp_seq, command_queue, job>>
    BY <1>2 DEF RefuseConfig, HandleConfig, taskVars
  <2> DEFINE config == [type |-> "config", bus |-> 0, seq |-> 0]
  <2>2. config \in Reply /\ host_command_queue' = Enqueue(host_command_queue, config)
    BY <2>1 DEF Reply, ConfigReply
  <2>3. ASSUME NEW c \in Buses PROVE Waiting(c)' = Waiting(c)
    BY <2>1, <2>2, DoneEnqueue DEF Waiting, ToDo, Held, InHand
  <2> QED BY <2>1, <2>3, ServiceStutters
<1>3. CASE HandleCommand
  <2>1. PICK d \in Commands :
          command_queue' = [command_queue EXCEPT ![d.bus] =
            Enqueue(@, [type |-> d.type, device |-> d.device, seq |-> next_seq])]
    BY <1>3 DEF HandleCommand
  <2> DEFINE command == [type |-> d.type, device |-> d.device, seq |-> next_seq]
  <2>2. /\ next_seq <= MaxCommands /\ next_seq' = next_seq + 1 /\ next_seq \in Nat
        /\ UNCHANGED <<esp_seq, job, host_command_queue>>
    BY <1>3 DEF HandleCommand, taskVars, TypeOK, HostTypeOK
  <2>3. d.bus \in Buses /\ command \in Command
    BY HostAssumption DEF TypeOK, HostTypeOK, Command
  <2>4. (next_seq - 1)' = (next_seq - 1) + 1 /\ next_seq - 1 < MaxCommands
        /\ (next_seq - 1) + 1 = next_seq
    BY <2>2, HostAssumption
  <2>5. \A c \in Buses : c # d.bus => Waiting(c)' = Waiting(c)
    BY <2>1, <2>2, <2>3, WaitingSame DEF TypeOK, BusTypeOK
  <2>6. CASE command_queue'[d.bus] = command_queue[d.bus]
    <3>1. \A c \in Buses : Waiting(c)' = Waiting(c)
      BY <2>2, <2>3, <2>5, <2>6, WaitingSame
    <3>2. [c \in Buses |-> Waiting(c)]' = [c \in Buses |-> Waiting(c)]
      BY <3>1
    <3>3. Service!Refuse
      BY <2>2, <2>4, <3>2 DEF Service!Refuse, Service!Issue
    <3> QED BY <3>3 DEF Service!Next
  <2>7. CASE command_queue'[d.bus] = Append(command_queue[d.bus], command)
    <3>1. ToDo(d.bus)' = ToDo(d.bus) \cup {next_seq}
      BY <2>3, <2>7, ToDoAppend
    <3>2. Waiting(d.bus)' = Waiting(d.bus) \cup {next_seq}
      BY <2>2, <3>1 DEF Waiting, Held, Done, InHand, Replies
    <3>3. [c \in Buses |-> Waiting(c)]' =
            [[c \in Buses |-> Waiting(c)] EXCEPT ![d.bus] = @ \cup {next_seq}]
      BY <2>3, <2>5, <3>2
    <3>4. Service!Take(d.bus)
      BY <2>2, <2>4, <3>3 DEF Service!Take, Service!Issue
    <3> QED BY <2>3, <3>4 DEF Service!Next
  <2> QED BY <2>1, <2>3, <2>6, <2>7 DEF Enqueue, TypeOK, BusTypeOK
<1>4. CASE SendReply \/ LoseReply
  <2> DEFINE reply == Head(host_command_queue)
  <2>1. /\ host_command_queue # <<>> /\ host_command_queue' = Tail(host_command_queue)
        /\ UNCHANGED <<next_seq, command_queue, job>>
    BY <1>4 DEF SendReply, LoseReply, TakeReply, taskVars
  <2>2. reply \in Reply /\ reply = host_command_queue[1]
        /\ 1 \in 1 .. Len(host_command_queue)
    BY <2>1 DEF TypeOK, BusTypeOK
  <2>3. \A c \in Buses : 1 \in Replies(c) <=> reply.type # "config" /\ reply.bus = c
    BY <2>2 DEF Replies
  <2>4. ASSUME NEW c \in Buses, 1 \notin Replies(c) PROVE Waiting(c)' = Waiting(c)
    <3>1. Done(c)' = Done(c)
      BY <2>1, <2>4, DoneTail
    <3> QED BY <2>1, <3>1 DEF Waiting, ToDo, Held, InHand
  <2>5. CASE reply.type = "config" \/ reply.bus \notin Buses
    <3>1. esp_seq' = esp_seq
      BY <1>4, <2>5 DEF SendReply, LoseReply, TypeOK, HostTypeOK
    <3> QED BY <2>1, <2>3, <2>4, <2>5, <3>1, ServiceStutters
  <2>6. CASE reply.type # "config" /\ reply.bus \in Buses
    <3>1. PICK b \in Buses, n \in Nat : b = reply.bus /\ n = reply.seq
      BY <2>2, <2>6 DEF Reply
    <3>2. 1 \in Replies(b) /\ \A c \in Buses : c # b => Waiting(c)' = Waiting(c)
      BY <2>3, <2>4, <2>6, <3>1
    <3>3. Done(b) = Done(b)' \cup {n}
      BY <2>1, <3>1, <3>2, DoneTail
    <3>4. InOrder(b) /\ n = host_command_queue[1].seq
      BY <2>2, <3>1 DEF AllOrdered, Ordered
    <3>5. (\A m \in ToDo(b) \cup Held(b) : n < m) /\ n > esp_seq[b]
      BY <3>2, <3>4, SeqNumbers DEF InOrder, ToDo, Held
    <3>6. \A m \in Done(b)' : n < m
      <4>1. ASSUME NEW k \in Replies(b)'
            PROVE  k + 1 \in Replies(b) /\ 1 < k + 1
                   /\ host_command_queue'[k] = host_command_queue[k + 1]
        <5>1. k \in 1 .. Len(host_command_queue')
          BY DEF Replies
        <5>2. /\ k + 1 \in 1 .. Len(host_command_queue) /\ 1 < k + 1
              /\ host_command_queue'[k] = host_command_queue[k + 1]
          BY <2>1, <5>1, SeqNumbers
        <5> QED BY <5>2 DEF Replies
      <4> QED BY <3>2, <3>4, <4>1 DEF InOrder, Done
    <3>7. Held(b)' = Held(b) /\ ToDo(b)' = ToDo(b)
      BY <2>1 DEF Held, ToDo, InHand
    <3>8. (\A m \in Waiting(b)' : n < m) /\ Waiting(b) = Waiting(b)' \cup {n}
      BY <3>3, <3>5, <3>6, <3>7 DEF Waiting
    <3>9. n \notin Waiting(b)'
      BY <3>8
    <3>10. /\ Waiting(b)' = Waiting(b) \ {n} /\ n \in Waiting(b)
           /\ \A m \in Waiting(b) : m = n \/ n < m
      BY <3>8, <3>9
    <3>11. ASSUME NEW m \in Waiting(b) PROVE n <= m
      <4>1. n \in Nat /\ (m = n \/ n < m)
        BY <3>1, <3>10
      <4>2. m \in Nat
        <5>1. CASE m \in ToDo(b)
          BY <5>1, SeqNumbers DEF ToDo
        <5>2. CASE m \in Held(b)
          BY <5>2, SeqNumbers DEF Held
        <5>3. CASE m \in Done(b)
          BY <5>3, SeqNumbers DEF Done, Replies
        <5> QED BY <5>1, <5>2, <5>3 DEF Waiting
      <4> QED BY <4>1, <4>2
    <3>12. CASE SendReply
      <4>1. esp_seq' = [esp_seq EXCEPT ![b] = n]
        BY <2>6, <3>1, <3>12 DEF SendReply
      <4> QED BY <2>1, <3>2, <3>5, <3>10, <3>11, <4>1, ServiceAnswers
    <3>13. CASE LoseReply
      <4>1. esp_seq' = esp_seq
        BY <3>13 DEF LoseReply
      <4> QED BY <2>1, <3>2, <3>10, <4>1, ServiceLoses
    <3> QED BY <1>4, <3>12, <3>13
  <2> QED BY <2>5, <2>6
<1>5. ASSUME NEW b \in Buses, BusStep(b), UNCHANGED hostVars
      PROVE  [Service!Next]_(Service!vars)
  <2>0. UNCHANGED <<next_seq, esp_seq>>
    BY <1>5 DEF hostVars
  <2>o. ASSUME NEW c \in Buses, c # b, host_command_queue' = host_command_queue
        PROVE  Waiting(c)' = Waiting(c)
    BY <1>5, <2>o, OtherBus, WaitingSame
  <2>1. CASE StartTask(b) \/ SkipPeriodic(b) \/ NoCommand(b) \/ WriteFrame(b)
             \/ ReadHead(b) \/ ReadAstray(b)
    BY <2>0, <2>1, <1>same
       DEF StartTask, SkipPeriodic, NoCommand, WriteFrame, ReadHead, ReadAstray,
           KeepReading
  <2>idle. ASSUME PastLastEntry(b) PROVE Held(b) = {}
    BY <2>idle DEF PastLastEntry, Held, InHand, TypeOK, BusTypeOK, JobOK
  <2>2. CASE BeginPeriodic(b)
    <3>1. ~ InHand(b) /\ ~ InHand(b)'
      BY <2>2 DEF BeginPeriodic, Begin, InHand, TypeOK, BusTypeOK, JobOK
    <3>2. UNCHANGED <<command_queue, host_command_queue>>
      BY <2>2 DEF BeginPeriodic
    <3>3. Waiting(b)' = Waiting(b)
      BY <3>1, <3>2 DEF Waiting, ToDo, Held, Done, Replies
    <3> QED BY <2>0, <2>o, <3>2, <3>3, ServiceStutters
  <2>3. CASE BeginCommand(b)
    <3>1. /\ command_queue[b] # <<>> /\ command_queue'[b] = Tail(command_queue[b])
          /\ host_command_queue' = host_command_queue
          /\ job'[b].type = Head(command_queue[b]).type
          /\ job'[b].seq = Head(command_queue[b]).seq
      BY <2>3 DEF BeginCommand, Begin, TypeOK, BusTypeOK
    <3>2. Head(command_queue[b]).type \in {"read", "write"}
      <4>1. Head(command_queue[b]) \in Command
        BY <3>1, SeqNumbers
      <4> QED BY <4>1 DEF Command
    <3>3. Held(b) = {} /\ Held(b)' = {Head(command_queue[b]).seq}
      BY <2>3, <2>idle, <3>1, <3>2 DEF BeginCommand, Held, InHand
    <3>4. ToDo(b) = ToDo(b)' \cup {Head(command_queue[b]).seq}
      BY <3>1, ToDoTail
    <3>5. Waiting(b)' = Waiting(b)
      BY <3>1, <3>3, <3>4 DEF Waiting, Done, Replies
    <3> QED BY <2>0, <2>o, <3>1, <3>5, ServiceStutters
  <2>4. CASE DropCommand(b)
    <3> DEFINE n == Head(command_queue[b]).seq
    <3>1. /\ command_queue[b] # <<>> /\ command_queue'[b] = Tail(command_queue[b])
          /\ host_command_queue' = host_command_queue /\ job' = job
      BY <2>4 DEF DropCommand, TypeOK, BusTypeOK
    <3>2. Held(b) = {} /\ Held(b)' = {} /\ Done(b)' = Done(b)
      BY <2>4, <2>idle, <3>1 DEF DropCommand, Held, InHand, Done, Replies
    <3>3. ToDo(b) = ToDo(b)' \cup {n}
      BY <3>1, ToDoTail
    <3>4. n \notin ToDo(b)' /\ n \notin Done(b)
      <4> DEFINE q == command_queue[b]
      <4>1. /\ 1 \in 1 .. Len(q) /\ n = q[1].seq /\ q[1].seq \in Nat
            /\ \A k \in 1 .. Len(q') : q'[k] = q[k + 1] /\ k + 1 \in 1 .. Len(q) /\ 1 < k + 1
        BY <3>1, SeqNumbers
      <4>2. InOrder(b)
        BY DEF AllOrdered, Ordered
      <4>3. \A k \in 1 .. Len(q') : n < q'[k].seq /\ q'[k].seq \in Nat
        BY <4>1, <4>2, SeqNumbers DEF InOrder
      <4>4. \A k \in Replies(b) :
              host_command_queue[k].seq < n /\ host_command_queue[k].seq \in Nat
        BY <4>1, <4>2, SeqNumbers DEF InOrder, Replies
      <4>5. n \in Nat
        BY <4>1
      <4> HIDE DEF n
      <4>6. n \notin ToDo(b)'
        BY <4>3, <4>5 DEF ToDo
      <4>7. n \notin Done(b)
        BY <4>4, <4>5 DEF Done
      <4> QED BY <4>6, <4>7
    <3> HIDE DEF n
    <3>5. Waiting(b)' = Waiting(b) \ {n} /\ n \in Waiting(b)
      BY <3>2, <3>3, <3>4 DEF Waiting
    <3> QED BY <2>0, <2>o, <3>1, <3>5, ServiceLoses
  <2>5. ASSUME NEW unread, Finish(b, unread), task[b] = "receive"
        PROVE  [Service!Next]_(Service!vars)
    <3> DEFINE reply == [type |-> job[b].type, bus |-> b, seq |-> job[b].seq]
               n == job[b].seq
    <3>1. /\ command_queue' = command_queue /\ job'[b].type = "none"
          /\ \A c \in Buses : c # b => job'[c] = job[c]
      BY <2>5 DEF Finish, NoJob, TypeOK, BusTypeOK
    <3>2. job[b] \in Job /\ job[b].type # "none"
      BY <2>5 DEF TypeOK, BusTypeOK, JobOK
    <3>3. Held(b)' = {} /\ ToDo(b)' = ToDo(b)
      BY <3>1 DEF Held, InHand, ToDo
    <3>4. CASE job[b].type = "periodic"
      <4>1. host_command_queue' = host_command_queue /\ Held(b) = {}
        BY <2>5, <3>4 DEF Finish, Held, InHand
      <4>2. Waiting(b)' = Waiting(b)
        BY <3>3, <4>1 DEF Waiting, Done, Replies
      <4> QED BY <2>0, <2>o, <4>1, <4>2, ServiceStutters
    <3>5. CASE job[b].type # "periodic"
      <4>1. reply \in Reply /\ Held(b) = {n}
        BY <3>2, <3>5 DEF Job, Reply, Held, InHand
      <4>2. host_command_queue' = Enqueue(host_command_queue, reply)
        BY <2>5, <3>5 DEF Finish
      <4>3. ASSUME NEW c \in Buses, c # b PROVE Waiting(c)' = Waiting(c)
        <5>1. Done(c)' = Done(c)
          BY <4>1, <4>2, <4>3, DoneEnqueue
        <5> QED BY <3>1, <4>3, <5>1 DEF Waiting, ToDo, Held, InHand
      <4>4. CASE Full(host_command_queue)
        <5>1. Done(b)' = Done(b)
          BY <4>1, <4>2, <4>4, DoneEnqueue
        <5>2. n \notin ToDo(b) /\ n \notin Done(b)
          <6>1. InOrder(b) /\ InHand(b)
            BY <3>2, <3>5 DEF AllOrdered, Ordered, InHand, Job
          <6>2. n \in Nat
            BY SeqNumbers
          <6>3. \A k \in 1 .. Len(command_queue[b]) :
                  n < command_queue[b][k].seq /\ command_queue[b][k].seq \in Nat
            BY <6>1, SeqNumbers DEF InOrder
          <6>4. \A k \in Replies(b) :
                  host_command_queue[k].seq < n /\ host_command_queue[k].seq \in Nat
            BY <6>1, SeqNumbers DEF InOrder, Replies
          <6> HIDE DEF n
          <6> QED BY <6>2, <6>3, <6>4 DEF ToDo, Done
        <5>3. Waiting(b)' = Waiting(b) \ {n} /\ n \in Waiting(b)
          BY <3>3, <4>1, <5>1, <5>2 DEF Waiting
        <5> QED BY <2>0, <4>3, <5>3, ServiceLoses
      <4>5. CASE ~ Full(host_command_queue)
        <5>1. Done(b)' = Done(b) \cup {n}
          BY <3>5, <3>2, <4>1, <4>2, <4>5, DoneEnqueue DEF Job
        <5>2. Waiting(b)' = Waiting(b)
          BY <3>3, <4>1, <5>1 DEF Waiting
        <5> QED BY <2>0, <4>3, <5>2, ServiceStutters
      <4> QED BY <4>4, <4>5
    <3> QED BY <3>4, <3>5
  <2>6. CASE ReadPeriodicAnswer(b) \/ ReadCommandAnswer(b) \/ ReadOtherFunction(b)
             \/ ReadError(b) \/ Timeout(b)
    BY <2>5, <2>6
       DEF ReadPeriodicAnswer, ReadCommandAnswer, ReadOtherFunction, ReadError,
           Timeout, TakesAnswer, HasUnit
  <2> QED BY <1>5, <2>1, <2>2, <2>3, <2>4, <2>6 DEF BusStep
<1>6. CASE Watchdog
  <2>1. UNCHANGED <<next_seq, esp_seq>>
    BY <1>6 DEF Watchdog
  <2>2. ASSUME NEW c \in Buses PROVE Waiting(c)' = {}
    <3>1. host_command_queue' = <<>> /\ command_queue'[c] = <<>> /\ ~ InHand(c)'
      BY <1>6 DEF Watchdog, BusReset, InHand, NoJob
    <3> QED BY <3>1 DEF Waiting, ToDo, Held, Done, Replies
  <2>3. [c \in Buses |-> Waiting(c)]' = [c \in Buses |-> {}]
    BY <2>2
  <2>4. Service!Reset
    BY <2>1, <2>3 DEF Service!Reset
  <2> QED BY <2>4 DEF Service!Next
<1>7. CASE \E b \in Buses : LineStep(b) /\ UNCHANGED <<busVars, hostVars>>
  BY <1>7, <1>same DEF busVars, taskVars, hostVars
<1>8. CASE UNCHANGED vars
  BY <1>8, <1>same DEF vars, busVars, taskVars, hostVars
<1> QED
  BY <1>1, <1>2, <1>3, <1>4, <1>5, <1>6, <1>7, <1>8
     DEF Next, HostStep, min_application_handler

(* The gateway implements CommandService: whatever the buses, the queues   *)
(* and the slaves do, a command is answered at most once and in its order  *)
(* (bus.c:157-257, host.c:85-97 and 161-185).                              *)
THEOREM ServiceCorrect == Spec => ImplementsService
<1>1. Init => Service!Init
  <2> SUFFICES ASSUME Init PROVE Service!Init
    OBVIOUS
  <2>1. ASSUME NEW c \in Buses PROVE Waiting(c) = {}
    BY DEF Init, BusInit, Waiting, ToDo, Held, Done, Replies, InHand, NoJob
  <2>2. next_seq - 1 = 0 /\ esp_seq = [c \in Buses |-> 0]
    BY DEF Init, HostInit
  <2> QED BY <2>1, <2>2 DEF Service!Init
<1>2. Init => AllOrdered
  BY DEF Init, BusInit, HostInit, NoJob, AllOrdered, Ordered, InOrder, Issued,
         Replies, InHand
<1> QED BY <1>1, <1>2, OrderedNext, ServiceNext, TypeCorrect, PTL
        DEF Spec, ImplementsService, Service!Spec

(***************************************************************************)
(* The ESP's view.                                                         *)
(***************************************************************************)

(* Nothing that concerns the entry changes.                                *)
LEMMA FollowsSame ==
  ASSUME NEW c \in Buses, NEW i \in Entries(c), Follows(c, i),
         missed'[c][i] = missed[c][i], last_data'[c][i] = last_data[c][i],
         esp_data'[c][i] = esp_data[c][i], host_change_queue' = host_change_queue
  PROVE  Follows(c, i)'
  BY DEF Follows, NoneQueued, Latest, IsFor

(* A change is queued: of the entry, with its new data, or of another one. *)
LEMMA FollowsAppend ==
  ASSUME TypeOK, NEW c \in Buses, NEW i \in Entries(c), Follows(c, i),
         NEW change \in Change,
         host_change_queue' = Append(host_change_queue, change),
         esp_data'[c][i] = esp_data[c][i],
         \/ IsFor(change, c, i) /\ last_data'[c][i] = change.data
         \/ /\ ~ IsFor(change, c, i)
            /\ last_data'[c][i] = last_data[c][i] /\ missed'[c][i] = missed[c][i]
  PROVE  Follows(c, i)'
<1> DEFINE q == host_change_queue
           n == Len(q) + 1
<1>1. /\ Len(q') = n /\ q'[n] = change /\ Len(q) \in Nat
      /\ \A k \in 1 .. Len(q) : q'[k] = q[k] /\ k \in 1 .. n
  BY DEF TypeOK, BusTypeOK
<1>2. CASE IsFor(change, c, i)
  <2>1. ~ NoneQueued(c, i)'
    BY <1>1, <1>2 DEF NoneQueued, IsFor
  <2>2. ASSUME NEW k \in 1 .. n, Latest(c, i, k)' PROVE k = n
    <3>1. k < n => n \in (k + 1) .. n
      BY <1>1
    <3> QED BY <1>1, <1>2, <2>2, <3>1 DEF Latest, IsFor
  <2> QED BY <1>1, <1>2, <2>1, <2>2 DEF Follows
<1>3. CASE ~ IsFor(change, c, i)
  <2>1. NoneQueued(c, i)' => NoneQueued(c, i)
    BY <1>1 DEF NoneQueued, IsFor
  <2>2. ASSUME NEW k \in 1 .. n, Latest(c, i, k)'
        PROVE  k \in 1 .. Len(q) /\ Latest(c, i, k) /\ q'[k] = q[k]
    <3>1. k # n
      BY <1>1, <1>3, <2>2 DEF Latest, IsFor
    <3>2. k \in 1 .. Len(q) /\ q'[k] = q[k]
      BY <1>1, <3>1
    <3>3. ASSUME NEW m \in (k + 1) .. Len(q) PROVE ~ IsFor(q[m], c, i)
      <4>1. m \in (k + 1) .. n /\ q'[m] = q[m]
        BY <1>1, <3>2
      <4> QED BY <1>1, <2>2, <4>1 DEF Latest, IsFor
    <3> QED BY <2>2, <3>2, <3>3 DEF Latest, IsFor
  <2> QED BY <1>1, <1>3, <2>1, <2>2 DEF Follows
<1> QED BY <1>2, <1>3

(* The first change is taken and delivered, or lost.                       *)
LEMMA FollowsTail ==
  ASSUME TypeOK, NEW c \in Buses, NEW i \in Entries(c), Follows(c, i),
         host_change_queue # <<>>, host_change_queue' = Tail(host_change_queue),
         last_data'[c][i] = last_data[c][i],
         \/ /\ missed'[c][i] = missed[c][i]
            /\ esp_data'[c][i] = IF IsFor(Head(host_change_queue), c, i)
                                 THEN Head(host_change_queue).data ELSE esp_data[c][i]
         \/ /\ esp_data'[c][i] = esp_data[c][i]
            /\ missed'[c][i] = \/ missed[c][i]
                               \/ /\ IsFor(Head(host_change_queue), c, i)
                                  /\ \A k \in 2 .. Len(host_change_queue) :
                                       ~ IsFor(host_change_queue[k], c, i)
  PROVE  Follows(c, i)'
<1> DEFINE q == host_change_queue
<1>1. /\ Len(q) \in Nat /\ Len(q') = Len(q) - 1 /\ 1 \in 1 .. Len(q) /\ Head(q) = q[1]
      /\ \A k \in 1 .. Len(q') : q'[k] = q[k + 1] /\ k + 1 \in 1 .. Len(q)
  BY DEF TypeOK, BusTypeOK
<1>2. SUFFICES ASSUME ~ missed'[c][i]
               PROVE  /\ \A k \in 1 .. Len(q') :
                           Latest(c, i, k)' => q'[k].data = last_data[c][i]
                      /\ NoneQueued(c, i)' => esp_data'[c][i] = last_data[c][i]
  BY DEF Follows
<1>3. ~ missed[c][i]
  BY <1>2
<1>4. ASSUME NEW k \in 1 .. Len(q'), Latest(c, i, k)'
      PROVE  q'[k].data = last_data[c][i]
  <2>1. k + 1 \in 1 .. Len(q) /\ IsFor(q[k + 1], c, i)
    BY <1>1, <1>4 DEF Latest, IsFor
  <2>2. ASSUME NEW m \in (k + 1) + 1 .. Len(q) PROVE ~ IsFor(q[m], c, i)
    <3>1. m - 1 \in (k + 1) .. Len(q') /\ m - 1 \in 1 .. Len(q') /\ (m - 1) + 1 = m
      BY <1>1
    <3>2. q'[m - 1] = q[m]
      BY <1>1, <3>1
    <3> QED BY <1>4, <3>1, <3>2 DEF Latest, IsFor
  <2>3. Latest(c, i, k + 1)
    BY <2>1, <2>2 DEF Latest
  <2> QED BY <1>1, <1>3, <2>1, <2>3 DEF Follows
<1>5. ASSUME NoneQueued(c, i)' PROVE esp_data'[c][i] = last_data[c][i]
  <2>1. ASSUME NEW m \in 2 .. Len(q) PROVE ~ IsFor(q[m], c, i)
    <3>1. m - 1 \in 1 .. Len(q') /\ (m - 1) + 1 = m
      BY <1>1
    <3>2. q'[m - 1] = q[m]
      BY <1>1, <3>1
    <3> QED BY <1>5, <3>1, <3>2 DEF NoneQueued, IsFor
  <2>2. CASE IsFor(q[1], c, i)
    <3>1. Latest(c, i, 1)
      BY <2>1, <2>2 DEF Latest
    <3>2. q[1].data = last_data[c][i]
      BY <1>1, <1>3, <3>1 DEF Follows
    <3> QED BY <1>1, <1>2, <2>1, <2>2, <3>2
  <2>3. CASE ~ IsFor(q[1], c, i)
    <3>1. NoneQueued(c, i)
      <4>1. \A m \in 1 .. Len(q) : m = 1 \/ m \in 2 .. Len(q)
        BY <1>1
      <4> QED BY <2>1, <2>3, <4>1 DEF NoneQueued
    <3> QED BY <1>1, <1>3, <2>3, <3>1 DEF Follows
  <2> QED BY <2>2, <2>3
<1> QED BY <1>4, <1>5

(* Before the ready message no bus is configured, and there is no data.    *)
Forgotten ==
  host_pc = "ready" =>
    /\ \A b \in Buses : task[b] = "none"
    /\ \A b \in Buses : \A i \in Entries(b) : last_data[b][i] = {}
    /\ host_change_queue = <<>>
Followed == EspFollows /\ Forgotten

(* Nothing happens before it.                                              *)
LEMMA ForgottenNext ==
  ASSUME TypeOK, Forgotten, [Next]_vars
  PROVE  Forgotten'
<1>1. CASE Watchdog
  BY <1>1 DEF Watchdog, BusReset, Forgotten
<1>2. CASE HostStep
  BY <1>2 DEF HostStep, min_application_handler, HandleConfig, RefuseConfig,
     HandleCommand, handle_m_pico_reset, PollNothing, NoChange, SendChange,
     LoseChange, TakeChange, NoReply, SendReply, LoseReply, TakeReply, SendReady,
     LoseReady, Forgotten
<1>3. ASSUME NEW b \in Buses, BusStep(b), UNCHANGED hostVars PROVE Forgotten'
  <2>1. task[b] # "none"
    BY <1>3 DEF BusStep, StartTask, BeginPeriodic, SkipPeriodic, BeginCommand,
       DropCommand, NoCommand, PastLastEntry, WriteFrame, ReadHead, ReadPeriodicAnswer,
       ReadCommandAnswer, ReadOtherFunction, ReadError, ReadAstray, Timeout,
       TakesAnswer, HasUnit
  <2> QED BY <1>3, <2>1 DEF Forgotten, hostVars
<1>4. CASE \E b \in Buses : LineStep(b) /\ UNCHANGED <<busVars, hostVars>>
  BY <1>4 DEF Forgotten, busVars, taskVars, dataVars, hostVars
<1>5. CASE UNCHANGED vars
  BY <1>5 DEF Forgotten, vars, busVars, taskVars, dataVars, hostVars
<1> QED BY <1>1, <1>2, <1>3, <1>4, <1>5 DEF Next

(* No step lets the ESP fall behind unless a change is queued or dropped.  *)
LEMMA FollowsNext ==
  ASSUME TypeOK, Followed, [Next]_vars
  PROVE  Followed'
<1> SUFFICES ASSUME NEW c \in Buses, NEW i \in Entries(c)
             PROVE  host_pc' # "ready" => Follows(c, i)'
  <2>1. Forgotten'
    BY ForgottenNext DEF Followed
  <2> QED BY <2>1 DEF Followed, EspFollows
<1>0. CASE host_pc = "ready" \/ host_pc' = "ready"
  <2>1. CASE host_pc' = "ready"
    BY <2>1
  <2>2. CASE host_pc = "ready" /\ host_pc' # "ready"
    <3>1. \/ SendReady \/ LoseReady
          \/ host_pc' = host_pc
      BY <2>2 DEF Next, HostStep, min_application_handler, HandleConfig, RefuseConfig,
         HandleCommand, handle_m_pico_reset, PollNothing, NoChange, SendChange,
         LoseChange, TakeChange, NoReply, SendReply, LoseReply, TakeReply, Watchdog,
         vars, hostVars
    <3>2. last_data[c][i] = {} /\ host_change_queue = <<>>
      BY <2>2 DEF Followed, Forgotten
    <3>3. CASE SendReady
      BY <3>2, <3>3 DEF SendReady, Follows, busVars, dataVars
    <3>4. CASE LoseReady
      BY <3>4 DEF LoseReady, Follows
    <3> QED BY <2>2, <3>1, <3>3, <3>4
  <2> QED BY <1>0, <2>1, <2>2
<1> SUFFICES ASSUME host_pc # "ready", host_pc' # "ready" PROVE Follows(c, i)'
  BY <1>0
<1>f. Follows(c, i)
  BY DEF Followed, EspFollows
<1>1. CASE HostStep
  <2>1. CASE \/ \E b \in Buses : HandleConfig(b)
             \/ RefuseConfig \/ HandleCommand \/ PollNothing \/ NoChange \/ NoReply
             \/ SendReply \/ LoseReply \/ handle_m_pico_reset
    BY <1>f, <2>1, FollowsSame
       DEF HandleConfig, RefuseConfig, HandleCommand, PollNothing, NoChange, NoReply,
           SendReply, LoseReply, TakeReply, handle_m_pico_reset, busVars, dataVars
  <2>2. CASE SendChange
    <3> DEFINE change == Head(host_change_queue)
    <3>1. esp_data'[c][i] = IF IsFor(change, c, i) THEN change.data ELSE esp_data[c][i]
      BY <2>2 DEF SendChange
    <3> QED BY <1>f, <2>2, <3>1, FollowsTail DEF SendChange, TakeChange
  <2>3. CASE LoseChange
    <3>1. missed'[c][i] = \/ missed[c][i]
                          \/ /\ IsFor(Head(host_change_queue), c, i)
                             /\ \A k \in 2 .. Len(host_change_queue) :
                                  ~ IsFor(host_change_queue[k], c, i)
      BY <2>3 DEF LoseChange
    <3> QED BY <1>f, <2>3, <3>1, FollowsTail DEF LoseChange, TakeChange
  <2>4. ~ SendReady /\ ~ LoseReady
    BY DEF SendReady, LoseReady
  <2> QED BY <1>1, <2>1, <2>2, <2>3, <2>4 DEF HostStep, min_application_handler
<1>2. ASSUME NEW b \in Buses, BusStep(b), UNCHANGED hostVars PROVE Follows(c, i)'
  <2>0. esp_data'[c][i] = esp_data[c][i]
    BY <1>2 DEF hostVars
  <2>same. ASSUME UNCHANGED <<dataVars, host_change_queue>> PROVE Follows(c, i)'
    BY <1>f, <2>0, <2>same, FollowsSame DEF dataVars
  <2>1. CASE ~ ReadPeriodicAnswer(b)
    BY <1>2, <2>1, <2>same
       DEF BusStep, StartTask, BeginPeriodic, SkipPeriodic, BeginCommand, DropCommand,
           NoCommand, WriteFrame, ReadHead, ReadAstray, KeepReading,
           ReadCommandAnswer, ReadOtherFunction, ReadError, Timeout
  <2>2. CASE ReadPeriodicAnswer(b)
    <3> DEFINE unit == Head(rx_buffer[b])
               data == FirstByteHigh(unit.data)
               old == last_data[b][idx[b]]
               change == [bus |-> b, device |-> Reads[b][idx[b]], data |-> data]
    <3>1. idx[b] \in Entries(b) /\ Reads[b][idx[b]] \in Device
      <4>1. job[b].type = "periodic" /\ JobOK(b)
        BY <2>2 DEF ReadPeriodicAnswer, TypeOK, BusTypeOK
      <4>2. idx[b] \in Entries(b)
        BY <4>1 DEF JobOK
      <4> QED BY <4>2, BusAssumption DEF Entries
    <3>2. data \in Word
      <4>1. unit \in Unit
        BY <2>2 DEF ReadPeriodicAnswer, TakesAnswer, HasUnit, TypeOK, Rs485TypeOK
      <4> QED BY <4>1 DEF Unit, FrameData, FirstByteHigh, Word
    <3>3. change \in Change
      BY <3>1, <3>2 DEF Change
    <3>4. IsFor(change, c, i) <=> c = b /\ i = idx[b]
      BY <3>1, BusAssumption DEF IsFor, Entries
    <3> HIDE DEF data
    <3>5. CASE unit.header.size # "word"
      BY <2>2, <2>same, <3>5 DEF ReadPeriodicAnswer, ProcessPeriodicReply
    <3>6. CASE unit.header.size = "word"
      <4>1. /\ last_data' = [last_data EXCEPT ![b][idx[b]] = data]
            /\ host_change_queue' =
                 IF Xor(data, old) # {} THEN Enqueue(host_change_queue, change)
                 ELSE host_change_queue
            /\ missed' = [missed EXCEPT ![b][idx[b]] =
                 IF Xor(data, old) # {} THEN Full(host_change_queue) ELSE @]
        BY <2>2, <3>6 DEF ReadPeriodicAnswer, ProcessPeriodicReply, data
      <4>2. /\ c = b /\ i = idx[b] => last_data'[c][i] = data
            /\ ~ (c = b /\ i = idx[b]) =>
                 last_data'[c][i] = last_data[c][i] /\ missed'[c][i] = missed[c][i]
        BY <3>1, <4>1 DEF TypeOK, BusTypeOK
      <4>3. CASE Xor(data, old) = {}
        <5>1. data = old
          BY <4>3 DEF Xor
        <5>2. last_data'[c][i] = last_data[c][i] /\ missed'[c][i] = missed[c][i]
          BY <3>1, <4>1, <4>2, <4>3, <5>1 DEF TypeOK, BusTypeOK
        <5> QED BY <1>f, <2>0, <4>1, <4>3, <5>2, FollowsSame
      <4>4. CASE Xor(data, old) # {} /\ Full(host_change_queue)
        <5>1. host_change_queue' = host_change_queue
          BY <4>1, <4>4 DEF Enqueue
        <5>2. CASE c = b /\ i = idx[b]
          <6>1. missed'[c][i] = TRUE
            BY <3>1, <4>1, <4>4, <5>2 DEF TypeOK, BusTypeOK
          <6> QED BY <6>1 DEF Follows
        <5>3. CASE ~ (c = b /\ i = idx[b])
          BY <1>f, <2>0, <4>2, <5>1, <5>3, FollowsSame
        <5> QED BY <5>2, <5>3
      <4>5. CASE Xor(data, old) # {} /\ ~ Full(host_change_queue)
        <5>1. host_change_queue' = Append(host_change_queue, change)
          BY <4>1, <4>5 DEF Enqueue
        <5>2. change.data = data
          OBVIOUS
        <5> HIDE DEF change
        <5> QED BY <1>f, <2>0, <3>3, <3>4, <4>2, <5>1, <5>2, FollowsAppend
      <4> QED BY <4>3, <4>4, <4>5
    <3> QED BY <3>5, <3>6
  <2> QED BY <2>1, <2>2
<1>3. ASSUME NEW b \in Buses, LineStep(b), UNCHANGED <<busVars, hostVars>>
      PROVE Follows(c, i)'
  BY <1>f, <1>3, FollowsSame DEF busVars, dataVars, hostVars
<1>4. CASE UNCHANGED vars
  BY <1>f, <1>4, FollowsSame DEF vars, busVars, dataVars, hostVars
<1>5. ~ Watchdog
  BY DEF Watchdog
<1> QED BY <1>1, <1>2, <1>3, <1>4, <1>5 DEF Next

(* The ESP's view of an entry follows its last_data, through the queue the *)
(* buses share, unless the latest change was dropped, and after a reset    *)
(* from the ready message on (bus.c:263-295, host.c:90-97 and 143-159).    *)
(* That entries are distinct is needed.                                    *)
THEOREM EspFollowsCorrect == Spec => []EspFollows
<1>1. Init => Followed
  BY DEF Init, BusInit, HostInit, Followed, EspFollows, Forgotten
<1>2. Followed => EspFollows
  BY DEF Followed
<1> QED BY <1>1, <1>2, FollowsNext, TypeCorrect, PTL DEF Spec

(* A command in hand ends with its reply (bus.c:157-257, host.c:37-43): no *)
(* configuration restarts a bus, no other transaction takes its place, and *)
(* only a reset ends it otherwise (host.c:90-97).                          *)
THEOREM AnsweredCorrect == Spec => CommandsAnswered
<1>1. ASSUME TypeOK, [Next]_vars, NEW c \in Buses, InHand(c), job'[c] # job[c],
             ~ Full(host_command_queue), ~ (host_pc = "reset" /\ host_pc' = "ready")
      PROVE  host_command_queue' = Append(host_command_queue, ReplyTo(c))
  <2> USE DEF TypeOK, BusTypeOK
  <2>1. CASE HostStep
    BY <1>1, <2>1 DEF HostStep, min_application_handler, HandleConfig,
                RefuseConfig, HandleCommand, handle_m_pico_reset, SendReady, LoseReady,
                PollNothing, NoChange, SendChange, LoseChange, TakeChange, NoReply,
                SendReply, LoseReply, TakeReply, busVars, taskVars
  <2>2. ASSUME NEW b \in Buses, BusStep(b), UNCHANGED hostVars
        PROVE  host_command_queue' = Append(host_command_queue, ReplyTo(c))
    <3>1. b = c
      BY <1>1, <2>2, OtherBus
    <3>2. task[c] \in {"send", "receive"} /\ job[c].type \in {"read", "write"}
      BY <1>1 DEF JobOK, InHand
    <3>3. ASSUME NEW unread, Finish(c, unread)
          PROVE  host_command_queue' = Append(host_command_queue, ReplyTo(c))
      BY <1>1, <3>2, <3>3 DEF Finish, Enqueue, ReplyTo
    <3>4. CASE \/ ReadPeriodicAnswer(c) \/ ReadCommandAnswer(c)
               \/ ReadOtherFunction(c) \/ ReadError(c) \/ Timeout(c)
      BY <3>3, <3>4
         DEF ReadPeriodicAnswer, ReadCommandAnswer, ReadOtherFunction, ReadError, Timeout
    <3>5. CASE \/ StartTask(c) \/ BeginPeriodic(c) \/ SkipPeriodic(c)
               \/ BeginCommand(c) \/ DropCommand(c) \/ NoCommand(c)
      BY <3>2, <3>5 DEF StartTask, BeginPeriodic, SkipPeriodic, BeginCommand,
                        DropCommand, NoCommand, PastLastEntry
    <3>6. CASE WriteFrame(c) \/ ReadHead(c) \/ ReadAstray(c)
      BY <1>1, <3>6 DEF WriteFrame, ReadHead, ReadAstray, KeepReading
    <3> QED BY <2>2, <3>1, <3>4, <3>5, <3>6 DEF BusStep
  <2>3. CASE \E b \in Buses : LineStep(b) /\ UNCHANGED <<busVars, hostVars>>
    BY <1>1, <2>3 DEF busVars, taskVars
  <2>4. CASE UNCHANGED vars
    BY <1>1, <2>4 DEF vars, busVars, taskVars
  <2>5. ~ Watchdog
    BY <1>1 DEF Watchdog
  <2> QED BY <1>1, <2>1, <2>2, <2>3, <2>4, <2>5 DEF Next
<1>2. TypeOK /\ [Next]_vars =>
        [\A b \in Buses : InHand(b) /\ job'[b] # job[b] =>
           \/ host_pc = "reset" /\ host_pc' = "ready"
           \/ Full(host_command_queue)
           \/ host_command_queue' = Append(host_command_queue, ReplyTo(b))]_vars
  BY <1>1
<1> QED BY <1>2, TypeCorrect, PTL DEF Spec, CommandsAnswered
=============================================================================
