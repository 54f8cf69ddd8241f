---------------------------- MODULE ModbusCodec ----------------------------
(***************************************************************************)
(* One transaction of a bus, byte by byte: the request the bus task makes  *)
(* (inc/modbus_framer.h), a slave that decodes it and answers, noise on    *)
(* the line, and the parser the task feeds the answer to                   *)
(* (inc/modbus_parser.h), with the CRC of inc/modbus.h.                    *)
(*                                                                         *)
(* The slave is external.  It does not share the firmware's table: its CRC *)
(* is computed bit by bit from the polynomial of Modbus RTU.               *)
(***************************************************************************)
EXTENDS Integers, Sequences, FiniteSetsExt

CONSTANTS
  Slaves,     \* slave addresses
  Addresses,  \* addresses of coils and registers
  Words,      \* 16 bit values that are written and that slaves answer
  Flips,      \* what noise does to a byte: the bits it changes
  Garbage     \* bytes rx_frame may hold when a transaction begins

Byte == 0 .. 255
UINT16_MAX == 65535
Uint16 == 0 .. UINT16_MAX

ASSUME CodecAssumption ==
  /\ Slaves \subseteq 1 .. 247
  /\ Addresses \subseteq Uint16 /\ Words \subseteq Uint16
  /\ Flips \subseteq Byte \ {0} /\ Garbage \subseteq Byte

VARIABLES
  job,       \* what the task asks for
  tx_frame,  \* the request, <<>> before it is made
  sent,      \* the reply as the slave sent it, <<>> before (a ghost)
  hit,       \* the byte of the reply that noise changed, or 0 (a ghost)
  rx_buffer, \* the bytes of the reply that were not parsed yet
  parser,    \* struct modbus_parser
  rx_frame,  \* struct modbus_frame
  result     \* what modbus_parser_process_byte returned last

vars == <<job, tx_frame, sent, hit, rx_buffer, parser, rx_frame, result>>

Hi(word) == word \div 256
Lo(word) == word % 256
HiLo(word) == <<Hi(word), Lo(word)>>
Word(hi, lo) == hi * 256 + lo

READ_COILS == 1
READ_HOLDING_REGISTERS == 3
WRITE_SINGLE_COIL == 5
WRITE_HOLDING_REGISTERS == 16
ReadFunctions == {READ_COILS, READ_HOLDING_REGISTERS}
WriteFunctions == {WRITE_SINGLE_COIL, WRITE_HOLDING_REGISTERS}

Jobs ==
  [function : ReadFunctions, slave : Slaves, address : Addresses, value : {0}]
    \cup [function : WriteFunctions, slave : Slaves, address : Addresses,
          value : Words]

(***************************************************************************)
(* CRC (inc/modbus.h).                                                     *)
(***************************************************************************)
(* The exclusive or of two bytes, tabulated for TLC by their halves, and   *)
(* of two words.                                                           *)
Bit(n, i) == (n \div 2^i) % 2
XorNibble ==
  [a \in 0 .. 15 |-> [b \in 0 .. 15 |->
     MapThenSumSet(LAMBDA i : IF Bit(a, i) = Bit(b, i) THEN 0 ELSE 2^i, 0 .. 3)]]
XorByte ==
  [a \in Byte |-> [b \in Byte |->
     16 * XorNibble[a \div 16][b \div 16] + XorNibble[a % 16][b % 16]]]
XorWord(v, w) == Word(XorByte[Hi(v)][Hi(w)], XorByte[Lo(v)][Lo(w)])

crc_table == <<
  \h0000, \hC0C1, \hC181, \h0140, \hC301, \h03C0, \h0280, \hC241,
  \hC601, \h06C0, \h0780, \hC741, \h0500, \hC5C1, \hC481, \h0440,
  \hCC01, \h0CC0, \h0D80, \hCD41, \h0F00, \hCFC1, \hCE81, \h0E40,
  \h0A00, \hCAC1, \hCB81, \h0B40, \hC901, \h09C0, \h0880, \hC841,
  \hD801, \h18C0, \h1980, \hD941, \h1B00, \hDBC1, \hDA81, \h1A40,
  \h1E00, \hDEC1, \hDF81, \h1F40, \hDD01, \h1DC0, \h1C80, \hDC41,
  \h1400, \hD4C1, \hD581, \h1540, \hD701, \h17C0, \h1680, \hD641,
  \hD201, \h12C0, \h1380, \hD341, \h1100, \hD1C1, \hD081, \h1040,
  \hF001, \h30C0, \h3180, \hF141, \h3300, \hF3C1, \hF281, \h3240,
  \h3600, \hF6C1, \hF781, \h3740, \hF501, \h35C0, \h3480, \hF441,
  \h3C00, \hFCC1, \hFD81, \h3D40, \hFF01, \h3FC0, \h3E80, \hFE41,
  \hFA01, \h3AC0, \h3B80, \hFB41, \h3900, \hF9C1, \hF881, \h3840,
  \h2800, \hE8C1, \hE981, \h2940, \hEB01, \h2BC0, \h2A80, \hEA41,
  \hEE01, \h2EC0, \h2F80, \hEF41, \h2D00, \hEDC1, \hEC81, \h2C40,
  \hE401, \h24C0, \h2580, \hE541, \h2700, \hE7C1, \hE681, \h2640,
  \h2200, \hE2C1, \hE381, \h2340, \hE101, \h21C0, \h2080, \hE041,
  \hA001, \h60C0, \h6180, \hA141, \h6300, \hA3C1, \hA281, \h6240,
  \h6600, \hA6C1, \hA781, \h6740, \hA501, \h65C0, \h6480, \hA441,
  \h6C00, \hACC1, \hAD81, \h6D40, \hAF01, \h6FC0, \h6E80, \hAE41,
  \hAA01, \h6AC0, \h6B80, \hAB41, \h6900, \hA9C1, \hA881, \h6840,
  \h7800, \hB8C1, \hB981, \h7940, \hBB01, \h7BC0, \h7A80, \hBA41,
  \hBE01, \h7EC0, \h7F80, \hBF41, \h7D00, \hBDC1, \hBC81, \h7C40,
  \hB401, \h74C0, \h7580, \hB541, \h7700, \hB7C1, \hB681, \h7640,
  \h7200, \hB2C1, \hB381, \h7340, \hB101, \h71C0, \h7080, \hB041,
  \h5000, \h90C1, \h9181, \h5140, \h9301, \h53C0, \h5280, \h9241,
  \h9601, \h56C0, \h5780, \h9741, \h5500, \h95C1, \h9481, \h5440,
  \h9C01, \h5CC0, \h5D80, \h9D41, \h5F00, \h9FC1, \h9E81, \h5E40,
  \h5A00, \h9AC1, \h9B81, \h5B40, \h9901, \h59C0, \h5880, \h9841,
  \h8801, \h48C0, \h4980, \h8941, \h4B00, \h8BC1, \h8A81, \h4A40,
  \h4E00, \h8EC1, \h8F81, \h4F40, \h8D01, \h4DC0, \h4C80, \h8C41,
  \h4400, \h84C1, \h8581, \h4540, \h8701, \h47C0, \h4680, \h8641,
  \h8201, \h42C0, \h4380, \h8341, \h4100, \h81C1, \h8081, \h4040>>

update_crc(crc, byte) == XorWord(Hi(crc), crc_table[1 + XorByte[Lo(crc)][byte]])

(* The CRC after each byte of data.                                        *)
crc_after(data) ==
  LET crc[i \in 0 .. Len(data)] ==
        IF i = 0 THEN \hFFFF ELSE update_crc(crc[i - 1], data[i])
  IN  crc
compute_crc(data) == crc_after(data)[Len(data)]

(***************************************************************************)
(* Framer.                                                                 *)
(***************************************************************************)
FrameBuffer == 64  \* BUS_MODBUS_FRAME_BUFFER_SIZE

(* The CRC low byte comes first; 0 bytes where the buffer is too small.    *)
WithCrc(data) ==
  IF Len(data) + 2 > FrameBuffer THEN <<>>
  ELSE LET crc == compute_crc(data) IN data \o <<Lo(crc), Hi(crc)>>

modbus_create_read_coils_frame(slave, start, quantity) ==
  WithCrc(<<slave, READ_COILS>> \o HiLo(start) \o HiLo(quantity))

modbus_create_read_holding_registers_frame(slave, start, quantity) ==
  WithCrc(<<slave, READ_HOLDING_REGISTERS>> \o HiLo(start) \o HiLo(quantity))

modbus_create_write_single_coil_frame(slave, coil, on) ==
  WithCrc(<<slave, WRITE_SINGLE_COIL>> \o HiLo(coil)
            \o HiLo(IF on THEN \hFF00 ELSE 0))

modbus_create_write_multiple_registers_frame(slave, start, registers) ==
  IF Len(registers) \notin 1 .. 123 THEN <<>>
  ELSE WithCrc(<<slave, WRITE_HOLDING_REGISTERS>> \o HiLo(start)
                 \o HiLo(Len(registers)) \o <<Lo(2 * Len(registers))>>
                 \o [k \in 1 .. 2 * Len(registers) |->
                        IF k % 2 = 1 THEN Hi(registers[(k + 1) \div 2])
                        ELSE Lo(registers[k \div 2])])

(* A read of coils does not start at the address: the start, which a slave *)
(* takes for the first coil, is address / 16, a uint8_t, and the quantity  *)
(* is address % 16 + 1.                                                    *)
modbus_create_read_frame(function, slave, address) ==
  IF function = READ_COILS
  THEN modbus_create_read_coils_frame(slave, Lo(address \div 16), (address % 16) + 1)
  ELSE modbus_create_read_holding_registers_frame(slave, address, 1)

WriteAddressLow(function, slave, address, value) ==  \* mutant: a uint8_t address
  IF function = WRITE_SINGLE_COIL
  THEN modbus_create_write_single_coil_frame(slave, Lo(address), value # 0)
  ELSE modbus_create_write_multiple_registers_frame(slave, Lo(address), <<value>>)
modbus_create_write_frame(function, slave, address, value) ==
  IF function = WRITE_SINGLE_COIL
  THEN modbus_create_write_single_coil_frame(slave, address, value # 0)
  ELSE modbus_create_write_multiple_registers_frame(slave, address, <<value>>)

MakeRequest ==
  /\ tx_frame = <<>>
  /\ tx_frame' = IF job.function \in ReadFunctions
                 THEN modbus_create_read_frame(job.function, job.slave, job.address)
                 ELSE modbus_create_write_frame(job.function, job.slave,
                                                job.address, job.value)
  /\ UNCHANGED <<job, sent, hit, rx_buffer, parser, rx_frame, result>>

(***************************************************************************)
(* The slave (external).                                                   *)
(***************************************************************************)
(* One bit of the CRC register: shift right, and subtract the polynomial.  *)
ShiftBit(crc) ==
  IF crc % 2 = 1 THEN XorWord(crc \div 2, \hA001) ELSE crc \div 2
ShiftByte(crc) ==
  LET shifted[i \in 0 .. 8] == IF i = 0 THEN crc ELSE ShiftBit(shifted[i - 1])
  IN  shifted[8]
PolynomialAfter(data) ==
  LET crc[i \in 0 .. Len(data)] ==
        IF i = 0 THEN \hFFFF ELSE ShiftByte(XorWord(crc[i - 1], data[i]))
  IN  crc
PolynomialCrc(data) == PolynomialAfter(data)[Len(data)]
Sealed(data) == LET crc == PolynomialCrc(data) IN data \o <<Lo(crc), Hi(crc)>>

(* What a slave takes the request for.  Over a frame with its CRC, the CRC *)
(* is 0.                                                                   *)
Heard(request) ==
  [sound |-> PolynomialCrc(request) = 0,
   slave |-> request[1], function |-> request[2],
   start |-> Word(request[3], request[4]),
   count |-> IF request[2] = WRITE_SINGLE_COIL THEN 1
             ELSE Word(request[5], request[6]),
   value |-> CASE request[2] = WRITE_SINGLE_COIL -> Word(request[5], request[6])
               [] request[2] = WRITE_HOLDING_REGISTERS -> Word(request[8], request[9])
               [] OTHER -> 0]

(* These tables and powers are what they are; every model-checking run     *)
(* computes them.  Exclusive or cancels; no two entries of the table have  *)
(* the same high byte; and an entry is what shifting a byte through the    *)
(* polynomial makes of it.                                                 *)
ASSUME XorFacts ==
  /\ XorByte \in [Byte -> [Byte -> Byte]]
  /\ \A a \in Byte : XorByte[0][a] = a /\ XorByte[a][0] = a /\ XorByte[a][a] = 0
  /\ \A a, b \in Byte : XorByte[XorByte[a][b]][b] = a /\ XorByte[XorByte[a][b]][a] = b
ASSUME TableFacts ==
  /\ crc_table[1] = 0
  /\ \A b \in Byte : crc_table[1 + b] \in Uint16
  /\ \A a, b \in Byte : Hi(crc_table[1 + a]) = Hi(crc_table[1 + b]) => a = b
  /\ \A crc \in Uint16 : ShiftByte(crc) = XorWord(Hi(crc), crc_table[1 + Lo(crc)])
ASSUME PowerFacts == \A count \in 1 .. 16 : 2^count \in 1 .. UINT16_MAX + 1

(* Coils: the first one in the lowest bit of the first byte, the bits that *)
(* were not asked for 0.  Registers: the high byte first.                  *)
CoilBytes(count, word) ==
  LET coils == word % 2^count
  IN  IF count <= 8 THEN <<Lo(coils)>> ELSE <<Lo(coils), Hi(coils)>>
DataBytes(heard, word) ==
  IF heard.function = READ_COILS THEN CoilBytes(heard.count, word) ELSE HiLo(word)

ReplyBytes(request, heard, word) ==
  LET head == <<heard.slave, heard.function>>
      data == DataBytes(heard, word)
  IN  IF heard.function \in ReadFunctions THEN head \o <<Len(data)>> \o data
      ELSE SubSeq(request, 1, 6)

(* The reply arrives as it is, or with one byte changed by noise.          *)
Transmit(reply) ==
  /\ sent' = reply
  /\ \/ hit' = 0 /\ rx_buffer' = reply
     \/ \E i \in DOMAIN reply, flip \in Flips :
          hit' = i /\ rx_buffer' = [reply EXCEPT ![i] = XorByte[@][flip]]

Answer ==
  LET heard == Heard(tx_frame)
  IN  /\ tx_frame # <<>> /\ sent = <<>>
      /\ heard.sound
      /\ \E word \in IF heard.function \in ReadFunctions THEN Words ELSE {0} :
           Transmit(Sealed(ReplyBytes(tx_frame, heard, word)))
      /\ UNCHANGED <<job, tx_frame, parser, rx_frame, result>>

(* An exception: illegal data address.                                     *)
AnswerException ==
  LET heard == Heard(tx_frame)
  IN  /\ tx_frame # <<>> /\ sent = <<>>
      /\ heard.sound
      /\ Transmit(Sealed(<<heard.slave, heard.function + 128, 2>>))
      /\ UNCHANGED <<job, tx_frame, parser, rx_frame, result>>

(***************************************************************************)
(* Parser.                                                                 *)
(***************************************************************************)
ParserStates == {"slave", "function", "address_1", "address_2", "length", "data",
                 "crc1", "crc2"}
Results == {"incomplete", "complete", "error_slave", "error_function",
            "error_exception", "error_crc"}

modbus_parser_reset == [state |-> "slave", crc |-> \hFFFF, data_length |-> 0]

is_valid_modbus_function(code) == code \in {1, 3, 5, 6, 16}

(* rx_frame is a local of bus_task, never initialised and used again for   *)
(* every transaction: it may hold anything.                                *)
Init ==
  /\ job \in Jobs
  /\ tx_frame = <<>> /\ sent = <<>> /\ hit = 0 /\ rx_buffer = <<>>
  /\ parser = modbus_parser_reset
  /\ \E byte \in Garbage :
       rx_frame = [slave |-> byte, function_code |-> byte, address |-> byte,
                   data |-> [i \in 0 .. 7 |-> byte], data_size |-> byte,
                   crc |-> Word(byte, byte)]
  /\ result = "incomplete"

(* The read loop of send_modbus_frame takes one byte, in this state.       *)
Takes(state) ==
  /\ result = "incomplete" /\ rx_buffer # <<>>
  /\ parser.state = state
  /\ rx_buffer' = Tail(rx_buffer)
  /\ UNCHANGED <<job, tx_frame, sent, hit>>

GoesOn(state, byte) ==
  /\ parser' = [parser EXCEPT !.state = state, !.crc = update_crc(@, byte)]
  /\ result' = "incomplete"
Stops(why) == parser' = modbus_parser_reset /\ result' = why

WaitSlave ==
  LET byte == Head(rx_buffer)
  IN  /\ Takes("slave")
      /\ rx_frame' = [rx_frame EXCEPT !.slave = byte]
      /\ IF byte > 247 THEN Stops("error_slave") ELSE GoesOn("function", byte)

WaitFunctionKeepsSize ==  \* mutant: data_size is not reset
  LET byte == Head(rx_buffer)
  IN  /\ Takes("function") /\ is_valid_modbus_function(byte)
      /\ rx_frame' = [rx_frame EXCEPT !.function_code = byte]
      /\ GoesOn(IF byte \in ReadFunctions THEN "length" ELSE "address_1", byte)
WaitFunction ==
  LET byte == Head(rx_buffer)
  IN  /\ Takes("function") /\ is_valid_modbus_function(byte)
      /\ rx_frame' = [rx_frame EXCEPT !.function_code = byte, !.data_size = 0]
      /\ GoesOn(IF byte \in ReadFunctions THEN "length" ELSE "address_1", byte)

RefuseFunction ==
  LET byte == Head(rx_buffer)
  IN  /\ Takes("function") /\ ~ is_valid_modbus_function(byte)
      /\ rx_frame' = [rx_frame EXCEPT !.function_code = byte]
      /\ Stops(IF is_valid_modbus_function(byte % 128)
               THEN "error_exception" ELSE "error_function")

WaitAddress1 ==
  LET byte == Head(rx_buffer)
  IN  /\ Takes("address_1")
      /\ rx_frame' = [rx_frame EXCEPT !.address = byte]
      /\ GoesOn("address_2", byte)

(* address is a uint8_t: what is shifted into its high byte is lost.       *)
WaitAddress2 ==
  LET byte == Head(rx_buffer)
  IN  /\ Takes("address_2")
      /\ parser' = [parser EXCEPT !.state = "data", !.data_length = 2,
                                  !.crc = update_crc(@, byte)]
      /\ result' = "incomplete"
      /\ UNCHANGED rx_frame

WaitLengthKeepsData ==  \* mutant: without memset
  LET byte == Head(rx_buffer)
  IN  /\ Takes("length")
      /\ rx_frame' = [rx_frame EXCEPT !.data_size = 0]
      /\ parser' = [parser EXCEPT !.state = "data", !.data_length = byte,
                                  !.crc = update_crc(@, byte)]
      /\ result' = "incomplete"
WaitLength ==
  LET byte == Head(rx_buffer)
  IN  /\ Takes("length")
      /\ rx_frame' = [rx_frame EXCEPT !.data_size = 0, !.data = [i \in 0 .. 7 |-> 0]]
      /\ parser' = [parser EXCEPT !.state = "data", !.data_length = byte,
                                  !.crc = update_crc(@, byte)]
      /\ result' = "incomplete"

(* data_size is a uint8_t, and data has room for 8 bytes.                  *)
modbus_frame_add_data(frame, byte) ==
  [frame EXCEPT !.data[frame.data_size] = byte,
                !.data_size = (@ + 1) % 256]

WaitData ==
  LET byte == Head(rx_buffer)
  IN  /\ Takes("data")
      /\ rx_frame' = modbus_frame_add_data(rx_frame, byte)
      /\ GoesOn(IF rx_frame'.data_size = parser.data_length THEN "crc1" ELSE "data",
                byte)

WaitCrc1 ==
  /\ Takes("crc1")
  /\ rx_frame' = [rx_frame EXCEPT !.crc = Head(rx_buffer)]
  /\ parser' = [parser EXCEPT !.state = "crc2"]
  /\ result' = "incomplete"

WaitCrc2Low ==  \* mutant: compares the low byte only
  /\ Takes("crc2")
  /\ rx_frame' = [rx_frame EXCEPT !.crc = Word(Head(rx_buffer), @)]
  /\ Stops(IF Lo(parser.crc) = Lo(rx_frame'.crc) THEN "complete" ELSE "error_crc")
WaitCrc2 ==
  /\ Takes("crc2")
  /\ rx_frame' = [rx_frame EXCEPT !.crc = Word(Head(rx_buffer), @)]
  /\ Stops(IF parser.crc = rx_frame'.crc THEN "complete" ELSE "error_crc")

Parse ==
  \/ WaitSlave \/ WaitFunction \/ RefuseFunction
  \/ WaitAddress1 \/ WaitAddress2 \/ WaitLength
  \/ WaitData \/ WaitCrc1 \/ WaitCrc2

Next == MakeRequest \/ Answer \/ AnswerException \/ Parse

Spec == Init /\ [][Next]_vars

(***************************************************************************)
(* What the bus task makes of the data (bus.c): the high byte first for a  *)
(* periodic read, the low byte first for a command.                        *)
(***************************************************************************)
PeriodicData(frame) == Word(frame.data[0], frame.data[1])
CommandData(frame) == Word(frame.data[1], frame.data[0])

(***************************************************************************)
(* Properties.                                                             *)
(***************************************************************************)
(* Types; and a byte of data is only expected where the frame has room for *)
(* it, even if noise hit the length: the reply is too short to reach the   *)
(* ninth byte (modbus_parser.h:53-56,158-165).                             *)
TypeOK ==
  /\ job \in Jobs
  /\ tx_frame \in Seq(Byte) /\ rx_buffer \in Seq(Byte) /\ hit \in 0 .. Len(sent)
  /\ parser \in [state : ParserStates, crc : Uint16, data_length : Byte]
  /\ DOMAIN rx_frame.data = 0 .. 7
  /\ rx_frame.data_size \in Byte /\ rx_frame.crc \in Uint16
  /\ parser.state = "data" => rx_frame.data_size < 8
  /\ result \in Results

(* The slave hears what the task asks for, whole and with a good CRC: the  *)
(* device, the function, the register or the coil to write with its value; *)
(* and of coils to read no more than a reply is taken apart for: "Will     *)
(* only read 16 bits at a time" (modbus_framer.h:144,148-193,              *)
(* modbus.h:115-129).  Which coils these are is not claimed: the start     *)
(* heard is not the "first address to process" of messages.h:46.           *)
RequestUnderstood ==
  (tx_frame # <<>> /\ sent = <<>>) =>
    LET heard == Heard(tx_frame)
    IN  /\ heard.sound
        /\ heard.slave = job.slave /\ heard.function = job.function
        /\ IF job.function = READ_COILS
           THEN heard.count \in 1 .. 16
           ELSE heard.start = job.address /\ heard.count = 1
        /\ IF job.function = WRITE_SINGLE_COIL
           THEN (heard.value = \hFF00) <=> (job.value # 0)
           ELSE heard.value = job.value

(* A reply that arrives as it was sent is complete exactly at its last     *)
(* byte, and what the task makes of it is what the slave sent, whatever    *)
(* rx_frame held before: a register as a periodic read takes it, coils as  *)
(* a command does, also when they are a single byte                        *)
(* (modbus_parser.h:76-180, bus.c:237,273).                                *)
AnswerUnderstood ==
  (sent # <<>> /\ hit = 0 /\ sent[2] = job.function) =>
    /\ result = (IF rx_buffer = <<>> THEN "complete" ELSE "incomplete")
    /\ result = "complete" =>
         /\ rx_frame.slave = job.slave /\ rx_frame.function_code = job.function
         /\ job.function = READ_HOLDING_REGISTERS =>
              rx_frame.data_size = 2 /\ PeriodicData(rx_frame) = Word(sent[4], sent[5])
         /\ job.function = READ_COILS =>
              CommandData(rx_frame) =
                IF sent[3] = 1 THEN sent[4] ELSE Word(sent[5], sent[4])

(* Noise that moves the bytes of the reply in the frame: it hit the        *)
(* function code, or the length of a read's reply.                         *)
FramingHit == hit = 2 \/ (hit = 3 /\ sent[2] \in ReadFunctions)

(* An exception, or a reply with a wrong byte other than those that say    *)
(* how long it is, is never taken for an answer (modbus_parser.h:84-176).  *)
DamagedNeverTaken ==
  result = "complete" /\ ~ FramingHit => hit = 0 /\ sent[2] = job.function
=============================================================================
