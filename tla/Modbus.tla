------------------------------- MODULE Modbus -------------------------------
(***************************************************************************)
(* The Modbus frames the buses exchange, as the parser and the framer of   *)
(* the firmware see them (inc/modbus_parser.h, inc/modbus_framer.h,        *)
(* inc/messages.h).                                                        *)
(*                                                                         *)
(* A reply travels as two units: its "head" (slave address, function code  *)
(* and length or address bytes) and its "tail" (data and CRC).  Two units  *)
(* are enough for every way a byte stream can lose step with its frames: a *)
(* reply may be cut, its rest may arrive in a later transaction, and the   *)
(* beginning of one reply may be followed by the end of another one.       *)
(***************************************************************************)
EXTENDS Naturals, Sequences

CONSTANTS
  Slaves,           \* Modbus slave addresses
  Addresses,        \* coil and register addresses
  NarrowAddresses,  \* addresses with address % 16 < 8: their coils fit one byte
  Answers           \* the data bytes a slave may answer with

ReadFunctions == {"read_coils", "read_holding"}
WriteFunctions == {"write_coil", "write_holding"}
Functions == ReadFunctions \cup WriteFunctions

(* What a periodic read or a command names (struct m_device without bus).  *)
Device == [slave : Slaves, function : Functions, address : Addresses]

(* One bit stands for each byte.  The data of a frame is the set of the    *)
(* indices whose byte is not zero; a 16 bit word is a set of bytes too.    *)
FrameData == SUBSET {0, 1}
Word == SUBSET {"hi", "lo"}

ASSUME ModbusAssumption ==
  /\ Slaves # {} /\ Addresses # {}
  /\ NarrowAddresses \subseteq Addresses
  /\ Answers \subseteq FrameData

(* data ^ last_data *)
Xor(v, w) == (v \ w) \cup (w \ v)

(* data[0] << 8 | data[1]                                                  *)
FirstByteHigh(data) == {IF i = 0 THEN "hi" ELSE "lo" : i \in data}

(* modbus_create_read_frame and modbus_create_write_frame return 0 for any *)
(* other function code.                                                    *)
CanFrame(type, device) ==
  device.function \in IF type = "write" THEN WriteFunctions ELSE ReadFunctions

(***************************************************************************)
(* Replies.  "exception" is the function code with bit 0x80 set.           *)
(***************************************************************************)
Header == [slave : Slaves, function : Functions \cup {"exception"},
           size : {"byte", "word"}]
Unit == [part : {"head", "tail"}, header : Header, data : FrameData,
         fresh : BOOLEAN]

(* The length byte of the answer: a coil read asks for                     *)
(* start_address % 16 + 1 coils, one byte of them below 8.                 *)
AnswerSize(device) ==
  IF device.function = "read_coils" /\ device.address \in NarrowAddresses
  THEN "byte" ELSE "word"

(* The two units of a reply of device.slave, with the given function code. *)
(* The reply to a write repeats the request: its data tells nothing.       *)
ReplyUnits(device, function, data, fresh) ==
  LET header == [slave |-> device.slave, function |-> function,
                 size |-> AnswerSize(device)]
      sent == IF device.function \in WriteFunctions THEN {}
              ELSE IF header.size = "byte" THEN data \cap {0} ELSE data
      Part(p) == [part |-> p, header |-> header, data |-> sent, fresh |-> fresh]
  IN  <<Part("head"), Part("tail")>>

(***************************************************************************)
(* The parser: waiting for a slave address, inside a frame whose head it   *)
(* has read, or astray, taking bytes for what they are not.                *)
(***************************************************************************)
NoHeader == CHOOSE h \in Header : TRUE
WaitSlave == [state |-> "slave", header |-> NoHeader]
Parser == [state : {"slave", "data", "astray"}, header : Header]

(* WAIT_SLAVE, WAIT_FUNCTION and the length or address bytes go through.   *)
StartsFrame(parser, unit) ==
  /\ parser.state = "slave"
  /\ unit.part = "head"
  /\ unit.header.function \in Functions

(* The CRC is that of the head and of the data: head and tail agree.       *)
EndsFrame(parser, unit) ==
  /\ parser.state = "data"
  /\ unit.part = "tail"
  /\ unit.header = parser.header

(* MODBUS_ERROR_EXCEPTION: the parser stops at the second byte.            *)
IsException(parser, unit) ==
  /\ parser.state = "slave"
  /\ unit.part = "head"
  /\ unit.header.function = "exception"

(* Any other byte order ends in MODBUS_ERROR_SLAVE, _FUNCTION or _CRC, at  *)
(* once or after more bytes.  That the CRC finds every such frame is an    *)
(* assumption of the model.                                                *)
Misframed(parser, unit) ==
  ~ StartsFrame(parser, unit) /\ ~ EndsFrame(parser, unit)
    /\ ~ IsException(parser, unit)
=============================================================================
