------------------------------ MODULE Packets ------------------------------
(***************************************************************************)
(* The TFTP packets the server builds (packet.c) and the numbers the       *)
(* protocol fixes (packets.h).  A payload is abstracted to the place of    *)
(* its bytes in their file: file, offset of the first byte, length.        *)
(* Message texts of ERROR packets and the byte layout are left out.        *)
(***************************************************************************)
EXTENDS Integers, Sequences

CONSTANTS
    File        \* names of files that requests may ask for

ERROR_NOFILE  == 1
ERROR_ILLEGAL == 4
ERROR_NOUSER  == 7
ERROR_OPTION  == 8

\* Block size without a blksize option, and the bounds that option obeys.
DEFAULT_BLKSIZE == 512
MIN_BLKSIZE     == 8
MAX_BLKSIZE     == 65464

Opcodes == {"RRQ", "WRQ", "DATA", "ACK", "ERROR", "OACK"}

\* len bytes of file f from offset off.
Chunk(f, off, len) == [file |-> f, off |-> off, len |-> len]
Chunks == [file : File, off : Nat, len : Nat]

(***************************************************************************)
(* Packets the server sends.  OptionAcknowledge copies the value behind    *)
(* the option's name and then overwrites the value's first byte with the   *)
(* terminator (packet.c:145-146), so the value a peer reads back is empty: *)
(* `value' is the sequence of values the packet still carries.             *)
(***************************************************************************)
DataPacket(b, chunk) == [op |-> "DATA", blockno |-> b, data |-> chunk]
AckPacket(b)         == [op |-> "ACK", blockno |-> b]
ErrorPacket(code)    == [op |-> "ERROR", code |-> code]
OackPacket(opt, val) == [op |-> "OACK", opt |-> opt, value |-> <<>>]

\* Queue entry whose memory SendPackets has already freed.
FreedPacket == [op |-> "FREED"]

Options == {"none", "blksize", "tsize", "timeout"}

OutPackets ==
    [op : {"DATA"}, blockno : Nat, data : Chunks]
      \union [op : {"ACK"}, blockno : Nat]
      \union [op : {"ERROR"}, code : Nat]
      \union [op : {"OACK"}, opt : Options, value : Seq(Nat)]
      \union {FreedPacket}

(***************************************************************************)
(* Packets the server receives.  "RUNT" stands for every datagram that     *)
(* ProcessPacket drops without looking at the client: longer than          *)
(* MAX_PACKET_SIZE, or with an opcode it does not handle (OACK included).  *)
(* mode "mail" is told apart from the other two, which are served alike.   *)
(***************************************************************************)
Requests ==
    [op : {"RRQ", "WRQ"}, file : File, mode : {"octet", "mail"},
     opt : Options, val : Int]

InPackets ==
    Requests
      \union [op : {"DATA"}, blockno : Nat, data : Chunks]
      \union [op : {"ACK"}, blockno : Nat]
      \union [op : {"ERROR"}]
      \union [op : {"RUNT"}]

=============================================================================
