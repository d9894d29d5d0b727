------------------------------ MODULE MidiPath ------------------------------
(***************************************************************************)
(* The way of MIDI messages between a USB device and the application: the  *)
(* device's bytes arrive in transfers that end anywhere, the framer takes  *)
(* them apart into messages, from_bytes parses these; the other way,       *)
(* to_bytes and the framer make the packets that the device reads.         *)
(***************************************************************************)
EXTENDS MidiCodec, UsbFramer

CONSTANTS
    Incoming,       \* the messages the device sends
    Outgoing,       \* the messages the application sends
    BufferSize,     \* of sysex_buffer and read_buffer, 1024
    PacketSize,     \* max_packet_size, of a transfer
    MaxMessages     \* bound: messages sent

ASSUME MidiPathAssumption ==
    /\ BufferSize \in Nat /\ PacketSize \in Nat \ {0} /\ MaxMessages \in Nat
    /\ PacketSize <= BufferSize
    /\ \A m \in Incoming : Len(ToBytes(m)) + PacketSize <= BufferSize

VARIABLES
    framer,     \* the framer of the device
    sent,       \* the messages the device sent
    wire,       \* its bytes that were not transferred yet
    rest,       \* sysex_buffer, read_buffer up to its offset
    received,   \* the messages the application received
    asked,      \* the messages the application sent
    packets     \* the packets they were sent in

pathVars == <<framer, sent, wire, rest, received, asked, packets>>

-----------------------------------------------------------------------------
\* What the device sends for a message: event packets, of which some are empty,
\* or bytes with its own command.
DeviceCommand(bytes) == [bytes EXCEPT ![1] = IF @ \in {176, 192, 240} THEN @ + 2 ELSE @]
DeviceBytes(m) ==
    IF framer = "midi" THEN FlattenSeq(EncodeMidi(ToBytes(m)) \o <<<<0, 0, 0, 0>>>>)
                       ELSE DeviceCommand(ToBytes(m))

\* How it reads the packets: an event packet's code tells its length.
PacketBytes(p) ==
    SubSeq(p, 2, CASE p[1] \in {4, 7, 11} -> 4 [] p[1] \in {6, 12} -> 3 [] OTHER -> 2)
DeviceReads(ps) ==
    FlattenSeq([i \in DOMAIN ps |-> IF framer = "midi" THEN PacketBytes(ps[i]) ELSE ps[i]])

DeviceSends(m) ==
    /\ Len(sent) + Len(asked) < MaxMessages
    /\ sent' = Append(sent, m)
    /\ wire' = wire \o DeviceBytes(m)
    /\ UNCHANGED <<framer, rest, received, asked, packets>>

\* Event packets are not split.  A PODxt's control or program change ends a
\* transfer: the framer takes what follows for a part of it.
TransferEnds(n) ==
    IF framer = "midi" THEN n % 4 = 0
    ELSE \A a \in 1 .. n : wire[a] \in {178, 194} => n = a + (IF wire[a] = 178 THEN 2 ELSE 1)

Transfer(n) ==
    /\ n <= Len(wire) /\ TransferEnds(n)
    /\ wire' = SubSeq(wire, n + 1, Len(wire))
    /\ LET decoded == DecodeIncoming(framer, rest, SubSeq(wire, 1, n))
       IN /\ rest' = decoded.rest
          /\ received' = received \o [i \in DOMAIN decoded.messages |->
                                         FromBytes(decoded.messages[i])]
    /\ UNCHANGED <<framer, sent, asked, packets>>

\* DevOutput::send.
AppSends(m) ==
    /\ Len(sent) + Len(asked) < MaxMessages
    /\ asked' = Append(asked, m)
    /\ packets' = packets \o EncodeOutgoing(framer, ToBytes(m))
    /\ UNCHANGED <<framer, sent, wire, rest, received>>

-----------------------------------------------------------------------------
Init ==
    /\ framer \in Framers
    /\ sent = <<>> /\ wire = <<>> /\ rest = <<>> /\ received = <<>>
    /\ asked = <<>> /\ packets = <<>>

Next == \/ \E m \in Incoming : DeviceSends(m)
        \/ \E n \in 1 .. PacketSize : Transfer(n)
        \/ \E m \in Outgoing : AppSends(m)

Spec == Init /\ [][Next]_pathVars
=============================================================================
