----------------------------- MODULE UsbFramer -----------------------------
(***************************************************************************)
(* How MIDI messages travel over USB: in event packets of four bytes (the  *)
(* USB-MIDI class), or as they are, with the PODxt's own command bytes.    *)
(* A framer keeps what it received of a message that is not complete.      *)
(***************************************************************************)
EXTENDS Integers, Sequences, SequencesExt

Framers == {"midi", "xt"}

Decoded(rest, messages) == [rest |-> rest, messages |-> messages]

-----------------------------------------------------------------------------
(* UsbMidiInFramer: the code of a packet tells what its bytes are.         *)

\* The bytes of a system exclusive message, of which the last packet has fewer.
SysexCount == [code \in 4 .. 7 |-> CASE code = 5 -> 1 [] code = 6 -> 2 [] OTHER -> 3]

DecodePacket(before, packet) ==
    LET code == packet[1]
        taken == before.rest \o SubSeq(packet, 2, 1 + SysexCount[code])
    IN CASE code = 11 -> Decoded(before.rest, Append(before.messages, SubSeq(packet, 2, 4)))
         [] code = 12 -> Decoded(before.rest, Append(before.messages, SubSeq(packet, 2, 3)))
         [] code = 4  -> Decoded(taken, before.messages)
         [] code \in 5 .. 7 -> Decoded(<<>>, Append(before.messages, taken))
         [] OTHER -> before

Packets(bytes) == [i \in 1 .. Len(bytes) \div 4 |-> SubSeq(bytes, 4 * i - 3, 4 * i)]

DecodeMidi(rest, bytes) ==
    LET packets == Packets(bytes)
        decoded[i \in 0 .. Len(packets)] ==
            IF i = 0 THEN Decoded(rest, <<>>) ELSE DecodePacket(decoded[i - 1], packets[i])
    IN decoded[Len(packets)]

\* Mutant: the codes of the last packets are confused.
PacketOfSwapped(chunk) ==
    IF chunk[Len(chunk)] # 247 THEN <<4>> \o chunk
    ELSE CASE Len(chunk) = 3 -> <<7>> \o chunk
           [] Len(chunk) = 2 -> <<5>> \o chunk \o <<0>>
           [] OTHER          -> <<6>> \o chunk \o <<0, 0>>

\* UsbMidiOutFramer: only channel 0 is known.
PacketOf(chunk) ==
    IF chunk[Len(chunk)] # 247 THEN <<4>> \o chunk
    ELSE CASE Len(chunk) = 3 -> <<7>> \o chunk
           [] Len(chunk) = 2 -> <<6>> \o chunk \o <<0>>
           [] OTHER          -> <<5>> \o chunk \o <<0, 0>>

Thirds(bytes) == [i \in 1 .. (Len(bytes) + 2) \div 3 |->
                     SubSeq(bytes, 3 * i - 2, IF 3 * i < Len(bytes) THEN 3 * i ELSE Len(bytes))]

EncodeMidi(bytes) ==
    CASE bytes[1] = 176 -> <<<<11>> \o bytes>>
      [] bytes[1] = 192 -> <<<<12>> \o bytes \o <<0>>>>
      [] bytes[1] = 240 -> [i \in DOMAIN Thirds(bytes) |-> PacketOf(Thirds(bytes)[i])]
      [] OTHER          -> <<>>

-----------------------------------------------------------------------------
(* PodXtInFramer: a system exclusive message ends at its 0xf7, any other   *)
(* message at the end of what was received.                                *)

Command(b) == IF b \in {178, 194, 242} THEN b - 2 ELSE b

\* Mutant: the command stays as the PODxt sent it.
Uncorrected(bytes) == bytes

Corrected(bytes) == [bytes EXCEPT ![1] = Command(@)]

\* Mutant: a message is complete only where a transfer ends.
MessageEndLast(bytes, p) ==
    IF Command(bytes[p]) = 240
    THEN IF bytes[Len(bytes)] = 247 THEN Len(bytes) ELSE 0
    ELSE Len(bytes)

\* The end of the message that starts at p; 0: it is not complete.
MessageEnd(bytes, p) ==
    IF Command(bytes[p]) = 240
    THEN SelectInSubSeq(bytes, p, Len(bytes), LAMBDA b : b = 247)
    ELSE Len(bytes)

DecodeXt(rest, bytes) ==
    LET all == rest \o bytes
        from[p \in 1 .. Len(all) + 1] ==
            IF p > Len(all) THEN Decoded(<<>>, <<>>)
            ELSE LET end == MessageEnd(all, p)
                 IN IF end = 0
                    THEN Decoded(Corrected(SubSeq(all, p, Len(all))), <<>>)
                    ELSE [from[end + 1] EXCEPT !.messages =
                             <<Corrected(SubSeq(all, p, end))>> \o @]
    IN from[1]

-----------------------------------------------------------------------------
\* decode_incoming and encode_outgoing, of the framer that init_framers chose.
DecodeIncoming(framer, rest, bytes) ==
    IF framer = "midi" THEN DecodeMidi(rest, bytes) ELSE DecodeXt(rest, bytes)

EncodeOutgoing(framer, bytes) ==
    IF framer = "midi" THEN EncodeMidi(bytes) ELSE <<bytes>>
=============================================================================
