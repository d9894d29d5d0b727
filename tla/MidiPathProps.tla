--------------------------- MODULE MidiPathProps ---------------------------
(***************************************************************************)
(* What the way of the MIDI messages promises.                             *)
(***************************************************************************)
EXTENDS MidiPath

\* However the transfers cut the stream, the application parses the messages
\* the device sent, in their order, with their values; and all of them, once the
\* bytes were transferred: nothing stays behind in a framer.
ReceivedInOrder ==
    /\ IsPrefix(received, sent)
    /\ wire = <<>> => received = sent /\ rest = <<>>

\* The device reads the bytes of the messages the application sent, and would
\* parse them as these.
SentArrives ==
    DeviceReads(packets) = FlattenSeq([i \in DOMAIN asked |-> ToBytes(asked[i])])

\* The buffer of a framer has room for the next transfer, so that no slice of it
\* is out of range.
BufferSuffices == Len(rest) + PacketSize <= BufferSize

\* Numbers come back as they were sent: the two ways of numbering the programs
\* of a PODxt, numbers in 7-bit and in 4-bit bytes.
NumbersSurvive == sent = <<>> /\ asked = <<>> =>
    /\ \A v \in 0 .. 767 : IsPatch(v) =>
           /\ IsMidiPatch(PatchToMidi(v)) /\ PatchFromMidi(PatchToMidi(v)) = v
           /\ IsMidiSaved(SavedToMidi(v)) /\ SavedFromMidi(SavedToMidi(v)) = v
    /\ \A m \in 0 .. 383 : PatchToMidi(PatchFromMidi(m)) = m
    /\ \A v \in {0, 1, 127, 128, 383, 16383} : From2U7(To2U7(v)) = v
    /\ \A v \in {0, 15, 16, 4660, 65535} : From4U4(To4U4(v)) = v

\* A whole message: system exclusive, which 0xf7 ends, or a control or program
\* change on channel 1.
Sysex(b) == /\ Len(b) >= 2 /\ b[1] = 240 /\ b[Len(b)] = 247
            /\ \A i \in 2 .. Len(b) - 1 : b[i] # 247
Change(b) == \/ b[1] = 176 /\ Len(b) = 3
             \/ b[1] = 192 /\ Len(b) = 2
Whole(b) == b \in Seq(Nat) /\ (Sysex(b) \/ Change(b))

WholeMessages == \A m \in Incoming \cup Outgoing : Whole(ToBytes(m))

ASSUME MessagesAssumption == WholeMessages

\* Each message alone is parsed as it was written.
ParsedBack == \A m \in Incoming : FromBytes(ToBytes(m)) = m

=============================================================================
