---------------------------- MODULE MidiNumbers ----------------------------
(***************************************************************************)
(* Numbers in the 7-bit and 4-bit bytes of MIDI messages, and the PODxt's  *)
(* two ways of numbering its programs.                                     *)
(***************************************************************************)
EXTENDS Integers, Sequences

\* `as u8` on the upper part.
To2U7(v)      == <<(v \div 128) % 256, v % 128>>
From2U7(b)    == b[1] * 128 + b[2]
To4U4(v)      == <<(v \div 4096) % 16, (v \div 256) % 16, (v \div 16) % 16, v % 16>>
From4U4(b)    == b[1] * 4096 + b[2] * 256 + b[3] * 16 + b[4]
ToNibbles(d)  == [i \in 1 .. 2 * Len(d) |->
                     IF i % 2 = 1 THEN d[(i + 1) \div 2] \div 16 ELSE d[i \div 2] % 16]
FromNibbles(b) == [i \in 1 .. Len(b) \div 2 |->
                      ((b[2 * i - 1] * 16) % 256) + (b[2 * i] % 16)]

\* PodXtPatch: bank 0, 1, 2 of 128 programs; the first halves of the banks come
\* first, then the second halves.  Other numbers panic.
Bank(v)  == v \div 256
Patch(v) == v % 256
IsPatch(v)   == Bank(v) \in 0 .. 2 /\ Patch(v) \in 0 .. 127
\* Mutant: the second half of a bank follows the first.
PatchToMidiPlain(v) == 128 * Bank(v) + Patch(v)

PatchToMidi(v) == IF Patch(v) < 64 THEN 64 * Bank(v) + Patch(v)
                                   ELSE 64 * Bank(v) + Patch(v) + 128

IsMidiPatch(m) == m \in 0 .. 383
PatchFromMidi(m) == IF m < 192 THEN 256 * (m \div 64) + (m % 64)
                               ELSE 256 * ((m - 192) \div 64) + 64 + (m % 64)

\* PodXtSaved: the bank counts from 1.
SavedToMidi(v)   == From2U7(<<Bank(v) + 1, Patch(v)>>)
IsMidiSaved(m)   == ((m \div 128) % 256) \in 1 .. 3
SavedFromMidi(m) == (((m \div 128) % 256) - 1) * 256 + (m % 128)
=============================================================================
