----------------------------- MODULE MidiCodec -----------------------------
(***************************************************************************)
(* MidiMessage::to_bytes and MidiMessage::from_bytes: MIDI messages and    *)
(* their bytes.  A message is its type and its arguments; what lies        *)
(* between the 0xf0 and the 0xf7 of a system exclusive message is a layout *)
(* of constant bytes and fields, each <<kind, constant or argument>>.      *)
(***************************************************************************)
EXTENDS MidiNumbers, SequencesExt

Message(type, args) == [type |-> type, args |-> args]
Refused  == Message("refused", <<>>)    \* an Err of from_bytes
Panicked == Message("panicked", <<>>)   \* a panic in from_bytes

-----------------------------------------------------------------------------
(* The layouts.                                                            *)

Bytes(bs)  == [i \in DOMAIN bs |-> <<"is", bs[i]>>]
Line6(bs)  == Bytes(<<0, 1, 12>> \o bs)
Byte(i)    == <<<<"byte", i>>>>
Field(kind, i) == <<<<kind, i>>>>

Layouts == [
    UniversalDeviceInquiry |-> Bytes(<<126>>) \o Byte(1) \o Bytes(<<6, 1>>),
    UniversalDeviceInquiryResponse |-> Bytes(<<126>>) \o Byte(1)
        \o Bytes(<<6, 2, 0, 1, 12>>) \o Field("le16", 2) \o Field("le16", 3)
        \o Field("text4", 4),
    ProgramPatchDumpRequest |-> Line6(<<1, 0, 0>>) \o Byte(1),
    ProgramPatchDump |-> Line6(<<1, 1, 0>>) \o Byte(1) \o Byte(2) \o Field("nibbles", 3),
    ProgramEditBufferDumpRequest |-> Line6(<<1, 0, 1>>),
    ProgramEditBufferDump |-> Line6(<<1, 1, 1>>) \o Byte(1) \o Field("nibbles", 2),
    AllProgramsDumpRequest |-> Line6(<<1, 0, 2>>),
    AllProgramsDump |-> Line6(<<1, 1, 2>>) \o Byte(1) \o Field("nibbles", 2),
    XtInstalledPacksRequest |-> Line6(<<3, 14, 0>>),
    XtInstalledPacks |-> Line6(<<3, 14, 1>>) \o Byte(1),
    XtEditBufferDumpRequest |-> Line6(<<3, 117>>),
    XtBufferDump |-> Line6(<<3, 116>>) \o Byte(1) \o Field("raw", 2),
    XtPatchDumpRequest |-> Line6(<<3, 115>>) \o Field("patch", 1) \o Bytes(<<0, 0>>),
    XtPatchDump |-> Line6(<<3, 113>>) \o Byte(2) \o Field("patch", 1) \o Field("raw", 3),
    XtPatchDumpEnd |-> Line6(<<3, 114>>),
    XtSaved |-> Line6(<<3, 36>>) \o Field("saved", 1),
    XtStoreStatus |-> Line6(<<3>>) \o Field("stored", 1),
    XtTunerNoteRequest |-> Line6(<<3, 87, 22>>),
    XtTunerNote |-> Line6(<<3, 86, 22>>) \o Field("u4", 1),
    XtTunerOffsetRequest |-> Line6(<<3, 87, 23>>),
    XtTunerOffset |-> Line6(<<3, 86, 23>>) \o Field("u4", 1),
    XtProgramNumberRequest |-> Line6(<<3, 87, 17>>),
    XtProgramNumber |-> Line6(<<3, 86, 17>>) \o Field("u4", 1),
    XtProgramEditStateRequest |-> Line6(<<3, 87, 28>>),
    XtProgramEditState |-> Line6(<<3, 86, 28>>) \o Field("flag", 1)]

\* The bytes of a field with its value, and the value of its bytes.
Written(kind, v) ==
    CASE kind \in {"is", "byte"} -> <<v>>
      [] kind = "le16"    -> <<v % 256, v \div 256>>
      [] kind = "patch"   -> To2U7(PatchToMidi(v))
      [] kind = "saved"   -> To2U7(SavedToMidi(v))
      [] kind = "u4"      -> To4U4(v)
      [] kind = "flag"    -> To4U4(IF v THEN 1 ELSE 0)
      [] kind = "stored"  -> IF v THEN <<80>> ELSE <<81>>
      [] kind = "nibbles" -> ToNibbles(v)
      [] OTHER            -> v

ValueOf(kind, b) ==
    CASE kind = "byte"    -> b[1]
      [] kind = "le16"    -> b[2] * 256 + b[1]
      [] kind = "patch"   -> PatchFromMidi(From2U7(b))
      [] kind = "saved"   -> SavedFromMidi(From2U7(b))
      [] kind = "u4"      -> From4U4(b)
      [] kind = "flag"    -> From4U4(b) > 0
      [] kind = "stored"  -> b = <<80>>
      [] kind = "nibbles" -> FromNibbles(b)
      [] OTHER            -> b

\* Which bytes of a field are matched, and which of those do not panic.
Matches(kind, v, b) ==
    CASE kind = "is"      -> b = <<v>>
      [] kind = "stored"  -> b \in {<<80>>, <<81>>}
      [] kind = "nibbles" -> Len(b) >= 2
      [] OTHER            -> TRUE

Valid(kind, b) ==
    CASE kind = "patch" -> IsMidiPatch(From2U7(b))
      [] kind = "saved" -> IsMidiSaved(From2U7(b))
      [] OTHER          -> TRUE

-----------------------------------------------------------------------------
(* to_bytes.                                                               *)

SysexBytes(m) ==
    LET layout == Layouts[m.type]
        Part(i) == Written(layout[i][1],
                       IF layout[i][1] = "is" THEN layout[i][2] ELSE m.args[layout[i][2]])
    IN <<240>> \o FlattenSeq([i \in DOMAIN layout |-> Part(i)]) \o <<247>>

ToBytes(m) ==
    CASE m.type = "ControlChange" -> <<176 + (m.args[1] % 16), m.args[2], m.args[3]>>
      [] m.type = "ProgramChange" -> <<192 + (m.args[1] % 16), m.args[2]>>
      [] OTHER -> SysexBytes(m)

-----------------------------------------------------------------------------
(* from_bytes.                                                             *)

Width(kind, rest) ==
    CASE kind \in {"is", "byte", "stored"}  -> 1
      [] kind \in {"le16", "patch", "saved"} -> 2
      [] kind \in {"u4", "flag", "text4"}   -> 4
      [] OTHER                              -> rest

\* Where the parts of a layout lie in a body of n bytes: the last index of each.
Ends(layout, n) ==
    LET end[i \in 0 .. Len(layout)] ==
            IF i = 0 THEN 0 ELSE end[i - 1] + Width(layout[i][1], n - end[i - 1])
    IN end

PartOf(body, layout, i) ==
    LET end == Ends(layout, Len(body)) IN SubSeq(body, end[i - 1] + 1, end[i])

Fits(body, layout) ==
    LET end == Ends(layout, Len(body))
    IN /\ end[Len(layout)] = Len(body)
       /\ \A i \in DOMAIN layout : end[i] >= end[i - 1]
       /\ \A i \in DOMAIN layout :
              Matches(layout[i][1], layout[i][2], PartOf(body, layout, i))

\* Each argument, from the part that holds it.
Args(body, layout) ==
    LET Holds(k) == {i \in DOMAIN layout : layout[i][1] # "is" /\ layout[i][2] = k}
        count    == Len(SelectSeq(layout, LAMBDA part : part[1] # "is"))
    IN [k \in 1 .. count |->
           LET i == CHOOSE i \in Holds(k) : TRUE
           IN ValueOf(layout[i][1], PartOf(body, layout, i))]

\* A body is of the type whose layout it fits.
SysexMessage(body) ==
    IF \E t \in DOMAIN Layouts : Fits(body, Layouts[t])
    THEN LET t == CHOOSE t \in DOMAIN Layouts : Fits(body, Layouts[t])
         IN IF \A i \in DOMAIN Layouts[t] :
                   Valid(Layouts[t][i][1], PartOf(body, Layouts[t], i))
            THEN Message(t, Args(body, Layouts[t]))
            ELSE Panicked
    ELSE Refused

\* sysex_length: the message ends at the first status byte, which must be 0xf7.
SysexEnd(bytes) == SelectInSubSeq(bytes, 2, Len(bytes), LAMBDA b : b >= 128)

FromBytes(bytes) ==
    IF bytes = <<>> THEN Refused
    ELSE IF bytes[1] = 240
         THEN LET end == SysexEnd(bytes)
              IN IF end # 0 /\ bytes[end] = 247
                 THEN SysexMessage(SubSeq(bytes, 2, end - 1)) ELSE Refused
    ELSE IF bytes[1] \div 16 = 11 /\ Len(bytes) = 3
         THEN Message("ControlChange", <<bytes[1] % 16, bytes[2], bytes[3]>>)
    ELSE IF bytes[1] \div 16 = 12 /\ Len(bytes) = 2
         THEN Message("ProgramChange", <<bytes[1] % 16, bytes[2]>>)
    ELSE Refused
=============================================================================
