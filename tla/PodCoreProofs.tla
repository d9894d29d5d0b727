--------------------------- MODULE PodCoreProofs ---------------------------
(***************************************************************************)
(* The invariants of PodCore for every set of programs, values and names,  *)
(* every device flag and every interleaving of the three threads.          *)
(***************************************************************************)
EXTENDS PodCoreProps, SequenceTheorems, TLAPS

-----------------------------------------------------------------------------
(* What the constructors build, and what the kinds of events carry.        *)

LEMMA SignalsTyped ==
    /\ \A v \in Vals, o \in Origins \cup {"NONE"} : ControlSignal(v, o) \in Signals
    /\ \A o \in {"UI", "NONE"} : NameSignal(o) \in Signals
    /\ \A s \in Signals : s.key = "control" =>
            s.val \in Vals /\ s.origin \in Origins \cup {"NONE"}
    /\ \A s \in Signals : s.key = "name_change" => ~CarriesControl(s)
BY DEF ControlSignal, NameSignal, Signals, Origins, CarriesControl

LEMMA MsgsTyped ==
    /\ \A v \in Vals : CcMsg(v) \in Msgs
    /\ \A n \in Nat : PcMsg(n) \in Msgs
    /\ \A b \in Dumpable : ReqMsg(b) \in Msgs
    /\ \A b \in Single, d \in Patch : DumpMsg(b, d) \in Msgs
    /\ \A d \in Dump : DumpMsg(All, d) \in Msgs
BY DEF CcMsg, PcMsg, ReqMsg, DumpMsg, Msgs

LEMMA MsgKinds ==
    ASSUME NEW m \in Msgs
    PROVE  /\ m.cmd = "cc" => m.val \in Vals
           /\ m.cmd = "pc" => m.num \in Nat
           /\ m.cmd = "request" => m.buffer \in Dumpable
           /\ m.cmd = "dump" => /\ m.buffer \in Dumpable
                                /\ m.buffer = All => m.content \in Dump
                                /\ m.buffer # All => m.content \in Patch
           /\ m.cmd \in {"cc", "pc", "request", "dump"}
<1>1. CASE m \in [cmd : {"cc"}, val : Vals]
  BY <1>1
<1>2. CASE m \in [cmd : {"pc"}, num : Nat]
  BY <1>2
<1>3. CASE m \in [cmd : {"request"}, buffer : Dumpable]
  BY <1>3
<1>4. CASE m \in [cmd : {"dump"}, buffer : Single, content : Patch]
  BY <1>4 DEF Single
<1>5. CASE m \in [cmd : {"dump"}, buffer : {All}, content : Dump]
  BY <1>5, PodCoreAssumption DEF Dumpable, Buffers
<1> QED BY <1>1, <1>2, <1>3, <1>4, <1>5 DEF Msgs

LEMMA EventsTyped ==
    /\ \A s \in Signals : CcEvent(s) \in Events
    /\ \A p \in ProgramIds \ {Hidden}, o \in Origins : PcEvent(p, o) \in Events
    /\ \A b \in Buffers, o \in Origins : LoadEvent(b, o) \in Events
    /\ \A b \in Buffers, o \in Origins : StoreEvent(b, o) \in Events
    /\ \A f, t \in Single : CopyEvent(f, t) \in Events
    /\ \A b \in Single, o \in Origins, d \in Patch : DataEvent(b, o, d) \in Events
    /\ \A o \in Origins, d \in Dump : DataEvent(All, o, d) \in Events
    /\ \A b \in Buffers, f \in BOOLEAN : ModEvent(b, f) \in Events
    /\ \A m \in Msgs : MsgIn(m) \in Events /\ MsgOut(m) \in Events
BY DEF CcEvent, PcEvent, LoadEvent, StoreEvent, CopyEvent, DataEvent, ModEvent,
       MsgIn, MsgOut, Events

LEMMA EventKinds ==
    ASSUME NEW e \in Events
    PROVE  /\ e.type = "cc" => e.sig \in Signals
           /\ e.type = "pc" => /\ e \in [type : {"pc"}, program : ProgramIds \ {Hidden},
                                         origin : Origins]
                               /\ e.program \in ProgramIds \ {Hidden}
           /\ e.type \in {"load", "store"} => e.buffer \in Buffers /\ e.origin \in Origins
           /\ e.type = "copy" => e.from \in Single /\ e.to \in Single
           /\ e.type = "data" => /\ e.buffer \in Dumpable /\ e.origin \in Origins
                                 /\ e.buffer = All => e.content \in Dump
                                 /\ e.buffer # All => e.content \in Patch
           /\ e.type = "modified" => e.buffer \in Buffers /\ e.flag \in BOOLEAN
           /\ e.type \in {"in", "out"} => e.msg \in Msgs
<1>1. CASE e \in [type : {"cc"}, sig : Signals]
  BY <1>1
<1>2. CASE e \in [type : {"pc"}, program : ProgramIds \ {Hidden}, origin : Origins]
  BY <1>2
<1>3. CASE e \in [type : {"load", "store"}, buffer : Buffers, origin : Origins]
  BY <1>3
<1>4. CASE e \in [type : {"copy"}, from : Single, to : Single]
  BY <1>4
<1>5. CASE e \in [type : {"data"}, buffer : Single, origin : Origins, content : Patch]
  BY <1>5 DEF Single
<1>6. CASE e \in [type : {"data"}, buffer : {All}, origin : Origins, content : Dump]
  BY <1>6, PodCoreAssumption DEF Dumpable, Buffers
<1>7. CASE e \in [type : {"modified"}, buffer : Buffers, flag : BOOLEAN]
  BY <1>7
<1>8. CASE e \in [type : {"in", "out"}, msg : Msgs]
  BY <1>8
<1> QED BY <1>1, <1>2, <1>3, <1>4, <1>5, <1>6, <1>7, <1>8 DEF Events

LEMMA BufferSets ==
    /\ EditBuffer \in Single /\ EditBuffer \in Buffers /\ EditBuffer # All
    /\ Current \in Buffers /\ All \in Buffers /\ All \in Dumpable
    /\ Programs \subseteq Single /\ Single \subseteq Dumpable /\ Dumpable \subseteq Buffers
    /\ \A b \in Single : b = EditBuffer \/ b \in Programs
    /\ \A b \in Dumpable : b \in Single \/ b = All
    /\ \A b \in Buffers : b \in Dumpable \/ b = Current
    /\ Current \notin Programs /\ All \notin Programs /\ NoRoute \notin Single
BY PodCoreAssumption DEF Single, Dumpable, Buffers

-----------------------------------------------------------------------------
(* The helpers keep to the types.                                          *)

LEMMA Tuples ==
    ASSUME NEW S
    PROVE  /\ <<>> \in Seq(S)
           /\ \A x \in S : <<x>> \in Seq(S)
           /\ \A x, y \in S : <<x, y>> \in Seq(S)
           /\ \A s, t \in Seq(S) : s \o t \in Seq(S)
           /\ \A s \in Seq(S), x \in S : Append(s, x) \in Seq(S)
           /\ \A s \in Seq(S) : s # <<>> => Head(s) \in S /\ Tail(s) \in Seq(S)
BY ConcatProperties, AppendProperties, HeadTailProperties

LEMMA ReplyTyped ==
    ASSUME bus \in Seq(Events), bus # <<>>, NEW evs \in Seq(Events), Reply(evs)
    PROVE  bus' \in Seq(Events)
<1>1. Tail(bus) \in Seq(Events)
  BY HeadTailProperties
<1> QED BY <1>1, ConcatProperties DEF Reply

LEMMA TakingTyped ==
    ASSUME TypeOK, NEW t, Taking(t)
    PROVE  /\ bus \in Seq(Events) /\ bus # <<>> /\ Head(bus) \in Events
           /\ Head(bus).type = t /\ app = Idle
<1>1. bus \in Seq(Events) /\ bus # <<>> /\ Head(bus).type = t /\ app = Idle
  BY DEF TypeOK, Taking
<1> QED BY <1>1, HeadTailProperties

LEMMA ModifiedAfterTyped ==
    ASSUME NEW b \in Dumpable, NEW r \in BOOLEAN
    PROVE  ModifiedAfter(b, r) \in Seq(Events)
<1>1. CASE b = EditBuffer
  <2>1. ModEvent(EditBuffer, TRUE) \in Events /\ StoreEvent(EditBuffer, "UI") \in Events
    BY BufferSets, EventsTyped DEF Origins
  <2> QED BY <1>1, <2>1, Tuples DEF ModifiedAfter
<1>2. CASE b # EditBuffer
  <2>1. ModEvent(b, r) \in Events
    BY BufferSets, EventsTyped
  <2> QED BY <1>2, <2>1 DEF ModifiedAfter
<1> QED BY <1>1, <1>2

LEMMA StoredTyped ==
    ASSUME TypeOK, NEW b \in Buffers
    PROVE  Stored(b) \in Seq(Events)
<1>1. CASE b = Current /\ numbered(prog)
  <2>1. DataEvent(prog, "UI", data[prog]) \in Events
    BY <1>1, BufferSets, EventsTyped DEF numbered, TypeOK, Origins, Dump
  <2> QED BY <1>1, <2>1, Tuples DEF Stored
<1>2. CASE b = Current /\ ~numbered(prog)
  BY <1>2, Tuples DEF Stored
<1>3. CASE b = All /\ ~AllProgramsDump
  <2>1. \A i \in 1..Len(ProgramSeq) :
            DataEvent(ProgramSeq[i], "UI", data[ProgramSeq[i]]) \in Events
    BY BufferSets, EventsTyped, PodCoreAssumption DEF TypeOK, Origins, Dump
  <2>2. [i \in 1..Len(ProgramSeq) |->
            DataEvent(ProgramSeq[i], "UI", data[ProgramSeq[i]])] \in Seq(Events)
    BY <2>1, PodCoreAssumption
  <2> QED BY <1>3, <2>2, PodCoreAssumption DEF Stored
<1>4. CASE b # Current /\ ~(b = All /\ ~AllProgramsDump)
  <2>1. DataEvent(b, "UI", IF b = EditBuffer THEN raw ELSE IF b = All THEN data ELSE data[b])
            \in Events
    BY <1>4, BufferSets, EventsTyped DEF TypeOK, Origins, Dump
  <2> QED BY <1>4, <2>1, Tuples DEF Stored
<1> QED BY <1>1, <1>2, <1>3, <1>4

LEMMA LoadEditTyped ==
    ASSUME TypeOK, NEW d \in Patch, LoadEdit(d)
    PROVE  raw' \in Patch /\ ctl' \in Vals /\ ctq' \in Seq(Signals)
<1>1. d.val \in Vals
  BY DEF Patch
<1>2. ControlSignal(d.val, "NONE") \in Signals /\ NameSignal("NONE") \in Signals
  BY <1>1, SignalsTyped
<1> QED BY <1>1, <1>2 DEF LoadEdit, TypeOK

\* What a BufferData event is for, and the table once its entry is taken.
LEMMA TargetTyped ==
    ASSUME TypeOK, Taking("data")
    PROVE  /\ bus \in Seq(Events) /\ bus # <<>> /\ Head(bus) \in Events
           /\ Target \in Dumpable /\ Rerouted \in BOOLEAN
           /\ Target = All => Head(bus).buffer = All /\ Head(bus).content \in Dump
           /\ Target # All => Target \in Single /\ Head(bus).content \in Patch
           /\ TakeRoute => /\ reroute' \in [Dumpable -> Single \cup {NoRoute}]
                           /\ reroute'[All] = NoRoute
<1>1. /\ bus \in Seq(Events) /\ bus # <<>> /\ Head(bus) \in Events
      /\ Head(bus).type = "data"
  BY TakingTyped
<1>2. /\ Head(bus).buffer \in Dumpable
      /\ Head(bus).buffer = All => Head(bus).content \in Dump
      /\ Head(bus).buffer # All => Head(bus).content \in Patch
  BY <1>1, EventKinds
<1>3. reroute[Head(bus).buffer] \in Single \cup {NoRoute} /\ reroute[All] = NoRoute
  BY <1>2 DEF TypeOK
<1>4. Rerouted => Head(bus).buffer # All /\ Target \in Single
  BY <1>3 DEF Rerouted, Target
<1>5. ~Rerouted => Target = Head(bus).buffer
  BY DEF Rerouted, Target
<1>6. TakeRoute => /\ reroute' \in [Dumpable -> Single \cup {NoRoute}]
                   /\ reroute'[All] = NoRoute
  BY <1>2 DEF TakeRoute, TypeOK
<1>7. Rerouted \in BOOLEAN
  BY DEF Rerouted
<1> QED BY <1>1, <1>2, <1>4, <1>5, <1>6, <1>7, BufferSets DEF Single

-----------------------------------------------------------------------------
(* The application task takes an event off the bus and sends well typed    *)
(* ones, or, between two reads of the program, only sends.                 *)

Replies == bus \in Seq(Events) /\ bus # <<>> /\ \E evs \in Seq(Events) : Reply(evs)
Sends   == bus \in Seq(Events) /\ \E evs \in Seq(Events) : bus' = bus \o evs

LEMMA ControlReplies ==
    ASSUME TypeOK, HandleControl \/ HandleName \/ MidiControl
    PROVE  Replies
<1>1. bus \in Seq(Events) /\ bus # <<>> /\ Head(bus) \in Events
  BY TakingTyped DEF HandleControl, HandleName, MidiControl
<1>2. CASE HandleControl
  <2>1. Head(bus).sig.val \in Vals
    BY <1>1, <1>2, EventKinds, SignalsTyped DEF HandleControl, Taking
  <2>2. /\ SendCc(Head(bus).sig) \in Seq(Events)
        /\ <<ModEvent(Current, TRUE)>> \in Seq(Events)
    BY <2>1, BufferSets, MsgsTyped, EventsTyped, Tuples DEF SendCc
  <2> QED BY <1>1, <1>2, <2>2, Tuples DEF HandleControl, Replies
<1>3. CASE HandleName
  BY <1>1, <1>3, BufferSets, EventsTyped, Tuples DEF HandleName, Replies
<1>4. CASE MidiControl
  BY <1>1, <1>4, BufferSets, EventsTyped, Tuples DEF MidiControl, Origins, Replies
<1> QED BY <1>2, <1>3, <1>4

LEMMA ProgramReplies ==
    ASSUME TypeOK
    PROVE  /\ HandleProgramChange \/ MidiProgram => Replies
           /\ FinishProgramChange => Sends
<1>1. ASSUME HandleProgramChange PROVE Replies
  <2>1. numbered(prev) => ModEvent(prev, TRUE) \in Events
    BY BufferSets, EventsTyped DEF numbered
  <2>2. \E evs \in Seq(Events) : Reply(evs)
    BY <1>1, <2>1, Tuples DEF HandleProgramChange
  <2> QED BY <1>1, <2>2, TakingTyped DEF HandleProgramChange, Replies
<1>2. ASSUME MidiProgram PROVE Replies
  BY <1>2, TakingTyped, Tuples DEF MidiProgram, Replies
<1>3. ASSUME FinishProgramChange PROVE Sends
  <2>1. \A p \in DOMAIN PcNum : MsgOut(PcMsg(PcNum[p])) \in Events
    BY PodCoreAssumption, MsgsTyped, EventsTyped
  <2>2. StoreEvent(EditBuffer, "UI") \in Events
    BY BufferSets, EventsTyped DEF Origins
  <2>3. \E evs \in Seq(Events) : bus' = bus \o evs
    BY <1>3, <2>1, <2>2, Tuples DEF FinishProgramChange
  <2> QED BY <2>3 DEF TypeOK, Sends
<1> QED BY <1>1, <1>2, <1>3

LEMMA BufferReplies ==
    ASSUME TypeOK, HandleLoad \/ HandleStore \/ HandleCopy
    PROVE  Replies
<1>1. bus \in Seq(Events) /\ bus # <<>> /\ Head(bus) \in Events
  BY TakingTyped DEF HandleLoad, HandleStore, HandleCopy
<1>2. CASE HandleLoad
  <2>1. Head(bus).buffer \in Buffers
    BY <1>1, <1>2, EventKinds DEF HandleLoad, Taking
  <2>2. Stored(Head(bus).buffer) \in Seq(Events)
    BY <2>1, StoredTyped
  <2>3. \A b \in Dumpable : <<MsgOut(ReqMsg(b))>> \in Seq(Events)
    BY MsgsTyped, EventsTyped, Tuples
  <2>4. /\ Head(bus).buffer # Current => Head(bus).buffer \in Dumpable
        /\ numbered(prog) => prog \in Dumpable
    BY <2>1, BufferSets DEF numbered
  <2>5. \E evs \in Seq(Events) : Reply(evs)
    BY <1>2, <2>2, <2>3, <2>4, Tuples DEF HandleLoad
  <2> QED BY <1>1, <2>5 DEF Replies
<1>3. CASE HandleStore
  <2>1. Head(bus).buffer \in Buffers
    BY <1>1, <1>3, EventKinds DEF HandleStore, Taking
  <2>2. Stored(Head(bus).buffer) \in Seq(Events)
    BY <2>1, StoredTyped
  <2> QED BY <1>1, <1>3, <2>2, Tuples DEF HandleStore, Replies
<1>4. CASE HandleCopy
  <2>1. Head(bus).from \in Single /\ Head(bus).to \in Single
    BY <1>1, <1>4, EventKinds DEF HandleCopy, Taking
  <2> QED BY <1>1, <1>4, <2>1, BufferSets, EventsTyped, Tuples
          DEF HandleCopy, Origins, Replies
<1> QED BY <1>2, <1>3, <1>4

LEMMA DataReplies ==
    ASSUME TypeOK
    PROVE  /\ DataToDevice \/ DataToEditBuffer \/ DataToProgram \/ DataToAll => Replies
           /\ Reload => Sends
<1>1. ASSUME DataToDevice PROVE Replies
  <2>1. Taking("data")
    BY <1>1 DEF DataToDevice
  <2>2. MsgOut(DumpMsg(Target, Head(bus).content)) \in Events
    BY <2>1, TargetTyped, MsgsTyped, EventsTyped
  <2>3. <<MsgOut(DumpMsg(Target, Head(bus).content))>> \o ModifiedAfter(Target, FALSE)
            \in Seq(Events)
    BY <2>1, <2>2, TargetTyped, ModifiedAfterTyped, Tuples
  <2> QED BY <1>1, <2>1, <2>3, TargetTyped DEF DataToDevice, Replies
<1>2. ASSUME DataToEditBuffer PROVE Replies
  <2>1. Taking("data")
    BY <1>2 DEF DataToEditBuffer
  <2>2. ModifiedAfter(EditBuffer, Rerouted) \in Seq(Events)
    BY <2>1, TargetTyped, BufferSets, ModifiedAfterTyped
  <2> QED BY <1>2, <2>1, <2>2, TargetTyped DEF DataToEditBuffer, Replies
<1>3. ASSUME DataToProgram PROVE Replies
  <2>1. Taking("data")
    BY <1>3 DEF DataToProgram
  <2>2. ModifiedAfter(Target, Rerouted) \in Seq(Events)
    BY <2>1, TargetTyped, ModifiedAfterTyped
  <2> QED BY <1>3, <2>1, <2>2, TargetTyped, Tuples DEF DataToProgram, Replies
<1>4. ASSUME DataToAll PROVE Replies
  <2>1. Taking("data")
    BY <1>4 DEF DataToAll
  <2>2. ModifiedAfter(All, Rerouted) \in Seq(Events)
    BY <2>1, TargetTyped, BufferSets, ModifiedAfterTyped
  <2> QED BY <1>4, <2>1, <2>2, TargetTyped DEF DataToAll, Replies
<1>5. ASSUME Reload PROVE Sends
  <2>1. app.buffer \in Programs /\ app.rerouted \in BOOLEAN
    BY <1>5 DEF Reload, TypeOK, Pauses, Idle
  <2>2. ModifiedAfter(app.buffer, app.rerouted) \in Seq(Events)
    BY <2>1, BufferSets, ModifiedAfterTyped
  <2> QED BY <1>5, <2>2 DEF Reload, TypeOK, Sends
<1> QED BY <1>1, <1>2, <1>3, <1>4, <1>5

LEMMA OtherReplies ==
    ASSUME TypeOK
    PROVE  /\ HandleModified \/ MidiSysex \/ HandleMsgOut => Replies
           /\ ShowModified => Sends
<1>1. ASSUME HandleModified PROVE Replies
  BY <1>1, TakingTyped, Tuples DEF HandleModified, Replies
<1>2. ASSUME MidiSysex PROVE Replies
  <2>1. bus \in Seq(Events) /\ bus # <<>> /\ Head(bus).msg \in Msgs
    BY <1>2, TakingTyped, EventKinds DEF MidiSysex
  <2>2. CASE Head(bus).msg.cmd = "request"
    <3>1. LoadEvent(Head(bus).msg.buffer, "MIDI") \in Events
      BY <2>1, <2>2, MsgKinds, BufferSets, EventsTyped DEF Origins
    <3> QED BY <1>2, <2>1, <2>2, <3>1, Tuples DEF MidiSysex, Replies
  <2>3. CASE Head(bus).msg.cmd = "dump"
    <3>1. DataEvent(Head(bus).msg.buffer, "MIDI", Head(bus).msg.content) \in Events
      BY <2>1, <2>3, MsgKinds, BufferSets, EventsTyped DEF Origins
    <3> QED BY <1>2, <2>1, <2>3, <3>1, Tuples DEF MidiSysex, Replies
  <2> QED BY <1>2, <2>2, <2>3 DEF MidiSysex
<1>3. ASSUME HandleMsgOut PROVE Replies
  <2>1. \E evs \in Seq(Events) : Reply(evs)
    BY <1>3, BufferSets, EventsTyped, Tuples DEF HandleMsgOut, Origins
  <2> QED BY <1>3, <2>1, TakingTyped DEF HandleMsgOut, Replies
<1>4. ASSUME ShowModified PROVE Sends
  <2>1. bus \in Seq(Events) /\ bus' = bus \o <<>>
    BY <1>4, ConcatEmptySeq DEF ShowModified, TypeOK
  <2> QED BY <2>1, Tuples DEF Sends
<1> QED BY <1>1, <1>2, <1>3, <1>4

\* The bus after a step of the application task.
LEMMA BusTyped == Replies \/ Sends => bus' \in Seq(Events)
BY ReplyTyped, Tuples DEF Replies, Sends

-----------------------------------------------------------------------------
(* The initial states are well typed.                                      *)
LEMMA InitTyped == Init => TypeOK
<1> SUFFICES ASSUME Init PROVE TypeOK
  OBVIOUS
<1>1. Blank.val \in Vals /\ Blank.name \in Names /\ Blank \in Patch
  BY PodCoreAssumption DEF Patch
<1>2. uiq \in Seq(Buttons \cup {"program"})
  BY DEF Init
<1>3. bus \in Seq(Events)
  BY BufferSets, EventsTyped, Tuples DEF Init, Origins
<1>4. ctq \in Seq(Signals) /\ toDev \in Seq(Msgs) /\ fromDev \in Seq(Msgs)
  BY Tuples DEF Init
<1>5. reroute \in [Dumpable -> Single \cup {NoRoute}] /\ reroute[All] = NoRoute
  BY BufferSets DEF Init, NoRoutes
<1>6. app \in Pauses
  BY DEF Init, Pauses
<1> QED BY <1>1, <1>2, <1>3, <1>4, <1>5, <1>6 DEF Init, TypeOK, ProgramIds, Dump

-----------------------------------------------------------------------------
(* The steps of the GTK main loop keep the types.                          *)

LEMMA UserTyped == TypeOK /\ User => TypeOK'
<1> SUFFICES ASSUME TypeOK, User PROVE TypeOK'
  OBVIOUS
<1> USE DEF uiVars, editVars, dumpVars, devVars
<1>1. ASSUME NEW v \in Vals, UserEdit(v) PROVE TypeOK'
  <2>1. ctq' \in Seq(Signals)
    BY <1>1, SignalsTyped, Tuples DEF UserEdit, TypeOK, Origins
  <2> QED BY <1>1, <2>1 DEF UserEdit, TypeOK
<1>2. ASSUME NEW n \in Names, UserRename(n) PROVE TypeOK'
  <2>1. ctq' \in Seq(Signals)
    BY <1>2, SignalsTyped, Tuples DEF UserRename, TypeOK
  <2>2. raw' \in Patch
    BY <1>2 DEF UserRename, TypeOK, Patch
  <2> QED BY <1>2, <2>1, <2>2 DEF UserRename, TypeOK
<1>3. ASSUME NEW p \in Programs \cup Modes, UserProgram(p) PROVE TypeOK'
  <2>1. prog' = p /\ progOrigin' = "UI" /\ uiq' = Append(uiq, "program")
    BY <1>3 DEF UserProgram, SetProgram
  <2>2. uiq' \in Seq(Buttons \cup {"program"})
    BY <2>1, Tuples DEF TypeOK
  <2> QED BY <1>3, <2>1, <2>2 DEF UserProgram, TypeOK, ProgramIds, Origins
<1>4. ASSUME NEW b \in Buttons, UserButton(b) PROVE TypeOK'
  <2>1. uiq' \in Seq(Buttons \cup {"program"})
    BY <1>4, Tuples DEF UserButton, TypeOK
  <2> QED BY <1>4, <2>1 DEF UserButton, TypeOK
<1>5. ASSUME NEW p \in Programs, NEW e \in GridActions(p), UserGrid(e) PROVE TypeOK'
  <2>1. e \in Events
    BY BufferSets, EventsTyped DEF GridActions, Origins
  <2>2. bus' \in Seq(Events)
    BY <1>5, <2>1, Tuples DEF UserGrid, TypeOK
  <2> QED BY <1>5, <2>2 DEF UserGrid, TypeOK
<1>6. ASSUME NEW p \in Programs, UserLoadUnmodified(p) PROVE TypeOK'
  <2>1. bus' \in Seq(Events)
    BY <1>6, BufferSets, EventsTyped, Tuples DEF UserLoadUnmodified, TypeOK, Origins
  <2>2. /\ reroute' \in [Dumpable -> Single \cup {NoRoute}]
        /\ reroute'[All] = NoRoute
    BY <1>6, BufferSets DEF UserLoadUnmodified, TypeOK
  <2> QED BY <1>6, <2>1, <2>2 DEF UserLoadUnmodified, TypeOK
<1>7. CASE NewDevice
  <2>1. Blank.val \in Vals /\ Blank.name \in Names /\ Blank \in Patch
    BY PodCoreAssumption DEF Patch
  <2>2. uiq' \in Seq(Buttons \cup {"program"})
    BY <1>7 DEF NewDevice
  <2>3. bus' \in Seq(Events)
    BY <1>7, BufferSets, EventsTyped, Tuples DEF NewDevice, Origins
  <2>4. reroute' \in [Dumpable -> Single \cup {NoRoute}] /\ reroute'[All] = NoRoute
    BY <1>7, BufferSets DEF NewDevice, NoRoutes
  <2>5. data' \in Dump /\ names' \in [Programs -> Names]
        /\ modified' \in [Programs -> BOOLEAN] /\ shown' \in [Programs -> BOOLEAN]
    BY <1>7, <2>1 DEF NewDevice, Dump
  <2> QED BY <1>7, <2>1, <2>2, <2>3, <2>4, <2>5 DEF NewDevice, TypeOK, ProgramIds
<1> QED BY <1>1, <1>2, <1>3, <1>4, <1>5, <1>6, <1>7 DEF User

LEMMA ButtonsTyped == \A b \in Buttons : ButtonEvent[b] \in Events
<1>1. /\ ButtonEvent["load_button"] = LoadEvent(EditBuffer, "UI")
      /\ ButtonEvent["load_patch_button"] = LoadEvent(Current, "UI")
      /\ ButtonEvent["load_all_button"] = LoadEvent(All, "UI")
      /\ ButtonEvent["store_button"] = StoreEvent(EditBuffer, "UI")
      /\ ButtonEvent["store_patch_button"] = StoreEvent(Current, "UI")
      /\ ButtonEvent["store_all_button"] = StoreEvent(All, "UI")
  BY DEF ButtonEvent
<1>2. \A b \in {EditBuffer, Current, All} :
          LoadEvent(b, "UI") \in Events /\ StoreEvent(b, "UI") \in Events
  BY BufferSets, EventsTyped DEF Origins
<1> QED BY <1>1, <1>2 DEF Buttons

LEMMA GtkTyped == TypeOK /\ (UiSignal \/ CtlSignal) => TypeOK'
<1> USE DEF uiVars, editVars, dumpVars, devVars
<1>1. ASSUME TypeOK, UiSignal PROVE TypeOK'
  <2>1. /\ Head(uiq) \in Buttons \cup {"program"}
        /\ uiq' \in Seq(Buttons \cup {"program"})
    BY <1>1, Tuples DEF UiSignal, TypeOK
  <2>2. Head(uiq) \in Buttons => ButtonEvent[Head(uiq)] \in Events
    BY ButtonsTyped
  <2>3. progOrigin # "NONE" /\ prog # Hidden => PcEvent(prog, progOrigin) \in Events
    BY <1>1, EventsTyped DEF TypeOK
  <2>4. bus' = bus \/ \E e \in Events : bus' = Append(bus, e)
    <3>1. CASE Head(uiq) \in Buttons
      <4>1. bus' = Append(bus, ButtonEvent[Head(uiq)])
        BY <1>1, <3>1 DEF UiSignal
      <4> QED BY <2>2, <3>1, <4>1
    <3>2. CASE Head(uiq) \notin Buttons /\ progOrigin # "NONE" /\ prog # Hidden
      <4>1. bus' = Append(bus, PcEvent(prog, progOrigin))
        BY <1>1, <3>2 DEF UiSignal
      <4> QED BY <2>3, <3>2, <4>1
    <3>3. CASE Head(uiq) \notin Buttons /\ (progOrigin = "NONE" \/ prog = Hidden)
      BY <1>1, <3>3 DEF UiSignal
    <3> QED BY <3>1, <3>2, <3>3
  <2>5. bus' \in Seq(Events)
    <3>1. bus \in Seq(Events)
      BY <1>1 DEF TypeOK
    <3>2. \A e \in Events : Append(bus, e) \in Seq(Events)
      BY <3>1, Tuples
    <3> QED BY <2>4, <3>1, <3>2
  <2> QED BY <1>1, <2>1, <2>5 DEF UiSignal, TypeOK
<1>2. ASSUME TypeOK, CtlSignal PROVE TypeOK'
  <2>1. Head(ctq) \in Signals /\ ctq' \in Seq(Signals)
    BY <1>2, Tuples DEF CtlSignal, TypeOK
  <2>2. bus' \in Seq(Events)
    BY <1>2, <2>1, EventsTyped, Tuples DEF CtlSignal, TypeOK
  <2> QED BY <1>2, <2>1, <2>2 DEF CtlSignal, TypeOK
<1> QED BY <1>1, <1>2

-----------------------------------------------------------------------------
(* The handlers of the application task keep the types.                    *)

LEMMA ControlTyped ==
    ASSUME TypeOK, HandleControl \/ HandleName \/ MidiControl
    PROVE  TypeOK'
<1> USE DEF uiVars, editVars, dumpVars, devVars
<1>1. bus' \in Seq(Events)
  BY ControlReplies, BusTyped
<1>2. CASE HandleControl
  <2>1. raw' \in Patch
    BY <1>2 DEF HandleControl, TypeOK, Patch, BufferValue
  <2> QED BY <1>1, <1>2, <2>1 DEF HandleControl, TypeOK
<1>3. CASE HandleName
  <2>1. names' \in [Programs -> Names]
    BY <1>3 DEF HandleName, TypeOK, Patch
  <2> QED BY <1>1, <1>3, <2>1 DEF HandleName, TypeOK
<1>4. CASE MidiControl
  <2>1. Head(bus).msg.val \in Vals
    BY <1>4, TakingTyped, EventKinds, MsgKinds DEF MidiControl
  <2>2. ctl' \in Vals /\ ctq' \in Seq(Signals)
    BY <1>4, <2>1, SignalsTyped, Tuples DEF MidiControl, TypeOK, Origins
  <2> QED BY <1>1, <1>4, <2>2 DEF MidiControl, TypeOK
<1> QED BY <1>2, <1>3, <1>4

LEMMA ProgramTyped ==
    ASSUME TypeOK, HandleProgramChange \/ FinishProgramChange \/ MidiProgram
    PROVE  TypeOK'
<1> USE DEF uiVars, editVars, dumpVars, devVars
<1>1. CASE HandleProgramChange
  <2>1. /\ bus \in Seq(Events) /\ bus # <<>>
        /\ Head(bus) \in [type : {"pc"}, program : ProgramIds \ {Hidden}, origin : Origins]
    BY <1>1, TakingTyped, EventKinds DEF HandleProgramChange
  <2>2. SavedData \in Dump /\ SavedModified \in [Programs -> BOOLEAN]
    BY DEF SavedData, SavedModified, TypeOK, Dump, numbered
  <2>3. raw' \in Patch /\ ctl' \in Vals /\ ctq' \in Seq(Signals) /\ edited' \in BOOLEAN
    <3>1. CASE numbered(prog)
      <4>1. SavedData[prog] \in Patch /\ SavedModified[prog] \in BOOLEAN
        BY <2>2, <3>1 DEF numbered, Dump
      <4>2. LoadEdit(SavedData[prog]) /\ edited' = SavedModified[prog]
        BY <1>1, <3>1 DEF HandleProgramChange
      <4> QED BY <4>1, <4>2, LoadEditTyped
    <3>2. CASE ~numbered(prog)
      BY <1>1, <3>2 DEF HandleProgramChange, TypeOK
    <3> QED BY <3>1, <3>2
  <2>5. bus' \in Seq(Events)
    BY <1>1, ProgramReplies, BusTyped
  <2>6. app' \in Pauses
    <3>1. (numbered(prog) /\ SavedModified[prog]) \in BOOLEAN
      BY <2>2 DEF numbered
    <3> QED BY <1>1, <2>1, <3>1 DEF HandleProgramChange, Pauses
  <2>7. data' \in Dump /\ modified' \in [Programs -> BOOLEAN] /\ names' \in [Programs -> Names]
    BY <1>1, <2>2 DEF HandleProgramChange, TypeOK, Patch, numbered
  <2>8. reroute' \in [Dumpable -> Single \cup {NoRoute}] /\ reroute'[All] = NoRoute
    BY <1>1, BufferSets DEF HandleProgramChange, NoRoutes
  <2> QED BY <1>1, <2>3, <2>5, <2>6, <2>7, <2>8 DEF HandleProgramChange, TypeOK
<1>2. CASE FinishProgramChange
  <2>1. bus' \in Seq(Events)
    BY <1>2, ProgramReplies, BusTyped
  <2>2. app' \in Pauses
    BY <1>2 DEF FinishProgramChange, Pauses
  <2> QED BY <1>2, <2>1, <2>2 DEF FinishProgramChange, ProgramNow, TypeOK
<1>3. CASE MidiProgram
  <2>2. bus' \in Seq(Events)
    BY <1>3, ProgramReplies, BusTyped
  <2>3. /\ prog' \in ProgramIds /\ progOrigin' \in Origins \cup {"NONE"}
        /\ uiq' \in Seq(Buttons \cup {"program"})
    <3>1. CASE UNCHANGED <<prog, progOrigin, uiq>>
      BY <3>1 DEF TypeOK
    <3>2. CASE \E p \in DOMAIN PcNum : SetProgram(p, "MIDI")
      <4>1. PICK p \in DOMAIN PcNum : SetProgram(p, "MIDI")
        BY <3>2
      <4>2. p \in ProgramIds
        BY PodCoreAssumption DEF ProgramIds
      <4>3. Append(uiq, "program") \in Seq(Buttons \cup {"program"})
        BY Tuples DEF TypeOK
      <4> QED BY <4>1, <4>2, <4>3 DEF SetProgram, TypeOK, Origins
    <3> QED BY <1>3, <3>1, <3>2 DEF MidiProgram
  <2> QED BY <1>3, <2>2, <2>3 DEF MidiProgram, TypeOK
<1> QED BY <1>1, <1>2, <1>3

LEMMA BufferTyped ==
    ASSUME TypeOK, HandleLoad \/ HandleStore \/ HandleCopy
    PROVE  TypeOK'
<1> USE DEF uiVars, editVars, dumpVars, devVars
<1>1. bus' \in Seq(Events)
  BY BufferReplies, BusTyped
<1>2. CASE HandleLoad
  BY <1>1, <1>2 DEF HandleLoad, TypeOK
<1>3. CASE HandleStore
  BY <1>1, <1>3 DEF HandleStore, TypeOK
<1>4. CASE HandleCopy
  <2>1. Head(bus).from \in Single /\ Head(bus).to \in Single
    BY <1>4, TakingTyped, EventKinds DEF HandleCopy
  <2>2. reroute' \in [Dumpable -> Single \cup {NoRoute}] /\ reroute'[All] = NoRoute
    BY <1>4, <2>1, BufferSets DEF HandleCopy, TypeOK, Single
  <2> QED BY <1>1, <1>4, <2>2 DEF HandleCopy, TypeOK
<1> QED BY <1>2, <1>3, <1>4

LEMMA DataTyped ==
    ASSUME TypeOK, DataToDevice \/ DataToEditBuffer \/ DataToProgram \/ Reload \/ DataToAll
    PROVE  TypeOK'
<1> USE DEF uiVars, editVars, dumpVars, devVars
<1>1. bus' \in Seq(Events)
  BY DataReplies, BusTyped
<1>2. CASE DataToDevice
  <2>1. Taking("data") /\ TakeRoute
    BY <1>2 DEF DataToDevice
  <2> QED BY <1>1, <1>2, <2>1, TargetTyped DEF DataToDevice, TypeOK
<1>3. CASE DataToEditBuffer
  <2>1. Taking("data") /\ TakeRoute /\ LoadEdit(Head(bus).content) /\ Target # All
    BY <1>3, BufferSets DEF DataToEditBuffer
  <2>2. raw' \in Patch /\ ctl' \in Vals /\ ctq' \in Seq(Signals)
    BY <2>1, TargetTyped, LoadEditTyped
  <2> QED BY <1>1, <1>3, <2>1, <2>2, TargetTyped DEF DataToEditBuffer, TypeOK
<1>4. CASE DataToProgram
  <2>1. Taking("data") /\ TakeRoute /\ Target \in Programs /\ Target # All
    BY <1>4, BufferSets DEF DataToProgram
  <2>2. Head(bus).content \in Patch
    BY <2>1, TargetTyped
  <2>3. data' \in Dump /\ names' \in [Programs -> Names]
    BY <1>4, <2>1, <2>2 DEF DataToProgram, TypeOK, Dump, Patch
  <2>4. app' \in Pauses
    BY <1>4, <2>1, TargetTyped DEF DataToProgram, TypeOK, Pauses
  <2> QED BY <1>1, <1>4, <2>1, <2>3, <2>4, TargetTyped DEF DataToProgram, TypeOK
<1>5. CASE Reload
  <2>1. raw' \in Patch /\ ctl' \in Vals /\ ctq' \in Seq(Signals)
    <3>1. CASE numbered(prog)
      <4>1. data[prog] \in Patch /\ LoadEdit(data[prog])
        BY <1>5, <3>1 DEF Reload, TypeOK, Dump, numbered
      <4> QED BY <4>1, LoadEditTyped
    <3>2. CASE ~numbered(prog)
      BY <1>5, <3>2 DEF Reload, TypeOK
    <3> QED BY <3>1, <3>2
  <2>2. app' \in Pauses
    BY <1>5 DEF Reload, Pauses
  <2> QED BY <1>1, <1>5, <2>1, <2>2 DEF Reload, TypeOK
<1>6. CASE DataToAll
  <2>1. Taking("data") /\ TakeRoute /\ Target = All
    BY <1>6 DEF DataToAll
  <2>2. Head(bus).content \in Dump
    BY <2>1, TargetTyped
  <2>3. data' \in Dump /\ names' \in [Programs -> Names]
    BY <1>6, <2>2 DEF DataToAll, NamesOf, Dump, Patch
  <2>4. raw' \in Patch /\ ctl' \in Vals /\ ctq' \in Seq(Signals)
    <3>1. CASE numbered(prog)
      <4>1. Head(bus).content[prog] \in Patch /\ LoadEdit(Head(bus).content[prog])
        BY <1>6, <2>2, <3>1 DEF DataToAll, Dump, numbered
      <4> QED BY <4>1, LoadEditTyped
    <3>2. CASE ~numbered(prog)
      BY <1>6, <3>2 DEF DataToAll, TypeOK
    <3> QED BY <3>1, <3>2
  <2> QED BY <1>1, <1>6, <2>1, <2>3, <2>4, TargetTyped DEF DataToAll, TypeOK
<1> QED BY <1>2, <1>3, <1>4, <1>5, <1>6

LEMMA MarksTyped ==
    ASSUME TypeOK, HandleModified \/ ShowModified
    PROVE  TypeOK'
<1> USE DEF uiVars, editVars, dumpVars, devVars
<1>1. bus' \in Seq(Events)
  BY OtherReplies, BusTyped
<1>2. CASE HandleModified
  <2>1. Head(bus).flag \in BOOLEAN
    BY <1>2, TakingTyped, EventKinds DEF HandleModified
  <2>2. modified' \in [Programs -> BOOLEAN] /\ shown' \in [Programs -> BOOLEAN]
    BY <1>2, <2>1 DEF HandleModified, TypeOK
  <2>3. edited' \in BOOLEAN /\ app' \in Pauses
    BY <1>2, <2>1 DEF HandleModified, TypeOK, Pauses
  <2> QED BY <1>1, <1>2, <2>2, <2>3 DEF HandleModified, TypeOK
<1>3. CASE ShowModified
  <2>1. app.flag \in BOOLEAN
    BY <1>3 DEF ShowModified, TypeOK, Pauses, Idle
  <2>2. shown' \in [Programs -> BOOLEAN] /\ app' \in Pauses
    BY <1>3, <2>1 DEF ShowModified, TypeOK, Pauses
  <2> QED BY <1>1, <1>3, <2>2 DEF ShowModified, TypeOK
<1> QED BY <1>2, <1>3

-----------------------------------------------------------------------------
(* The steps at the two ends of the cable keep the types.                  *)

LEMMA CableTyped ==
    ASSUME TypeOK, MidiSysex \/ HandleMsgOut \/ MidiIn
    PROVE  TypeOK'
<1> USE DEF uiVars, editVars, dumpVars, devVars
<1>1. CASE MidiSysex
  <2>1. bus' \in Seq(Events)
    BY <1>1, OtherReplies, BusTyped
  <2> QED BY <1>1, <2>1 DEF MidiSysex, TypeOK
<1>2. CASE HandleMsgOut
  <2>1. bus' \in Seq(Events)
    BY <1>2, OtherReplies, BusTyped
  <2>2. Head(bus).msg \in Msgs
    BY <1>2, TakingTyped, EventKinds DEF HandleMsgOut
  <2>3. toDev' \in Seq(Msgs)
    BY <1>2, <2>2, Tuples DEF HandleMsgOut, TypeOK
  <2> QED BY <1>2, <2>1, <2>3 DEF HandleMsgOut, TypeOK
<1>3. CASE MidiIn
  <2>1. Head(fromDev) \in Msgs /\ fromDev' \in Seq(Msgs)
    BY <1>3, Tuples DEF MidiIn, TypeOK
  <2>2. bus' \in Seq(Events)
    BY <1>3, <2>1, EventsTyped, Tuples DEF MidiIn, TypeOK
  <2> QED BY <1>3, <2>1, <2>2 DEF MidiIn, TypeOK
<1> QED BY <1>1, <1>2, <1>3

LEMMA DeviceTyped == TypeOK /\ (Device \/ DevReceive) => TypeOK'
<1> SUFFICES ASSUME TypeOK, Device \/ DevReceive PROVE TypeOK'
  OBVIOUS
<1> USE DEF uiVars, editVars, dumpVars, devVars
<1>1. ASSUME NEW v \in Vals, DevKnob(v) PROVE TypeOK'
  <2>1. fromDev' \in Seq(Msgs)
    BY <1>1, MsgsTyped, Tuples DEF DevKnob, TypeOK
  <2>2. devEdit' \in Patch
    BY <1>1 DEF DevKnob, TypeOK, Patch
  <2> QED BY <1>1, <2>1, <2>2 DEF DevKnob, TypeOK
<1>2. ASSUME NEW p \in DOMAIN PcNum, DevProgram(p) PROVE TypeOK'
  <2>1. fromDev' \in Seq(Msgs)
    BY <1>2, PodCoreAssumption, MsgsTyped, Tuples DEF DevProgram, TypeOK
  <2>2. devEdit' \in Patch
    BY <1>2 DEF DevProgram, TypeOK, Dump, numbered
  <2> QED BY <1>2, <2>1, <2>2 DEF DevProgram, TypeOK
<1>3. ASSUME NEW b \in Dumpable, DevRequest(b) PROVE TypeOK'
  <2>1. fromDev' \in Seq(Msgs)
    BY <1>3, MsgsTyped, Tuples DEF DevRequest, TypeOK
  <2> QED BY <1>3, <2>1 DEF DevRequest, TypeOK
<1>4. CASE DevReceive
  <2> DEFINE m == Head(toDev)
             P == IF m.cmd = "pc"
                  THEN {p \in DOMAIN PcNum \cap Programs : PcNum[p] = m.num} ELSE {}
  <2>1. m \in Msgs /\ toDev' \in Seq(Msgs)
    BY <1>4, Tuples DEF DevReceive, TypeOK
  <2>2. m.cmd = "dump" => /\ m.buffer \in Dumpable
                          /\ m.buffer = All => m.content \in Dump
                          /\ m.buffer # All => m.content \in Patch
    BY <2>1, MsgKinds
  <2>3. devProgs' \in Dump
    BY <1>4, <2>2 DEF DevReceive, TypeOK, Dump
  <2>4. P # {} => (CHOOSE p \in P : TRUE) \in Programs
    OBVIOUS
  <2>5. devEdit' \in Patch
    <3>1. CASE m.cmd = "cc"
      <4>1. m.val \in Vals
        BY <2>1, <3>1, MsgKinds
      <4>2. devEdit' = [devEdit EXCEPT !.val = m.val]
        BY <1>4, <3>1 DEF DevReceive
      <4> QED BY <4>1, <4>2 DEF TypeOK, Patch
    <3>2. CASE m.cmd = "dump" /\ m.buffer = EditBuffer
      <4>1. devEdit' = m.content
        BY <1>4, <3>2 DEF DevReceive
      <4> QED BY <2>2, <3>2, <4>1, BufferSets
    <3>3. CASE m.cmd # "cc" /\ ~(m.cmd = "dump" /\ m.buffer = EditBuffer) /\ P # {}
      <4>1. devEdit' = devProgs[CHOOSE p \in P : TRUE]
        BY <1>4, <3>3 DEF DevReceive
      <4> QED BY <2>4, <3>3, <4>1 DEF TypeOK, Dump
    <3>4. CASE m.cmd # "cc" /\ ~(m.cmd = "dump" /\ m.buffer = EditBuffer) /\ P = {}
      <4>1. devEdit' = devEdit
        BY <1>4, <3>4 DEF DevReceive
      <4> QED BY <4>1 DEF TypeOK
    <3> QED BY <3>1, <3>2, <3>3, <3>4
  <2>6. fromDev' \in Seq(Msgs)
    <3>1. CASE m.cmd # "request"
      BY <1>4, <3>1 DEF DevReceive, TypeOK
    <3>2. CASE m.cmd = "request"
      <4> DEFINE answer == DumpMsg(m.buffer, IF m.buffer = EditBuffer THEN devEdit
                                             ELSE IF m.buffer = All THEN devProgs
                                             ELSE devProgs[m.buffer])
      <4>1. m.buffer \in Dumpable
        BY <2>1, <3>2, MsgKinds
      <4>2. answer \in Msgs
        BY <4>1, BufferSets, MsgsTyped DEF TypeOK, Dump
      <4>3. fromDev' = Append(fromDev, answer)
        BY <1>4, <3>2 DEF DevReceive
      <4> QED BY <4>2, <4>3, Tuples DEF TypeOK
    <3> QED BY <3>1, <3>2
  <2> QED BY <1>4, <2>1, <2>3, <2>5, <2>6 DEF DevReceive, TypeOK
<1> QED BY <1>1, <1>2, <1>3, <1>4 DEF Device

LEMMA StepTyped == TypeOK /\ [Next]_vars => TypeOK'
<1> SUFFICES ASSUME TypeOK, [Next]_vars PROVE TypeOK'
  OBVIOUS
<1>1. CASE User
  BY <1>1, UserTyped
<1>2. CASE Device
  BY <1>2, DeviceTyped
<1>3. CASE AppTask
  BY <1>3, ControlTyped, ProgramTyped, BufferTyped, DataTyped, MarksTyped, CableTyped
     DEF AppTask
<1>4. CASE UiSignal \/ CtlSignal
  BY <1>4, GtkTyped
<1>5. CASE MidiIn
  BY <1>5, CableTyped
<1>6. CASE DevReceive
  BY <1>6, DeviceTyped
<1>7. CASE UNCHANGED vars
  BY <1>7 DEF vars, uiVars, editVars, dumpVars, devVars, TypeOK
<1> QED BY <1>1, <1>2, <1>3, <1>4, <1>5, <1>6, <1>7 DEF Next, System

\* Every variable keeps to its type, in particular no event or message is
\* ever for Buffer::Current once it carries data, and All is never rerouted.
THEOREM TypeCorrect == Spec => []TypeOK
<1>1. Init => TypeOK
  BY InitTyped
<1>2. TypeOK /\ [Next]_vars => TypeOK'
  BY StepTyped
<1> QED BY <1>1, <1>2, PTL DEF Spec

-----------------------------------------------------------------------------
(* What is in a queue after a step.                                        *)

LEMMA RangeOfTuple == ASSUME NEW x PROVE Range(<<x>>) = {x}
BY DEF Range

LEMMA RangeOfEmpty == Range(<<>>) = {}
BY DEF Range

LEMMA RangeOfAppend ==
    ASSUME NEW S, NEW s \in Seq(S), NEW x \in S
    PROVE  Range(Append(s, x)) = Range(s) \cup {x}
<1>1. Append(s, x) = s \o <<x>>
  BY AppendIsConcat
<1>2. <<x>> \in Seq(S)
  BY Tuples
<1>3. Range(s \o <<x>>) = Range(s) \cup Range(<<x>>)
  BY <1>2, RangeConcatenation
<1> QED BY <1>1, <1>3, RangeOfTuple

LEMMA RangeOfHeadTail ==
    ASSUME NEW S, NEW s \in Seq(S), s # <<>>
    PROVE  Range(s) = {Head(s)} \cup Range(Tail(s))
<1>1. <<Head(s)>> \in Seq(S) /\ Tail(s) \in Seq(S)
  BY Tuples
<1>2. s = <<Head(s)>> \o Tail(s)
  <2>1. Len(s) \in Nat \ {0} /\ s \in [1..Len(s) -> S]
    BY EmptySeq, LenProperties
  <2>2. /\ Len(Tail(s)) = Len(s) - 1
        /\ \A k \in 1..(Len(s) - 1) : Tail(s)[k] = s[k + 1]
    BY HeadTailProperties
  <2> DEFINE t == <<Head(s)>> \o Tail(s)
  <2>3. /\ t \in Seq(S) /\ Len(t) = Len(s)
        /\ \A k \in 1..Len(s) : t[k] = IF k <= 1 THEN Head(s) ELSE Tail(s)[k - 1]
    BY <1>1, <2>1, <2>2, ConcatProperties
  <2>4. \A k \in 1..Len(s) : t[k] = s[k]
    BY <2>1, <2>2, <2>3
  <2> QED BY <2>3, <2>4, SeqEqual
<1>3. Range(<<Head(s)>> \o Tail(s)) = Range(<<Head(s)>>) \cup Range(Tail(s))
  BY <1>1, RangeConcatenation
<1> QED BY <1>2, <1>3, RangeOfTuple

\* What Replies and Sends leave on the bus.
LEMMA BusAfter ==
    ASSUME NEW evs \in Seq(Events), bus \in Seq(Events)
    PROVE  /\ bus # <<>> /\ Reply(evs) => Range(bus') = Range(Tail(bus)) \cup Range(evs)
           /\ bus' = bus \o evs => Range(bus') = Range(bus) \cup Range(evs)
<1>1. bus # <<>> => Tail(bus) \in Seq(Events)
  BY Tuples
<1> QED BY <1>1, RangeConcatenation DEF Reply

LEMMA KeptOnBus ==
    ASSUME NEW e \in Range(bus), Replies \/ Sends
    PROVE  e \in Range(bus') \/ (Replies /\ e = Head(bus))
<1>1. CASE Replies
  <2>1. PICK evs \in Seq(Events) : Reply(evs)
    BY <1>1 DEF Replies
  <2>2. Range(bus') = Range(Tail(bus)) \cup Range(evs)
    BY <1>1, <2>1, BusAfter DEF Replies
  <2>3. Range(bus) = {Head(bus)} \cup Range(Tail(bus))
    BY <1>1, RangeOfHeadTail DEF Replies
  <2> QED BY <1>1, <2>2, <2>3
<1>2. CASE Sends
  <2>1. PICK evs \in Seq(Events) : bus' = bus \o evs
    BY <1>2 DEF Sends
  <2> QED BY <1>2, <2>1, BusAfter DEF Sends
<1> QED BY <1>1, <1>2

\* The application task loses no event but the one it handles.
LEMMA AppTaskKeeps ==
    ASSUME TypeOK, AppTask, NEW e \in Range(bus), e \notin Range(bus')
    PROVE  app = Idle /\ bus # <<>> /\ e = Head(bus)
<1>1. ASSUME Sends PROVE FALSE
  <2>1. PICK evs \in Seq(Events) : bus' = bus \o evs
    BY <1>1 DEF Sends
  <2> QED BY <1>1, <2>1, BusAfter DEF Sends
<1>2. ASSUME Replies, NEW t, Taking(t) PROVE app = Idle /\ bus # <<>> /\ e = Head(bus)
  BY <1>2, KeptOnBus DEF Taking
<1>3. CASE HandleControl \/ HandleName \/ MidiControl
  BY <1>2, <1>3, ControlReplies DEF HandleControl, HandleName, MidiControl
<1>4. CASE HandleProgramChange \/ MidiProgram
  BY <1>2, <1>4, ProgramReplies DEF HandleProgramChange, MidiProgram
<1>5. CASE HandleLoad \/ HandleStore \/ HandleCopy
  BY <1>2, <1>5, BufferReplies DEF HandleLoad, HandleStore, HandleCopy
<1>6. CASE DataToDevice \/ DataToEditBuffer \/ DataToProgram \/ DataToAll
  BY <1>2, <1>6, DataReplies DEF DataToDevice, DataToEditBuffer, DataToProgram, DataToAll
<1>7. CASE HandleModified \/ MidiSysex \/ HandleMsgOut
  BY <1>2, <1>7, OtherReplies DEF HandleModified, MidiSysex, HandleMsgOut
<1>8. CASE FinishProgramChange \/ Reload \/ ShowModified
  BY <1>1, <1>8, ProgramReplies, DataReplies, OtherReplies
<1> QED BY <1>3, <1>4, <1>5, <1>6, <1>7, <1>8 DEF AppTask

\* The GTK receivers, the user and the device lose no event.
LEMMA OthersKeepBus ==
    ASSUME TypeOK, (User /\ ~NewDevice) \/ Device \/ UiSignal \/ CtlSignal \/ MidiIn \/ DevReceive,
           NEW e \in Range(bus)
    PROVE  e \in Range(bus')
<1>1. bus' = bus \/ \E x : bus' = Append(bus, x)
  BY DEF User, UserEdit, UserRename, UserProgram, UserButton, UserGrid, UserLoadUnmodified,
         Device, DevKnob, DevProgram, DevRequest, UiSignal, CtlSignal, MidiIn, DevReceive
<1>2. CASE bus' = bus
  BY <1>2
<1>3. CASE \E x : bus' = Append(bus, x)
  <2>1. PICK x : bus' = Append(bus, x)
    BY <1>3
  <2>2. bus \in Seq(Events)
    BY DEF TypeOK
  <2>3. /\ DOMAIN bus = 1..Len(bus) /\ Len(bus) \in Nat
        /\ \A i \in 1..Len(bus) : Append(bus, x)[i] = bus[i]
        /\ DOMAIN Append(bus, x) = 1..(Len(bus) + 1)
    BY <2>2
  <2> QED BY <2>1, <2>3 DEF Range
<1> QED BY <1>1, <1>2, <1>3

-----------------------------------------------------------------------------
(* program:prev catches up with the program.                               *)

\* The hidden button is only ever selected by the program itself.
HiddenIsSilent == prog = Hidden => progOrigin = "NONE"

LEMMA PrevInit == Init => HiddenIsSilent /\ PreviousCatchesUp
BY DEF Init, HiddenIsSilent, PreviousCatchesUp

\* A step of the application task that has nothing to do with programs.
LEMMA ProgramUntouched ==
    ASSUME TypeOK, AppTask,
           ~HandleProgramChange, ~FinishProgramChange, ~MidiProgram
    PROVE  /\ UNCHANGED <<prog, progOrigin, prev, uiq>>
           /\ app.at # "synced"
           /\ app = Idle => Head(bus).type # "pc"
<1> USE DEF uiVars, Taking, Idle
<1>1. CASE HandleControl \/ HandleName \/ MidiControl
  BY <1>1 DEF HandleControl, HandleName, MidiControl
<1>2. CASE HandleLoad \/ HandleStore \/ HandleCopy
  BY <1>2 DEF HandleLoad, HandleStore, HandleCopy
<1>3. CASE DataToDevice \/ DataToEditBuffer \/ DataToProgram \/ Reload \/ DataToAll
  <2>1. CASE DataToDevice \/ DataToEditBuffer \/ DataToAll
    <3>1. app = Idle /\ Head(bus).type = "data" /\ UNCHANGED uiVars
      BY <2>1 DEF DataToDevice, DataToEditBuffer, DataToAll
    <3> QED BY <3>1
  <2>2. CASE DataToProgram
    <3>1. app = Idle /\ Head(bus).type = "data" /\ UNCHANGED uiVars
      BY <2>2 DEF DataToProgram
    <3> QED BY <3>1
  <2>3. CASE Reload
    BY <2>3 DEF Reload
  <2> QED BY <1>3, <2>1, <2>2, <2>3
<1>4. CASE HandleModified \/ ShowModified
  <2>1. CASE HandleModified
    <3>1. app = Idle /\ Head(bus).type = "modified" /\ UNCHANGED uiVars
      BY <2>1 DEF HandleModified
    <3> QED BY <3>1
  <2>2. CASE ShowModified
    BY <2>2 DEF ShowModified
  <2> QED BY <1>4, <2>1, <2>2
<1>5. CASE MidiSysex \/ HandleMsgOut
  BY <1>5 DEF MidiSysex, HandleMsgOut
<1> QED BY <1>1, <1>2, <1>3, <1>4, <1>5 DEF AppTask

LEMMA PrevAppTask ==
    ASSUME TypeOK, HiddenIsSilent, PreviousCatchesUp, AppTask
    PROVE  HiddenIsSilent' /\ PreviousCatchesUp'
<1> USE DEF uiVars
<1>1. CASE HandleProgramChange
  BY <1>1 DEF HandleProgramChange, HiddenIsSilent, PreviousCatchesUp
<1>2. CASE FinishProgramChange
  BY <1>2 DEF FinishProgramChange, ProgramNow, HiddenIsSilent, PreviousCatchesUp
<1>3. CASE MidiProgram
  <2>1. Head(bus).type = "in" /\ app.at # "synced" /\ UNCHANGED prev
    BY <1>3 DEF MidiProgram, Taking, Idle
  <2>2. CASE UNCHANGED <<prog, progOrigin, uiq>>
    BY <2>1, <2>2, AppTaskKeeps DEF HiddenIsSilent, PreviousCatchesUp
  <2>3. CASE ~UNCHANGED <<prog, progOrigin, uiq>>
    <3>1. PICK p \in DOMAIN PcNum : SetProgram(p, "MIDI")
      BY <1>3, <2>3 DEF MidiProgram
    <3>2. prog' = p /\ uiq' = Append(uiq, "program")
      BY <2>3, <3>1 DEF SetProgram
    <3>3. "program" \in Range(uiq)'
      <4>1. uiq \in Seq(Buttons \cup {"program"})
        BY DEF TypeOK
      <4>2. Range(Append(uiq, "program")) = Range(uiq) \cup {"program"}
        BY <4>1, RangeOfAppend
      <4> QED BY <3>2, <4>2
    <3>4. p # Hidden
      BY PodCoreAssumption
    <3> QED BY <3>2, <3>3, <3>4 DEF HiddenIsSilent, PreviousCatchesUp
  <2> QED BY <2>2, <2>3
<1>4. CASE ~HandleProgramChange /\ ~FinishProgramChange /\ ~MidiProgram
  <2>1. /\ UNCHANGED <<prog, progOrigin, prev, uiq>>
        /\ app.at # "synced"
        /\ app = Idle => Head(bus).type # "pc"
    BY <1>4, ProgramUntouched
  <2>2. ASSUME NEW e \in Range(bus), e.type = "pc" PROVE e \in Range(bus')
    BY <2>1, <2>2, AppTaskKeeps
  <2> QED BY <2>1, <2>2 DEF HiddenIsSilent, PreviousCatchesUp
<1> QED BY <1>1, <1>2, <1>3, <1>4

LEMMA PrevOthers ==
    ASSUME TypeOK, HiddenIsSilent, PreviousCatchesUp,
           User \/ Device \/ UiSignal \/ CtlSignal \/ MidiIn \/ DevReceive
    PROVE  HiddenIsSilent' /\ PreviousCatchesUp'
<1> USE DEF uiVars
<1>1. uiq \in Seq(Buttons \cup {"program"})
  BY DEF TypeOK
<1>2. CASE NewDevice
  BY <1>2 DEF NewDevice, HiddenIsSilent, PreviousCatchesUp
<1>3. ASSUME NEW p \in Programs \cup Modes, UserProgram(p)
      PROVE  HiddenIsSilent' /\ PreviousCatchesUp'
  <2>1. prog' = p /\ uiq' = Append(uiq, "program")
    BY <1>3 DEF UserProgram, SetProgram
  <2>2. "program" \in Range(uiq')
    <3>1. Range(Append(uiq, "program")) = Range(uiq) \cup {"program"}
      BY <1>1, RangeOfAppend
    <3> QED BY <2>1, <3>1
  <2>3. p # Hidden
    BY PodCoreAssumption
  <2> QED BY <2>1, <2>2, <2>3 DEF HiddenIsSilent, PreviousCatchesUp
<1>4. ASSUME NEW b \in Buttons, UserButton(b)
      PROVE  HiddenIsSilent' /\ PreviousCatchesUp'
  <2>1. Range(Append(uiq, b)) = Range(uiq) \cup {b}
    BY <1>1, RangeOfAppend
  <2> QED BY <1>4, <2>1 DEF UserButton, HiddenIsSilent, PreviousCatchesUp
<1>5. CASE UiSignal
  <2>1. UNCHANGED <<prog, progOrigin, prev, app>> /\ uiq' = Tail(uiq) /\ uiq # <<>>
    BY <1>5 DEF UiSignal
  <2>2. Range(uiq) = {Head(uiq)} \cup Range(uiq')
    BY <1>1, <2>1, RangeOfHeadTail
  <2>3. \A e \in Range(bus) : e \in Range(bus')
    BY <1>5, OthersKeepBus
  <2>4. ASSUME Head(uiq) = "program", progOrigin # "NONE"
        PROVE  \E e \in Range(bus') : e.type = "pc"
    <3>1. bus' = Append(bus, PcEvent(prog, progOrigin))
      BY <1>5, <2>4 DEF UiSignal, Buttons, HiddenIsSilent
    <3>2. prog # Hidden
      BY <2>4 DEF HiddenIsSilent
    <3>3. PcEvent(prog, progOrigin) \in Events /\ bus \in Seq(Events)
      BY <2>4, <3>2, EventsTyped DEF TypeOK
    <3>4. PcEvent(prog, progOrigin) \in Range(bus')
      BY <3>1, <3>3, RangeOfAppend
    <3> QED BY <3>4 DEF PcEvent
  <2> QED BY <2>1, <2>2, <2>3, <2>4 DEF HiddenIsSilent, PreviousCatchesUp
<1>6. ASSUME UNCHANGED <<prog, progOrigin, prev, uiq, app>>,
             \A e \in Range(bus) : e \in Range(bus')
      PROVE  HiddenIsSilent' /\ PreviousCatchesUp'
  BY <1>6 DEF HiddenIsSilent, PreviousCatchesUp
<1>7. ASSUME NEW v \in Vals, UserEdit(v) PROVE UNCHANGED <<uiVars, app, bus>>
  BY <1>7 DEF UserEdit
<1>8. ASSUME NEW n \in Names, UserRename(n) PROVE UNCHANGED <<uiVars, app, bus>>
  BY <1>8 DEF UserRename
<1>9. ASSUME NEW p \in Programs, UserLoadUnmodified(p)
      PROVE  ~NewDevice => HiddenIsSilent' /\ PreviousCatchesUp'
  <2>1. User /\ UNCHANGED <<uiVars, app>>
    BY <1>9 DEF User, UserLoadUnmodified
  <2> QED BY <1>6, <2>1, OthersKeepBus
<1>10. ASSUME NEW p \in Programs, NEW e \in GridActions(p), UserGrid(e)
       PROVE  ~NewDevice => HiddenIsSilent' /\ PreviousCatchesUp'
  <2>1. User /\ UNCHANGED <<uiVars, app>>
    BY <1>10 DEF User, UserGrid
  <2> QED BY <1>6, <2>1, OthersKeepBus
<1>11. CASE Device \/ CtlSignal \/ MidiIn \/ DevReceive
  <2>1. UNCHANGED <<uiVars, app>>
    BY <1>11 DEF Device, DevKnob, DevProgram, DevRequest, CtlSignal, MidiIn, DevReceive
  <2> QED BY <1>6, <1>11, <2>1, OthersKeepBus
<1> QED BY <1>2, <1>3, <1>4, <1>5, <1>6, <1>7, <1>8, <1>9, <1>10, <1>11 DEF User

PrevInv == TypeOK /\ HiddenIsSilent /\ PreviousCatchesUp

\* Whenever the selected program is not the one whose patch is in the edit
\* buffer, its program change is still on its way to pc_handler, however the
\* user's and the device's program changes cross.
THEOREM PreviousCorrect == Spec => []PreviousCatchesUp
<1>1. Init => PrevInv
  BY InitTyped, PrevInit DEF PrevInv
<1>2. PrevInv /\ [Next]_vars => PrevInv'
  <2> SUFFICES ASSUME PrevInv, [Next]_vars PROVE PrevInv'
    OBVIOUS
  <2>1. TypeOK'
    BY StepTyped DEF PrevInv
  <2>2. CASE AppTask
    BY <2>1, <2>2, PrevAppTask DEF PrevInv
  <2>3. CASE User \/ Device \/ UiSignal \/ CtlSignal \/ MidiIn \/ DevReceive
    BY <2>1, <2>3, PrevOthers DEF PrevInv
  <2>4. CASE UNCHANGED vars
    <3>1. UNCHANGED <<prog, progOrigin, prev, uiq, bus, app>>
      BY <2>4 DEF vars, uiVars
    <3> QED BY <2>1, <3>1 DEF PrevInv, HiddenIsSilent, PreviousCatchesUp
  <2> QED BY <2>2, <2>3, <2>4 DEF Next, System
<1>3. PrevInv => PreviousCatchesUp
  BY DEF PrevInv
<1> QED BY <1>1, <1>2, <1>3, PTL DEF Spec

-----------------------------------------------------------------------------
(* The edit buffer follows the controls.                                   *)

\* A signal on its way keeps the property while the values stay as they are.
LEMMA PendingKept ==
    ASSUME EditBufferFollowsControls, ctl' = ctl, raw'.val = raw.val,
           \A s \in Range(ctq) : CarriesControl(s) =>
                \/ s \in Range(ctq')
                \/ \E e \in Range(bus') : e.type = "cc" /\ e.sig = s,
           \A e \in Range(bus) : e.type = "cc" /\ CarriesControl(e.sig) => e \in Range(bus')
    PROVE  EditBufferFollowsControls'
BY DEF EditBufferFollowsControls, CarriesControl

LEMMA LoadEditFollows == ASSUME NEW d, LoadEdit(d) PROVE EditBufferFollowsControls'
BY DEF LoadEdit, EditBufferFollowsControls

LEMMA ControlAppTask ==
    ASSUME TypeOK, EditBufferFollowsControls, AppTask
    PROVE  EditBufferFollowsControls'
<1> USE DEF editVars
<1>1. ASSUME ctl' = ctl, ctq' = ctq, raw'.val = raw.val,
             app = Idle => (Head(bus).type = "cc" => ~CarriesControl(Head(bus).sig))
      PROVE  EditBufferFollowsControls'
  BY <1>1, AppTaskKeeps, PendingKept
<1>2. CASE HandleControl
  <2>1. CASE Head(bus).sig.origin = "NONE"
    BY <1>1, <1>2, <2>1 DEF HandleControl, CarriesControl
  <2>2. CASE Head(bus).sig.origin # "NONE"
    <3>1. raw' = [raw EXCEPT !.val = ctl] /\ ctl' = ctl
      BY <1>2, <2>2 DEF HandleControl, BufferValue
    <3>2. raw'.val = ctl'
      BY <3>1 DEF TypeOK, Patch
    <3> QED BY <3>2 DEF EditBufferFollowsControls
  <2> QED BY <2>1, <2>2
<1>3. CASE HandleName
  <2>1. ~CarriesControl(Head(bus).sig) /\ UNCHANGED editVars
    BY <1>3 DEF HandleName, CarriesControl
  <2> QED BY <1>1, <2>1
<1>4. CASE MidiControl
  <2>1. Head(bus).type = "in" /\ UNCHANGED raw
    BY <1>4 DEF MidiControl, Taking
  <2>2. CASE ctl = Head(bus).msg.val
    BY <1>1, <1>4, <2>1, <2>2 DEF MidiControl
  <2>3. CASE ctl # Head(bus).msg.val
    <3>1. ControlSignal(Head(bus).msg.val, "MIDI") \in Signals /\ ctq \in Seq(Signals)
      BY <1>4, TakingTyped, EventKinds, MsgKinds, SignalsTyped DEF MidiControl, TypeOK, Origins
    <3>2. ctq' = Append(ctq, ControlSignal(Head(bus).msg.val, "MIDI"))
      BY <1>4, <2>3 DEF MidiControl
    <3>3. ControlSignal(Head(bus).msg.val, "MIDI") \in Range(ctq')
      BY <3>1, <3>2, RangeOfAppend
    <3> QED BY <3>3 DEF EditBufferFollowsControls, CarriesControl, ControlSignal
  <2> QED BY <2>2, <2>3
<1>5. CASE HandleProgramChange
  <2>1. CASE numbered(prog)
    BY <1>5, <2>1, LoadEditFollows DEF HandleProgramChange
  <2>2. CASE ~numbered(prog)
    <3>1. Head(bus).type = "pc" /\ UNCHANGED editVars
      BY <1>5, <2>2 DEF HandleProgramChange, Taking
    <3> QED BY <1>1, <3>1
  <2> QED BY <2>1, <2>2
<1>6. CASE DataToEditBuffer
  BY <1>6, LoadEditFollows DEF DataToEditBuffer
<1>7. CASE Reload
  <2>1. CASE numbered(prog)
    BY <1>7, <2>1, LoadEditFollows DEF Reload
  <2>2. CASE ~numbered(prog)
    <3>1. app # Idle /\ UNCHANGED <<raw, ctl, ctq>>
      BY <1>7, <2>2 DEF Reload, Idle
    <3> QED BY <1>1, <3>1
  <2> QED BY <2>1, <2>2
<1>8. CASE DataToAll
  <2>1. CASE numbered(prog)
    BY <1>8, <2>1, LoadEditFollows DEF DataToAll
  <2>2. CASE ~numbered(prog)
    <3>1. Head(bus).type = "data" /\ UNCHANGED <<raw, ctl, ctq>>
      BY <1>8, <2>2 DEF DataToAll, Taking
    <3> QED BY <1>1, <3>1
  <2> QED BY <2>1, <2>2
<1>9. CASE HandleLoad \/ HandleStore \/ HandleCopy \/ MidiProgram
  <2>1. Head(bus).type # "cc" /\ UNCHANGED editVars
    BY <1>9 DEF HandleLoad, HandleStore, HandleCopy, MidiProgram, Taking
  <2> QED BY <1>1, <2>1
<1>10. CASE DataToDevice \/ DataToProgram \/ MidiSysex \/ HandleMsgOut
  <2>1. Head(bus).type # "cc" /\ UNCHANGED editVars
    BY <1>10 DEF DataToDevice, DataToProgram, MidiSysex, HandleMsgOut, Taking
  <2> QED BY <1>1, <2>1
<1>11. CASE HandleModified
  <2>1. Head(bus).type # "cc" /\ UNCHANGED <<ctl, ctq, raw>>
    BY <1>11 DEF HandleModified, Taking
  <2> QED BY <1>1, <2>1
<1>12. CASE FinishProgramChange \/ ShowModified
  <2>1. app # Idle /\ UNCHANGED editVars
    BY <1>12 DEF FinishProgramChange, ShowModified, Idle
  <2> QED BY <1>1, <2>1
<1> QED BY <1>2, <1>3, <1>4, <1>5, <1>6, <1>7, <1>8, <1>9, <1>10, <1>11, <1>12 DEF AppTask

LEMMA ControlOthers ==
    ASSUME TypeOK, EditBufferFollowsControls,
           User \/ Device \/ UiSignal \/ CtlSignal \/ MidiIn \/ DevReceive
    PROVE  EditBufferFollowsControls'
<1> USE DEF editVars
<1>1. ctq \in Seq(Signals) /\ bus \in Seq(Events)
  BY DEF TypeOK
<1>2. ASSUME NEW v \in Vals, UserEdit(v) PROVE EditBufferFollowsControls'
  <2>1. ControlSignal(v, "UI") \in Signals
    BY SignalsTyped DEF Origins
  <2>2. ControlSignal(v, "UI") \in Range(ctq')
    BY <1>1, <1>2, <2>1, RangeOfAppend DEF UserEdit
  <2> QED BY <2>2 DEF EditBufferFollowsControls, CarriesControl, ControlSignal
<1>3. ASSUME NEW n \in Names, UserRename(n) PROVE EditBufferFollowsControls'
  <2>1. raw'.val = raw.val /\ UNCHANGED <<ctl, bus>>
    BY <1>3 DEF UserRename, TypeOK, Patch
  <2>2. Range(ctq') = Range(ctq) \cup {NameSignal("UI")}
    BY <1>1, <1>3, SignalsTyped, RangeOfAppend DEF UserRename
  <2> QED BY <2>1, <2>2, PendingKept
<1>4. CASE NewDevice
  BY <1>4 DEF NewDevice, EditBufferFollowsControls
<1>5. CASE CtlSignal
  <2>1. ctq # <<>> /\ ctq' = Tail(ctq) /\ UNCHANGED <<ctl, raw>>
        /\ bus' = Append(bus, CcEvent(Head(ctq)))
    BY <1>5 DEF CtlSignal
  <2>2. Range(ctq) = {Head(ctq)} \cup Range(ctq') /\ Head(ctq) \in Signals
    BY <1>1, <2>1, RangeOfHeadTail, Tuples
  <2>3. CcEvent(Head(ctq)) \in Events
    BY <2>2, EventsTyped
  <2>4. Range(bus') = Range(bus) \cup {CcEvent(Head(ctq))}
    BY <1>1, <2>1, <2>3, RangeOfAppend
  <2>5. CcEvent(Head(ctq)).type = "cc" /\ CcEvent(Head(ctq)).sig = Head(ctq)
    BY DEF CcEvent
  <2> QED BY <2>1, <2>2, <2>4, <2>5, PendingKept
<1>6. ASSUME UNCHANGED editVars, (User /\ ~NewDevice) \/ Device \/ UiSignal \/ MidiIn \/ DevReceive
      PROVE  EditBufferFollowsControls'
  BY <1>6, OthersKeepBus, PendingKept
<1>7. CASE User /\ ~NewDevice
  <2>1. \/ \E v \in Vals : UserEdit(v)
        \/ \E n \in Names : UserRename(n)
        \/ UNCHANGED editVars
    BY <1>7 DEF User, UserProgram, UserButton, UserGrid, UserLoadUnmodified
  <2> QED BY <1>2, <1>3, <1>6, <1>7, <2>1
<1>8. CASE Device \/ UiSignal \/ MidiIn \/ DevReceive
  <2>1. UNCHANGED editVars
    BY <1>8 DEF Device, DevKnob, DevProgram, DevRequest, UiSignal, MidiIn, DevReceive
  <2> QED BY <1>6, <1>8, <2>1
<1> QED BY <1>4, <1>5, <1>7, <1>8

\* The raw bytes that a store would send hold the value of every control,
\* but for those whose change is still on its way to cc_handler: no crossing
\* of the user's, the device's and a load's writes leaves them apart.
THEOREM EditBufferCorrect == Spec => []EditBufferFollowsControls
<1>1. Init => EditBufferFollowsControls
  BY DEF Init, EditBufferFollowsControls
<1>2. TypeOK /\ EditBufferFollowsControls /\ [Next]_vars => EditBufferFollowsControls'
  <2> SUFFICES ASSUME TypeOK, EditBufferFollowsControls, [Next]_vars
               PROVE  EditBufferFollowsControls'
    OBVIOUS
  <2>1. CASE UNCHANGED vars
    BY <2>1 DEF vars, editVars, EditBufferFollowsControls
  <2> QED BY <2>1, ControlAppTask, ControlOthers DEF Next, System
<1> QED BY <1>1, <1>2, TypeCorrect, PTL DEF Spec

-----------------------------------------------------------------------------
(* A reroute never outlives the data it waits for.                         *)

LEMMA AwaitedKept ==
    ASSUME NEW b, Awaited(b), toDev' = toDev, fromDev' = fromDev,
           \A e \in Range(bus) : Produces(e, b) => e \in Range(bus')
    PROVE  Awaited(b)'
BY DEF Awaited, Produces

LEMMA AwaitedOnBus ==
    ASSUME NEW b, NEW e \in Range(bus'), Produces(e, b)
    PROVE  Awaited(b)'
BY DEF Awaited, Produces

\* A handler's reply is on the bus.
LEMMA RepliedOnBus ==
    ASSUME TypeOK, bus # <<>>, NEW e \in Events, Reply(<<e>>)
    PROVE  e \in Range(bus')
<1>1. <<e>> \in Seq(Events) /\ bus \in Seq(Events)
  BY Tuples DEF TypeOK
<1> QED BY <1>1, BusAfter, RangeOfTuple

LEMMA RouteAppTask ==
    ASSUME TypeOK, RouteIsAwaited, AppTask
    PROVE  RouteIsAwaited'
<1> USE DEF devVars
<1> SUFFICES ASSUME NEW b \in Dumpable, reroute'[b] # NoRoute PROVE Awaited(b)'
  BY DEF RouteIsAwaited, Awaited, Produces
<1>1. ASSUME reroute[b] # NoRoute, UNCHANGED <<toDev, fromDev>>,
             app = Idle => ~Produces(Head(bus), b)
      PROVE  Awaited(b)'
  <2>1. Awaited(b)
    BY <1>1 DEF RouteIsAwaited
  <2> QED BY <1>1, <2>1, AppTaskKeeps, AwaitedKept
<1>2. CASE HandleControl \/ HandleName \/ MidiProgram
  <2>1. /\ Head(bus).type \in {"cc", "in"} /\ UNCHANGED <<reroute, toDev, fromDev>>
        /\ Head(bus).type = "in" => Head(bus).msg.cmd = "pc"
    BY <1>2 DEF HandleControl, HandleName, MidiProgram, Taking
  <2> QED BY <1>1, <2>1 DEF Produces
<1>3. CASE HandleProgramChange
  BY <1>3 DEF HandleProgramChange, NoRoutes
<1>4. CASE FinishProgramChange \/ Reload \/ ShowModified
  <2>1. app # Idle /\ UNCHANGED <<reroute, toDev, fromDev>>
    BY <1>4 DEF FinishProgramChange, Reload, ShowModified, Idle
  <2> QED BY <1>1, <2>1
<1>5. CASE HandleLoad
  <2>1. /\ Head(bus).type = "load" /\ bus # <<>> /\ Head(bus).buffer \in Buffers
        /\ UNCHANGED <<reroute, toDev, fromDev>>
    BY <1>5, TakingTyped, EventKinds DEF HandleLoad
  <2>2. CASE Head(bus).buffer = b /\ Head(bus).origin = "UI"
    <3>1. Reply(<<MsgOut(ReqMsg(b))>>)
      BY <1>5, <2>2, BufferSets DEF HandleLoad, Dumpable
    <3>2. MsgOut(ReqMsg(b)) \in Events
      BY MsgsTyped, EventsTyped
    <3>3. Produces(MsgOut(ReqMsg(b)), b)
      BY DEF Produces, MsgOut, ReqMsg
    <3> QED BY <2>1, <3>1, <3>2, <3>3, RepliedOnBus, AwaitedOnBus
  <2>3. CASE ~(Head(bus).buffer = b /\ Head(bus).origin = "UI")
    BY <1>1, <2>1, <2>3 DEF Produces
  <2> QED BY <2>2, <2>3
<1>6. CASE HandleStore
  <2>1. /\ Head(bus).type = "store" /\ bus # <<>> /\ UNCHANGED <<reroute, toDev, fromDev>>
    BY <1>6 DEF HandleStore, Taking
  <2>2. CASE Head(bus).buffer = b /\ Head(bus).origin = "UI"
    <3>1. b # All /\ b # Current
      BY <2>1 DEF TypeOK, Dumpable
    <3> DEFINE d == DataEvent(b, "UI", IF b = EditBuffer THEN raw
                                       ELSE IF b = All THEN data ELSE data[b])
    <3>2. Reply(<<d>>)
      BY <1>6, <2>2, <3>1 DEF HandleStore, Stored
    <3>3. d \in Events
      BY <3>1, BufferSets, EventsTyped DEF TypeOK, Dump, Origins
    <3>4. Produces(d, b)
      BY DEF Produces, DataEvent
    <3> QED BY <2>1, <3>2, <3>3, <3>4, RepliedOnBus, AwaitedOnBus
  <2>3. CASE ~(Head(bus).buffer = b /\ Head(bus).origin = "UI")
    BY <1>1, <2>1, <2>3 DEF Produces
  <2> QED BY <2>2, <2>3
<1>7. CASE HandleCopy
  <2>1. /\ Head(bus).type = "copy" /\ bus # <<>> /\ Head(bus).from \in Single
        /\ UNCHANGED <<toDev, fromDev>>
    BY <1>7, TakingTyped, EventKinds DEF HandleCopy
  <2>2. CASE Head(bus).from = b
    <3>1. Reply(<<StoreEvent(b, "UI")>>)
      BY <1>7, <2>2 DEF HandleCopy
    <3>2. StoreEvent(b, "UI") \in Events /\ Produces(StoreEvent(b, "UI"), b)
      BY BufferSets, EventsTyped DEF Produces, StoreEvent, Origins
    <3> QED BY <2>1, <3>1, <3>2, RepliedOnBus, AwaitedOnBus
  <2>3. CASE Head(bus).from # b
    <3>1. reroute[b] # NoRoute
      BY <1>7, <2>3 DEF HandleCopy, TypeOK
    <3> QED BY <1>1, <2>1, <3>1 DEF Produces
  <2> QED BY <2>2, <2>3
<1>8. CASE DataToDevice \/ DataToEditBuffer \/ DataToProgram \/ DataToAll
  <2>1. Taking("data") /\ TakeRoute /\ UNCHANGED <<toDev, fromDev>>
    <3>1. CASE DataToDevice \/ DataToEditBuffer \/ DataToAll
      BY <3>1 DEF DataToDevice, DataToEditBuffer, DataToAll
    <3>2. CASE DataToProgram
      BY <3>2 DEF DataToProgram
    <3> QED BY <1>8, <3>1, <3>2
  <2>2. Head(bus).buffer \in Dumpable /\ Head(bus).type = "data"
    BY <2>1, TakingTyped, EventKinds
  <2>3. b # Head(bus).buffer /\ reroute[b] # NoRoute
    BY <2>1, <2>2 DEF TakeRoute, TypeOK
  <2> QED BY <1>1, <2>1, <2>2, <2>3 DEF Produces
<1>9. CASE HandleModified
  <2>1. Head(bus).type = "modified" /\ UNCHANGED <<reroute, toDev, fromDev>>
    BY <1>9 DEF HandleModified, Taking
  <2> QED BY <1>1, <2>1 DEF Produces
<1>10. CASE MidiControl
  <2>1. /\ Head(bus).type = "in" /\ Head(bus).msg.cmd = "cc"
        /\ UNCHANGED <<reroute, toDev, fromDev>>
    BY <1>10 DEF MidiControl, Taking
  <2> QED BY <1>1, <2>1 DEF Produces
<1>11. CASE MidiSysex
  <2> DEFINE m == Head(bus).msg
  <2>1. /\ Head(bus).type = "in" /\ bus # <<>> /\ m \in Msgs
        /\ UNCHANGED <<reroute, toDev, fromDev>>
    BY <1>11, TakingTyped, EventKinds DEF MidiSysex
  <2>2. CASE m.cmd = "dump" /\ m.buffer = b
    <3>1. Reply(<<DataEvent(b, "MIDI", m.content)>>)
      BY <1>11, <2>2 DEF MidiSysex
    <3>2. DataEvent(b, "MIDI", m.content) \in Events
      BY <2>1, <2>2, MsgKinds, BufferSets, EventsTyped DEF Origins
    <3>3. Produces(DataEvent(b, "MIDI", m.content), b)
      BY DEF Produces, DataEvent
    <3> QED BY <2>1, <3>1, <3>2, <3>3, RepliedOnBus, AwaitedOnBus
  <2>3. CASE ~(m.cmd = "dump" /\ m.buffer = b)
    BY <1>1, <2>1, <2>3 DEF Produces
  <2> QED BY <2>2, <2>3
<1>12. CASE HandleMsgOut
  <2> DEFINE m == Head(bus).msg
  <2>1. /\ Head(bus).type = "out" /\ bus # <<>> /\ m \in Msgs
        /\ UNCHANGED <<reroute, fromDev>> /\ toDev' = Append(toDev, m)
    BY <1>12, TakingTyped, EventKinds DEF HandleMsgOut
  <2>2. Range(toDev') = Range(toDev) \cup {m}
    BY <2>1, RangeOfAppend DEF TypeOK
  <2>3. CASE m.cmd = "request" /\ m.buffer = b
    BY <2>2, <2>3 DEF Awaited
  <2>4. CASE ~(m.cmd = "request" /\ m.buffer = b)
    <3>1. Awaited(b) /\ ~Produces(Head(bus), b)
      BY <2>1, <2>4 DEF RouteIsAwaited, Produces
    <3> QED BY <2>1, <2>2, <3>1, AppTaskKeeps DEF Awaited, Produces
  <2> QED BY <2>3, <2>4
<1> QED BY <1>2, <1>3, <1>4, <1>5, <1>6, <1>7, <1>8, <1>9, <1>10, <1>11, <1>12 DEF AppTask

LEMMA RouteOthers ==
    ASSUME TypeOK, RouteIsAwaited,
           User \/ Device \/ UiSignal \/ CtlSignal \/ MidiIn \/ DevReceive
    PROVE  RouteIsAwaited'
<1> USE DEF devVars
<1> SUFFICES ASSUME NEW b \in Dumpable, reroute'[b] # NoRoute PROVE Awaited(b)'
  BY DEF RouteIsAwaited, Awaited, Produces
<1>1. bus \in Seq(Events) /\ toDev \in Seq(Msgs) /\ fromDev \in Seq(Msgs)
  BY DEF TypeOK
<1>2. ASSUME (User /\ ~NewDevice) \/ UiSignal \/ CtlSignal,
             UNCHANGED <<reroute, toDev, fromDev>>
      PROVE  Awaited(b)'
  <2>1. Awaited(b)
    BY <1>2 DEF RouteIsAwaited
  <2> QED BY <1>2, <2>1, OthersKeepBus, AwaitedKept
<1>3. CASE NewDevice
  BY <1>3 DEF NewDevice, NoRoutes
<1>4. ASSUME NEW p \in Programs, UserLoadUnmodified(p) PROVE ~NewDevice => Awaited(b)'
  <2>1. LoadEvent(p, "UI") \in Events
    BY BufferSets, EventsTyped DEF Origins
  <2>2. LoadEvent(p, "UI") \in Range(bus')
    BY <1>1, <1>4, <2>1, RangeOfAppend DEF UserLoadUnmodified
  <2>3. CASE p = b
    BY <2>2, <2>3, AwaitedOnBus DEF Produces, LoadEvent
  <2>4. CASE p # b
    <3>1. Awaited(b)
      BY <1>4, <2>4 DEF UserLoadUnmodified, RouteIsAwaited, TypeOK
    <3>2. User /\ UNCHANGED <<toDev, fromDev>>
      BY <1>4 DEF User, UserLoadUnmodified
    <3> QED BY <3>1, <3>2, OthersKeepBus, AwaitedKept
  <2> QED BY <2>3, <2>4
<1>5. CASE User /\ ~NewDevice
  <2>1. \/ \E p \in Programs : UserLoadUnmodified(p)
        \/ UNCHANGED <<reroute, toDev, fromDev>>
    BY <1>5 DEF User, UserEdit, UserRename, UserProgram, UserButton, UserGrid
  <2> QED BY <1>2, <1>4, <1>5, <2>1
<1>6. CASE UiSignal \/ CtlSignal
  <2>1. UNCHANGED <<reroute, toDev, fromDev>>
    BY <1>6 DEF UiSignal, CtlSignal
  <2> QED BY <1>2, <1>6, <2>1
<1>7. CASE MidiIn
  <2> DEFINE m == Head(fromDev)
  <2>1. /\ fromDev # <<>> /\ m \in Msgs /\ fromDev' = Tail(fromDev)
        /\ bus' = Append(bus, MsgIn(m)) /\ UNCHANGED <<reroute, toDev>>
    BY <1>7, Tuples DEF MidiIn, TypeOK
  <2>2. Range(fromDev) = {m} \cup Range(fromDev')
    BY <1>1, <2>1, RangeOfHeadTail
  <2>3. MsgIn(m) \in Events
    BY <2>1, EventsTyped
  <2>4. Range(bus') = Range(bus) \cup {MsgIn(m)}
    BY <1>1, <2>1, <2>3, RangeOfAppend
  <2>5. m.cmd = "dump" /\ m.buffer = b => Produces(MsgIn(m), b)
    BY DEF Produces, MsgIn
  <2>6. Awaited(b)
    BY <2>1 DEF RouteIsAwaited
  <2> QED BY <2>1, <2>2, <2>4, <2>5, <2>6 DEF Awaited, Produces
<1>8. CASE DevReceive
  <2> DEFINE m == Head(toDev)
  <2>1. /\ toDev # <<>> /\ m \in Msgs /\ toDev' = Tail(toDev) /\ UNCHANGED <<reroute, bus>>
    BY <1>8, Tuples DEF DevReceive, TypeOK
  <2>2. Range(toDev) = {m} \cup Range(toDev')
    BY <1>1, <2>1, RangeOfHeadTail
  <2>3. Awaited(b)
    BY <2>1 DEF RouteIsAwaited
  <2>4. CASE m.cmd = "request"
    <3>1. PICK c : fromDev' = Append(fromDev, DumpMsg(m.buffer, c))
      BY <1>8, <2>4 DEF DevReceive
    <3>2. Range(fromDev') = Range(fromDev) \cup {DumpMsg(m.buffer, c)}
      <4> DEFINE T == Msgs \cup {DumpMsg(m.buffer, c)}
      <4>1. fromDev \in Seq(T) /\ DumpMsg(m.buffer, c) \in T
        BY <1>1
      <4> QED BY <3>1, <4>1, RangeOfAppend
    <3>3. DumpMsg(m.buffer, c).cmd = "dump" /\ DumpMsg(m.buffer, c).buffer = m.buffer
      BY DEF DumpMsg
    <3> QED BY <2>1, <2>2, <2>3, <3>2, <3>3 DEF Awaited, Produces
  <2>5. CASE m.cmd # "request"
    <3>1. fromDev' = fromDev
      BY <1>8, <2>5 DEF DevReceive
    <3> QED BY <2>1, <2>2, <2>3, <2>5, <3>1 DEF Awaited, Produces
  <2> QED BY <2>4, <2>5
<1>9. CASE Device
  <2>1. UNCHANGED <<reroute, bus, toDev>> /\ \E m \in Msgs : fromDev' = Append(fromDev, m)
    BY <1>9, PodCoreAssumption, MsgsTyped DEF Device, DevKnob, DevProgram, DevRequest
  <2>2. Range(fromDev) \subseteq Range(fromDev')
    BY <1>1, <2>1, RangeOfAppend
  <2>3. Awaited(b)
    BY <2>1 DEF RouteIsAwaited
  <2> QED BY <2>1, <2>2, <2>3 DEF Awaited, Produces
<1> QED BY <1>3, <1>5, <1>6, <1>7, <1>8, <1>9

\* As long as a copy or a "load unmodified" has its entry in the reroute
\* table, the data it waits for is under way: none is left behind to catch a
\* later dump of the same buffer.
THEOREM RouteCorrect == Spec => []RouteIsAwaited
<1>1. Init => RouteIsAwaited
  BY DEF Init, RouteIsAwaited, NoRoutes
<1>2. TypeOK /\ RouteIsAwaited /\ [Next]_vars => RouteIsAwaited'
  <2> SUFFICES ASSUME TypeOK, RouteIsAwaited, [Next]_vars PROVE RouteIsAwaited'
    OBVIOUS
  <2>1. CASE UNCHANGED vars
    BY <2>1 DEF vars, devVars, RouteIsAwaited, Awaited, Produces
  <2> QED BY <2>1, RouteAppTask, RouteOthers DEF Next, System
<1> QED BY <1>1, <1>2, TypeCorrect, PTL DEF Spec

=============================================================================
