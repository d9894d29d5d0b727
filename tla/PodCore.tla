------------------------------ MODULE PodCore ------------------------------
(***************************************************************************)
(* The patch library of pod-ui: the generic event handlers of pod-core     *)
(* over the application event bus, the GTK side that feeds them, and the   *)
(* device at the other end of the MIDI cable.                              *)
(*                                                                         *)
(* Three threads of control interleave: the GTK main loop (the user's      *)
(* actions, which write the controllers at once, and the two signal        *)
(* receivers), the application task (one handler per event taken from the  *)
(* bus) and the MIDI threads.  A patch is one control value and a name;    *)
(* the virtual controls and the raw CC values, which no buffer holds, are  *)
(* left out, and so is the wording of every log and notification.          *)
(***************************************************************************)
EXTENDS Naturals, Sequences

CONSTANTS
    Programs,           \* the numbered programs of the device
    ProgramSeq,         \* ... in the order 0 .. program_num - 1
    Modes,              \* the special programs on the panel: manual mode, tuner
    Manual,             \* the program before any device is there (998)
    Hidden,             \* the hidden program button (1000)
    PcNum,              \* program or mode -> its number in a PC message
    Vals, Names,        \* values of the control, names of a patch
    Blank,              \* the all-zero patch of a new edit buffer
    EditBuffer, Current, All,   \* the buffers that are not a program
    NoRoute,            \* "no entry" in the reroute table
    AllProgramsDump,    \* DeviceFlags::ALL_PROGRAMS_DUMP
    PcAndEditBuffer,    \* DeviceFlags::MODIFIED_BUFFER_PC_AND_EDIT_BUFFER
    InDumpReq,          \* the control's CC is in in_cc_edit_buffer_dump_req
    OutDumpReq,         \* the control's CC is in out_cc_edit_buffer_dump_req
    PeerRequests,       \* the device side asks for dumps
    DeviceSwap,         \* the user may connect another device
    MaxBacklog          \* bound: nobody acts while more than this is in flight

Patch      == [val : Vals, name : Names]
ProgramIds == Programs \cup Modes \cup {Manual, Hidden}
Buffers    == Programs \cup {EditBuffer, Current, All}
Origins    == {"MIDI", "UI"}
Buttons    == {"load_button", "load_patch_button", "load_all_button",
               "store_button", "store_patch_button", "store_all_button"}

ASSUME PodCoreAssumption ==
    /\ Programs # {}
    /\ ProgramSeq \in Seq(Programs)
    /\ Hidden \notin Programs /\ Manual \notin Programs
    /\ Modes \cap Programs = {} /\ Hidden \notin Modes /\ Manual # Hidden
    /\ DOMAIN PcNum \subseteq Programs \cup Modes
    /\ \A p, q \in DOMAIN PcNum : PcNum[p] = PcNum[q] => p = q
    /\ \A p \in DOMAIN PcNum : PcNum[p] \in Nat
    /\ Blank \in Patch
    /\ EditBuffer \notin Programs /\ Current \notin Programs /\ All \notin Programs
    /\ EditBuffer # Current /\ EditBuffer # All /\ Current # All
    /\ NoRoute \notin Buffers
    /\ {AllProgramsDump, PcAndEditBuffer, InDumpReq, OutDumpReq,
        PeerRequests, DeviceSwap} \subseteq BOOLEAN
    /\ MaxBacklog \in Nat

VARIABLES
    prog, progOrigin,   \* ui_controller "program": its value, who set it
    prev,               \* ui_controller "program:prev"
    uiq,                \* signals of ui_controller on their way to GTK
    ctl,                \* the controller's value of the control
    ctq,                \* signals of the controller on their way to GTK
    bus,                \* the application event bus
    app,                \* where the application task stands in a handler
    raw, edited,        \* EditBuffer: raw bytes, modified flag
    data, names,        \* ProgramsDump: raw bytes, names ...
    modified,           \* ... and modified flags
    shown,              \* the modified marks of the program grid
    reroute,            \* DISPATCH_BUFFER_REROUTE
    devEdit, devProgs,  \* the device's edit buffer and stored programs
    toDev, fromDev      \* the MIDI cable, both ways

uiVars   == <<prog, progOrigin, prev, uiq>>
editVars == <<ctl, ctq, raw, edited>>
dumpVars == <<data, names, modified, shown>>
devVars  == <<devEdit, devProgs, toDev, fromDev>>
vars == <<uiVars, editVars, dumpVars, devVars, bus, app, reroute>>

-----------------------------------------------------------------------------
(* Events and messages.                                                    *)

ControlSignal(v, o) == [key |-> "control", val |-> v, origin |-> o]
NameSignal(o)       == [key |-> "name_change", origin |-> o]
CcEvent(s)         == [type |-> "cc", sig |-> s]
PcEvent(p, o)      == [type |-> "pc", program |-> p, origin |-> o]
LoadEvent(b, o)    == [type |-> "load", buffer |-> b, origin |-> o]
StoreEvent(b, o)   == [type |-> "store", buffer |-> b, origin |-> o]
CopyEvent(f, t)    == [type |-> "copy", from |-> f, to |-> t]
DataEvent(b, o, d) == [type |-> "data", buffer |-> b, origin |-> o, content |-> d]
ModEvent(b, m)     == [type |-> "modified", buffer |-> b, flag |-> m]
MsgIn(m)           == [type |-> "in", msg |-> m]
MsgOut(m)          == [type |-> "out", msg |-> m]

CcMsg(v)      == [cmd |-> "cc", val |-> v]
PcMsg(n)      == [cmd |-> "pc", num |-> n]
ReqMsg(b)     == [cmd |-> "request", buffer |-> b]
DumpMsg(b, d) == [cmd |-> "dump", buffer |-> b, content |-> d]

Signals == [key : {"control"}, val : Vals, origin : Origins \cup {"NONE"}]
           \cup [key : {"name_change"}, origin : {"UI", "NONE"}]
Dumpable == Buffers \ {Current}
Single   == Dumpable \ {All}
Dump     == [Programs -> Patch]

Msgs == [cmd : {"cc"}, val : Vals] \cup [cmd : {"pc"}, num : Nat]
        \cup [cmd : {"request"}, buffer : Dumpable]
        \cup [cmd : {"dump"}, buffer : Single, content : Patch]
        \cup [cmd : {"dump"}, buffer : {All}, content : Dump]

Events == [type : {"cc"}, sig : Signals]
          \cup [type : {"pc"}, program : ProgramIds \ {Hidden}, origin : Origins]
          \cup [type : {"load", "store"}, buffer : Buffers, origin : Origins]
          \cup [type : {"copy"}, from : Single, to : Single]
          \cup [type : {"data"}, buffer : Single, origin : Origins, content : Patch]
          \cup [type : {"data"}, buffer : {All}, origin : Origins, content : Dump]
          \cup [type : {"modified"}, buffer : Buffers, flag : BOOLEAN]
          \cup [type : {"in", "out"}, msg : Msgs]

Idle   == [at |-> "idle"]
\* Where a handler reads the current program again after using it, the GTK
\* thread may have changed it: the task pauses there.
Pauses == {Idle}
          \cup [at : {"synced"}, event : [type : {"pc"}, program : ProgramIds \ {Hidden},
                                          origin : Origins],
                resend : BOOLEAN]
          \cup [at : {"reload"}, buffer : Programs, rerouted : BOOLEAN]
          \cup [at : {"show"}, flag : BOOLEAN]

TypeOK ==
    /\ prog \in ProgramIds /\ progOrigin \in Origins \cup {"NONE"} /\ prev \in ProgramIds
    /\ uiq \in Seq(Buttons \cup {"program"})
    /\ ctl \in Vals /\ ctq \in Seq(Signals)
    /\ bus \in Seq(Events) /\ app \in Pauses
    /\ raw \in Patch /\ edited \in BOOLEAN
    /\ data \in Dump /\ names \in [Programs -> Names]
    /\ modified \in [Programs -> BOOLEAN] /\ shown \in [Programs -> BOOLEAN]
    /\ reroute \in [Dumpable -> Single \cup {NoRoute}] /\ reroute[All] = NoRoute
    /\ devEdit \in Patch /\ devProgs \in Dump
    /\ toDev \in Seq(Msgs) /\ fromDev \in Seq(Msgs)

-----------------------------------------------------------------------------
(* Helpers of the handlers.  A definition marked "slip" is a plausible      *)
(* mistake in the one that follows it, and is used nowhere: put in its     *)
(* place, it breaks a property.                                            *)

numbered(p) == p \in Programs

NoRoutes == [b \in Dumpable |-> NoRoute]

\* Slip: a dump of all programs leaves the names as they were.
NamesKept(d) == names

NamesOf(d) == [p \in Programs |-> d[p].name]

\* Take the head of the bus and send evs: the bus is first in, first out.
Reply(evs) == bus' = Tail(bus) \o evs
Taking(type) == app = Idle /\ bus # <<>> /\ Head(bus).type = type

\* Load a patch into the edit buffer: every control with an address is set
\* from the raw bytes with no origin, then "name_change" is forced.
LoadEdit(d) ==
    /\ raw' = d
    /\ ctl' = d.val
    /\ ctq' = ctq \o (IF ctl = d.val THEN <<>> ELSE <<ControlSignal(d.val, "NONE")>>)
                  \o <<NameSignal("NONE")>>

\* Slips: a copy is taken for a dump from the device and not marked, the edit
\* buffer is sent to the device whenever it is loaded, or never.
ModifiedAfterUnmarked(b, rerouted) ==
    IF b = EditBuffer
    THEN <<ModEvent(EditBuffer, TRUE)>>
         \o (IF rerouted THEN <<StoreEvent(EditBuffer, "UI")>> ELSE <<>>)
    ELSE <<ModEvent(b, FALSE)>>

ModifiedAfterSent(b, rerouted) ==
    IF b = EditBuffer THEN <<ModEvent(EditBuffer, TRUE), StoreEvent(EditBuffer, "UI")>>
                      ELSE <<ModEvent(b, rerouted)>>

\* What a handled BufferData event sends after the data is placed.
ModifiedAfter(b, rerouted) ==
    IF b = EditBuffer
    THEN <<ModEvent(EditBuffer, TRUE)>>
         \o (IF rerouted THEN <<StoreEvent(EditBuffer, "UI")>> ELSE <<>>)
    ELSE <<ModEvent(b, rerouted)>>

\* Slips: Buffer::Current goes on unresolved; a slot is answered with the
\* edit buffer.
StoredUnresolved(b) ==
    IF b = All THEN <<DataEvent(All, "UI", data)>>
    ELSE <<DataEvent(b, "UI", IF b \in Programs THEN data[b] ELSE raw)>>

StoredFromEdit(b) ==
    IF b = Current THEN IF numbered(prog) THEN <<DataEvent(prog, "UI", raw)>> ELSE <<>>
    ELSE <<DataEvent(b, "UI", IF b = All THEN data ELSE raw)>>

\* The BufferData events that answer a store request.
Stored(b) ==
    IF b = Current
    THEN IF numbered(prog) THEN <<DataEvent(prog, "UI", data[prog])>> ELSE <<>>
    ELSE IF b = All /\ ~AllProgramsDump
    THEN [i \in 1..Len(ProgramSeq) |-> DataEvent(ProgramSeq[i], "UI", data[ProgramSeq[i]])]
    ELSE <<DataEvent(b, "UI", IF b = EditBuffer THEN raw
                              ELSE IF b = All THEN data ELSE data[b])>>

\* Slip: a program chosen on the device is not signalled.
SetProgramFromUi(p, o) ==
    IF prog = p THEN UNCHANGED <<prog, progOrigin, uiq>>
    ELSE prog' = p /\ progOrigin' = o
         /\ uiq' = IF o = "UI" THEN Append(uiq, "program") ELSE uiq

\* Controller::set of "program": a signal only when the value changes.
SetProgram(p, o) ==
    IF prog = p THEN UNCHANGED <<prog, progOrigin, uiq>>
    ELSE prog' = p /\ progOrigin' = o /\ uiq' = Append(uiq, "program")

-----------------------------------------------------------------------------
(* The GTK main loop: what the user does, and the two signal receivers.    *)

Backlog == Len(uiq) + Len(ctq) + Len(bus) + Len(toDev) + Len(fromDev)
           + (IF app = Idle THEN 0 ELSE 1)
Quiescent == Backlog = 0
MayAct == Backlog <= MaxBacklog

\* A widget writes the controller first; the signal follows.
UserEdit(v) ==
    /\ MayAct /\ v # ctl
    /\ ctl' = v /\ ctq' = Append(ctq, ControlSignal(v, "UI"))
    /\ UNCHANGED <<uiVars, raw, edited, dumpVars, devVars, bus, app, reroute>>

\* Typing a name writes the edit buffer directly and marks it modified.
UserRename(n) ==
    /\ MayAct /\ n # raw.name
    /\ raw' = [raw EXCEPT !.name = n] /\ edited' = TRUE
    /\ ctq' = Append(ctq, NameSignal("UI"))
    /\ UNCHANGED <<uiVars, ctl, dumpVars, devVars, bus, app, reroute>>

UserProgram(p) ==
    /\ MayAct /\ p # prog
    /\ SetProgram(p, "UI")
    /\ UNCHANGED <<prev, editVars, dumpVars, devVars, bus, app, reroute>>

UserButton(b) ==
    /\ MayAct
    /\ uiq' = Append(uiq, b)
    /\ UNCHANGED <<prog, progOrigin, prev, editVars, dumpVars, devVars, bus, app, reroute>>

\* The context menu of a program in the grid.  "Load unmodified" enters its
\* reroute here, on the GTK thread; the copies only when they are handled.  (It
\* is offered for marked programs, but a menu left open outlives the mark.)
UserGrid(e) ==
    /\ MayAct
    /\ bus' = Append(bus, e)
    /\ UNCHANGED <<uiVars, editVars, dumpVars, devVars, app, reroute>>

UserLoadUnmodified(p) ==
    /\ MayAct
    /\ reroute' = [reroute EXCEPT ![p] = EditBuffer]
    /\ bus' = Append(bus, LoadEvent(p, "UI"))
    /\ UNCHANGED <<uiVars, editVars, dumpVars, devVars, app>>

GridActions(p) == {CopyEvent(p, EditBuffer), CopyEvent(EditBuffer, p),
                   LoadEvent(p, "UI"), StoreEvent(p, "UI")}

ButtonEvent == [load_button        |-> LoadEvent(EditBuffer, "UI"),
                load_patch_button  |-> LoadEvent(Current, "UI"),
                load_all_button    |-> LoadEvent(All, "UI"),
                store_button       |-> StoreEvent(EditBuffer, "UI"),
                store_patch_button |-> StoreEvent(Current, "UI"),
                store_all_button   |-> StoreEvent(All, "UI")]

\* The callbacks read the controller's value and origin at the time they
\* run, not the ones the signal carries.
UiSignal ==
    /\ uiq # <<>>
    /\ uiq' = Tail(uiq)
    /\ IF Head(uiq) \in Buttons THEN bus' = Append(bus, ButtonEvent[Head(uiq)])
       ELSE IF progOrigin = "NONE" \/ prog = Hidden THEN bus' = bus
       ELSE bus' = Append(bus, PcEvent(prog, progOrigin))
    /\ UNCHANGED <<prog, progOrigin, prev, editVars, dumpVars, devVars, app, reroute>>

CtlSignal ==
    /\ ctq # <<>>
    /\ ctq' = Tail(ctq)
    /\ bus' = Append(bus, CcEvent(Head(ctq)))
    /\ UNCHANGED <<uiVars, ctl, raw, edited, dumpVars, devVars, app, reroute>>

-----------------------------------------------------------------------------
(* The application task: one action per event, or two where it re-reads.   *)

\* Slip: the value of the event.
EventValue(s) == s.val

\* The value put in the buffer is the controller's, not the event's.
BufferValue(s) == ctl

\* Slip: what came from the device goes back to it, and nothing else does.
SendEcho(s) == IF s.origin = "MIDI" THEN <<MsgOut(CcMsg(s.val))>> ELSE <<>>

SendCc(s) == IF s.origin = "UI" THEN <<MsgOut(CcMsg(s.val))>> ELSE <<>>

HandleControl ==
    /\ Taking("cc") /\ Head(bus).sig.key = "control"
    /\ LET s == Head(bus).sig IN
       IF s.origin = "NONE" THEN raw' = raw /\ Reply(<<>>)
       ELSE /\ raw' = [raw EXCEPT !.val = BufferValue(s)]
            /\ Reply(SendCc(s) \o <<ModEvent(Current, TRUE)>>)
    /\ UNCHANGED <<uiVars, ctl, ctq, edited, dumpVars, devVars, app, reroute>>

HandleName ==
    /\ Taking("cc") /\ Head(bus).sig.key = "name_change"
    /\ IF numbered(prog) /\ names[prog] # raw.name
       THEN /\ names' = [names EXCEPT ![prog] = raw.name]
            /\ Reply(<<ModEvent(Current, TRUE)>>)
       ELSE names' = names /\ Reply(<<>>)
    /\ UNCHANGED <<uiVars, editVars, data, modified, shown, devVars, app, reroute>>

\* The dump after the edit buffer is saved to the program being left.
SavedData     == IF numbered(prev) THEN [data EXCEPT ![prev] = raw] ELSE data

\* Slip: the edits are saved, the mark is forgotten.
SavedUnmarked == modified

SavedModified == IF numbered(prev) /\ edited THEN [modified EXCEPT ![prev] = TRUE]
                 ELSE modified

HandleProgramChange ==
    /\ Taking("pc")
    /\ reroute' = NoRoutes
    /\ data' = SavedData /\ modified' = SavedModified
    /\ names' = IF numbered(prev) THEN [names EXCEPT ![prev] = raw.name] ELSE names
    /\ IF numbered(prog) THEN LoadEdit(SavedData[prog]) /\ edited' = SavedModified[prog]
                         ELSE UNCHANGED editVars
    /\ app' = [at |-> "synced", event |-> Head(bus),
               resend |-> numbered(prog) /\ SavedModified[prog]]
    /\ Reply(IF numbered(prev) /\ edited THEN <<ModEvent(prev, TRUE)>> ELSE <<>>)
    /\ UNCHANGED <<uiVars, shown, devVars>>

\* program:prev takes the program as it is now, read again.
ProgramNow == prog

\* The device is told the program of the event, or sent the edit buffer if
\* that was modified.
FinishProgramChange ==
    /\ app.at = "synced"
    /\ prev' = ProgramNow
    /\ LET p  == app.event.program
           pc == <<MsgOut(PcMsg(PcNum[p]))>>
       IN bus' = bus \o
            (IF app.event.origin # "UI" \/ p \notin DOMAIN PcNum THEN <<>>
             ELSE IF ~app.resend THEN pc
             ELSE (IF PcAndEditBuffer THEN pc ELSE <<>>) \o <<StoreEvent(EditBuffer, "UI")>>)
    /\ app' = Idle
    /\ UNCHANGED <<prog, progOrigin, uiq, editVars, dumpVars, devVars, reroute>>

\* A load asked from MIDI is a store towards MIDI; a load asked by the user
\* is a request to the device.
HandleLoad ==
    /\ Taking("load")
    /\ LET b == Head(bus).buffer IN
       Reply(IF Head(bus).origin = "MIDI" THEN Stored(b)
             ELSE IF b # Current THEN <<MsgOut(ReqMsg(b))>>
             ELSE IF numbered(prog) THEN <<MsgOut(ReqMsg(prog))>> ELSE <<>>)
    /\ UNCHANGED <<uiVars, editVars, dumpVars, devVars, app, reroute>>

HandleStore ==
    /\ Taking("store")
    /\ Reply(IF Head(bus).origin = "MIDI" THEN <<>> ELSE Stored(Head(bus).buffer))
    /\ UNCHANGED <<uiVars, editVars, dumpVars, devVars, app, reroute>>

HandleCopy ==
    /\ Taking("copy")
    /\ reroute' = [reroute EXCEPT ![Head(bus).from] = Head(bus).to]
    /\ Reply(<<StoreEvent(Head(bus).from, "UI")>>)
    /\ UNCHANGED <<uiVars, editVars, dumpVars, devVars, app>>

\* The buffer a BufferData event is for, after rerouting, which also makes
\* the data look like it comes from the MIDI side.
Rerouted  == reroute[Head(bus).buffer] # NoRoute
Target    == IF Rerouted THEN reroute[Head(bus).buffer] ELSE Head(bus).buffer

FromMidi  == Rerouted \/ Head(bus).origin = "MIDI"

\* Slip: the entry is read and left in the table.
PeekRoute == UNCHANGED reroute

TakeRoute == reroute' = [reroute EXCEPT ![Head(bus).buffer] = NoRoute]

DataToDevice ==
    /\ Taking("data") /\ ~FromMidi
    /\ TakeRoute
    /\ Reply(<<MsgOut(DumpMsg(Target, Head(bus).content))>>
             \o ModifiedAfter(Target, FALSE))
    /\ UNCHANGED <<uiVars, editVars, dumpVars, devVars, app>>

DataToEditBuffer ==
    /\ Taking("data") /\ FromMidi /\ Target = EditBuffer
    /\ TakeRoute
    /\ LoadEdit(Head(bus).content)
    /\ Reply(ModifiedAfter(EditBuffer, Rerouted))
    /\ UNCHANGED <<uiVars, edited, dumpVars, devVars, app>>

\* If the program is the current one the edit buffer is to follow, from
\* whatever program is current when the handler gets there (Reload).
DataToProgram ==
    /\ Taking("data") /\ FromMidi /\ Target \in Programs
    /\ TakeRoute
    /\ data'  = [data EXCEPT ![Target] = Head(bus).content]
    /\ names' = [names EXCEPT ![Target] = Head(bus).content.name]
    /\ IF prog = Target
       THEN /\ app' = [at |-> "reload", buffer |-> Target, rerouted |-> Rerouted]
            /\ Reply(<<>>)
       ELSE app' = app /\ Reply(ModifiedAfter(Target, Rerouted))
    /\ UNCHANGED <<uiVars, editVars, modified, shown, devVars>>

Reload ==
    /\ app.at = "reload"
    /\ IF numbered(prog) THEN LoadEdit(data[prog]) ELSE UNCHANGED <<raw, ctl, ctq>>
    /\ bus' = bus \o ModifiedAfter(app.buffer, app.rerouted)
    /\ app' = Idle
    /\ UNCHANGED <<uiVars, edited, dumpVars, devVars, reroute>>

DataToAll ==
    /\ Taking("data") /\ FromMidi /\ Target = All
    /\ TakeRoute
    /\ data' = Head(bus).content /\ names' = NamesOf(Head(bus).content)
    /\ IF numbered(prog) THEN LoadEdit(Head(bus).content[prog])
                         ELSE UNCHANGED <<raw, ctl, ctq>>
    /\ Reply(ModifiedAfter(All, Rerouted))
    /\ UNCHANGED <<uiVars, edited, modified, shown, devVars, app>>

\* The programs a Modified event marks: in the dump (modified_handler) and
\* in the grid (ui_modified_handler, which GTK obeys without delay here).
DumpMarks(b) == IF b = Current THEN {prog} \cap Programs
                ELSE IF b = All THEN Programs ELSE {b} \cap Programs

\* Slip: the grid is not told of all programs at once.
GridMarksOne(b) == IF b \in Programs THEN {b} ELSE {}

GridMarks(b) == IF b = All THEN Programs ELSE {b} \cap Programs

HandleModified ==
    /\ Taking("modified")
    /\ LET b == Head(bus).buffer
           f == Head(bus).flag
           mark(flags, S) == [p \in Programs |-> IF p \in S THEN f ELSE flags[p]]
       IN /\ modified' = mark(modified, DumpMarks(b))
          /\ edited' = IF b = EditBuffer \/ (b = Current /\ numbered(prog)) THEN f ELSE edited
          /\ shown' = mark(shown, GridMarks(b))
          /\ app' = IF b = Current THEN [at |-> "show", flag |-> f] ELSE app
    /\ Reply(<<>>)
    /\ UNCHANGED <<uiVars, ctl, ctq, raw, data, names, devVars, reroute>>

\* The grid is told about the program current by then.
ShowModified ==
    /\ app.at = "show"
    /\ shown' = IF numbered(prog) THEN [shown EXCEPT ![prog] = app.flag] ELSE shown
    /\ app' = Idle
    /\ UNCHANGED <<uiVars, editVars, data, names, modified, devVars, bus, reroute>>

-----------------------------------------------------------------------------
(* Messages from and to the device.                                        *)

MidiControl ==
    /\ Taking("in") /\ Head(bus).msg.cmd = "cc"
    /\ LET v == Head(bus).msg.val IN
       /\ ctl' = v
       /\ ctq' = IF ctl = v THEN ctq ELSE Append(ctq, ControlSignal(v, "MIDI"))
    /\ Reply(IF InDumpReq THEN <<LoadEvent(EditBuffer, "UI")>> ELSE <<>>)
    /\ UNCHANGED <<uiVars, raw, edited, dumpVars, devVars, app, reroute>>

\* A number that is no program of the device is dropped.
MidiProgram ==
    /\ Taking("in") /\ Head(bus).msg.cmd = "pc"
    /\ LET P == {p \in DOMAIN PcNum : PcNum[p] = Head(bus).msg.num} IN
       IF P = {} THEN UNCHANGED <<prog, progOrigin, uiq>>
                 ELSE \E p \in P : SetProgram(p, "MIDI")
    /\ Reply(<<>>)
    /\ UNCHANGED <<prev, editVars, dumpVars, devVars, app, reroute>>

MidiSysex ==
    /\ Taking("in") /\ Head(bus).msg.cmd \in {"request", "dump"}
    /\ LET m == Head(bus).msg IN
       Reply(IF m.cmd = "request" THEN <<LoadEvent(m.buffer, "MIDI")>>
                                  ELSE <<DataEvent(m.buffer, "MIDI", m.content)>>)
    /\ UNCHANGED <<uiVars, editVars, dumpVars, devVars, app, reroute>>

HandleMsgOut ==
    /\ Taking("out")
    /\ toDev' = Append(toDev, Head(bus).msg)
    /\ Reply(IF Head(bus).msg.cmd = "cc" /\ OutDumpReq
             THEN <<LoadEvent(EditBuffer, "UI")>> ELSE <<>>)
    /\ UNCHANGED <<uiVars, editVars, dumpVars, devEdit, devProgs, fromDev, app, reroute>>

MidiIn ==
    /\ fromDev # <<>>
    /\ bus' = Append(bus, MsgIn(Head(fromDev)))
    /\ fromDev' = Tail(fromDev)
    /\ UNCHANGED <<uiVars, editVars, dumpVars, devEdit, devProgs, toDev, app, reroute>>

\* What the code relies on the device for: it obeys control and program
\* changes, stores the dumps it is sent and answers every request.
DevReceive ==
    /\ toDev # <<>>
    /\ toDev' = Tail(toDev)
    /\ LET m == Head(toDev)
           dump == m.cmd = "dump"
           P == IF m.cmd = "pc" THEN {p \in DOMAIN PcNum \cap Programs : PcNum[p] = m.num}
                ELSE {}
       IN /\ devProgs' = IF dump /\ m.buffer = All THEN m.content
                         ELSE IF dump /\ m.buffer # EditBuffer
                              THEN [devProgs EXCEPT ![m.buffer] = m.content]
                              ELSE devProgs
          /\ devEdit' = IF m.cmd = "cc" THEN [devEdit EXCEPT !.val = m.val]
                        ELSE IF dump /\ m.buffer = EditBuffer THEN m.content
                        ELSE IF P # {} THEN devProgs[CHOOSE p \in P : TRUE]
                        ELSE devEdit
          /\ fromDev' = IF m.cmd # "request" THEN fromDev
                        ELSE Append(fromDev, DumpMsg(m.buffer,
                               IF m.buffer = EditBuffer THEN devEdit
                               ELSE IF m.buffer = All THEN devProgs
                               ELSE devProgs[m.buffer]))
    /\ UNCHANGED <<uiVars, editVars, dumpVars, bus, app, reroute>>

DevKnob(v) ==
    /\ MayAct /\ v # devEdit.val
    /\ devEdit' = [devEdit EXCEPT !.val = v]
    /\ fromDev' = Append(fromDev, CcMsg(v))
    /\ UNCHANGED <<uiVars, editVars, dumpVars, devProgs, toDev, bus, app, reroute>>

DevProgram(p) ==
    /\ MayAct
    /\ devEdit' = IF numbered(p) THEN devProgs[p] ELSE devEdit
    /\ fromDev' = Append(fromDev, PcMsg(PcNum[p]))
    /\ UNCHANGED <<uiVars, editVars, dumpVars, devProgs, toDev, bus, app, reroute>>

DevRequest(b) ==
    /\ PeerRequests /\ MayAct
    /\ fromDev' = Append(fromDev, ReqMsg(b))
    /\ UNCHANGED <<uiVars, editVars, dumpVars, devEdit, devProgs, toDev, bus, app, reroute>>

\* Another device is connected: new edit buffer, dump and handler, the
\* hidden program selected, everything loaded.  program:prev stays.  The
\* hand-over itself, spread over two threads, is taken as one step.
NewDevice ==
    /\ DeviceSwap /\ Quiescent
    /\ prog' = Hidden /\ progOrigin' = "NONE" /\ uiq' = <<"program">>
    /\ raw' = Blank /\ edited' = FALSE /\ ctl' = Blank.val
    /\ data' = [p \in Programs |-> Blank] /\ names' = [p \in Programs |-> Blank.name]
    /\ modified' = [p \in Programs |-> FALSE] /\ shown' = [p \in Programs |-> FALSE]
    /\ reroute' = NoRoutes
    /\ bus' = <<LoadEvent(All, "UI")>>
    /\ devEdit' \in Patch /\ devProgs' \in Dump
    /\ UNCHANGED <<prev, ctq, app, toDev, fromDev>>

-----------------------------------------------------------------------------

Init ==
    /\ prog = Hidden /\ progOrigin = "NONE" /\ prev = Manual /\ uiq = <<"program">>
    /\ raw = Blank /\ edited = FALSE /\ ctl = Blank.val /\ ctq = <<>>
    /\ data = [p \in Programs |-> Blank] /\ names = [p \in Programs |-> Blank.name]
    /\ modified = [p \in Programs |-> FALSE] /\ shown = modified
    /\ reroute = NoRoutes
    /\ bus = <<LoadEvent(All, "UI")>> /\ app = Idle
    /\ devEdit \in Patch /\ devProgs \in Dump
    /\ toDev = <<>> /\ fromDev = <<>>

User ==
    \/ \E v \in Vals : UserEdit(v)
    \/ \E n \in Names : UserRename(n)
    \/ \E p \in Programs \cup Modes : UserProgram(p)
    \/ \E b \in Buttons : UserButton(b)
    \/ \E p \in Programs : \E e \in GridActions(p) : UserGrid(e)
    \/ \E p \in Programs : UserLoadUnmodified(p)
    \/ NewDevice

Device ==
    \/ \E v \in Vals : DevKnob(v)
    \/ \E p \in DOMAIN PcNum : DevProgram(p)
    \/ \E b \in Dumpable : DevRequest(b)

AppTask ==
    \/ HandleControl \/ HandleName
    \/ HandleProgramChange \/ FinishProgramChange
    \/ HandleLoad \/ HandleStore \/ HandleCopy
    \/ DataToDevice \/ DataToEditBuffer \/ DataToProgram \/ Reload \/ DataToAll
    \/ HandleModified \/ ShowModified
    \/ MidiControl \/ MidiProgram \/ MidiSysex \/ HandleMsgOut

System == UiSignal \/ CtlSignal \/ AppTask \/ MidiIn \/ DevReceive

Next == User \/ Device \/ System

Spec == Init /\ [][Next]_vars

\* The tasks run as long as they have something to do, and the device
\* answers; nobody has to touch the panel or the device.
Fairness == /\ WF_vars(UiSignal) /\ WF_vars(CtlSignal) /\ WF_vars(AppTask)
            /\ WF_vars(MidiIn) /\ WF_vars(DevReceive)

FairSpec == Spec /\ Fairness

=============================================================================
