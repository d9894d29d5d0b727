----------------------------- MODULE XtHandler -----------------------------
(***************************************************************************)
(* The PODxt family over the patch library of PodCore: PodXtHandler        *)
(* overrides how buffers are loaded, stored and received.  A PODxt answers *)
(* a request with a dump that does not say what it is a dump of, so the    *)
(* requests wait in a queue and its head names the answer; a store is      *)
(* acknowledged by a status message, awaited by a timer.                   *)
(*                                                                         *)
(* The user, the signals, program changes, controls, copies and marks are  *)
(* PodCore's.  The tuner and the installed packs are left out.             *)
(***************************************************************************)
EXTENDS PodCore, SequencesExt

CONSTANTS
    Effects, EffectSeq, \* the effect patches, 0x0200 ..: names, no slot
    NoProgram,          \* reported_program_number: None
    PeerDumps,          \* the device side (Line 6 Edit) sends patch dumps
    DumpsMayFail,       \* the device may refuse a patch dump
    StatusMayBeLost,    \* the status of a store may not arrive
    Timely              \* whatever arrives arrives within the 5 seconds

ASSUME XtHandlerAssumption ==
    /\ Effects \cap ProgramIds = {} /\ Effects \cap Buffers = {}
    /\ EffectSeq \in Seq(Effects)
    /\ NoProgram \notin Programs
    /\ {PeerDumps, DumpsMayFail, StatusMayBeLost, Timely} \subseteq BOOLEAN
    /\ ~AllProgramsDump /\ ~DeviceSwap /\ Modes = {}
    /\ DOMAIN PcNum = Programs

\* There is a program, every effect is among the patches that are requested at
\* the start, and "" stands for the name of an effect that has not come yet.
ASSUME XtStartupAssumption ==
    /\ ProgramSeq # <<>>
    /\ \A e \in Effects : \E i \in DOMAIN EffectSeq : EffectSeq[i] = e
    /\ "" \notin Names

VARIABLES
    queue,              \* midi_out_queue: requests not answered yet
    ack,                \* need_store_ack
    storing,            \* store_programs
    handle,             \* store_status_timeout_handler, and its timer
    orphans,            \* timers still running that no handle refers to
    reported,           \* reported_program_number
    effects,            \* the names of the effect patches
    devProg,            \* the device's current program
    devGot              \* the patch dumps it received since the last end

storeVars == <<storing, handle, orphans>>
coreVars  == <<uiVars, editVars, dumpVars, devVars, app, reroute>>  \* all but the bus
handlerVars == <<queue, ack, storeVars, reported, effects>>
ownVars   == <<handlerVars, devProg, devGot>>
xtVars    == <<vars, ownVars>>

-----------------------------------------------------------------------------
(* Events and messages besides those of PodCore.                           *)

Marker(m)             == [type |-> "marker", marker |-> m]
XtData(b, o, d, r)    == [type |-> "data", buffer |-> b, origin |-> o, content |-> d,
                          request |-> r]
BufferDump(d)         == [cmd |-> "buffer", content |-> d]
PatchDumpEnd          == [cmd |-> "end"]
StoreStatus(ok)       == [cmd |-> "status", success |-> ok]
ProgramNumberRequest  == [cmd |-> "number?"]
ProgramNumber(p)      == [cmd |-> "number", program |-> p]
EditStateRequest      == [cmd |-> "state?"]
EditState(e)          == [cmd |-> "state", modified |-> e]

Requests == [cmd : {"request"}, buffer : Programs \cup Effects]
            \cup {ProgramNumberRequest, EditStateRequest}
-----------------------------------------------------------------------------
(* The queue of requests.                                                  *)

\* queue_send sends the head of the queue, whether it was sent before or not.
SendFront(q) == IF q = <<>> THEN <<>> ELSE <<MsgOut(Head(q))>>

HeadIs(c) == queue # <<>> /\ Head(queue).cmd = c

\* The answer of the message that is handled: the request is taken from the
\* queue and the next one sent, after evs.
Advance(evs) ==
    /\ queue' = IF queue = <<>> THEN queue ELSE Tail(queue)
    /\ Reply(evs \o SendFront(queue'))

\* The requests that load a buffer other than the edit buffer.
RequestsOf(b) ==
    CASE b = Current -> IF numbered(prog) THEN <<ReqMsg(prog)>> ELSE <<>>
      [] b = All     -> [i \in DOMAIN ProgramSeq |-> ReqMsg(ProgramSeq[i])]
                        \o [i \in DOMAIN EffectSeq |-> ReqMsg(EffectSeq[i])]
      [] OTHER       -> <<ReqMsg(b)>>

-----------------------------------------------------------------------------
(* load_handler and store_handler.                                         *)

Requested(evs, r) ==
    [i \in DOMAIN evs |-> XtData(evs[i].buffer, "UI", evs[i].content, r)]

LoadForPeer ==
    /\ Taking("load") /\ Head(bus).origin = "MIDI"
    /\ Reply(Requested(Stored(Head(bus).buffer), "MIDI") \o <<Marker("end")>>)
    /\ UNCHANGED <<coreVars,
                   ownVars>>

\* The edit buffer is asked for at once, past the queue.
LoadEditBuffer ==
    /\ Taking("load") /\ Head(bus).origin = "UI" /\ Head(bus).buffer = EditBuffer
    /\ Reply(<<MsgOut(ReqMsg(EditBuffer))>>)
    /\ UNCHANGED <<coreVars,
                   ownVars>>

LoadPatches ==
    /\ Taking("load") /\ Head(bus).origin = "UI" /\ Head(bus).buffer # EditBuffer
    /\ LET reqs == RequestsOf(Head(bus).buffer) IN
       /\ queue' = queue \o reqs
       /\ Reply(IF reqs = <<>> THEN <<>> ELSE SendFront(queue'))
    /\ UNCHANGED <<coreVars,
                   ack, storeVars, reported, effects, devProg, devGot>>

\* Slip: the end marker is forgotten.
WithoutEnd(evs) == evs

WithEnd(evs) == IF evs = <<>> THEN <<>> ELSE Append(evs, Marker("end"))

\* While a store waits for its status every other store is dropped.
XtStore ==
    /\ Taking("store") /\ Head(bus).origin = "UI"
    /\ Reply(IF handle # "none" THEN <<>>
             ELSE WithEnd(Requested(Stored(Head(bus).buffer), "UI")))
    /\ UNCHANGED <<coreVars,
                   ownVars>>

-----------------------------------------------------------------------------
(* buffer_handler.                                                         *)

\* To the device: a store of the user is a patch dump, which the device
\* acknowledges; everything else is a buffer dump.
XtDataOut ==
    /\ Taking("data") /\ Head(bus).buffer \notin Effects /\ ~FromMidi
    /\ LET e == Head(bus)
           stores == e.buffer \in Programs /\ e.request = "UI"
       IN /\ storing' = IF stores THEN storing \cup {e.buffer} ELSE storing
          /\ Reply(<<MsgOut(IF stores THEN DumpMsg(e.buffer, e.content)
                                      ELSE BufferDump(e.content))>>)
    /\ TakeRoute
    /\ UNCHANGED <<uiVars, editVars, dumpVars, devVars, app, queue, ack, handle,
                   orphans, reported, effects, devProg, devGot>>

\* A patch dump that nobody asked for is to be acknowledged at its end.
NoteAck == ack' = (ack \/ Head(bus).request = "MIDI")

XtDataIn ==
    /\ Taking("data") /\ Head(bus).buffer \notin Effects
    /\ DataToEditBuffer \/ DataToProgram
    /\ NoteAck
    /\ UNCHANGED <<queue, storeVars, reported, effects, devProg, devGot>>

EffectIn ==
    /\ Taking("data") /\ Head(bus).buffer \in Effects
    /\ effects' = [effects EXCEPT ![Head(bus).buffer] = Head(bus).content.name]
    /\ NoteAck
    /\ Reply(ModifiedAfter(Head(bus).buffer, FALSE))
    /\ UNCHANGED <<coreVars, queue, storeVars,
                   reported, devProg, devGot>>

-----------------------------------------------------------------------------
(* marker_handler, and the tasks that wait for a status.                   *)

Forgotten == orphans + (IF handle = "armed" THEN 1 ELSE 0)

\* A new timer takes the place of the handle: the old one runs on.
EndMarker ==
    /\ Taking("marker") /\ Head(bus).marker = "end"
    /\ Reply(<<MsgOut(PatchDumpEnd)>>)
    /\ IF storing = {} THEN UNCHANGED <<handle, orphans>>
                       ELSE handle' = "armed" /\ orphans' = Forgotten
    /\ UNCHANGED <<coreVars, queue, ack, storing,
                   reported, effects, devProg, devGot>>

\* Slip: the handle is kept, and no store is accepted any more.
HandleAfterTimeoutKept == handle

HandleAfterTimeout == "none"

TimeoutMarker ==
    /\ Taking("marker") /\ Head(bus).marker = "timeout"
    /\ storing' = {} /\ handle' = HandleAfterTimeout /\ orphans' = Forgotten
    /\ Reply(<<>>)
    /\ UNCHANGED <<coreVars, queue, ack,
                   reported, effects, devProg, devGot>>

NumberMarker ==
    /\ Taking("marker") /\ Head(bus).marker = "number"
    /\ queue' = queue \o <<ProgramNumberRequest, EditStateRequest>>
    /\ Reply(<<>>)
    /\ UNCHANGED <<coreVars, ack, storeVars,
                   reported, effects, devProg, devGot>>

MayTimeOut == Timely => Quiescent

TimerFires ==
    /\ MayTimeOut
    /\ \/ handle = "armed" /\ handle' = "fired" /\ UNCHANGED orphans
       \/ orphans > 0 /\ orphans' = orphans - 1 /\ UNCHANGED handle
    /\ bus' = Append(bus, Marker("timeout"))
    /\ UNCHANGED <<coreVars, queue, ack, storing,
                   reported, effects, devProg, devGot>>

-----------------------------------------------------------------------------
(* midi_in_handler.                                                        *)

Receiving(c) == Taking("in") /\ Head(bus).msg.cmd = c

\* Slip: an answer is the edit buffer's unless it says otherwise.
NeverNamed == EditBuffer

\* What a buffer dump is taken for: the patch at the head of the queue.
QueueNames == IF HeadIs("request") THEN Head(queue).buffer ELSE EditBuffer

BufferDumpIn ==
    /\ Receiving("buffer")
    /\ Reply(<<XtData(QueueNames, "MIDI", Head(bus).msg.content, "UI")>>)
    /\ UNCHANGED <<coreVars, ownVars>>

PatchDumpIn ==
    /\ Receiving("dump")
    /\ Reply(<<XtData(Head(bus).msg.buffer, "MIDI", Head(bus).msg.content, "MIDI")>>)
    /\ UNCHANGED <<coreVars, ownVars>>

PatchRequestIn ==
    /\ Receiving("request")
    /\ Reply(<<LoadEvent(Head(bus).msg.buffer, "MIDI")>>)
    /\ UNCHANGED <<coreVars, ownVars>>

\* Slip: the request is retired, the next one is not sent.
NextUnsent == queue' = (IF queue = <<>> THEN queue ELSE Tail(queue)) /\ Reply(<<>>)

NextRequest == Advance(<<>>)

\* need_store_ack is not reset: from the first patch dump of the peer on,
\* every end of a dump is acknowledged.
DumpEndIn ==
    /\ Receiving("end")
    /\ IF ack THEN Reply(<<MsgOut(StoreStatus(TRUE))>>) /\ UNCHANGED queue
              ELSE NextRequest
    /\ UNCHANGED <<coreVars, ack, storeVars,
                   reported, effects, devProg, devGot>>

\* Slip: a status of any kind clears the marks.
AnyStatus(s) == TRUE

Succeeds(s) == s.success

\* One event for each program drained; their order tells nothing apart.
StatusIn ==
    /\ Receiving("status")
    /\ LET stored == SetToSeq(storing)
       IN Reply(IF Succeeds(Head(bus).msg)
                THEN [i \in DOMAIN stored |-> ModEvent(stored[i], FALSE)] ELSE <<>>)
    /\ storing' = {} /\ handle' = "none"
    /\ UNCHANGED <<coreVars, queue, ack, orphans,
                   reported, effects, devProg, devGot>>

ProgramNumberIn ==
    /\ Receiving("number")
    /\ SetProgram(Head(bus).msg.program, "MIDI")
    /\ reported' = Head(bus).msg.program
    /\ IF HeadIs("number?") THEN Advance(<<>>) ELSE Reply(<<>>) /\ UNCHANGED queue
    /\ UNCHANGED <<prev, editVars, dumpVars, devVars, app, reroute, ack, storeVars,
                   effects, devProg, devGot>>

EditStateIn ==
    /\ Receiving("state")
    /\ LET evs == IF reported = NoProgram THEN <<>>
                  ELSE <<ModEvent(reported, Head(bus).msg.modified)>>
                       \o (IF prog = reported THEN <<LoadEvent(EditBuffer, "UI")>> ELSE <<>>)
       IN IF HeadIs("state?") THEN Advance(evs) ELSE Reply(evs) /\ UNCHANGED queue
    /\ UNCHANGED <<coreVars, ack, storeVars,
                   reported, effects, devProg, devGot>>

\* The peer asks for the program and its state; without a program the first
\* one is reported.
NumberRequestIn ==
    /\ Receiving("number?")
    /\ Reply(<<MsgOut(ProgramNumber(IF numbered(prog) THEN prog ELSE ProgramSeq[1]))>>)
    /\ UNCHANGED <<coreVars, ownVars>>

StateRequestIn ==
    /\ Receiving("state?")
    /\ Reply(IF numbered(prog) THEN <<MsgOut(EditState(modified[prog]))>> ELSE <<>>)
    /\ UNCHANGED <<coreVars, ownVars>>

-----------------------------------------------------------------------------
(* The device, as the handler relies on it: every dump it sends is         *)
(* followed by an end, every end after patch dumps is answered by a        *)
(* status.                                                                 *)

DumpOf(b) ==
    <<BufferDump(IF b = EditBuffer THEN devEdit ELSE IF b \in Effects THEN Blank
                 ELSE devProgs[b]), PatchDumpEnd>>

Answer(m) ==
    CASE m.cmd = "request" -> DumpOf(m.buffer)
      [] m.cmd = "number?" -> <<ProgramNumber(devProg)>>
      [] m.cmd = "state?"  -> <<EditState(devEdit # devProgs[devProg])>>
      [] OTHER             -> <<>>

XtDevReceive ==
    /\ toDev # <<>> /\ Head(toDev).cmd \notin {"dump", "end"}
    /\ toDev' = Tail(toDev)
    /\ LET m == Head(toDev)
           P == {p \in Programs : m.cmd = "pc" /\ PcNum[p] = m.num}
       IN /\ fromDev' = fromDev \o Answer(m)
          /\ devProg' = IF P = {} THEN devProg ELSE CHOOSE p \in P : TRUE
          /\ devEdit' = IF m.cmd = "cc" THEN [devEdit EXCEPT !.val = m.val]
                        ELSE IF m.cmd = "buffer" THEN m.content
                        ELSE IF P = {} THEN devEdit ELSE devProgs[devProg']
    /\ UNCHANGED <<uiVars, editVars, dumpVars, devProgs, bus, app, reroute, handlerVars,
                   devGot>>

DevPatchDump ==
    /\ toDev # <<>> /\ Head(toDev).cmd = "dump"
    /\ toDev' = Tail(toDev)
    /\ \/ /\ devProgs' = [devProgs EXCEPT ![Head(toDev).buffer] = Head(toDev).content]
          /\ devGot' = IF devGot = "none" THEN "stored" ELSE devGot
       \/ DumpsMayFail /\ devGot' = "failed" /\ UNCHANGED devProgs
    /\ UNCHANGED <<uiVars, editVars, dumpVars, devEdit, fromDev, bus, app, reroute,
                   handlerVars, devProg>>

DevDumpEnd ==
    /\ toDev # <<>> /\ Head(toDev).cmd = "end"
    /\ toDev' = Tail(toDev) /\ devGot' = "none"
    /\ \/ devGot # "none" /\ fromDev' = Append(fromDev, StoreStatus(devGot = "stored"))
       \/ (devGot = "none" \/ StatusMayBeLost) /\ UNCHANGED fromDev
    /\ UNCHANGED <<uiVars, editVars, dumpVars, devEdit, devProgs, bus, app, reroute,
                   handlerVars, devProg>>

PeerRequest(m) ==
    /\ PeerRequests /\ MayAct
    /\ fromDev' = Append(fromDev, m)
    /\ UNCHANGED <<uiVars, editVars, dumpVars, devEdit, devProgs, toDev, bus, app, reroute,
                   ownVars>>

PeerDump(p, d) ==
    /\ PeerDumps /\ MayAct
    /\ devProgs' = [devProgs EXCEPT ![p] = d]
    /\ fromDev' = fromDev \o <<DumpMsg(p, d), PatchDumpEnd>>
    /\ UNCHANGED <<uiVars, editVars, dumpVars, devEdit, toDev, bus, app, reroute,
                   ownVars>>

-----------------------------------------------------------------------------

XtInit ==
    /\ prog = Hidden /\ progOrigin = "NONE" /\ prev = Manual /\ uiq = <<"program">>
    /\ raw = Blank /\ edited = FALSE /\ ctl = Blank.val /\ ctq = <<>>
    /\ data = [p \in Programs |-> Blank] /\ names = [p \in Programs |-> Blank.name]
    /\ modified = [p \in Programs |-> FALSE] /\ shown = modified
    /\ reroute = NoRoutes
    /\ bus = <<LoadEvent(All, "UI"), Marker("number")>> /\ app = Idle
    /\ devEdit \in Patch /\ devProgs \in Dump
    /\ toDev = <<>> /\ fromDev = <<>>
    /\ queue = <<>> /\ ack = FALSE /\ storing = {} /\ handle = "none" /\ orphans = 0
    /\ reported = NoProgram /\ effects = [e \in Effects |-> ""]
    /\ devProg \in Programs /\ devGot = "none"

\* What is as in PodCore.
CoreUser == User /\ UNCHANGED ownVars

CoreTask ==
    /\ \/ HandleControl \/ HandleName \/ HandleProgramChange \/ FinishProgramChange
       \/ HandleCopy \/ Reload \/ HandleModified \/ ShowModified
       \/ MidiControl \/ MidiProgram \/ HandleMsgOut
    /\ UNCHANGED ownVars

XtUiSignal  == UiSignal /\ UNCHANGED ownVars
XtCtlSignal == CtlSignal /\ UNCHANGED ownVars
XtMidiIn    == MidiIn /\ UNCHANGED ownVars

XtDevice ==
    \/ \E v \in Vals : DevKnob(v) /\ UNCHANGED ownVars
    \/ \E p \in Programs : DevProgram(p) /\ devProg' = p /\ UNCHANGED <<handlerVars, devGot>>
    \/ \E b \in Programs \cup {EditBuffer} : PeerRequest(ReqMsg(b))
    \/ PeerRequest(ProgramNumberRequest) \/ PeerRequest(EditStateRequest)
    \/ \E p \in Programs, d \in Patch : PeerDump(p, d)

XtTask ==
    \/ CoreTask
    \/ LoadForPeer \/ LoadEditBuffer \/ LoadPatches \/ XtStore
    \/ XtDataOut \/ XtDataIn \/ EffectIn
    \/ EndMarker \/ TimeoutMarker \/ NumberMarker
    \/ BufferDumpIn \/ PatchDumpIn \/ PatchRequestIn \/ DumpEndIn \/ StatusIn
    \/ ProgramNumberIn \/ EditStateIn \/ NumberRequestIn \/ StateRequestIn

XtDeviceTask == XtDevReceive \/ DevPatchDump \/ DevDumpEnd

XtSystem == XtUiSignal \/ XtCtlSignal \/ XtTask \/ XtMidiIn \/ TimerFires \/ XtDeviceTask

XtNext == CoreUser \/ XtDevice \/ XtSystem

XtSpec == XtInit /\ [][XtNext]_xtVars

\* The tasks run, the device answers, and a timer does not wait for a user who
\* never rests (a Timely one is to fire between two of his actions).
XtFairness == /\ WF_xtVars(XtUiSignal) /\ WF_xtVars(XtCtlSignal)
              /\ WF_xtVars(XtTask) /\ WF_xtVars(XtMidiIn) /\ WF_xtVars(XtDeviceTask)
              /\ SF_xtVars(TimerFires)

=============================================================================
