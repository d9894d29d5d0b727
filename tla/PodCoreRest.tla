---------------------------- MODULE PodCoreRest ----------------------------
(***************************************************************************)
(* The safety properties of PodCore that hold when one thing is done at a  *)
(* time: UnmodifiedMatchesDevice, GridShowsDump and SavedEditsAreMarked.   *)
(*                                                                         *)
(* They speak of states at rest; the invariant RestInv says what is true   *)
(* while an act is being handled.  An act is either harmless or it leads   *)
(* to another program or to other data, and what leads is alone on its way *)
(* (AloneInv); FlightInv and UnmarkInv say what it carries, StateInv what  *)
(* has become of the library meanwhile.                                    *)
(***************************************************************************)
EXTENDS PodCoreProofs

\* Nobody acts before everything is handled, and the device stays the same one:
\* another one finds program:prev as the old one left it.
OneAtATime == MaxBacklog = 0 /\ ~DeviceSwap

-----------------------------------------------------------------------------
(* What is under way.                                                      *)

\* The signal of the hidden program is dropped.
Calm == uiq = <<>> \/ (prog = Hidden /\ uiq = <<"program">>)

\* A message, or an event, that leads to another program or to other data of a
\* program, or copies the edit buffer.
LeadsOut(m) == m.cmd = "request" /\ m.buffer # EditBuffer
LeadsIn(m)  == m.cmd \in {"pc", "request"} \/ (m.cmd = "dump" /\ m.buffer # EditBuffer)

Leads(e) ==
    \/ e.type \in {"pc", "copy"}
    \/ e.type \in {"load", "store"} /\ (e.buffer # EditBuffer \/ reroute[EditBuffer] # NoRoute)
    \/ /\ e.type = "data"
       /\ (e.buffer # EditBuffer /\ e.origin = "MIDI") \/ reroute[e.buffer] # NoRoute
    \/ e.type = "in" /\ LeadsIn(e.msg)
    \/ e.type = "out" /\ LeadsOut(e.msg)

\* ... is the only one.
OnlyUi      == Len(uiq) = 1 /\ ctq = <<>> /\ bus = <<>> /\ app = Idle /\ toDev = <<>> /\ fromDev = <<>>
OnlyBus     == Calm /\ ctq = <<>> /\ Len(bus) = 1 /\ app = Idle /\ toDev = <<>> /\ fromDev = <<>>
OnlyToDev   == Calm /\ ctq = <<>> /\ bus = <<>> /\ app = Idle /\ Len(toDev) = 1 /\ fromDev = <<>>
OnlyFromDev == Calm /\ ctq = <<>> /\ bus = <<>> /\ app = Idle /\ toDev = <<>> /\ Len(fromDev) = 1

AloneInv ==
    /\ ~Calm => OnlyUi
    /\ \A e \in Range(bus) : Leads(e) => OnlyBus
    /\ \A m \in Range(toDev) : LeadsOut(m) => OnlyToDev
    /\ \A m \in Range(fromDev) : LeadsIn(m) => OnlyFromDev
    /\ app.at = "reload" => /\ Calm /\ ctq = <<>> /\ bus = <<>> /\ toDev = <<>> /\ fromDev = <<>>
                            /\ prog = app.buffer

\* The program that is left, and the one before any was selected.
SwitchInv ==
    /\ prog = Hidden => prev = Manual /\ app.at # "synced"
    /\ app.at = "synced" => Calm
    /\ \A e \in Range(bus) : e.type = "pc" \/ (e.type = "in" /\ e.msg.cmd = "pc") => uiq = <<>>
    /\ \A e \in Range(bus) : e.type = "pc" => prog # Hidden
    /\ \A m \in Range(fromDev) : m.cmd = "pc" => uiq = <<>>

\* A program is copied to the edit buffer, or the edit buffer to a program.
CopyInv ==
    /\ \A p \in Programs : reroute[p] \in {NoRoute, EditBuffer}
    /\ reroute[EditBuffer] # NoRoute =>
           /\ reroute[EditBuffer] \in Programs
           /\ \E e \in Range(bus) : /\ e.type \in {"store", "data"} /\ e.buffer = EditBuffer
                                    /\ e.type = "data" => e.content = raw
    /\ \A e \in Range(bus) : e.type = "copy" =>
           \/ e.from \in Programs /\ e.to = EditBuffer
           \/ e.from = EditBuffer /\ e.to \in Programs

-----------------------------------------------------------------------------
(* What it carries.                                                        *)

Has(d, b, content) == content = (IF b = All THEN d ELSE d[b])

Carries(m, d) == m.cmd = "dump" /\ m.buffer # EditBuffer => Has(d, m.buffer, m.content)

\* What goes to the device is what the dump holds; what comes, what the device holds.
CarryInv ==
    /\ \A e \in Range(bus) :
          /\ e.type = "data" /\ e.buffer # EditBuffer =>
                 Has(IF e.origin = "UI" THEN data ELSE devProgs, e.buffer, e.content)
          /\ e.type = "out" => Carries(e.msg, data)
          /\ e.type = "in" => Carries(e.msg, devProgs)
    /\ \A m \in Range(toDev) : Carries(m, data)
    /\ \A m \in Range(fromDev) : Carries(m, devProgs)

\* The dump of a program is going to the device.
Delivers(m, p) == m.cmd = "dump" /\ m.buffer \in {p, All}
Going(p) ==
    \/ \E e \in Range(bus) :
          \/ e.type = "data" /\ e.origin = "UI" /\ e.buffer \in {p, All} /\ reroute[e.buffer] = NoRoute
          \/ e.type = "out" /\ Delivers(e.msg, p)
    \/ \E m \in Range(toDev) : Delivers(m, p)

\* All programs are being loaded, as in the beginning.
Fetching ==
    \/ \E e \in Range(bus) :
          \/ e.type = "load" /\ e.buffer = All /\ e.origin = "UI"
          \/ e.type = "out" /\ e.msg.cmd = "request" /\ e.msg.buffer = All
          \/ e.type = "in" /\ e.msg.cmd = "dump" /\ e.msg.buffer = All
          \/ e.type = "data" /\ e.buffer = All /\ e.origin = "MIDI"
    \/ \E m \in Range(toDev) : m.cmd = "request" /\ m.buffer = All
    \/ \E m \in Range(fromDev) : m.cmd = "dump" /\ m.buffer = All

Marking(b, f) == \E e \in Range(bus) : e.type = "modified" /\ e.buffer = b /\ e.flag = f

-----------------------------------------------------------------------------
(* What is true while it is under way.                                     *)

\* The program in the edit buffer.
InEdit == IF app.at = "synced" THEN prog ELSE prev

EditMarksInv ==
    \A e \in Range(bus) : e.type = "modified" /\ e.buffer \in {EditBuffer, Current} => e.flag

\* A program is as on the device, or marked, or will be one of these.
MarkedInv ==
    \A p \in Programs :
        \/ modified[p] \/ data[p] = devProgs[p] \/ Going(p) \/ Marking(p, TRUE) \/ Fetching
        \/ app.at = "reload" /\ app.rerouted /\ app.buffer = p

\* A mark is taken back when the program is as on the device, or will be.
UnmarkInv ==
    \A p \in Programs :
        \/ Marking(p, FALSE) \/ Marking(All, FALSE)
        \/ app.at = "reload" /\ ~app.rerouted /\ app.buffer = p
        => data[p] = devProgs[p] \/ Going(p)

\* The edit buffer is as on the device, or marked, or will be one of these.
EditInv ==
    numbered(InEdit) /\ ~edited =>
        \/ raw = data[InEdit] /\ raw = devProgs[InEdit]
        \/ Marking(EditBuffer, TRUE) \/ Marking(Current, TRUE)
        \/ app.at = "reload" /\ ~app.rerouted
ReloadInv ==
    /\ app.at = "reload" /\ app.rerouted => data[app.buffer] = raw
    /\ app.at = "reload" /\ ~app.rerouted => data[app.buffer] = devProgs[app.buffer]

NamesInv ==
    \A p \in Programs :
        \/ names[p] = (IF p = InEdit THEN raw ELSE data[p]).name
        \/ /\ p = InEdit
           /\ \/ \E s \in Range(ctq) : s.key = "name_change"
              \/ \E e \in Range(bus) : e.type = "cc" /\ e.sig.key = "name_change"
              \/ app.at = "reload"

ShownInv ==
    \A p \in Programs :
        \/ shown[p] = modified[p]
        \/ app.at = "show" /\ p = prog /\ modified[p] = app.flag
        \/ Marking(p, TRUE) /\ modified[p]

ShowInv == app.at = "show" => (numbered(prog) => modified[prog] = app.flag)

FlightInv == SwitchInv /\ CopyInv /\ CarryInv /\ EditMarksInv
StateInv  == MarkedInv /\ EditInv /\ ReloadInv /\ NamesInv /\ ShownInv /\ ShowInv

RestInv == AloneInv /\ FlightInv /\ UnmarkInv /\ StateInv

\* Together with what holds under every interleaving.  (SilentIsHidden is the
\* converse of HiddenIsSilent: every other program was set by somebody.)
SilentIsHidden == progOrigin = "NONE" => prog = Hidden
AnyTime == TypeOK /\ SilentIsHidden /\ PreviousCatchesUp /\ RouteIsAwaited

-----------------------------------------------------------------------------
(* Queues.                                                                 *)

LEMMA QueueTypes ==
    TypeOK => /\ uiq \in Seq(Buttons \cup {"program"}) /\ ctq \in Seq(Signals)
              /\ bus \in Seq(Events) /\ toDev \in Seq(Msgs) /\ fromDev \in Seq(Msgs)
BY DEF TypeOK

LEMMA Taken ==
    ASSUME NEW S, NEW q \in Seq(S), q # <<>>
    PROVE  /\ Head(q) \in S /\ Tail(q) \in Seq(S)
           /\ Range(q) = {Head(q)} \cup Range(Tail(q))
           /\ Len(q) = 1 => Tail(q) = <<>> /\ Range(q) = {Head(q)}
<1>1. Head(q) \in S /\ Tail(q) \in Seq(S)
  BY Tuples
<1>2. Range(q) = {Head(q)} \cup Range(Tail(q))
  BY RangeOfHeadTail
<1>3. Len(q) = 1 => Tail(q) = <<>>
  <2>1. Len(Tail(q)) = Len(q) - 1
    BY HeadTailProperties
  <2>2. Len(q) = 1 => Len(Tail(q)) = 0
    BY <2>1
  <2> QED BY <1>1, <2>2, EmptySeq
<1> QED BY <1>1, <1>2, <1>3, RangeOfEmpty

LEMMA Added ==
    ASSUME NEW S, NEW q \in Seq(S), NEW x \in S
    PROVE  /\ Range(Append(q, x)) = Range(q) \cup {x}
           /\ Len(Append(q, x)) = Len(q) + 1
           /\ q = <<>> => Append(q, x) = <<x>>
<1>1. Append(<<>>, x) = <<x>>
  <2>1. /\ Append(<<>>, x) \in Seq(S) /\ Len(Append(<<>>, x)) = 1 /\ Append(<<>>, x)[1] = x
    BY Tuples, AppendProperties
  <2>2. <<x>> \in Seq(S) /\ Len(<<x>>) = 1 /\ <<x>>[1] = x
    BY Tuples
  <2> QED BY <2>1, <2>2, SeqEqual
<1>2. Range(Append(q, x)) = Range(q) \cup {x}
  BY RangeOfAppend
<1>3. Len(Append(q, x)) = Len(q) + 1
  BY AppendProperties
<1> QED BY <1>1, <1>2, <1>3

LEMMA AddedTo ==
    ASSUME TypeOK
    PROVE  /\ \A e \in Events : Range(Append(bus, e)) = Range(bus) \cup {e}
           /\ \A m \in Msgs : Range(Append(toDev, m)) = Range(toDev) \cup {m}
           /\ \A m \in Msgs : Range(Append(fromDev, m)) = Range(fromDev) \cup {m}
           /\ \A s \in Signals : Range(Append(ctq, s)) = Range(ctq) \cup {s}
BY QueueTypes, Added

LEMMA TakenFrom ==
    ASSUME TypeOK
    PROVE  /\ bus # <<>> => Head(bus) \in Events /\ Range(bus) = {Head(bus)} \cup Range(Tail(bus))
           /\ toDev # <<>> => Head(toDev) \in Msgs /\ Range(toDev) = {Head(toDev)} \cup Range(Tail(toDev))
           /\ fromDev # <<>> =>
                  Head(fromDev) \in Msgs /\ Range(fromDev) = {Head(fromDev)} \cup Range(Tail(fromDev))
           /\ ctq # <<>> => Head(ctq) \in Signals /\ Range(ctq) = {Head(ctq)} \cup Range(Tail(ctq))
BY QueueTypes, Taken

LEMMA Members ==
    ASSUME NEW S, NEW q \in Seq(S)
    PROVE  /\ Range(q) \subseteq S
           /\ q = <<>> <=> Len(q) = 0
           /\ q = <<>> <=> Range(q) = {}
           /\ Len(q) = 1 => q # <<>>
<1>1. Range(q) \subseteq S
  BY DEF Range
<1>2. q # <<>> => Head(q) \in Range(q)
  BY Taken
<1> QED BY <1>1, <1>2, EmptySeq, RangeOfEmpty

\* Nobody acts before everything is handled.
LEMMA AtRest ==
    ASSUME TypeOK, MaxBacklog = 0, MayAct \/ Quiescent
    PROVE  uiq = <<>> /\ ctq = <<>> /\ bus = <<>> /\ app = Idle /\ toDev = <<>> /\ fromDev = <<>>
<1>1. /\ Len(uiq) \in Nat /\ Len(ctq) \in Nat /\ Len(bus) \in Nat
      /\ Len(toDev) \in Nat /\ Len(fromDev) \in Nat
  BY QueueTypes, LenProperties
<1>2. Backlog = 0
  <2>1. (IF app = Idle THEN 0 ELSE 1) \in Nat
    OBVIOUS
  <2>2. Backlog \in Nat
    BY <1>1, <2>1 DEF Backlog
  <2> QED BY <2>2 DEF MayAct, Quiescent
<1>3. /\ Len(uiq) = 0 /\ Len(ctq) = 0 /\ Len(bus) = 0 /\ Len(toDev) = 0 /\ Len(fromDev) = 0
      /\ app = Idle
  BY <1>1, <1>2 DEF Backlog
<1> QED BY <1>3, QueueTypes, EmptySeq

-----------------------------------------------------------------------------
(* One leads, or none.                                                     *)

Led ==
    \/ ~Calm
    \/ \E e \in Range(bus) : Leads(e)
    \/ \E m \in Range(toDev) : LeadsOut(m)
    \/ \E m \in Range(fromDev) : LeadsIn(m)
    \/ app.at = "reload"

LEMMA Unled == ~Led => AloneInv
BY DEF Led, AloneInv

LEMMA Lengths ==
    ASSUME TypeOK
    PROVE  /\ OnlyBus => bus # <<>> /\ Tail(bus) = <<>> /\ Range(bus) = {Head(bus)}
           /\ OnlyToDev => toDev # <<>> /\ Tail(toDev) = <<>> /\ Range(toDev) = {Head(toDev)}
           /\ OnlyFromDev => fromDev # <<>> /\ Tail(fromDev) = <<>> /\ Range(fromDev) = {Head(fromDev)}
           /\ OnlyUi => uiq # <<>> /\ Tail(uiq) = <<>> /\ Range(uiq) = {Head(uiq)}
<1>1. OnlyBus => Len(bus) = 1
  BY DEF OnlyBus
<1>2. OnlyToDev => Len(toDev) = 1
  BY DEF OnlyToDev
<1>3. OnlyFromDev => Len(fromDev) = 1
  BY DEF OnlyFromDev
<1>4. OnlyUi => Len(uiq) = 1
  BY DEF OnlyUi
<1> QED BY <1>1, <1>2, <1>3, <1>4, QueueTypes, Taken, Members

\* What follows when the next to be taken leads ...
LEMMA Leading ==
    ASSUME TypeOK, AloneInv
    PROVE  /\ bus # <<>> /\ Leads(Head(bus)) => OnlyBus
           /\ toDev # <<>> /\ LeadsOut(Head(toDev)) => OnlyToDev
           /\ fromDev # <<>> /\ LeadsIn(Head(fromDev)) => OnlyFromDev
<1>1. /\ bus # <<>> => Head(bus) \in Range(bus)
      /\ toDev # <<>> => Head(toDev) \in Range(toDev)
      /\ fromDev # <<>> => Head(fromDev) \in Range(fromDev)
  BY QueueTypes, Taken
<1> QED BY <1>1 DEF AloneInv

\* ... and when it does not.
LEMMA Trailing ==
    ASSUME TypeOK, AloneInv
    PROVE  /\ app = Idle /\ bus # <<>> /\ ~Leads(Head(bus)) => ~Led
           /\ toDev # <<>> /\ ~LeadsOut(Head(toDev)) => ~Led
           /\ fromDev # <<>> /\ ~LeadsIn(Head(fromDev)) => ~Led
           /\ ctq # <<>> => ~Led
           /\ app.at \in {"synced", "show"} /\ Calm => ~Led
<1>1. \/ ~Led
      \/ OnlyUi
      \/ OnlyBus /\ Leads(Head(bus))
      \/ OnlyToDev /\ LeadsOut(Head(toDev))
      \/ OnlyFromDev /\ LeadsIn(Head(fromDev))
      \/ app.at = "reload"
  <2>1. (\E e \in Range(bus) : Leads(e)) => OnlyBus /\ Leads(Head(bus))
    BY Lengths DEF AloneInv
  <2>2. (\E m \in Range(toDev) : LeadsOut(m)) => OnlyToDev /\ LeadsOut(Head(toDev))
    BY Lengths DEF AloneInv
  <2>3. (\E m \in Range(fromDev) : LeadsIn(m)) => OnlyFromDev /\ LeadsIn(Head(fromDev))
    BY Lengths DEF AloneInv
  <2> QED BY <2>1, <2>2, <2>3 DEF AloneInv, Led
<1>2. /\ OnlyUi => bus = <<>> /\ ctq = <<>> /\ toDev = <<>> /\ fromDev = <<>> /\ app = Idle
      /\ OnlyBus => ctq = <<>> /\ toDev = <<>> /\ fromDev = <<>> /\ app = Idle
      /\ OnlyToDev => bus = <<>> /\ ctq = <<>> /\ fromDev = <<>> /\ app = Idle
      /\ OnlyFromDev => bus = <<>> /\ ctq = <<>> /\ toDev = <<>> /\ app = Idle
      /\ app.at = "reload" => /\ bus = <<>> /\ ctq = <<>> /\ toDev = <<>> /\ fromDev = <<>>
      /\ app = Idle => app.at = "idle"
  BY DEF OnlyUi, OnlyBus, OnlyToDev, OnlyFromDev, AloneInv, Idle
<1> QED BY <1>1, <1>2

\* A copy of the edit buffer is stored or placed next.
LEMMA EditRoute ==
    ASSUME TypeOK, AloneInv, CopyInv, reroute[EditBuffer] # NoRoute
    PROVE  /\ Led /\ OnlyBus /\ Head(bus).type \in {"store", "data"} /\ Head(bus).buffer = EditBuffer
           /\ Head(bus).type = "data" => Head(bus).content = raw
           /\ Leads(Head(bus))
<1>1. PICK e \in Range(bus) : /\ e.type \in {"store", "data"} /\ e.buffer = EditBuffer
                              /\ e.type = "data" => e.content = raw
  BY DEF CopyInv
<1>2. Leads(e)
  BY <1>1 DEF Leads
<1>3. OnlyBus /\ e = Head(bus)
  BY <1>2, Lengths DEF AloneInv
<1> QED BY <1>1, <1>2, <1>3 DEF Led

\* The program that is copied is stored, loaded or placed next.
LEMMA ProgramRoute ==
    ASSUME TypeOK, AloneInv, CopyInv, RouteIsAwaited, NEW p \in Programs, reroute[p] # NoRoute
    PROVE  /\ reroute[p] = EditBuffer /\ Led /\ app = Idle /\ p # EditBuffer /\ p # All
           /\ \/ OnlyBus /\ Produces(Head(bus), p)
              \/ OnlyToDev /\ Head(toDev).cmd = "request" /\ Head(toDev).buffer = p
              \/ OnlyFromDev /\ Head(fromDev).cmd = "dump" /\ Head(fromDev).buffer = p
<1>1. p \in Dumpable /\ p # EditBuffer /\ p # All
  BY BufferSets, PodCoreAssumption
<1>2. Awaited(p)
  BY <1>1 DEF RouteIsAwaited
<1>3. ASSUME NEW e \in Range(bus), Produces(e, p) PROVE OnlyBus /\ Produces(Head(bus), p)
  <2>1. Leads(e)
    BY <1>1, <1>3 DEF Produces, Leads, LeadsIn, LeadsOut
  <2> QED BY <1>3, <2>1, Lengths DEF AloneInv
<1>4. ASSUME NEW m \in Range(toDev), m.cmd = "request", m.buffer = p
      PROVE  OnlyToDev /\ Head(toDev).cmd = "request" /\ Head(toDev).buffer = p
  <2>1. LeadsOut(m)
    BY <1>1, <1>4 DEF LeadsOut
  <2> QED BY <1>4, <2>1, Lengths DEF AloneInv
<1>5. ASSUME NEW m \in Range(fromDev), m.cmd = "dump", m.buffer = p
      PROVE  OnlyFromDev /\ Head(fromDev).cmd = "dump" /\ Head(fromDev).buffer = p
  <2>1. LeadsIn(m)
    BY <1>1, <1>5 DEF LeadsIn
  <2> QED BY <1>5, <2>1, Lengths DEF AloneInv
<1>6. Led /\ app = Idle
  <2>1. Led
    BY <1>1, <1>2 DEF Awaited, Produces, Led, Leads, LeadsIn, LeadsOut
  <2>2. OnlyBus \/ OnlyToDev \/ OnlyFromDev
    BY <1>2, <1>3, <1>4, <1>5 DEF Awaited
  <2> QED BY <2>1, <2>2 DEF OnlyBus, OnlyToDev, OnlyFromDev
<1> QED BY <1>1, <1>2, <1>3, <1>4, <1>5, <1>6 DEF Awaited, CopyInv

\* Without a leader nothing is copied.
LEMMA NoRoutesUnled ==
    ASSUME TypeOK, AloneInv, CopyInv, RouteIsAwaited, ~Led
    PROVE  \A b \in Dumpable : reroute[b] = NoRoute
<1>1. reroute[EditBuffer] = NoRoute
  BY EditRoute
<1>2. \A p \in Programs : reroute[p] = NoRoute
  BY ProgramRoute
<1>3. reroute[All] = NoRoute
  BY DEF TypeOK
<1> QED BY <1>1, <1>2, <1>3, BufferSets

\* The next that lead.
LEMMA StillUnled ==
    ASSUME TypeOK, ~Led, Calm', app'.at # "reload",
           \A b \in Dumpable : reroute'[b] = reroute[b] \/ reroute'[b] = NoRoute,
           \A e \in Range(bus') : e \in Range(bus) \/ ~Leads(e)',
           \A m \in Range(toDev') : m \in Range(toDev) \/ ~LeadsOut(m),
           \A m \in Range(fromDev') : m \in Range(fromDev) \/ ~LeadsIn(m)
    PROVE  ~Led' /\ AloneInv'
<1>1. ASSUME NEW e \in Range(bus) PROVE ~Leads(e)'
  <2>1. ~Leads(e) /\ e \in Events
    BY <1>1, QueueTypes, Members DEF Led
  <2>2. e.type = "data" => e.buffer \in Dumpable
    BY <2>1, EventKinds
  <2> QED BY <2>1, <2>2, BufferSets DEF Leads
<1>2. ~Led'
  BY <1>1 DEF Led, LeadsOut, LeadsIn
<1> QED BY <1>2 DEF Led, AloneInv

-----------------------------------------------------------------------------
(* What a step keeps that has to do with neither programs nor patches.      *)

NameComes == \/ \E s \in Range(ctq) : s.key = "name_change"
             \/ \E e \in Range(bus) : e.type = "cc" /\ e.sig.key = "name_change"

LEMMA KeepState ==
    ASSUME StateInv,
           UNCHANGED <<prev, raw, edited, data, names, modified, shown, devProgs, app>>,
           app.at \in {"synced", "show"} => prog' = prog,
           \A p \in Programs : Going(p) => Going(p)',
           \A b \in Programs \cup {EditBuffer, Current} : Marking(b, TRUE) => Marking(b, TRUE)',
           NameComes => NameComes', Fetching => Fetching'
    PROVE  StateInv'
<1>1. InEdit' = InEdit
  BY DEF InEdit
<1>2. MarkedInv'
  BY DEF StateInv, MarkedInv
<1>3. EditInv'
  BY <1>1 DEF StateInv, EditInv, numbered
<1>4. ReloadInv'
  BY DEF StateInv, ReloadInv
<1>5. NamesInv'
  <2> SUFFICES ASSUME NEW p \in Programs
               PROVE  \/ names'[p] = (IF p = InEdit' THEN raw' ELSE data'[p]).name
                      \/ p = InEdit' /\ (NameComes' \/ app'.at = "reload")
    BY DEF NamesInv, NameComes
  <2>1. \/ names[p] = (IF p = InEdit THEN raw ELSE data[p]).name
        \/ p = InEdit /\ (NameComes \/ app.at = "reload")
    BY DEF StateInv, NamesInv, NameComes
  <2>2. /\ names' = names /\ raw' = raw /\ data' = data /\ app' = app
    OBVIOUS
  <2>3. CASE p = InEdit
    BY <1>1, <2>1, <2>2, <2>3
  <2>4. CASE p # InEdit
    BY <1>1, <2>1, <2>2, <2>4
  <2> QED BY <2>3, <2>4
<1>6. ShownInv'
  <2> SUFFICES ASSUME NEW p \in Programs
               PROVE  \/ shown'[p] = modified'[p]
                      \/ app'.at = "show" /\ p = prog' /\ modified'[p] = app'.flag
                      \/ Marking(p, TRUE)' /\ modified'[p]
    BY DEF ShownInv
  <2>1. \/ shown[p] = modified[p]
        \/ app.at = "show" /\ p = prog /\ modified[p] = app.flag
        \/ Marking(p, TRUE) /\ modified[p]
    BY DEF StateInv, ShownInv
  <2>2. shown' = shown /\ modified' = modified /\ app' = app
    OBVIOUS
  <2>3. Marking(p, TRUE) => Marking(p, TRUE)'
    OBVIOUS
  <2>4. app.at = "show" => prog' = prog
    OBVIOUS
  <2> QED BY <2>1, <2>2, <2>3, <2>4, Zenon
<1>7. ShowInv'
  BY DEF StateInv, ShowInv, numbered
<1> QED BY <1>2, <1>3, <1>4, <1>5, <1>6, <1>7 DEF StateInv

LEMMA KeepUnmark ==
    ASSUME UnmarkInv, UNCHANGED <<data, devProgs, app>>,
           \A p \in Programs : Going(p) => Going(p)',
           \A b \in Programs \cup {All} : Marking(b, FALSE)' => Marking(b, FALSE)
    PROVE  UnmarkInv'
BY DEF UnmarkInv

\* What may come on the bus at any time.
Harmless(e) ==
    /\ e.type \notin {"pc", "copy"} /\ (e.type = "in" => e.msg.cmd # "pc")
    /\ e.type = "data" /\ e.buffer # EditBuffer =>
           Has(IF e.origin = "UI" THEN data ELSE devProgs, e.buffer, e.content)
    /\ e.type = "out" => Carries(e.msg, data)
    /\ e.type = "in" => Carries(e.msg, devProgs)
    /\ e.type = "modified" /\ e.buffer \in {EditBuffer, Current} => e.flag

LEMMA KeepFlight ==
    ASSUME FlightInv, UNCHANGED <<prog, prev, data, devProgs>>, uiq' = uiq \/ uiq' = <<>>,
           app'.at = "synced" => app.at = "synced",
           reroute'[EditBuffer] = NoRoute,
           \A p \in Programs : reroute'[p] \in {NoRoute, EditBuffer},
           \A e \in Range(bus') : e \in Range(bus) \/ Harmless(e),
           \A m \in Range(toDev') : m \in Range(toDev) \/ Carries(m, data),
           \A m \in Range(fromDev') : m \in Range(fromDev) \/ (Carries(m, devProgs) /\ m.cmd # "pc")
    PROVE  FlightInv'
<1> USE DEF FlightInv, Harmless
<1>1. SwitchInv'
  BY DEF SwitchInv, Calm
<1>2. CopyInv'
  BY DEF CopyInv
<1>3. CarryInv'
  BY DEF CarryInv, Has, Carries
<1>4. EditMarksInv'
  BY DEF EditMarksInv
<1> QED BY <1>1, <1>2, <1>3, <1>4

LEMMA Solo == OnlyUi' \/ OnlyBus' \/ OnlyToDev' \/ OnlyFromDev' => AloneInv'
<1>1. Range(<<>>) = {}
  BY RangeOfEmpty
<1>2. Idle.at # "reload"
  BY DEF Idle
<1>3. OnlyUi' => AloneInv'
  BY <1>1, <1>2 DEF AloneInv, OnlyUi, Calm
<1>4. OnlyBus' => AloneInv'
  BY <1>1, <1>2 DEF AloneInv, OnlyBus
<1>5. OnlyToDev' => AloneInv'
  BY <1>1, <1>2 DEF AloneInv, OnlyToDev
<1>6. OnlyFromDev' => AloneInv'
  BY <1>1, <1>2 DEF AloneInv, OnlyFromDev
<1> QED BY <1>3, <1>4, <1>5, <1>6

-----------------------------------------------------------------------------
(* The user and the device act.                                            *)

LEMMA Resting ==
    ASSUME AnyTime, RestInv, OneAtATime, MayAct
    PROVE  /\ uiq = <<>> /\ ctq = <<>> /\ bus = <<>> /\ app = Idle /\ toDev = <<>> /\ fromDev = <<>>
           /\ Range(bus) = {} /\ Range(ctq) = {} /\ Range(toDev) = {} /\ Range(fromDev) = {}
           /\ ~Led /\ Calm /\ app.at = "idle"
           /\ \A b \in Dumpable : reroute[b] = NoRoute
           /\ \A p : ~Going(p)
           /\ \A b, f : ~Marking(b, f)
           /\ ~NameComes /\ ~Fetching
<1>1. uiq = <<>> /\ ctq = <<>> /\ bus = <<>> /\ app = Idle /\ toDev = <<>> /\ fromDev = <<>>
  BY AtRest DEF AnyTime, OneAtATime
<1>2. Range(bus) = {} /\ Range(ctq) = {} /\ Range(toDev) = {} /\ Range(fromDev) = {}
  BY <1>1, RangeOfEmpty
<1>3. ~Led /\ Calm /\ app.at = "idle"
  BY <1>1, <1>2 DEF Led, Calm, Idle
<1>4. \A b \in Dumpable : reroute[b] = NoRoute
  BY <1>3, NoRoutesUnled DEF AnyTime, RestInv, FlightInv
<1>5. (\A p : ~Going(p)) /\ (\A b, f : ~Marking(b, f)) /\ ~NameComes /\ ~Fetching
  BY <1>2 DEF Going, Marking, NameComes, Fetching
<1> QED BY <1>1, <1>2, <1>3, <1>4, <1>5

\* An act that puts something under way.
LEMMA ActKeeps ==
    ASSUME AnyTime, RestInv, OneAtATime, MayAct,
           UNCHANGED <<prev, raw, edited, dumpVars, devProgs, app>>,
           \A e \in Range(bus') : e.type # "modified"
    PROVE  UnmarkInv' /\ StateInv'
<1>1. UNCHANGED <<data, names, modified, shown>>
  BY DEF dumpVars
<1>2. \A b, f : ~Marking(b, f)'
  BY DEF Marking
<1>3. UnmarkInv'
  BY <1>1, <1>2, Resting, KeepUnmark DEF RestInv
<1>4. StateInv'
  BY <1>1, Resting, KeepState DEF RestInv
<1> QED BY <1>3, <1>4

LEMMA ActQuiet ==
    ASSUME AnyTime, RestInv, OneAtATime, MayAct,
           UNCHANGED <<uiq, prog, prev, dumpVars, devProgs, app, toDev, bus, reroute>>,
           \A m \in Range(fromDev') : m.cmd = "cc"
    PROVE  AloneInv' /\ FlightInv'
<1>1. Range(bus') = {} /\ Range(toDev') = {}
  BY Resting
<1>2. app'.at = "idle" /\ Calm'
  BY Resting DEF Calm
<1>3. AloneInv'
  BY <1>1, <1>2, Resting, StillUnled DEF AnyTime, LeadsIn
<1>4. /\ \A m \in Range(fromDev') : Carries(m, devProgs) /\ m.cmd # "pc"
      /\ UNCHANGED <<data, devProgs>>
      /\ reroute'[EditBuffer] = NoRoute
      /\ \A p \in Programs : reroute'[p] \in {NoRoute, EditBuffer}
  BY Resting, BufferSets DEF Carries, dumpVars
<1>5. FlightInv'
  BY <1>1, <1>2, <1>4, KeepFlight DEF RestInv
<1> QED BY <1>3, <1>5

LEMMA EditKeeps ==
    ASSUME AnyTime, RestInv, OneAtATime, NEW v \in Vals, UserEdit(v)
    PROVE  RestInv'
<1>1. /\ MayAct /\ UNCHANGED <<raw, edited, dumpVars, devProgs, app, prev, prog, uiq, bus, toDev,
                               fromDev, reroute>>
  BY DEF UserEdit, uiVars, devVars
<1>2. Range(bus') = {} /\ Range(fromDev') = {}
  BY <1>1, Resting
<1>3. AloneInv' /\ FlightInv'
  BY <1>1, <1>2, ActQuiet
<1>4. UnmarkInv' /\ StateInv'
  BY <1>1, <1>2, ActKeeps
<1> QED BY <1>3, <1>4 DEF RestInv

LEMMA KnobKeeps ==
    ASSUME AnyTime, RestInv, OneAtATime, NEW v \in Vals, DevKnob(v)
    PROVE  RestInv'
<1>1. /\ MayAct /\ UNCHANGED <<raw, edited, dumpVars, devProgs, app, prev, prog, uiq, bus, toDev,
                               reroute>>
      /\ fromDev' = Append(fromDev, CcMsg(v))
  BY DEF DevKnob, uiVars, editVars
<1>2. Range(bus') = {}
  BY <1>1, Resting
<1>3. Range(fromDev') = Range(fromDev) \cup {CcMsg(v)}
  <2>1. CcMsg(v) \in Msgs /\ TypeOK
    BY MsgsTyped DEF AnyTime
  <2>2. Range(Append(fromDev, CcMsg(v))) = Range(fromDev) \cup {CcMsg(v)}
    BY <2>1, AddedTo
  <2> QED BY <1>1, <2>2
<1>4. \A m \in Range(fromDev') : m.cmd = "cc"
  BY <1>1, <1>3, Resting DEF CcMsg
<1>5. AloneInv' /\ FlightInv'
  BY <1>1, <1>4, ActQuiet
<1>6. UnmarkInv' /\ StateInv'
  BY <1>1, <1>2, ActKeeps
<1> QED BY <1>5, <1>6 DEF RestInv

LEMMA RenameKeeps ==
    ASSUME AnyTime, RestInv, OneAtATime, NEW n \in Names, UserRename(n)
    PROVE  RestInv'
<1>1. /\ MayAct /\ UNCHANGED <<dumpVars, devProgs, app, prev, prog, uiq, bus, toDev, fromDev, reroute>>
      /\ edited' = TRUE /\ raw' = [raw EXCEPT !.name = n]
      /\ ctq' = Append(ctq, NameSignal("UI"))
      /\ UNCHANGED <<data, names, modified, shown>>
  BY DEF UserRename, uiVars, devVars, dumpVars
<1>2. Range(bus') = {} /\ Range(fromDev') = {}
  BY <1>1, Resting
<1>3. AloneInv' /\ FlightInv'
  BY <1>1, <1>2, ActQuiet
<1>4. \A b, f : ~Marking(b, f)'
  BY <1>2 DEF Marking
<1>5. UnmarkInv'
  BY <1>1, <1>4, Resting, KeepUnmark DEF RestInv
<1>6. MarkedInv' /\ EditInv' /\ ReloadInv' /\ ShowInv'
  BY <1>1, Resting DEF RestInv, StateInv, MarkedInv, EditInv, ReloadInv, ShowInv
<1>7. NamesInv'
  <2>1. NameSignal("UI") \in Range(ctq')
    BY <1>1, AddedTo, SignalsTyped DEF AnyTime
  <2>2. NameComes' /\ InEdit' = InEdit
    BY <1>1, <2>1 DEF NameComes, NameSignal, InEdit
  <2>3. \A p \in Programs : p # InEdit => names[p] = data[p].name
    BY Resting DEF RestInv, StateInv, NamesInv, NameComes
  <2> QED BY <1>1, <2>2, <2>3 DEF NamesInv, NameComes
<1>8. ShownInv'
  BY <1>1, Resting DEF RestInv, StateInv, ShownInv
<1> QED BY <1>3, <1>5, <1>6, <1>7, <1>8 DEF StateInv, RestInv

LEMMA ProgramKeeps ==
    ASSUME AnyTime, RestInv, OneAtATime, NEW p \in Programs \cup Modes, UserProgram(p)
    PROVE  RestInv'
<1>1. /\ MayAct /\ UNCHANGED <<prev, raw, edited, dumpVars, devProgs, app, ctq, bus, toDev, fromDev, reroute>>
      /\ prog' = p /\ uiq' = Append(uiq, "program") /\ p # Hidden
      /\ UNCHANGED <<data, names, modified, shown>>
  BY PodCoreAssumption DEF UserProgram, SetProgram, editVars, devVars, dumpVars
<1>2. Range(bus') = {} /\ Range(toDev') = {} /\ Range(fromDev') = {} /\ app'.at = "idle"
  BY <1>1, Resting
<1>3. Len(uiq') = 1
  BY <1>1, Resting, QueueTypes, Added DEF AnyTime
<1>4. OnlyUi'
  BY <1>1, <1>3, Resting DEF OnlyUi
<1>5. SwitchInv' /\ CopyInv' /\ CarryInv' /\ EditMarksInv'
  BY <1>1, <1>2, Resting, BufferSets DEF SwitchInv, CopyInv, CarryInv, EditMarksInv
<1>6. UnmarkInv' /\ StateInv'
  BY <1>1, <1>2, ActKeeps
<1> QED BY <1>4, <1>5, <1>6, Solo DEF RestInv, FlightInv

LEMMA ButtonKeeps ==
    ASSUME AnyTime, RestInv, OneAtATime, NEW b \in Buttons, UserButton(b)
    PROVE  RestInv'
<1>1. /\ MayAct /\ UNCHANGED <<prog, prev, raw, edited, dumpVars, devProgs, app, ctq, bus, toDev, fromDev,
                               reroute>>
      /\ uiq' = Append(uiq, b)
      /\ UNCHANGED <<data, names, modified, shown>>
  BY DEF UserButton, editVars, devVars, dumpVars
<1>2. Range(bus') = {} /\ Range(toDev') = {} /\ Range(fromDev') = {} /\ app'.at = "idle"
  BY <1>1, Resting
<1>3. Len(uiq') = 1
  BY <1>1, Resting, QueueTypes, Added DEF AnyTime
<1>4. OnlyUi'
  BY <1>1, <1>3, Resting DEF OnlyUi
<1>5. SwitchInv' /\ CopyInv' /\ CarryInv' /\ EditMarksInv'
  BY <1>1, <1>2, Resting, BufferSets DEF SwitchInv, CopyInv, CarryInv, EditMarksInv, RestInv, FlightInv
<1>6. UnmarkInv' /\ StateInv'
  BY <1>1, <1>2, ActKeeps
<1> QED BY <1>4, <1>5, <1>6, Solo DEF RestInv, FlightInv

\* What the menu of the grid sends leads.
LEMMA MenuKeeps ==
    ASSUME AnyTime, RestInv, OneAtATime, MayAct,
           UNCHANGED <<uiVars, editVars, dumpVars, devVars, app>>,
           NEW p \in Programs, NEW e \in GridActions(p), bus' = Append(bus, e),
           \/ reroute' = reroute
           \/ e = LoadEvent(p, "UI") /\ reroute' = [reroute EXCEPT ![p] = EditBuffer]
    PROVE  RestInv'
<1>1. e \in Events /\ p # EditBuffer /\ p # All /\ p # Current /\ p \in Dumpable /\ EditBuffer # All
  BY EventsTyped, BufferSets, PodCoreAssumption DEF GridActions, Origins
<1>2. Range(bus') = {e} /\ Len(bus') = 1
  <2>1. Range(Append(bus, e)) = Range(bus) \cup {e}
    BY <1>1, AddedTo DEF AnyTime
  <2> QED BY <1>1, <2>1, Resting, QueueTypes, Added DEF AnyTime
<1>3. /\ Range(toDev') = {} /\ Range(fromDev') = {} /\ app'.at = "idle" /\ uiq' = <<>>
      /\ UNCHANGED <<prog, prev, raw, edited, data, names, modified, shown, devProgs, app, ctq, toDev,
                     fromDev>>
  BY Resting DEF uiVars, editVars, dumpVars, devVars
<1>4. OnlyBus'
  BY <1>2, <1>3, Resting DEF OnlyBus, Calm
<1>5. /\ e.type \in {"copy", "load", "store"}
      /\ e.type = "copy" => \/ e.from \in Programs /\ e.to = EditBuffer
                            \/ e.from = EditBuffer /\ e.to \in Programs
  BY DEF GridActions, CopyEvent, LoadEvent, StoreEvent
<1>6. SwitchInv'
  BY <1>2, <1>3, <1>5 DEF SwitchInv, RestInv, FlightInv
<1>7. CopyInv'
  <2>1. /\ reroute'[EditBuffer] = NoRoute
        /\ \A q \in Programs : reroute'[q] \in {NoRoute, EditBuffer}
    BY <1>1, Resting, BufferSets DEF AnyTime, TypeOK
  <2> QED BY <1>2, <1>5, <2>1 DEF CopyInv
<1>8. CarryInv' /\ EditMarksInv'
  BY <1>2, <1>3, <1>5 DEF CarryInv, EditMarksInv
<1>9. UnmarkInv' /\ StateInv'
  BY <1>2, <1>3, <1>5, ActKeeps DEF dumpVars
<1> QED BY <1>4, <1>6, <1>7, <1>8, <1>9, Solo DEF RestInv, FlightInv

\* The device selects a program or asks for a dump.
LEMMA DeviceLeads ==
    ASSUME AnyTime, RestInv, OneAtATime, MayAct,
           UNCHANGED <<uiVars, editVars, dumpVars, devProgs, toDev, bus, app, reroute>>,
           NEW m \in Msgs, m.cmd \in {"pc", "request"}, fromDev' = Append(fromDev, m)
    PROVE  RestInv'
<1>1. Range(fromDev') = {m} /\ Len(fromDev') = 1
  <2>1. Range(Append(fromDev, m)) = Range(fromDev) \cup {m}
    BY AddedTo DEF AnyTime
  <2> QED BY <2>1, Resting, QueueTypes, Added DEF AnyTime
<1>2. /\ Range(toDev') = {} /\ Range(bus') = {} /\ app'.at = "idle" /\ uiq' = <<>>
      /\ UNCHANGED <<prog, prev, raw, edited, data, names, modified, shown, app, ctq>>
  BY Resting DEF uiVars, editVars, dumpVars
<1>3. OnlyFromDev'
  BY <1>1, <1>2, Resting DEF OnlyFromDev, Calm
<1>4. SwitchInv' /\ CopyInv' /\ CarryInv' /\ EditMarksInv'
  BY <1>1, <1>2, Resting, BufferSets
  DEF SwitchInv, CopyInv, CarryInv, Carries, EditMarksInv, RestInv, FlightInv
<1>5. UnmarkInv' /\ StateInv'
  BY <1>2, ActKeeps DEF dumpVars
<1> QED BY <1>3, <1>4, <1>5, Solo DEF RestInv, FlightInv

LEMMA ActsKeep ==
    ASSUME AnyTime, RestInv, OneAtATime, User \/ Device
    PROVE  RestInv'
<1>1. ~NewDevice
  BY DEF OneAtATime, NewDevice
<1>2. ASSUME NEW p \in Programs, NEW e \in GridActions(p), UserGrid(e) PROVE RestInv'
  <2>1. MayAct /\ UNCHANGED <<uiVars, editVars, dumpVars, devVars, app, reroute>> /\ bus' = Append(bus, e)
    BY <1>2 DEF UserGrid
  <2> QED BY <2>1, MenuKeeps
<1>3. ASSUME NEW p \in Programs, UserLoadUnmodified(p) PROVE RestInv'
  <2>1. /\ MayAct /\ UNCHANGED <<uiVars, editVars, dumpVars, devVars, app>>
        /\ bus' = Append(bus, LoadEvent(p, "UI")) /\ reroute' = [reroute EXCEPT ![p] = EditBuffer]
        /\ LoadEvent(p, "UI") \in GridActions(p)
    BY <1>3 DEF UserLoadUnmodified, GridActions
  <2> QED BY <2>1, MenuKeeps
<1>4. ASSUME NEW p \in DOMAIN PcNum, DevProgram(p) PROVE RestInv'
  <2>1. /\ MayAct /\ UNCHANGED <<uiVars, editVars, dumpVars, devProgs, toDev, bus, app, reroute>>
        /\ fromDev' = Append(fromDev, PcMsg(PcNum[p]))
    BY <1>4 DEF DevProgram
  <2>2. PcMsg(PcNum[p]) \in Msgs /\ PcMsg(PcNum[p]).cmd = "pc"
    BY MsgsTyped, PodCoreAssumption DEF PcMsg
  <2> QED BY <2>1, <2>2, DeviceLeads
<1>5. ASSUME NEW b \in Dumpable, DevRequest(b) PROVE RestInv'
  <2>1. /\ MayAct /\ UNCHANGED <<uiVars, editVars, dumpVars, devProgs, toDev, bus, app, reroute>>
        /\ fromDev' = Append(fromDev, ReqMsg(b))
    BY <1>5 DEF DevRequest
  <2>2. ReqMsg(b) \in Msgs /\ ReqMsg(b).cmd = "request"
    BY MsgsTyped DEF ReqMsg
  <2> QED BY <2>1, <2>2, DeviceLeads
<1> QED BY <1>1, <1>2, <1>3, <1>4, <1>5, EditKeeps, RenameKeeps, ProgramKeeps, ButtonKeeps, KnobKeeps
        DEF User, Device

-----------------------------------------------------------------------------
(* Signals and messages move on.                                           *)

LEMMA UiSignalKeeps ==
    ASSUME AnyTime, RestInv, UiSignal
    PROVE  RestInv'
<1>1. /\ uiq # <<>> /\ uiq' = Tail(uiq) /\ TypeOK /\ AloneInv
      /\ UNCHANGED <<prog, prev, raw, edited, data, names, modified, shown, devProgs, app, ctq, toDev,
                     fromDev, reroute>>
  BY DEF UiSignal, editVars, dumpVars, devVars, AnyTime, RestInv
<1>2. CASE Calm
  <2>1. prog = Hidden /\ uiq = <<"program">> /\ Head(uiq) \notin Buttons
    BY <1>1, <1>2 DEF Calm, Buttons
  <2>2. bus' = bus /\ uiq' = <<>>
    BY <1>1, <2>1 DEF UiSignal
  <2>3. AloneInv'
    BY <1>1, <1>2, <2>2 DEF AloneInv, Leads, Calm, OnlyUi, OnlyBus, OnlyToDev, OnlyFromDev
  <2>4. SwitchInv' /\ CopyInv' /\ CarryInv' /\ EditMarksInv'
    BY <1>1, <2>2 DEF SwitchInv, CopyInv, CarryInv, EditMarksInv, Calm, RestInv, FlightInv
  <2>5. /\ \A p : Going(p) => Going(p)'
        /\ \A b, f : Marking(b, f)' <=> Marking(b, f)
        /\ NameComes => NameComes'
        /\ Fetching => Fetching'
    <3>1. Range(bus') = Range(bus) /\ Range(toDev') = Range(toDev) /\ Range(fromDev') = Range(fromDev)
          /\ Range(ctq') = Range(ctq) /\ reroute' = reroute
      BY <1>1, <2>2
    <3>2. \A p : Going(p) => Going(p)'
      BY <3>1 DEF Going
    <3>3. \A b, f : Marking(b, f)' <=> Marking(b, f)
      BY <3>1 DEF Marking
    <3>4. NameComes => NameComes'
      BY <3>1 DEF NameComes
    <3>5. Fetching => Fetching'
      BY <3>1 DEF Fetching
    <3> QED BY <3>2, <3>3, <3>4, <3>5
  <2>6. UnmarkInv' /\ StateInv'
    BY <1>1, <2>5, KeepState, KeepUnmark DEF RestInv
  <2> QED BY <2>3, <2>4, <2>6 DEF RestInv, FlightInv
<1>3. CASE ~Calm
  <2>1. /\ OnlyUi /\ uiq' = <<>> /\ bus = <<>> /\ ctq = <<>> /\ app = Idle /\ toDev = <<>> /\ fromDev = <<>>
    BY <1>1, <1>3, Lengths DEF AloneInv, OnlyUi
  <2>2. Range(bus) = {} /\ Range(toDev) = {} /\ Range(fromDev) = {} /\ Range(ctq) = {} /\ app.at = "idle"
    BY <2>1, RangeOfEmpty DEF Idle
  <2>3. /\ \A p : ~Going(p)
        /\ \A b, f : ~Marking(b, f)
        /\ ~NameComes /\ ~Fetching
    BY <2>2 DEF Going, Marking, NameComes, Fetching
  <2>4. reroute[EditBuffer] = NoRoute
    BY <1>1, <2>2 DEF CopyInv, RestInv, FlightInv
  <2>5. CASE bus' = bus
    <3>1. AloneInv'
      BY <1>1, <2>1, <2>2, <2>5 DEF AloneInv, Calm
    <3>2. SwitchInv' /\ CopyInv' /\ CarryInv' /\ EditMarksInv'
      BY <1>1, <2>1, <2>2, <2>4, <2>5
      DEF SwitchInv, CopyInv, CarryInv, EditMarksInv, Calm, RestInv, FlightInv
    <3>3. UnmarkInv' /\ StateInv'
      <4>1. \A b, f : ~Marking(b, f)'
        BY <2>2, <2>5 DEF Marking
      <4> QED BY <1>1, <2>3, <4>1, KeepState, KeepUnmark DEF RestInv
    <3> QED BY <3>1, <3>2, <3>3 DEF RestInv, FlightInv
  <2>6. CASE bus' # bus
    <3>1. PICK e : /\ bus' = Append(bus, e) /\ e \in Events
                   /\ e.type \in {"load", "store", "pc"} /\ (e.type = "pc" => prog # Hidden)
      <4>1. CASE Head(uiq) \in Buttons
        <5>1. PICK k \in Buffers : \/ ButtonEvent[Head(uiq)] = LoadEvent(k, "UI")
                                  \/ ButtonEvent[Head(uiq)] = StoreEvent(k, "UI")
          BY <4>1, BufferSets DEF Buttons, ButtonEvent, Buffers
        <5>2. /\ ButtonEvent[Head(uiq)] \in Events
              /\ ButtonEvent[Head(uiq)].type \in {"load", "store"}
          <6>1. /\ LoadEvent(k, "UI") \in Events /\ StoreEvent(k, "UI") \in Events
                /\ LoadEvent(k, "UI").type = "load" /\ StoreEvent(k, "UI").type = "store"
            BY EventsTyped DEF LoadEvent, StoreEvent, Origins
          <6> QED BY <5>1, <6>1
        <5> QED BY <4>1, <5>2 DEF UiSignal
      <4>2. CASE Head(uiq) \notin Buttons
        <5>1. prog # Hidden /\ progOrigin # "NONE" /\ bus' = Append(bus, PcEvent(prog, progOrigin))
          BY <2>6, <4>2 DEF UiSignal
        <5>2. PcEvent(prog, progOrigin) \in Events
          BY <1>1, <5>1, EventsTyped DEF TypeOK
        <5> QED BY <5>1, <5>2 DEF PcEvent
      <4> QED BY <4>1, <4>2
    <3>2. Range(bus') = {e} /\ Len(bus') = 1
      <4>1. Range(Append(bus, e)) = Range(bus) \cup {e}
        BY <1>1, <3>1, AddedTo
      <4> QED BY <1>1, <2>1, <2>2, <3>1, <4>1, QueueTypes, Added
    <3>3. OnlyBus'
      BY <1>1, <2>1, <3>2 DEF OnlyBus, Calm
    <3>4. SwitchInv' /\ CopyInv' /\ CarryInv' /\ EditMarksInv'
      BY <1>1, <2>1, <2>2, <2>4, <3>1, <3>2
      DEF SwitchInv, CopyInv, CarryInv, EditMarksInv, RestInv, FlightInv
    <3>5. UnmarkInv' /\ StateInv'
      <4>1. \A b, f : ~Marking(b, f)'
        BY <3>1, <3>2 DEF Marking
      <4> QED BY <1>1, <2>2, <2>3, <4>1, KeepState, KeepUnmark DEF RestInv
    <3> QED BY <3>3, <3>4, <3>5, Solo DEF RestInv, FlightInv
  <2> QED BY <2>5, <2>6
<1> QED BY <1>2, <1>3

LEMMA CtlSignalKeeps ==
    ASSUME AnyTime, RestInv, CtlSignal
    PROVE  RestInv'
<1>1. /\ ctq # <<>> /\ ctq' = Tail(ctq) /\ bus' = Append(bus, CcEvent(Head(ctq))) /\ TypeOK /\ AloneInv
      /\ UNCHANGED <<uiq, prog, prev, raw, edited, data, names, modified, shown, devProgs, app, toDev,
                     fromDev, reroute>>
  BY DEF CtlSignal, uiVars, dumpVars, devVars, AnyTime, RestInv
<1>2. PICK s \in Signals : s = Head(ctq)
  BY <1>1, TakenFrom
<1>3. PICK e \in Events : e = CcEvent(s)
  BY EventsTyped
<1>4. Range(ctq) = {s} \cup Range(ctq') /\ Range(bus') = Range(bus) \cup {e}
  <2>1. Range(ctq) = {s} \cup Range(Tail(ctq))
    BY <1>1, <1>2, TakenFrom
  <2>2. Range(Append(bus, e)) = Range(bus) \cup {e}
    BY <1>1, AddedTo
  <2> QED BY <1>1, <1>2, <1>3, <2>1, <2>2
<1>5. e.type = "cc" /\ e.sig = s
  BY <1>3 DEF CcEvent
<1>6. ~Led
  BY <1>1, Trailing
<1>7. AloneInv'
  <2>1. Calm' /\ app'.at # "reload" /\ ~Leads(e)'
    BY <1>1, <1>5, <1>6 DEF Calm, Led, Leads
  <2> QED BY <1>1, <1>4, <1>6, <2>1, StillUnled
<1>8. FlightInv'
  <2>1. /\ reroute[EditBuffer] = NoRoute
        /\ \A p \in Programs : reroute[p] \in {NoRoute, EditBuffer}
    BY <1>6, NoRoutesUnled, BufferSets DEF AnyTime, RestInv, FlightInv
  <2>2. Harmless(e)
    BY <1>5 DEF Harmless
  <2> QED BY <1>1, <1>4, <2>1, <2>2, KeepFlight DEF RestInv
<1>9. \A p : Going(p) => Going(p)'
  BY <1>1, <1>4 DEF Going
<1>10. \A b, f : Marking(b, f)' <=> Marking(b, f)
  BY <1>4, <1>5 DEF Marking
<1>11. NameComes => NameComes'
  BY <1>4, <1>5 DEF NameComes
<1>12. Fetching => Fetching'
  BY <1>1, <1>4 DEF Fetching
<1>13. UnmarkInv' /\ StateInv'
  BY <1>1, <1>9, <1>10, <1>11, <1>12, KeepState, KeepUnmark DEF RestInv
<1> QED BY <1>7, <1>8, <1>13 DEF RestInv

LEMMA MidiInKeeps ==
    ASSUME AnyTime, RestInv, MidiIn
    PROVE  RestInv'
<1>1. /\ fromDev # <<>> /\ fromDev' = Tail(fromDev) /\ bus' = Append(bus, MsgIn(Head(fromDev)))
      /\ TypeOK /\ AloneInv
      /\ UNCHANGED <<uiq, prog, prev, raw, edited, data, names, modified, shown, devProgs, app, toDev,
                     ctq, reroute>>
  BY DEF MidiIn, uiVars, editVars, dumpVars, AnyTime, RestInv
<1>2. PICK m \in Msgs : m = Head(fromDev)
  BY <1>1, TakenFrom
<1>3. PICK e \in Events : e = MsgIn(m)
  BY EventsTyped
<1>4. Range(fromDev) = {m} \cup Range(fromDev') /\ Range(bus') = Range(bus) \cup {e}
  <2>1. Range(fromDev) = {m} \cup Range(Tail(fromDev))
    BY <1>1, <1>2, TakenFrom
  <2>2. Range(Append(bus, e)) = Range(bus) \cup {e}
    BY <1>1, AddedTo
  <2> QED BY <1>1, <1>2, <1>3, <2>1, <2>2
<1>5. e.type = "in" /\ e.msg = m
  BY <1>3 DEF MsgIn
<1>6. /\ LeadsIn(m) => OnlyFromDev
      /\ ~LeadsIn(m) => ~Led
  BY <1>1, <1>2, Leading, Trailing
<1>7. Carries(m, devProgs) /\ (m.cmd = "pc" => uiq = <<>>)
  BY <1>4 DEF RestInv, FlightInv, CarryInv, SwitchInv
<1>8. AloneInv'
  <2>1. CASE LeadsIn(m)
    <3>1. /\ bus = <<>> /\ Calm /\ ctq = <<>> /\ app = Idle /\ toDev = <<>> /\ Tail(fromDev) = <<>>
      BY <1>1, <1>6, <2>1, Lengths DEF OnlyFromDev
    <3>2. Len(Append(bus, e)) = 1
      BY <1>1, <3>1, QueueTypes, Added
    <3>3. OnlyBus'
      BY <1>1, <1>2, <1>3, <3>1, <3>2 DEF OnlyBus, Calm
    <3> QED BY <3>3, Solo
  <2>2. CASE ~LeadsIn(m)
    <3>1. Calm' /\ app'.at # "reload"
      BY <1>1, <1>6, <2>2 DEF Calm, Led
    <3>2. ~Leads(e)'
      BY <1>5, <2>2 DEF Leads
    <3> QED BY <1>1, <1>4, <1>6, <2>2, <3>1, <3>2, StillUnled
  <2> QED BY <2>1, <2>2
<1>9. FlightInv'
  <2>1. SwitchInv'
    BY <1>1, <1>4, <1>5, <1>7 DEF RestInv, FlightInv, SwitchInv, Calm
  <2>2. CopyInv'
    BY <1>1, <1>4, <1>5 DEF RestInv, FlightInv, CopyInv
  <2>3. CarryInv' /\ EditMarksInv'
    BY <1>1, <1>4, <1>5, <1>7 DEF RestInv, FlightInv, CarryInv, EditMarksInv
  <2> QED BY <2>1, <2>2, <2>3 DEF FlightInv
<1>10. \A p : Going(p) => Going(p)'
  BY <1>1, <1>4 DEF Going
<1>11. \A b, f : Marking(b, f)' <=> Marking(b, f)
  BY <1>4, <1>5 DEF Marking
<1>12. NameComes => NameComes'
  BY <1>1, <1>4 DEF NameComes
<1>13. Fetching => Fetching'
  BY <1>1, <1>4, <1>5 DEF Fetching
<1>14. UnmarkInv' /\ StateInv'
  BY <1>1, <1>10, <1>11, <1>12, <1>13, KeepState, KeepUnmark DEF RestInv
<1> QED BY <1>8, <1>9, <1>14 DEF RestInv

\* The device stores a program.
LEMMA StoreKeepsState ==
    ASSUME StateInv, UnmarkInv, app.at # "reload",
           UNCHANGED <<prog, prev, raw, edited, data, names, modified, shown, app>>,
           \A p \in Programs : devProgs'[p] = devProgs[p] \/ devProgs'[p] = data[p],
           \A p \in Programs : Going(p) => Going(p)' \/ devProgs'[p] = data[p],
           \A b, f : Marking(b, f)' <=> Marking(b, f),
           NameComes => NameComes', Fetching => Fetching'
    PROVE  UnmarkInv' /\ StateInv'
<1>1. InEdit' = InEdit
  BY DEF InEdit
<1>2. UnmarkInv'
  BY DEF UnmarkInv
<1>3. MarkedInv'
  BY DEF StateInv, MarkedInv
<1>4. EditInv'
  BY <1>1 DEF StateInv, EditInv, numbered
<1>5. ReloadInv'
  BY DEF StateInv, ReloadInv
<1>6. NamesInv'
  <2>1. \A p \in Programs : names[p] = (IF p = InEdit THEN raw ELSE data[p]).name
                            \/ (p = InEdit /\ NameComes)
    BY DEF StateInv, NamesInv, NameComes
  <2>2. \A p \in Programs : names'[p] = (IF p = InEdit' THEN raw' ELSE data'[p]).name
                            \/ (p = InEdit' /\ NameComes')
    BY <1>1, <2>1
  <2> QED BY <2>2 DEF NamesInv, NameComes
<1>7. ShownInv' /\ ShowInv'
  <2>1. ShowInv'
    BY DEF StateInv, ShowInv
  <2>2. \A p \in Programs : \/ shown[p] = modified[p]
                            \/ app.at = "show" /\ p = prog /\ modified[p] = app.flag
                            \/ Marking(p, TRUE) /\ modified[p]
    BY DEF StateInv, ShownInv
  <2>3. \A p \in Programs : Marking(p, TRUE)' <=> Marking(p, TRUE)
    OBVIOUS
  <2>4. /\ shown' = shown /\ modified' = modified /\ app' = app /\ prog' = prog
    OBVIOUS
  <2>5. \A p \in Programs : \/ shown'[p] = modified'[p]
                            \/ app'.at = "show" /\ p = prog' /\ modified'[p] = app'.flag
                            \/ Marking(p, TRUE)' /\ modified'[p]
    BY <2>2, <2>3, <2>4, Zenon
  <2> QED BY <2>1, <2>5 DEF ShownInv
<1> QED BY <1>2, <1>3, <1>4, <1>5, <1>6, <1>7 DEF StateInv

LEMMA DevReceiveKeeps ==
    ASSUME AnyTime, RestInv, DevReceive
    PROVE  RestInv'
<1>1. /\ toDev # <<>> /\ toDev' = Tail(toDev) /\ TypeOK /\ AloneInv
      /\ UNCHANGED <<uiq, prog, prev, raw, edited, data, names, modified, shown, app, bus, ctq, reroute>>
  BY DEF DevReceive, uiVars, editVars, dumpVars, AnyTime, RestInv
<1>2. PICK m \in Msgs : m = Head(toDev)
  BY <1>1, TakenFrom
<1>3. Range(toDev) = {m} \cup Range(toDev')
  BY <1>1, <1>2, TakenFrom
<1>4. /\ LeadsOut(m) => OnlyToDev
      /\ ~LeadsOut(m) => ~Led
      /\ Carries(m, data)
  BY <1>1, <1>2, <1>3, Leading, Trailing DEF RestInv, FlightInv, CarryInv
<1>5. \A b, f : Marking(b, f)' <=> Marking(b, f)
  BY <1>1 DEF Marking
<1>6. NameComes => NameComes'
  BY <1>1 DEF NameComes
<1>7. CASE m.cmd = "request"
  <2>1. PICK r \in Msgs : /\ fromDev' = Append(fromDev, r) /\ devProgs' = devProgs
                          /\ r.cmd = "dump" /\ r.buffer = m.buffer
                          /\ Carries(r, devProgs)
    <3> DEFINE d == IF m.buffer = EditBuffer THEN devEdit
                    ELSE IF m.buffer = All THEN devProgs ELSE devProgs[m.buffer]
               r == DumpMsg(m.buffer, d)
    <3>1. fromDev' = Append(fromDev, r) /\ devProgs' = devProgs
      BY <1>2, <1>7 DEF DevReceive
    <3>2. m.buffer \in Dumpable
      BY <1>7, MsgKinds
    <3>3. r \in Msgs
      BY <1>1, <3>2, MsgsTyped, BufferSets DEF TypeOK, Dump
    <3>4. r.cmd = "dump" /\ r.buffer = m.buffer /\ Carries(r, devProgs)
      BY BufferSets DEF DumpMsg, Carries, Has
    <3> QED BY <3>1, <3>3, <3>4
  <2>2. Range(fromDev') = Range(fromDev) \cup {r}
    <3>1. Range(Append(fromDev, r)) = Range(fromDev) \cup {r}
      BY <1>1, AddedTo
    <3> QED BY <2>1, <3>1
  <2>3. AloneInv'
    <3>1. CASE LeadsOut(m)
      <4>1. bus = <<>> /\ Calm /\ ctq = <<>> /\ app = Idle /\ Tail(toDev) = <<>> /\ fromDev = <<>>
        BY <1>1, <1>4, <3>1, Lengths DEF OnlyToDev
      <4>2. Len(Append(fromDev, r)) = 1
        BY <1>1, <4>1, QueueTypes, Added
      <4>3. OnlyFromDev'
        BY <1>1, <2>1, <4>1, <4>2 DEF OnlyFromDev, Calm
      <4> QED BY <4>3, Solo
    <3>2. CASE ~LeadsOut(m)
      <4>1. Calm' /\ app'.at # "reload"
        BY <1>1, <1>4, <3>2 DEF Calm, Led
      <4>2. ~LeadsIn(r)
        BY <1>7, <2>1, <3>2 DEF LeadsIn, LeadsOut
      <4> QED BY <1>1, <1>3, <1>4, <2>2, <3>2, <4>1, <4>2, StillUnled
    <3> QED BY <3>1, <3>2
  <2>4. FlightInv'
    <3>1. SwitchInv'
      BY <1>1, <2>1, <2>2 DEF RestInv, FlightInv, SwitchInv, Calm
    <3>2. CopyInv'
      BY <1>1 DEF RestInv, FlightInv, CopyInv
    <3>3. CarryInv' /\ EditMarksInv'
      BY <1>1, <1>3, <2>1, <2>2 DEF RestInv, FlightInv, CarryInv, EditMarksInv
    <3> QED BY <3>1, <3>2, <3>3 DEF FlightInv
  <2>5. \A p : Going(p) => Going(p)'
    BY <1>1, <1>3, <1>7 DEF Going, Delivers
  <2>6. Fetching => Fetching'
    BY <1>1, <1>3, <2>1, <2>2 DEF Fetching
  <2>7. UnmarkInv' /\ StateInv'
    BY <1>1, <1>5, <1>6, <2>1, <2>5, <2>6, KeepState, KeepUnmark DEF RestInv
  <2> QED BY <2>3, <2>4, <2>7 DEF RestInv
<1>8. CASE m.cmd # "request"
  <2>1. ~LeadsOut(m) /\ ~Led /\ fromDev' = fromDev
    BY <1>2, <1>4, <1>8 DEF LeadsOut, DevReceive
  <2>2. AloneInv'
    <3>1. Calm' /\ app'.at # "reload"
      BY <1>1, <2>1 DEF Calm, Led
    <3> QED BY <1>1, <1>3, <2>1, <3>1, StillUnled
  <2>3. /\ \A p \in Programs : devProgs'[p] = devProgs[p] \/ devProgs'[p] = data[p]
        /\ \A p \in Programs : Delivers(m, p) => devProgs'[p] = data[p]
    <3>1. CASE m.cmd = "dump" /\ m.buffer = All
      <4>1. devProgs' = data
        BY <1>2, <1>4, <3>1, BufferSets DEF DevReceive, Carries, Has
      <4> QED BY <4>1
    <3>2. CASE m.cmd = "dump" /\ m.buffer # All /\ m.buffer # EditBuffer
      <4>1. devProgs' = [devProgs EXCEPT ![m.buffer] = data[m.buffer]]
        BY <1>2, <1>4, <3>2 DEF DevReceive, Carries, Has
      <4>2. devProgs \in [Programs -> Patch] /\ m.buffer \in Programs
        <5>1. m.buffer \in Dumpable
          BY <3>2, MsgKinds
        <5> QED BY <1>1, <3>2, <5>1, BufferSets DEF TypeOK, Dump
      <4> QED BY <3>2, <4>1, <4>2 DEF Delivers
    <3>3. CASE m.cmd # "dump" \/ m.buffer = EditBuffer
      <4>1. devProgs' = devProgs
        BY <1>2, <3>3, BufferSets DEF DevReceive
      <4>2. \A p \in Programs : ~Delivers(m, p)
        BY <3>3, PodCoreAssumption DEF Delivers
      <4> QED BY <4>1, <4>2
    <3> QED BY <3>1, <3>2, <3>3
  <2>4. \A p \in Programs : Going(p) => Going(p)' \/ devProgs'[p] = data[p]
    BY <1>1, <1>3, <2>3 DEF Going
  <2>5. Fetching => Fetching'
    BY <1>1, <1>3, <1>8, <2>1 DEF Fetching
  <2>6. UnmarkInv' /\ StateInv'
    <3>1. app.at # "reload"
      BY <2>1 DEF Led
    <3> QED BY <1>1, <1>5, <1>6, <2>3, <2>4, <2>5, <3>1, StoreKeepsState DEF RestInv
  <2>7. SwitchInv' /\ CopyInv' /\ EditMarksInv'
    BY <1>1, <2>1 DEF RestInv, FlightInv, SwitchInv, CopyInv, EditMarksInv, Calm
  <2>8. CarryInv'
    <3>1. /\ \A e \in Range(bus) : ~Leads(e)
          /\ \A x \in Range(fromDev) : ~LeadsIn(x)
      BY <2>1 DEF Led
    <3>2. \A e \in Range(bus) : e.type = "data" /\ e.buffer # EditBuffer => e.origin # "MIDI"
      BY <3>1 DEF Leads
    <3>3. \A e \in Range(bus) : e.type = "in" => ~LeadsIn(e.msg)
      BY <3>1 DEF Leads
    <3>4. \A x : ~LeadsIn(x) => Carries(x, devProgs)'
      BY DEF LeadsIn, Carries
    <3>5. \A e \in Range(bus) : e.type = "data" => e.origin \in {"UI", "MIDI"}
      BY <1>1, QueueTypes, Members, EventKinds DEF Origins
    <3>6. CarryInv
      BY DEF RestInv, FlightInv
    <3> QED BY <1>1, <1>3, <2>1, <3>1, <3>2, <3>3, <3>5, <3>6 DEF CarryInv, Carries, LeadsIn
  <2> QED BY <2>2, <2>6, <2>7, <2>8 DEF RestInv, FlightInv
<1> QED BY <1>7, <1>8

-----------------------------------------------------------------------------
(* A step of the application task.                                         *)

\* The program in the edit buffer is the one selected, unless a change is on
\* its way.
LEMMA CaughtUp ==
    ASSUME AnyTime, SwitchInv, Calm, app.at # "synced", \A e \in Range(bus) : e.type # "pc"
    PROVE  /\ prev = prog \/ (prog = Hidden /\ prev = Manual)
           /\ \A p \in Programs : prev = p <=> prog = p
           /\ numbered(prev) <=> numbered(prog)
           /\ InEdit = prev
<1>1. prog # Hidden => "program" \notin Range(uiq)
  BY RangeOfEmpty DEF Calm
<1>2. prev = prog \/ (prog = Hidden /\ prev = Manual)
  BY <1>1 DEF AnyTime, SilentIsHidden, PreviousCatchesUp, SwitchInv
<1> QED BY <1>2, PodCoreAssumption DEF InEdit, numbered

\* What is left on the bus when an event is answered.
LEMMA Answer ==
    ASSUME TypeOK, AloneInv, app = Idle, bus # <<>>, NEW evs \in Seq(Events), Reply(evs)
    PROVE  /\ Head(bus) \in Events /\ Head(bus) \in Range(bus)
           /\ Range(bus) = {Head(bus)} \cup Range(Tail(bus))
           /\ Range(bus') = Range(Tail(bus)) \cup Range(evs)
           /\ Leads(Head(bus)) => /\ OnlyBus /\ Range(Tail(bus)) = {} /\ Tail(bus) = <<>>
                                  /\ toDev = <<>> /\ fromDev = <<>> /\ ctq = <<>> /\ Calm
                                  /\ Range(toDev) = {} /\ Range(fromDev) = {} /\ Range(ctq) = {}
                                  /\ Range(bus) = {Head(bus)} /\ Range(bus') = Range(evs)
           /\ ~Leads(Head(bus)) => ~Led
           /\ app.at = "idle" /\ Calm
<1>1. /\ Head(bus) \in Events /\ Head(bus) \in Range(bus)
      /\ Range(bus) = {Head(bus)} \cup Range(Tail(bus))
  BY TakenFrom
<1>2. Range(bus') = Range(Tail(bus)) \cup Range(evs)
  BY QueueTypes, BusAfter
<1>3. Leads(Head(bus)) => /\ OnlyBus /\ Range(Tail(bus)) = {} /\ Tail(bus) = <<>>
                          /\ toDev = <<>> /\ fromDev = <<>> /\ ctq = <<>> /\ Calm
                          /\ Range(toDev) = {} /\ Range(fromDev) = {} /\ Range(ctq) = {}
  BY Leading, Lengths, RangeOfEmpty DEF OnlyBus
<1>4. ~Leads(Head(bus)) => ~Led
  BY Trailing
<1>5. app.at = "idle" /\ Calm
  BY <1>3, <1>4 DEF Idle, Led
<1> QED BY <1>1, <1>2, <1>3, <1>4, <1>5

\* The answer leads to nothing ...
LEMMA AnswerRests ==
    ASSUME TypeOK, AloneInv, app = Idle, bus # <<>>, NEW evs \in Seq(Events), Reply(evs),
           Calm', app'.at # "reload", UNCHANGED <<toDev, fromDev>>,
           \A b \in Dumpable : reroute'[b] = reroute[b] \/ reroute'[b] = NoRoute,
           \A x \in Range(evs) : ~Leads(x)'
    PROVE  ~Led' /\ AloneInv'
<1>1. CASE ~Leads(Head(bus))
  BY <1>1, Answer, StillUnled
<1>2. CASE Leads(Head(bus))
  <2>1. /\ \A x \in Range(bus') : ~Leads(x)'
        /\ Range(toDev') = {} /\ Range(fromDev') = {}
    BY <1>2, Answer
  <2>2. ~Led'
    BY <2>1 DEF Led
  <2> QED BY <2>2 DEF Led, AloneInv
<1> QED BY <1>1, <1>2

\* ... or is the one that leads.
LEMMA AnswerLeads ==
    ASSUME TypeOK, AloneInv, app = Idle, bus # <<>>, Leads(Head(bus)), NEW x \in Events, Reply(<<x>>),
           UNCHANGED <<uiq, prog, ctq, app, toDev, fromDev>>
    PROVE  OnlyBus' /\ AloneInv'
<1>1. <<x>> \in Seq(Events)
  BY Tuples
<1>2. /\ Tail(bus) = <<>> /\ toDev = <<>> /\ fromDev = <<>> /\ ctq = <<>> /\ Calm
  BY <1>1, Answer
<1>3. <<>> \o <<x>> = <<x>> /\ Len(<<x>>) = 1
  BY <1>1
<1>4. OnlyBus'
  BY <1>2, <1>3 DEF Reply, OnlyBus, Calm
<1> QED BY <1>4, Solo

\* What is on its way stays so when an event that is no part of it is taken.
LEMMA AnswerKeeps ==
    ASSUME TypeOK, bus # <<>>, NEW evs \in Seq(Events), Reply(evs),
           Range(toDev) \subseteq Range(toDev')
    PROVE  /\ /\ Head(bus).type \notin {"data", "out"}
              /\ \A b \in Dumpable : reroute[b] = NoRoute => reroute'[b] = NoRoute
              => \A p \in Programs : Going(p) => Going(p)'
           /\ Head(bus).type # "modified" => \A b, f : Marking(b, f) => Marking(b, f)'
           /\ (\A x \in Range(evs) : x.type # "modified") =>
                  \A b, f : Marking(b, f)' => Marking(b, f)
           /\ Head(bus).type # "cc" /\ Range(ctq) \subseteq Range(ctq') => (NameComes => NameComes')
           /\ /\ Head(bus).type \in {"cc", "copy", "pc", "store", "modified"}
              /\ fromDev' = fromDev
              => (Fetching => Fetching')
<1>1. /\ Range(bus) = {Head(bus)} \cup Range(Tail(bus))
      /\ Range(bus') = Range(Tail(bus)) \cup Range(evs)
  BY TakenFrom, QueueTypes, BusAfter
<1>2. /\ Head(bus).type \notin {"data", "out"}
      /\ \A b \in Dumpable : reroute[b] = NoRoute => reroute'[b] = NoRoute
      => \A p \in Programs : Going(p) => Going(p)'
  BY <1>1, BufferSets DEF Going
<1>3. Head(bus).type # "modified" => \A b, f : Marking(b, f) => Marking(b, f)'
  BY <1>1 DEF Marking
<1>4. (\A x \in Range(evs) : x.type # "modified") => \A b, f : Marking(b, f)' => Marking(b, f)
  BY <1>1 DEF Marking
<1>5. Head(bus).type # "cc" /\ Range(ctq) \subseteq Range(ctq') => (NameComes => NameComes')
  BY <1>1 DEF NameComes
<1>6. /\ Head(bus).type \in {"cc", "copy", "pc", "store", "modified"}
      /\ fromDev' = fromDev
      => (Fetching => Fetching')
  BY <1>1 DEF Fetching
<1> QED BY <1>2, <1>3, <1>4, <1>5, <1>6

\* The route of a copy is awaited by the event that is taken.
LEMMA RouteLeads ==
    ASSUME AnyTime, AloneInv, CopyInv, app = Idle, bus # <<>>, NEW b \in Dumpable, reroute[b] # NoRoute
    PROVE  /\ Produces(Head(bus), b) /\ Leads(Head(bus)) /\ OnlyBus
           /\ b = EditBuffer => /\ reroute[b] \in Programs
                                /\ Head(bus).type = "data" => Head(bus).content = raw
           /\ b # EditBuffer => b \in Programs /\ reroute[b] = EditBuffer
<1>1. b # All /\ (b = EditBuffer \/ b \in Programs)
  BY BufferSets DEF AnyTime, TypeOK
<1>2. CASE b = EditBuffer
  <2>1. /\ OnlyBus /\ Leads(Head(bus)) /\ Head(bus).type \in {"store", "data"}
        /\ Head(bus).buffer = EditBuffer
        /\ Head(bus).type = "data" => Head(bus).content = raw
    BY <1>2, EditRoute DEF AnyTime
  <2>2. Range(bus) = {Head(bus)} /\ Range(toDev) = {} /\ Range(fromDev) = {}
    BY <2>1, Lengths, RangeOfEmpty DEF AnyTime, OnlyBus
  <2>3. Produces(Head(bus), b)
    <3>1. Awaited(b)
      BY DEF AnyTime, RouteIsAwaited
    <3> QED BY <2>2, <3>1 DEF Awaited
  <2> QED BY <1>1, <1>2, <2>1, <2>3 DEF CopyInv
<1>3. CASE b \in Programs
  <2>1. /\ reroute[b] = EditBuffer /\ b # EditBuffer
        /\ \/ OnlyBus /\ Produces(Head(bus), b)
           \/ OnlyToDev \/ OnlyFromDev
    BY <1>3, ProgramRoute DEF AnyTime
  <2>2. OnlyBus /\ Produces(Head(bus), b)
    BY <2>1 DEF OnlyToDev, OnlyFromDev
  <2>3. Leads(Head(bus))
    BY <1>1, <2>1, <2>2 DEF Produces, Leads, LeadsIn, LeadsOut
  <2> QED BY <1>3, <2>1, <2>2, <2>3
<1> QED BY <1>1, <1>2, <1>3

\* The edit buffer is changed, and will be marked.
LEMMA EditMarked ==
    ASSUME StateInv, app.at = "idle",
           UNCHANGED <<prev, prog, edited, data, modified, shown, devProgs, app>>,
           \A p \in Programs : Going(p) => Going(p)',
           \A b, f : Marking(b, f) => Marking(b, f)', Fetching => Fetching',
           Marking(EditBuffer, TRUE)' \/ Marking(Current, TRUE)', NamesInv'
    PROVE  StateInv'
<1>1. MarkedInv' /\ EditInv'
  BY DEF StateInv, MarkedInv, EditInv
<1>2. ReloadInv' /\ ShowInv'
  BY DEF ReloadInv, ShowInv
<1>3. ShownInv'
  <2>1. \A p \in Programs : shown[p] = modified[p] \/ (Marking(p, TRUE) /\ modified[p])
    BY DEF StateInv, ShownInv
  <2>2. shown' = shown /\ modified' = modified /\ \A p \in Programs : Marking(p, TRUE) => Marking(p, TRUE)'
    OBVIOUS
  <2>3. \A p \in Programs : shown'[p] = modified'[p] \/ (Marking(p, TRUE)' /\ modified'[p])
    BY <2>1, <2>2, Zenon
  <2> QED BY <2>3 DEF ShownInv
<1> QED BY <1>1, <1>2, <1>3 DEF StateInv

LEMMA HandleControlKeeps ==
    ASSUME AnyTime, RestInv, HandleControl
    PROVE  RestInv'
<1>1. /\ TypeOK /\ AloneInv /\ app = Idle /\ app.at = "idle" /\ bus # <<>>
      /\ Head(bus).type = "cc" /\ Head(bus).sig.key = "control"
      /\ UNCHANGED <<uiq, prog, prev, ctq, edited, data, names, modified, shown, devProgs, app, toDev,
                     fromDev, reroute>>
  BY DEF HandleControl, Taking, Idle, uiVars, dumpVars, devVars, AnyTime, RestInv
<1>2. ~Led
  BY <1>1, Trailing DEF Leads
<1>3. PICK evs \in Seq(Events) :
          /\ Reply(evs)
          /\ \A x \in Range(evs) : \/ x.type = "out" /\ x.msg.cmd = "cc"
                                   \/ x.type = "modified" /\ x.buffer = Current /\ x.flag = TRUE
          /\ \/ raw' = raw /\ Range(evs) = {}
             \/ raw'.name = raw.name /\ ModEvent(Current, TRUE) \in Range(evs)
  <2>1. CASE Head(bus).sig.origin = "NONE"
    BY <1>1, <2>1, Tuples, RangeOfEmpty DEF HandleControl
  <2>2. CASE Head(bus).sig.origin # "NONE"
    <3> DEFINE s == Head(bus).sig
               m == ModEvent(Current, TRUE)
    <3>1. s.val \in Vals
      BY <1>1, TakingTyped, EventKinds, SignalsTyped DEF HandleControl, Taking
    <3>2. SendCc(s) \in Seq(Events) /\ <<m>> \in Seq(Events)
      BY <3>1, BufferSets, MsgsTyped, EventsTyped, Tuples DEF SendCc
    <3>3. Range(SendCc(s)) = {} \/ Range(SendCc(s)) = {MsgOut(CcMsg(s.val))}
      BY RangeOfEmpty, RangeOfTuple DEF SendCc
    <3>4. Range(SendCc(s) \o <<m>>) = Range(SendCc(s)) \cup {m} /\ SendCc(s) \o <<m>> \in Seq(Events)
      <4>1. Range(SendCc(s) \o <<m>>) = Range(SendCc(s)) \cup Range(<<m>>)
        BY <3>2, RangeConcatenation
      <4>2. Range(<<m>>) = {m}
        BY RangeOfTuple
      <4> QED BY <3>2, <4>1, <4>2, Tuples
    <3>5. /\ MsgOut(CcMsg(s.val)).type = "out" /\ MsgOut(CcMsg(s.val)).msg.cmd = "cc"
          /\ m.type = "modified" /\ m.buffer = Current /\ m.flag = TRUE
      BY DEF MsgOut, CcMsg, ModEvent
    <3>6. raw' = [raw EXCEPT !.val = BufferValue(s)] /\ Reply(SendCc(s) \o <<m>>)
      BY <2>2 DEF HandleControl
    <3>7. raw'.name = raw.name
      BY <1>1, <3>6 DEF TypeOK, Patch
    <3> HIDE DEF m, s
    <3>8. \A x \in Range(SendCc(s) \o <<m>>) :
                \/ x.type = "out" /\ x.msg.cmd = "cc"
                \/ x.type = "modified" /\ x.buffer = Current /\ x.flag = TRUE
      BY <3>3, <3>4, <3>5
    <3> QED BY <3>4, <3>6, <3>7, <3>8 DEF m
  <2> QED BY <2>1, <2>2
<1>4. AloneInv'
  <2>1. Calm' /\ app'.at # "reload"
    BY <1>1, <1>2 DEF Calm, Led
  <2>2. \A x \in Range(evs) : ~Leads(x)'
    BY <1>3 DEF Leads, LeadsOut
  <2> QED BY <1>1, <1>3, <2>1, <2>2, AnswerRests
<1>5. /\ Range(bus') = Range(Tail(bus)) \cup Range(evs)
      /\ Range(bus) = {Head(bus)} \cup Range(Tail(bus))
  BY <1>1, <1>3, Answer
<1>6. FlightInv'
  <2>1. /\ reroute[EditBuffer] = NoRoute
        /\ \A p \in Programs : reroute[p] \in {NoRoute, EditBuffer}
    BY <1>2, NoRoutesUnled, BufferSets DEF AnyTime, RestInv, FlightInv
  <2>2. \A x \in Range(evs) : Harmless(x)
    BY <1>3 DEF Harmless, Carries
  <2> QED BY <1>1, <1>5, <2>1, <2>2, KeepFlight DEF RestInv
<1>7. /\ \A p \in Programs : Going(p) => Going(p)'
      /\ \A b, f : Marking(b, f) => Marking(b, f)'
      /\ Fetching => Fetching'
  BY <1>1, <1>3, AnswerKeeps
<1>8. UnmarkInv'
  <2>1. \A b \in Programs \cup {All} : Marking(b, FALSE)' => Marking(b, FALSE)
    BY <1>3, <1>5 DEF Marking
  <2> QED BY <1>1, <1>7, <2>1, KeepUnmark DEF RestInv
<1>9. NameComes => NameComes'
  BY <1>1, <1>5 DEF NameComes
<1>10. StateInv'
  <2>1. CASE raw' = raw
    BY <1>1, <1>7, <1>9, <2>1, KeepState DEF RestInv
  <2>2. CASE raw'.name = raw.name /\ ModEvent(Current, TRUE) \in Range(evs)
    <3>1. Marking(Current, TRUE)'
      BY <1>5, <2>2 DEF Marking, ModEvent
    <3>2. NamesInv'
      <4>1. InEdit' = InEdit
        BY <1>1 DEF InEdit
      <4>2. \A p \in Programs : names[p] = (IF p = InEdit THEN raw ELSE data[p]).name
                                \/ (p = InEdit /\ NameComes)
        BY <1>1 DEF RestInv, StateInv, NamesInv, NameComes
      <4>3. \A p \in Programs : names'[p] = (IF p = InEdit' THEN raw' ELSE data'[p]).name
                                \/ (p = InEdit' /\ NameComes')
        BY <1>1, <1>9, <2>2, <4>1, <4>2
      <4> QED BY <4>3 DEF NamesInv, NameComes
    <3> QED BY <1>1, <1>7, <3>1, <3>2, EditMarked DEF RestInv
  <2> QED BY <1>3, <2>1, <2>2
<1> QED BY <1>4, <1>6, <1>8, <1>10 DEF RestInv

LEMMA HandleNameKeeps ==
    ASSUME AnyTime, RestInv, HandleName
    PROVE  RestInv'
<1>1. /\ TypeOK /\ AloneInv /\ app = Idle /\ app.at = "idle" /\ bus # <<>>
      /\ Head(bus).type = "cc"
      /\ UNCHANGED <<uiq, prog, prev, ctq, raw, edited, data, modified, shown, devProgs, app, toDev,
                     fromDev, reroute>>
  BY DEF HandleName, Taking, Idle, uiVars, editVars, devVars, AnyTime, RestInv
<1>2. ~Led
  BY <1>1, Trailing DEF Leads
<1>3. PICK evs \in Seq(Events) :
          /\ Reply(evs)
          /\ \A x \in Range(evs) : x.type = "modified" /\ x.buffer = Current /\ x.flag = TRUE
          /\ \/ names' = names /\ (numbered(prog) => names[prog] = raw.name)
             \/ /\ numbered(prog) /\ names' = [names EXCEPT ![prog] = raw.name]
                /\ \E x \in Range(evs) : x.type = "modified" /\ x.buffer = Current /\ x.flag = TRUE
  <2>1. ModEvent(Current, TRUE) \in Events
    BY BufferSets, EventsTyped
  <2>2. PICK x \in Events : x = ModEvent(Current, TRUE)
    BY <2>1
  <2>3. x.type = "modified" /\ x.buffer = Current /\ x.flag = TRUE
    BY <2>2 DEF ModEvent
  <2>4. CASE numbered(prog) /\ names[prog] # raw.name
    <3>1. /\ Reply(<<x>>) /\ names' = [names EXCEPT ![prog] = raw.name]
          /\ <<x>> \in Seq(Events) /\ Range(<<x>>) = {x}
      BY <2>2, <2>4, Tuples, RangeOfTuple DEF HandleName
    <3> QED BY <2>3, <2>4, <3>1
  <2>5. CASE ~(numbered(prog) /\ names[prog] # raw.name)
    BY <2>5, Tuples, RangeOfEmpty DEF HandleName
  <2> QED BY <2>4, <2>5
<1>4. AloneInv'
  <2>1. Calm' /\ app'.at # "reload"
    BY <1>1, <1>2 DEF Calm, Led
  <2>2. \A x \in Range(evs) : ~Leads(x)'
    BY <1>3 DEF Leads
  <2> QED BY <1>1, <1>3, <2>1, <2>2, AnswerRests
<1>5. /\ Range(bus') = Range(Tail(bus)) \cup Range(evs)
      /\ Range(bus) = {Head(bus)} \cup Range(Tail(bus))
  BY <1>1, <1>3, Answer
<1>6. FlightInv'
  <2>1. /\ reroute[EditBuffer] = NoRoute
        /\ \A p \in Programs : reroute[p] \in {NoRoute, EditBuffer}
    BY <1>2, NoRoutesUnled, BufferSets DEF AnyTime, RestInv, FlightInv
  <2>2. \A x \in Range(evs) : Harmless(x)
    BY <1>3 DEF Harmless
  <2> QED BY <1>1, <1>5, <2>1, <2>2, KeepFlight DEF RestInv
<1>7. /\ \A p \in Programs : Going(p) => Going(p)'
      /\ \A b, f : Marking(b, f) => Marking(b, f)'
      /\ Fetching => Fetching'
  BY <1>1, <1>3, AnswerKeeps
<1>8. UnmarkInv'
  <2>1. \A b \in Programs \cup {All} : Marking(b, FALSE)' => Marking(b, FALSE)
    BY <1>3, <1>5 DEF Marking
  <2> QED BY <1>1, <1>7, <2>1, KeepUnmark DEF RestInv
<1>9. NamesInv'
  <2>1. /\ \A p \in Programs : prev = p <=> prog = p
        /\ InEdit = prev /\ InEdit' = prev
    <3>1. \A e \in Range(bus) : e.type # "pc"
      BY <1>2 DEF Led, Leads
    <3> QED BY <1>1, <1>2, <3>1, CaughtUp DEF RestInv, FlightInv, Led, InEdit
  <2>2. \A p \in Programs : p # prog => names[p] = data[p].name
    BY <1>1, <2>1 DEF RestInv, StateInv, NamesInv
  <2>3. \A p \in Programs : p # prog => names'[p] = names[p]
    BY <1>1, <1>3 DEF TypeOK
  <2>4. \A p \in Programs : p = prog => names'[p] = raw.name
    BY <1>1, <1>3 DEF TypeOK, numbered
  <2> QED BY <1>1, <2>1, <2>2, <2>3, <2>4 DEF NamesInv
<1>10. StateInv'
  <2>1. CASE \E x \in Range(evs) : x.type = "modified" /\ x.buffer = Current /\ x.flag = TRUE
    <3>1. Marking(Current, TRUE)'
      BY <1>5, <2>1 DEF Marking
    <3> QED BY <1>1, <1>7, <1>9, <3>1, EditMarked DEF RestInv
  <2>2. CASE names' = names
    <3>1. MarkedInv' /\ EditInv' /\ ReloadInv' /\ ShowInv'
      BY <1>1, <1>7 DEF RestInv, StateInv, MarkedInv, EditInv, InEdit, ReloadInv, ShowInv
    <3>2. ShownInv'
      <4>1. \A p \in Programs : shown[p] = modified[p] \/ (Marking(p, TRUE) /\ modified[p])
        BY <1>1 DEF RestInv, StateInv, ShownInv
      <4>2. \A p \in Programs : shown'[p] = modified'[p] \/ (Marking(p, TRUE)' /\ modified'[p])
        BY <1>1, <1>7, <4>1, Zenon
      <4> QED BY <4>2 DEF ShownInv
    <3> QED BY <1>9, <3>1, <3>2 DEF StateInv
  <2> QED BY <1>3, <2>1, <2>2
<1> QED BY <1>4, <1>6, <1>8, <1>10 DEF RestInv

\* An event that has to do with neither the marks nor the names is answered.
LEMMA AnswerQuiet ==
    ASSUME AnyTime, RestInv, bus # <<>>, NEW evs \in Seq(Events), Reply(evs),
           UNCHANGED <<prev, raw, edited, data, names, modified, shown, devProgs, app>>,
           app.at \in {"synced", "show"} => prog' = prog,
           Range(toDev) \subseteq Range(toDev'), Range(ctq) \subseteq Range(ctq'),
           Head(bus).type \notin {"modified", "cc"}, \A x \in Range(evs) : x.type # "modified",
           \A p \in Programs : Going(p) => Going(p)', Fetching => Fetching'
    PROVE  UnmarkInv' /\ StateInv'
<1>1. /\ \A b, f : Marking(b, f) <=> Marking(b, f)'
      /\ NameComes => NameComes'
  BY AnswerKeeps DEF AnyTime
<1> QED BY <1>1, KeepState, KeepUnmark DEF RestInv

\* What answers a request to store.
LEMMA StoredKinds ==
    ASSUME TypeOK, NEW b \in Buffers, NEW x \in Range(Stored(b))
    PROVE  /\ x \in Events /\ x.type = "data" /\ x.origin = "UI"
           /\ x.buffer = EditBuffer => x.content = raw
           /\ x.buffer # EditBuffer => Has(data, x.buffer, x.content)
           /\ (x.buffer = b /\ Stored(b) = <<x>>) \/ (b \in {Current, All} /\ x.buffer \in Programs)
<1>1. Range(Stored(b)) \subseteq Events
  BY StoredTyped, Members
<1>2. CASE b = Current
  <2>1. numbered(prog) /\ x = DataEvent(prog, "UI", data[prog])
    BY <1>2, RangeOfTuple, RangeOfEmpty DEF Stored
  <2>2. x.buffer = prog /\ x.content = data[prog] /\ prog # EditBuffer /\ prog # All
    BY <2>1, PodCoreAssumption DEF DataEvent, numbered
  <2> QED BY <1>1, <1>2, <2>1, <2>2 DEF DataEvent, Has, numbered
<1>3. CASE b = All /\ ~AllProgramsDump
  <2>1. Stored(b) = [i \in 1..Len(ProgramSeq) |-> DataEvent(ProgramSeq[i], "UI", data[ProgramSeq[i]])]
    BY <1>3, PodCoreAssumption DEF Stored
  <2>2. PICK i \in 1..Len(ProgramSeq) : x = DataEvent(ProgramSeq[i], "UI", data[ProgramSeq[i]])
    BY <2>1 DEF Range
  <2>3. ProgramSeq[i] \in Programs
    BY PodCoreAssumption
  <2>4. PICK p \in Programs : x = DataEvent(p, "UI", data[p])
    BY <2>2, <2>3
  <2>5. p # EditBuffer /\ p # All
    BY PodCoreAssumption
  <2> QED BY <1>1, <1>3, <2>4, <2>5 DEF DataEvent, Has
<1>4. CASE b # Current /\ ~(b = All /\ ~AllProgramsDump)
  <2> DEFINE d == IF b = EditBuffer THEN raw ELSE IF b = All THEN data ELSE data[b]
  <2>1. Stored(b) = <<DataEvent(b, "UI", d)>>
    BY <1>4, Zenon DEF Stored
  <2>2. x = DataEvent(b, "UI", d)
    BY <2>1, RangeOfTuple
  <2>3. x.type = "data" /\ x.origin = "UI" /\ x.buffer = b /\ x.content = d
    BY <2>2 DEF DataEvent
  <2>4. Stored(b) = <<x>>
    BY <2>1, <2>2
  <2> QED BY <1>1, <2>3, <2>4, BufferSets DEF Has
<1> QED BY <1>2, <1>3, <1>4

\* A store, or a load asked from the device, is answered with data.
LEMMA StoredKeeps ==
    ASSUME AnyTime, RestInv, app = Idle, bus # <<>>, Head(bus).type \in {"load", "store"},
           NEW b \in Buffers, b = Head(bus).buffer, Reply(Stored(b)),
           Head(bus).type = "load" => Head(bus).origin # "UI",
           UNCHANGED <<uiVars, editVars, dumpVars, devVars, app, reroute>>
    PROVE  RestInv'
<1>1. /\ TypeOK /\ AloneInv /\ CopyInv /\ Stored(b) \in Seq(Events) /\ app.at = "idle"
      /\ UNCHANGED <<uiq, prog, prev, ctq, raw, edited, data, names, modified, shown, devProgs, toDev,
                     fromDev>>
  BY StoredTyped DEF Idle, uiVars, editVars, dumpVars, devVars, AnyTime, RestInv, FlightInv
<1>2. ASSUME NEW r \in Dumpable, reroute[r] # NoRoute
      PROVE  /\ r = b /\ Leads(Head(bus)) /\ OnlyBus /\ b # All /\ b # Current
             /\ b = EditBuffer => reroute[b] \in Programs
  <2>1. Produces(Head(bus), r) /\ Leads(Head(bus)) /\ OnlyBus /\ (r = EditBuffer => reroute[r] \in Programs)
    BY <1>1, <1>2, RouteLeads
  <2>2. r = b /\ r # All /\ r # Current
    BY <1>1, <1>2, <2>1, BufferSets DEF Produces, TypeOK, Dumpable
  <2> QED BY <2>1, <2>2
<1>3. /\ Range(bus') = Range(Tail(bus)) \cup Range(Stored(b))
      /\ Range(bus) = {Head(bus)} \cup Range(Tail(bus))
      /\ OnlyBus => Range(Tail(bus)) = {}
      /\ Calm
  BY <1>1, Answer, Lengths, RangeOfEmpty
<1>4. ASSUME NEW x \in Range(Stored(b)), Leads(x)
      PROVE  /\ x \in Events /\ x.type = "data" /\ x.buffer = b /\ Stored(b) = <<x>> /\ b \in Dumpable
             /\ reroute[b] # NoRoute
             /\ b = EditBuffer => x.content = raw
  <2>1. /\ x \in Events /\ x.type = "data" /\ x.origin = "UI"
        /\ (x.buffer = b /\ Stored(b) = <<x>>) \/ (b \in {Current, All} /\ x.buffer \in Programs)
        /\ x.buffer = EditBuffer => x.content = raw
    BY <1>1, StoredKinds
  <2>2. reroute[x.buffer] # NoRoute
    BY <1>4, <2>1 DEF Leads
  <2>3. x.buffer \in Dumpable
    BY <2>1, EventKinds
  <2>4. x.buffer = b /\ b # All /\ b # Current
    BY <1>2, <2>2, <2>3
  <2> QED BY <2>1, <2>2, <2>3, <2>4
<1>5. AloneInv'
  <2>1. CASE \E x \in Range(Stored(b)) : Leads(x)
    <3>1. PICK x \in Range(Stored(b)) : Leads(x)
      BY <2>1
    <3> QED BY <1>1, <1>2, <1>4, <3>1, AnswerLeads
  <2>2. CASE \A x \in Range(Stored(b)) : ~Leads(x)
    <3>1. \A x \in Range(Stored(b)) : ~Leads(x)'
      BY <2>2 DEF Leads
    <3>2. Calm' /\ app'.at # "reload"
      BY <1>1, <1>3 DEF Calm
    <3> QED BY <1>1, <3>1, <3>2, AnswerRests
  <2> QED BY <2>1, <2>2
<1>6. \A x \in Range(Stored(b)) : Harmless(x) /\ x.type = "data"
  BY <1>1, StoredKinds DEF Harmless
<1>7. FlightInv'
  <2>1. CASE reroute[EditBuffer] = NoRoute
    <3>1. \A p \in Programs : reroute[p] \in {NoRoute, EditBuffer}
      BY <1>1 DEF CopyInv
    <3> QED BY <1>1, <1>3, <1>6, <2>1, <3>1, KeepFlight DEF RestInv
  <2>2. CASE reroute[EditBuffer] # NoRoute
    <3>1. b = EditBuffer /\ OnlyBus /\ reroute[EditBuffer] \in Programs
      BY <1>2, <2>2, BufferSets
    <3>2. PICK x : Stored(b) = <<x>> /\ x.type = "data" /\ x.buffer = EditBuffer /\ x.content = raw
      <4> DEFINE x == DataEvent(b, "UI", raw)
      <4>1. Stored(b) = <<x>>
        BY <3>1, PodCoreAssumption DEF Stored
      <4>2. x.type = "data" /\ x.buffer = EditBuffer /\ x.content = raw
        BY <3>1 DEF DataEvent
      <4> QED BY <4>1, <4>2
    <3>3. Range(bus') = {x}
      BY <1>3, <3>1, <3>2, RangeOfTuple
    <3>4. SwitchInv'
      BY <1>1, <3>2, <3>3 DEF RestInv, FlightInv, SwitchInv, Calm
    <3>5. CopyInv'
      BY <1>1, <3>1, <3>2, <3>3 DEF CopyInv
    <3>6. CarryInv' /\ EditMarksInv'
      BY <1>1, <3>2, <3>3 DEF RestInv, FlightInv, CarryInv, EditMarksInv
    <3> QED BY <3>4, <3>5, <3>6 DEF FlightInv
  <2> QED BY <2>1, <2>2
<1>8. UnmarkInv' /\ StateInv'
  <2>1. \A p \in Programs : Going(p) => Going(p)'
    BY <1>1, AnswerKeeps
  <2>2. Fetching => Fetching'
    BY <1>1, <1>3 DEF Fetching
  <2> QED BY <1>1, <1>6, <2>1, <2>2, AnswerQuiet
<1> QED BY <1>5, <1>7, <1>8 DEF RestInv

\* An event is answered by what it leads to.
LEMMA PassOn ==
    ASSUME AnyTime, RestInv, app = Idle, bus # <<>>, NEW evs \in Seq(Events), Reply(evs),
           UNCHANGED <<uiq, prog, prev, data, devProgs, app, toDev, fromDev, reroute>>,
           reroute[EditBuffer] = NoRoute, \A x \in Range(evs) : Harmless(x),
           (\E x \in Range(evs) : Leads(x)) => /\ Leads(Head(bus)) /\ ctq' = ctq
                                               /\ \E x \in Events : evs = <<x>>
    PROVE  AloneInv' /\ FlightInv'
<1>1. /\ TypeOK /\ AloneInv /\ CopyInv /\ app.at = "idle"
  BY DEF Idle, AnyTime, RestInv, FlightInv
<1>2. Range(bus') = Range(Tail(bus)) \cup Range(evs) /\ Range(bus) = {Head(bus)} \cup Range(Tail(bus)) /\ Calm
  BY <1>1, Answer
<1>3. AloneInv'
  <2>1. CASE \E x \in Range(evs) : Leads(x)
    BY <1>1, <2>1, AnswerLeads
  <2>2. CASE \A x \in Range(evs) : ~Leads(x)
    <3>1. \A x \in Range(evs) : ~Leads(x)'
      BY <2>2 DEF Leads
    <3>2. Calm' /\ app'.at # "reload"
      BY <1>1, <1>2 DEF Calm
    <3> QED BY <1>1, <3>1, <3>2, AnswerRests
  <2> QED BY <2>1, <2>2
<1>4. FlightInv'
  <2>1. /\ \A p \in Programs : reroute[p] \in {NoRoute, EditBuffer}
        /\ app'.at # "synced"
    BY <1>1 DEF CopyInv
  <2> QED BY <1>1, <1>2, <2>1, KeepFlight DEF RestInv
<1> QED BY <1>3, <1>4

LEMMA HandleLoadKeeps ==
    ASSUME AnyTime, RestInv, HandleLoad
    PROVE  RestInv'
<1>1. /\ TypeOK /\ AloneInv /\ CopyInv /\ app = Idle /\ app.at = "idle" /\ bus # <<>>
      /\ Head(bus).type = "load" /\ Head(bus) \in Events
      /\ UNCHANGED <<uiVars, editVars, dumpVars, devVars, app, reroute>>
      /\ UNCHANGED <<uiq, prog, prev, ctq, raw, edited, data, names, modified, shown, devProgs, toDev,
                     fromDev>>
  BY TakingTyped DEF HandleLoad, Taking, Idle, uiVars, editVars, dumpVars, devVars, AnyTime, RestInv, FlightInv
<1>2. PICK b \in Buffers : b = Head(bus).buffer
  BY <1>1, EventKinds
<1>3. CASE Head(bus).origin = "MIDI"
  <2>1. Reply(Stored(b))
    BY <1>2, <1>3 DEF HandleLoad
  <2> QED BY <1>1, <1>2, <1>3, <2>1, StoredKeeps
<1>4. CASE Head(bus).origin # "MIDI"
  <2>1. Head(bus).origin = "UI"
    BY <1>1, <1>4, EventKinds DEF Origins
  <2>2. reroute[EditBuffer] = NoRoute
    BY <1>1, EditRoute, Lengths
  <2>3. PICK evs \in Seq(Events) :
            /\ Reply(evs)
            /\ \/ b = Current /\ evs = <<>> /\ Range(evs) = {}
               \/ \E x \in Events, c \in Dumpable :
                      /\ evs = <<x>> /\ Range(evs) = {x}
                      /\ x.type = "out" /\ x.msg.cmd = "request" /\ x.msg.buffer = c
                      /\ c = b \/ b = Current
    <3>1. CASE b = Current /\ ~numbered(prog)
      BY <1>2, <1>4, <3>1, Tuples, RangeOfEmpty DEF HandleLoad
    <3>2. CASE ~(b = Current /\ ~numbered(prog))
      <4>1. PICK c \in Dumpable : Reply(<<MsgOut(ReqMsg(c))>>) /\ (c = b \/ b = Current)
        BY <1>2, <1>4, <3>2, BufferSets DEF HandleLoad, numbered
      <4>2. PICK x \in Events : x = MsgOut(ReqMsg(c))
        BY MsgsTyped, EventsTyped
      <4>3. <<x>> \in Seq(Events) /\ Range(<<x>>) = {x} /\ Reply(<<x>>)
        BY <4>1, <4>2, Tuples, RangeOfTuple
      <4>4. x.type = "out" /\ x.msg.cmd = "request" /\ x.msg.buffer = c
        BY <4>2 DEF MsgOut, ReqMsg
      <4> QED BY <4>1, <4>3, <4>4
    <3> QED BY <3>1, <3>2
  <2>4. /\ \A x \in Range(evs) : Harmless(x)
        /\ (\E x \in Range(evs) : Leads(x)) => Leads(Head(bus)) /\ \E x \in Events : evs = <<x>>
        /\ \A x \in Range(evs) : x.type # "modified"
    <3>1. CASE Range(evs) = {}
      BY <3>1
    <3>2. ASSUME NEW x \in Events, NEW c \in Dumpable, evs = <<x>>, Range(evs) = {x},
                 x.type = "out", x.msg.cmd = "request", x.msg.buffer = c, c = b \/ b = Current
          PROVE  /\ Harmless(x) /\ x.type # "modified" /\ (Leads(x) => Leads(Head(bus)))
      <4>1. Harmless(x)
        BY <3>2 DEF Harmless, Carries
      <4>2. Leads(x) => c # EditBuffer
        BY <3>2 DEF Leads, LeadsOut
      <4>3. b # EditBuffer => Leads(Head(bus))
        BY <1>1, <1>2 DEF Leads
      <4> QED BY <3>2, <4>1, <4>2, <4>3, PodCoreAssumption
    <3> QED BY <2>3, <3>1, <3>2
  <2>5. AloneInv' /\ FlightInv'
    BY <1>1, <2>2, <2>3, <2>4, PassOn
  <2>6. Range(bus') = Range(Tail(bus)) \cup Range(evs) /\ Range(bus) = {Head(bus)} \cup Range(Tail(bus))
    BY <1>1, <2>3, Answer
  <2>7. \A p \in Programs : Going(p) => Going(p)'
    BY <1>1, <2>3, AnswerKeeps
  <2>8. Fetching => Fetching'
    <3>1. CASE b = All
      <4>1. \E x \in Range(evs) : x.type = "out" /\ x.msg.cmd = "request" /\ x.msg.buffer = All
        BY <2>3, <3>1, PodCoreAssumption
      <4> QED BY <2>6, <4>1 DEF Fetching
    <3>2. CASE b # All
      BY <1>1, <1>2, <2>6, <3>2 DEF Fetching
    <3> QED BY <3>1, <3>2
  <2>9. UnmarkInv' /\ StateInv'
    BY <1>1, <2>3, <2>4, <2>7, <2>8, AnswerQuiet
  <2> QED BY <2>5, <2>9 DEF RestInv
<1> QED BY <1>3, <1>4

LEMMA HandleStoreKeeps ==
    ASSUME AnyTime, RestInv, HandleStore
    PROVE  RestInv'
<1>1. /\ TypeOK /\ AloneInv /\ CopyInv /\ app = Idle /\ app.at = "idle" /\ bus # <<>>
      /\ Head(bus).type = "store" /\ Head(bus) \in Events
      /\ UNCHANGED <<uiVars, editVars, dumpVars, devVars, app, reroute>>
      /\ UNCHANGED <<uiq, prog, prev, ctq, raw, edited, data, names, modified, shown, devProgs, toDev,
                     fromDev>>
  BY TakingTyped DEF HandleStore, Taking, Idle, uiVars, editVars, dumpVars, devVars, AnyTime, RestInv, FlightInv
<1>2. PICK b \in Buffers : b = Head(bus).buffer
  BY <1>1, EventKinds
<1>3. CASE Head(bus).origin # "MIDI"
  <2>1. Reply(Stored(b))
    BY <1>2, <1>3 DEF HandleStore
  <2> QED BY <1>1, <1>2, <1>3, <2>1, StoredKeeps
<1>4. CASE Head(bus).origin = "MIDI"
  <2>1. reroute[EditBuffer] = NoRoute
    <3>1. ~Produces(Head(bus), EditBuffer)
      BY <1>1, <1>4 DEF Produces
    <3> QED BY <1>1, <3>1, BufferSets, RouteLeads
  <2>2. Reply(<<>>) /\ <<>> \in Seq(Events) /\ Range(<<>>) = {}
    BY <1>4, Tuples, RangeOfEmpty DEF HandleStore
  <2>3. AloneInv' /\ FlightInv'
    BY <1>1, <2>1, <2>2, PassOn
  <2>4. \A p \in Programs : Going(p) => Going(p)'
    BY <1>1, <2>2, AnswerKeeps
  <2>5. Fetching => Fetching'
    BY <1>1, <2>2, AnswerKeeps
  <2>6. UnmarkInv' /\ StateInv'
    BY <1>1, <2>2, <2>4, <2>5, AnswerQuiet
  <2> QED BY <2>3, <2>6 DEF RestInv
<1> QED BY <1>3, <1>4

LEMMA HandleCopyKeeps ==
    ASSUME AnyTime, RestInv, HandleCopy
    PROVE  RestInv'
<1>1. /\ TypeOK /\ AloneInv /\ CopyInv /\ app = Idle /\ app.at = "idle" /\ bus # <<>>
      /\ Head(bus).type = "copy" /\ Head(bus) \in Events /\ Leads(Head(bus))
      /\ UNCHANGED <<uiq, prog, prev, ctq, raw, edited, data, names, modified, shown, devProgs, app, toDev,
                     fromDev>>
  BY TakingTyped
  DEF HandleCopy, Taking, Idle, Leads, uiVars, editVars, dumpVars, devVars, AnyTime, RestInv, FlightInv
<1>2. PICK f, t : /\ f = Head(bus).from /\ t = Head(bus).to
                  /\ (f \in Programs /\ t = EditBuffer) \/ (f = EditBuffer /\ t \in Programs)
  <2>1. Head(bus) \in Range(bus)
    BY <1>1, QueueTypes, Taken
  <2> QED BY <1>1, <2>1 DEF CopyInv
<1>3. PICK x \in Events : x = StoreEvent(f, "UI")
  BY <1>2, BufferSets, EventsTyped DEF Origins
<1>4. x.type = "store" /\ x.buffer = f /\ x.origin = "UI"
  BY <1>3 DEF StoreEvent
<1>5. /\ Reply(<<x>>) /\ <<x>> \in Seq(Events) /\ Range(<<x>>) = {x}
      /\ reroute' = [reroute EXCEPT ![f] = t]
  BY <1>2, <1>3, Tuples, RangeOfTuple DEF HandleCopy
<1>6. /\ Range(bus) = {Head(bus)} /\ Range(bus') = {x}
      /\ Range(toDev) = {} /\ Range(fromDev) = {} /\ Calm
  BY <1>1, <1>5, Answer
<1>7. AloneInv'
  BY <1>1, <1>5, AnswerLeads
<1>8. \A b \in Dumpable : reroute[b] = NoRoute
  <2>1. ASSUME NEW b \in Dumpable, reroute[b] # NoRoute PROVE FALSE
    <3>1. Produces(Head(bus), b)
      BY <1>1, <2>1, RouteLeads
    <3> QED BY <1>1, <3>1 DEF Produces
  <2> QED BY <2>1
<1>9. FlightInv'
  <2>1. SwitchInv'
    BY <1>1, <1>4, <1>6 DEF RestInv, FlightInv, SwitchInv, Calm
  <2>2. CopyInv'
    <3>1. reroute \in [Dumpable -> Single \cup {NoRoute}]
      BY <1>1 DEF TypeOK
    <3>2. /\ \A p \in Programs : reroute'[p] \in {NoRoute, EditBuffer}
          /\ reroute'[EditBuffer] # NoRoute => reroute'[EditBuffer] \in Programs /\ f = EditBuffer
      <4>1. f \in Dumpable /\ reroute'[f] = t /\ \A b \in Dumpable : b # f => reroute'[b] = NoRoute
        BY <1>2, <1>5, <1>8, <3>1, BufferSets
      <4>2. EditBuffer \notin Programs /\ EditBuffer \in Dumpable /\ Programs \subseteq Dumpable
        BY PodCoreAssumption, BufferSets
      <4> QED BY <1>2, <4>1, <4>2
    <3> QED BY <1>4, <1>6, <3>2 DEF CopyInv
  <2>3. CarryInv' /\ EditMarksInv'
    BY <1>1, <1>4, <1>6 DEF CarryInv, EditMarksInv
  <2> QED BY <2>1, <2>2, <2>3 DEF FlightInv
<1>10. /\ \A p \in Programs : Going(p) => Going(p)'
       /\ Fetching => Fetching'
  BY <1>1, <1>6 DEF Going, Fetching
<1>11. UnmarkInv' /\ StateInv'
  BY <1>1, <1>4, <1>5, <1>10, AnswerQuiet
<1> QED BY <1>7, <1>9, <1>11 DEF RestInv

LEMMA MidiControlKeeps ==
    ASSUME AnyTime, RestInv, MidiControl
    PROVE  RestInv'
<1>1. /\ TypeOK /\ AloneInv /\ CopyInv /\ app = Idle /\ app.at = "idle" /\ bus # <<>>
      /\ Head(bus).type = "in" /\ Head(bus).msg.cmd = "cc" /\ Head(bus) \in Events
      /\ UNCHANGED <<uiq, prog, prev, raw, edited, data, names, modified, shown, devProgs, app, toDev,
                     fromDev, reroute>>
  BY TakingTyped DEF MidiControl, Taking, Idle, uiVars, dumpVars, devVars, AnyTime, RestInv, FlightInv
<1>2. reroute[EditBuffer] = NoRoute
  BY <1>1, EditRoute, Lengths
<1>3. PICK evs \in Seq(Events) :
          /\ Reply(evs)
          /\ \A x \in Range(evs) : x.type = "load" /\ x.buffer = EditBuffer
  <2>1. LoadEvent(EditBuffer, "UI") \in Events
    BY BufferSets, EventsTyped DEF Origins
  <2>2. PICK x \in Events : x = LoadEvent(EditBuffer, "UI")
    BY <2>1
  <2>3. x.type = "load" /\ x.buffer = EditBuffer
    BY <2>2 DEF LoadEvent
  <2>4. /\ <<x>> \in Seq(Events) /\ Range(<<x>>) = {x}
        /\ <<>> \in Seq(Events) /\ Range(<<>>) = {}
    BY Tuples, RangeOfTuple, RangeOfEmpty
  <2>5. Reply(<<x>>) \/ Reply(<<>>)
    BY <2>2 DEF MidiControl
  <2> QED BY <2>3, <2>4, <2>5
<1>4. /\ \A x \in Range(evs) : Harmless(x)
      /\ \A x \in Range(evs) : ~Leads(x)
      /\ \A x \in Range(evs) : x.type # "modified"
  BY <1>2, <1>3 DEF Harmless, Leads
<1>5. AloneInv' /\ FlightInv'
  BY <1>1, <1>2, <1>3, <1>4, PassOn
<1>6. Range(ctq) \subseteq Range(ctq')
  <2>1. Head(bus).msg.val \in Vals
    BY <1>1, EventKinds, MsgKinds
  <2>2. PICK s \in Signals : s = ControlSignal(Head(bus).msg.val, "MIDI")
    BY <2>1, SignalsTyped DEF Origins
  <2>3. Range(Append(ctq, s)) = Range(ctq) \cup {s}
    BY <1>1, AddedTo
  <2>4. ctq' = ctq \/ ctq' = Append(ctq, s)
    BY <2>2 DEF MidiControl
  <2> QED BY <2>3, <2>4
<1>7. Range(bus') = Range(Tail(bus)) \cup Range(evs) /\ Range(bus) = {Head(bus)} \cup Range(Tail(bus))
  BY <1>1, <1>3, Answer
<1>8. /\ \A p \in Programs : Going(p) => Going(p)'
      /\ Fetching => Fetching'
  BY <1>1, <1>7 DEF Going, Fetching
<1>9. UnmarkInv' /\ StateInv'
  BY <1>1, <1>3, <1>4, <1>6, <1>8, AnswerQuiet
<1> QED BY <1>5, <1>9 DEF RestInv

LEMMA MidiProgramKeeps ==
    ASSUME AnyTime, RestInv, MidiProgram
    PROVE  RestInv'
<1>1. /\ TypeOK /\ AloneInv /\ CopyInv /\ app = Idle /\ app.at = "idle" /\ bus # <<>>
      /\ Head(bus).type = "in" /\ Head(bus).msg.cmd = "pc" /\ Head(bus) \in Events
      /\ UNCHANGED <<prev, ctq, raw, edited, data, names, modified, shown, devProgs, app, toDev,
                     fromDev, reroute>>
      /\ Leads(Head(bus)) /\ Reply(<<>>) /\ <<>> \in Seq(Events) /\ Range(<<>>) = {}
  BY TakingTyped, Tuples, RangeOfEmpty
  DEF MidiProgram, Taking, Idle, Leads, LeadsIn, editVars, dumpVars, devVars, AnyTime, RestInv, FlightInv
<1>2. /\ Range(bus) = {Head(bus)} /\ Range(bus') = {} /\ bus' = <<>>
      /\ Range(toDev) = {} /\ Range(fromDev) = {} /\ Range(ctq) = {}
      /\ ctq = <<>> /\ toDev = <<>> /\ fromDev = <<>>
  <2>1. <<>> \o <<>> = <<>>
    OBVIOUS
  <2>2. Tail(bus) = <<>>
    BY <1>1, Answer
  <2>3. bus' = <<>>
    BY <1>1, <2>1, <2>2 DEF Reply
  <2> QED BY <1>1, <2>3, Answer, RangeOfEmpty
<1>3. uiq = <<>>
  <2>1. Head(bus) \in Range(bus)
    BY <1>2
  <2> QED BY <1>1, <2>1 DEF RestInv, FlightInv, SwitchInv
<1>4. \/ UNCHANGED <<prog, uiq>>
      \/ prog' # Hidden /\ uiq' = Append(uiq, "program")
  BY PodCoreAssumption DEF MidiProgram, SetProgram
<1>5. reroute[EditBuffer] = NoRoute
  BY <1>1, EditRoute
<1>6. AloneInv'
  <2>1. CASE UNCHANGED <<prog, uiq>>
    <3>1. ~Led'
      BY <1>1, <1>2, <1>3, <2>1 DEF Led, Calm
    <3> QED BY <3>1 DEF Led, AloneInv
  <2>2. CASE prog' # Hidden /\ uiq' = Append(uiq, "program")
    <3>1. Len(uiq') = 1
      BY <1>1, <1>3, <2>2, QueueTypes, Added
    <3>2. OnlyUi'
      BY <1>1, <1>2, <3>1 DEF OnlyUi
    <3> QED BY <3>2, Solo
  <2> QED BY <1>4, <2>1, <2>2
<1>7. FlightInv'
  <2>1. SwitchInv'
    BY <1>1, <1>2, <1>4 DEF RestInv, FlightInv, SwitchInv
  <2>2. CopyInv' /\ CarryInv' /\ EditMarksInv'
    BY <1>1, <1>2, <1>5 DEF CopyInv, CarryInv, EditMarksInv
  <2> QED BY <2>1, <2>2 DEF FlightInv
<1>8. /\ \A p \in Programs : Going(p) => Going(p)'
      /\ Fetching => Fetching'
  BY <1>1, <1>2 DEF Going, Fetching
<1>9. UnmarkInv' /\ StateInv'
  BY <1>1, <1>8, AnswerQuiet
<1> QED BY <1>6, <1>7, <1>9 DEF RestInv

LEMMA MidiSysexKeeps ==
    ASSUME AnyTime, RestInv, MidiSysex
    PROVE  RestInv'
<1>1. /\ TypeOK /\ AloneInv /\ CopyInv /\ app = Idle /\ app.at = "idle" /\ bus # <<>>
      /\ Head(bus).type = "in" /\ Head(bus).msg.cmd \in {"request", "dump"} /\ Head(bus) \in Events
      /\ UNCHANGED <<uiq, prog, prev, ctq, raw, edited, data, names, modified, shown, devProgs, app, toDev,
                     fromDev, reroute>>
  BY TakingTyped
  DEF MidiSysex, Taking, Idle, uiVars, editVars, dumpVars, devVars, AnyTime, RestInv, FlightInv
<1>2. PICK m \in Msgs : m = Head(bus).msg
  BY <1>1, EventKinds
<1>3. m.buffer \in Dumpable /\ Carries(m, devProgs)
  <2>1. Head(bus) \in Range(bus)
    BY <1>1, QueueTypes, Taken
  <2> QED BY <1>1, <1>2, <2>1, MsgKinds DEF RestInv, FlightInv, CarryInv
<1>4. reroute[EditBuffer] = NoRoute
  BY <1>1, EditRoute, Lengths
<1>5. PICK x \in Events :
          /\ Reply(<<x>>) /\ x.buffer = m.buffer /\ x.origin = "MIDI"
          /\ \/ m.cmd = "request" /\ x.type = "load"
             \/ m.cmd = "dump" /\ x.type = "data" /\ x.content = m.content
  <2>1. CASE m.cmd = "request"
    <3>1. LoadEvent(m.buffer, "MIDI") \in Events
      BY <1>3, BufferSets, EventsTyped DEF Origins
    <3>2. Reply(<<LoadEvent(m.buffer, "MIDI")>>)
      BY <1>2, <2>1 DEF MidiSysex
    <3> QED BY <2>1, <3>1, <3>2 DEF LoadEvent
  <2>2. CASE m.cmd = "dump"
    <3>1. DataEvent(m.buffer, "MIDI", m.content) \in Events
      BY <2>2, MsgKinds, BufferSets, EventsTyped DEF Origins
    <3>2. Reply(<<DataEvent(m.buffer, "MIDI", m.content)>>)
      BY <1>2, <2>2 DEF MidiSysex
    <3> QED BY <2>2, <3>1, <3>2 DEF DataEvent
  <2> QED BY <1>1, <1>2, <2>1, <2>2
<1>6. <<x>> \in Seq(Events) /\ Range(<<x>>) = {x}
  BY Tuples, RangeOfTuple
<1>7. Harmless(x) /\ x.type # "modified"
  BY <1>3, <1>5 DEF Harmless, Carries
<1>8. Leads(x) => Leads(Head(bus))
  <2>1. CASE m.buffer # EditBuffer
    BY <1>1, <1>2, <2>1 DEF Leads, LeadsIn
  <2>2. CASE m.buffer = EditBuffer
    BY <1>4, <1>5, <2>2 DEF Leads
  <2> QED BY <2>1, <2>2
<1>9. AloneInv' /\ FlightInv'
  BY <1>1, <1>4, <1>5, <1>6, <1>7, <1>8, PassOn
<1>10. Range(bus') = Range(Tail(bus)) \cup {x} /\ Range(bus) = {Head(bus)} \cup Range(Tail(bus))
  BY <1>1, <1>5, <1>6, Answer
<1>11. \A p \in Programs : Going(p) => Going(p)'
  BY <1>1, <1>10 DEF Going
<1>12. Fetching => Fetching'
  BY <1>1, <1>2, <1>5, <1>10 DEF Fetching
<1>13. UnmarkInv' /\ StateInv'
  BY <1>1, <1>5, <1>6, <1>7, <1>11, <1>12, AnswerQuiet
<1> QED BY <1>9, <1>13 DEF RestInv

LEMMA HandleMsgOutKeeps ==
    ASSUME AnyTime, RestInv, HandleMsgOut
    PROVE  RestInv'
<1>1. /\ TypeOK /\ AloneInv /\ CopyInv /\ app = Idle /\ app.at = "idle" /\ bus # <<>>
      /\ Head(bus).type = "out" /\ Head(bus) \in Events
      /\ UNCHANGED <<uiq, prog, prev, ctq, raw, edited, data, names, modified, shown, devProgs, app,
                     fromDev, reroute>>
  BY TakingTyped
  DEF HandleMsgOut, Taking, Idle, uiVars, editVars, dumpVars, AnyTime, RestInv, FlightInv
<1>2. PICK m \in Msgs : m = Head(bus).msg
  BY <1>1, EventKinds
<1>3. Carries(m, data)
  <2>1. Head(bus) \in Range(bus)
    BY <1>1, QueueTypes, Taken
  <2> QED BY <1>1, <1>2, <2>1 DEF RestInv, FlightInv, CarryInv
<1>4. reroute[EditBuffer] = NoRoute
  BY <1>1, EditRoute, Lengths
<1>5. PICK evs \in Seq(Events) :
          /\ Reply(evs)
          /\ \A x \in Range(evs) : x.type = "load" /\ x.buffer = EditBuffer
          /\ m.cmd # "cc" => evs = <<>> /\ Range(evs) = {}
  <2>1. PICK x \in Events : x = LoadEvent(EditBuffer, "UI")
    BY BufferSets, EventsTyped DEF Origins
  <2>2. x.type = "load" /\ x.buffer = EditBuffer
    BY <2>1 DEF LoadEvent
  <2>3. /\ <<x>> \in Seq(Events) /\ Range(<<x>>) = {x}
        /\ <<>> \in Seq(Events) /\ Range(<<>>) = {}
    BY Tuples, RangeOfTuple, RangeOfEmpty
  <2>4. (m.cmd = "cc" /\ Reply(<<x>>)) \/ Reply(<<>>)
    BY <1>2, <2>1 DEF HandleMsgOut
  <2> QED BY <2>2, <2>3, <2>4
<1>6. Range(toDev') = Range(toDev) \cup {m} /\ toDev' = Append(toDev, m)
  <2>1. Range(Append(toDev, m)) = Range(toDev) \cup {m}
    BY <1>1, AddedTo
  <2> QED BY <1>2, <2>1 DEF HandleMsgOut
<1>7. Range(bus') = Range(Tail(bus)) \cup Range(evs) /\ Range(bus) = {Head(bus)} \cup Range(Tail(bus))
  BY <1>1, <1>5, Answer
<1>8. AloneInv'
  <2>1. CASE LeadsOut(m)
    <3>1. Leads(Head(bus)) /\ evs = <<>>
      BY <1>1, <1>2, <1>5, <2>1 DEF Leads, LeadsOut
    <3>2. /\ Tail(bus) = <<>> /\ toDev = <<>> /\ fromDev = <<>> /\ ctq = <<>> /\ Calm
      BY <1>1, <1>5, <3>1, Answer
    <3>3. bus' = <<>>
      <4>1. <<>> \o <<>> = <<>>
        OBVIOUS
      <4> QED BY <1>5, <3>1, <3>2, <4>1 DEF Reply
    <3>4. Len(toDev') = 1
      BY <1>1, <1>6, <3>2, QueueTypes, Added
    <3>5. OnlyToDev'
      BY <1>1, <3>2, <3>3, <3>4 DEF OnlyToDev, Calm
    <3> QED BY <3>5, Solo
  <2>2. CASE ~LeadsOut(m)
    <3>1. ~Leads(Head(bus))
      BY <1>1, <1>2, <2>2 DEF Leads
    <3>2. ~Led /\ Calm
      BY <1>1, <1>5, <3>1, Answer
    <3>3. Calm' /\ app'.at # "reload"
      BY <1>1, <3>2 DEF Calm
    <3>4. \A x \in Range(evs) : ~Leads(x)'
      BY <1>1, <1>4, <1>5 DEF Leads
    <3> QED BY <1>1, <1>6, <1>7, <2>2, <3>2, <3>3, <3>4, StillUnled
  <2> QED BY <2>1, <2>2
<1>9. \A x \in Range(evs) : Harmless(x) /\ x.type # "modified"
  BY <1>5 DEF Harmless
<1>10. FlightInv'
  <2>1. \A p \in Programs : reroute[p] \in {NoRoute, EditBuffer}
    BY <1>1 DEF CopyInv
  <2> QED BY <1>1, <1>3, <1>4, <1>6, <1>7, <1>9, <2>1, KeepFlight DEF RestInv
<1>11. \A p \in Programs : Going(p) => Going(p)'
  BY <1>1, <1>2, <1>6, <1>7 DEF Going
<1>12. Fetching => Fetching'
  BY <1>1, <1>2, <1>6, <1>7 DEF Fetching
<1>13. UnmarkInv' /\ StateInv'
  BY <1>1, <1>5, <1>6, <1>9, <1>11, <1>12, AnswerQuiet
<1> QED BY <1>8, <1>10, <1>13 DEF RestInv

-----------------------------------------------------------------------------
(* The second halves of the handlers, and the marks.                       *)

LEMMA FinishProgramChangeKeeps ==
    ASSUME AnyTime, RestInv, FinishProgramChange
    PROVE  RestInv'
<1>1. /\ TypeOK /\ AloneInv /\ CopyInv /\ app.at = "synced" /\ app' = Idle /\ prev' = prog
      /\ UNCHANGED <<uiq, prog, ctq, raw, edited, data, names, modified, shown, devProgs, toDev,
                     fromDev, reroute>>
  BY DEF FinishProgramChange, ProgramNow, editVars, dumpVars, devVars, AnyTime, RestInv, FlightInv
<1>2. Calm /\ ~Led /\ prog # Hidden
  <2>1. Calm /\ prog # Hidden
    BY <1>1 DEF RestInv, FlightInv, SwitchInv
  <2> QED BY <1>1, <2>1, Trailing
<1>3. \A b \in Dumpable : reroute[b] = NoRoute
  BY <1>2, NoRoutesUnled DEF AnyTime, RestInv, FlightInv
<1>4. PICK evs \in Seq(Events) :
          /\ bus' = bus \o evs
          /\ \A x \in Range(evs) : \/ x.type = "out" /\ x.msg.cmd = "pc"
                                   \/ x.type = "store" /\ x.buffer = EditBuffer
  <2> DEFINE n == PcNum[app.event.program]
  <2>1. PICK y \in Events : y = StoreEvent(EditBuffer, "UI")
    BY BufferSets, EventsTyped DEF Origins
  <2>2. y.type = "store" /\ y.buffer = EditBuffer
    BY <2>1 DEF StoreEvent
  <2>3. /\ <<y>> \in Seq(Events) /\ Range(<<y>>) = {y}
        /\ <<>> \in Seq(Events) /\ Range(<<>>) = {}
    BY Tuples, RangeOfTuple, RangeOfEmpty
  <2>4. CASE app.event.program \notin DOMAIN PcNum
    <3>1. bus' = bus \o <<>>
      BY <2>4 DEF FinishProgramChange
    <3> QED BY <2>3, <3>1
  <2>5. CASE app.event.program \in DOMAIN PcNum
    <3>1. PICK x \in Events : x = MsgOut(PcMsg(n))
      BY <2>5, PodCoreAssumption, MsgsTyped, EventsTyped
    <3>2. x.type = "out" /\ x.msg.cmd = "pc"
      BY <3>1 DEF MsgOut, PcMsg
    <3>3. <<x>> \in Seq(Events) /\ Range(<<x>>) = {x}
      BY Tuples, RangeOfTuple
    <3>4. /\ <<x>> \o <<y>> \in Seq(Events) /\ Range(<<x>> \o <<y>>) = {x, y}
          /\ <<>> \o <<y>> = <<y>>
      <4>1. \A s, t \in Seq(Events) : Range(s \o t) = Range(s) \cup Range(t)
        BY RangeConcatenation
      <4>2. Range(<<x>> \o <<y>>) = Range(<<x>>) \cup Range(<<y>>)
        BY <2>3, <3>3, <4>1, Zenon
      <4>3. <<>> \o <<y>> = <<y>>
        BY <2>3
      <4>4. <<x>> \o <<y>> \in Seq(Events)
        BY <2>3, <3>3, Tuples, Zenon
      <4> QED BY <2>3, <3>3, <4>2, <4>3, <4>4
    <3>5. \/ bus' = bus \o <<>> \/ bus' = bus \o <<x>>
          \/ bus' = bus \o (<<x>> \o <<y>>) \/ bus' = bus \o (<<>> \o <<y>>)
      BY <2>1, <3>1 DEF FinishProgramChange
    <3> QED BY <2>2, <2>3, <3>2, <3>3, <3>4, <3>5
  <2> QED BY <2>4, <2>5
<1>5. Range(bus') = Range(bus) \cup Range(evs)
  BY <1>1, <1>4, QueueTypes, BusAfter
<1>6. AloneInv'
  <2>1. Calm' /\ app'.at # "reload"
    BY <1>1, <1>2 DEF Calm, Idle
  <2>2. \A x \in Range(evs) : ~Leads(x)'
    BY <1>1, <1>3, <1>4, BufferSets DEF Leads, LeadsOut
  <2> QED BY <1>1, <1>2, <1>5, <2>1, <2>2, StillUnled
<1>7. FlightInv'
  <2>1. \A x \in Range(evs) : Harmless(x)
    BY <1>4 DEF Harmless, Carries
  <2>2. SwitchInv'
    BY <1>1, <1>2, <1>5, <2>1 DEF RestInv, FlightInv, SwitchInv, Calm, Harmless, Idle
  <2>3. CopyInv'
    BY <1>1, <1>3, <1>5, <2>1, BufferSets DEF CopyInv, Harmless
  <2>4. CarryInv' /\ EditMarksInv'
    BY <1>1, <1>5, <2>1 DEF RestInv, FlightInv, CarryInv, EditMarksInv, Harmless, Carries
  <2> QED BY <2>2, <2>3, <2>4 DEF FlightInv
<1>8. /\ \A p : Going(p) => Going(p)'
      /\ Fetching => Fetching'
      /\ NameComes => NameComes'
  <2>1. Range(bus) \subseteq Range(bus') /\ Range(ctq') = Range(ctq)
    BY <1>1, <1>5
  <2>2. \A p : Going(p) => Going(p)'
    BY <1>1, <2>1 DEF Going
  <2>3. Fetching => Fetching'
    BY <1>1, <2>1 DEF Fetching
  <2>4. NameComes => NameComes'
    BY <1>1, <2>1 DEF NameComes
  <2> QED BY <2>2, <2>3, <2>4
<1>9. \A b, f : Marking(b, f)' <=> Marking(b, f)
  BY <1>4, <1>5 DEF Marking
<1>10. InEdit' = InEdit /\ app'.at = "idle"
  BY <1>1 DEF InEdit, Idle
<1>11. UnmarkInv'
  BY <1>1, <1>8, <1>9, <1>10 DEF RestInv, UnmarkInv
<1>12. MarkedInv' /\ EditInv' /\ ReloadInv' /\ ShowInv'
  BY <1>1, <1>8, <1>9, <1>10 DEF RestInv, StateInv, MarkedInv, EditInv, ReloadInv, ShowInv
<1>13. NamesInv'
  <2>1. \A p \in Programs : names[p] = (IF p = InEdit THEN raw ELSE data[p]).name
                            \/ (p = InEdit /\ NameComes)
    BY <1>1 DEF RestInv, StateInv, NamesInv, NameComes
  <2>2. \A p \in Programs : names'[p] = (IF p = InEdit' THEN raw' ELSE data'[p]).name
                            \/ (p = InEdit' /\ NameComes')
    BY <1>1, <1>8, <1>10, <2>1
  <2> QED BY <2>2 DEF NamesInv, NameComes
<1>14. ShownInv'
  <2>1. \A p \in Programs : shown[p] = modified[p] \/ (Marking(p, TRUE) /\ modified[p])
    BY <1>1 DEF RestInv, StateInv, ShownInv
  <2>2. \A p \in Programs : shown'[p] = modified'[p] \/ (Marking(p, TRUE)' /\ modified'[p])
    BY <1>1, <1>9, <2>1, Zenon
  <2> QED BY <2>2 DEF ShownInv
<1> QED BY <1>6, <1>7, <1>11, <1>12, <1>13, <1>14 DEF RestInv, StateInv

LEMMA ShowModifiedKeeps ==
    ASSUME AnyTime, RestInv, ShowModified
    PROVE  RestInv'
<1>1. /\ TypeOK /\ AloneInv /\ CopyInv /\ app.at = "show" /\ app' = Idle
      /\ shown' = IF numbered(prog) THEN [shown EXCEPT ![prog] = app.flag] ELSE shown
      /\ UNCHANGED <<uiq, prog, prev, ctq, raw, edited, data, names, modified, devProgs, toDev,
                     fromDev, reroute, bus>>
  BY DEF ShowModified, uiVars, editVars, devVars, AnyTime, RestInv, FlightInv
<1>2. Calm /\ ~Led /\ app'.at = "idle"
  <2>1. Calm
    BY <1>1 DEF AloneInv, OnlyUi, Idle
  <2> QED BY <1>1, <2>1, Trailing DEF Idle
<1>3. AloneInv'
  <2>1. Calm' /\ app'.at # "reload"
    BY <1>1, <1>2 DEF Calm
  <2> QED BY <1>1, <1>2, <2>1, StillUnled
<1>4. FlightInv'
  <2>1. /\ reroute[EditBuffer] = NoRoute
        /\ \A p \in Programs : reroute[p] \in {NoRoute, EditBuffer}
    BY <1>2, NoRoutesUnled, BufferSets DEF AnyTime, RestInv, FlightInv
  <2> QED BY <1>1, <1>2, <2>1, KeepFlight DEF RestInv
<1>5. /\ \A p : Going(p) => Going(p)'
      /\ \A b, f : Marking(b, f)' <=> Marking(b, f)
      /\ Fetching => Fetching'
      /\ NameComes => NameComes'
  <2>1. Range(bus) = Range(bus') /\ Range(ctq') = Range(ctq)
    BY <1>1
  <2>2. \A p : Going(p) => Going(p)'
    BY <1>1, <2>1 DEF Going
  <2>3. \A b, f : Marking(b, f)' <=> Marking(b, f)
    BY <2>1 DEF Marking
  <2>4. Fetching => Fetching'
    BY <1>1, <2>1 DEF Fetching
  <2>5. NameComes => NameComes'
    BY <1>1, <2>1 DEF NameComes
  <2> QED BY <2>2, <2>3, <2>4, <2>5
<1>6. InEdit' = InEdit
  BY <1>1, <1>2 DEF InEdit
<1>7. UnmarkInv'
  BY <1>1, <1>2, <1>5 DEF RestInv, UnmarkInv
<1>8. MarkedInv' /\ EditInv' /\ ReloadInv' /\ ShowInv'
  BY <1>1, <1>2, <1>5, <1>6 DEF RestInv, StateInv, MarkedInv, EditInv, ReloadInv, ShowInv
<1>9. NamesInv'
  <2>1. \A p \in Programs : names[p] = (IF p = InEdit THEN raw ELSE data[p]).name
                            \/ (p = InEdit /\ NameComes)
    BY <1>1 DEF RestInv, StateInv, NamesInv, NameComes
  <2>2. \A p \in Programs : names'[p] = (IF p = InEdit' THEN raw' ELSE data'[p]).name
                            \/ (p = InEdit' /\ NameComes')
    BY <1>1, <1>5, <1>6, <2>1
  <2> QED BY <2>2 DEF NamesInv, NameComes
<1>10. ShownInv'
  <2> SUFFICES ASSUME NEW p \in Programs
               PROVE  shown'[p] = modified'[p] \/ (Marking(p, TRUE)' /\ modified'[p])
    BY DEF ShownInv
  <2>1. CASE p = prog
    <3>1. shown'[p] = app.flag
      BY <1>1, <2>1 DEF TypeOK, numbered
    <3>2. modified[p] = app.flag
      BY <1>1, <2>1 DEF RestInv, StateInv, ShowInv, numbered
    <3> QED BY <1>1, <3>1, <3>2, Zenon
  <2>2. CASE p # prog
    <3>1. shown'[p] = shown[p]
      BY <1>1, <2>2 DEF TypeOK
    <3>2. shown[p] = modified[p] \/ (Marking(p, TRUE) /\ modified[p])
      BY <1>1, <2>2 DEF RestInv, StateInv, ShownInv
    <3> QED BY <1>1, <1>5, <3>1, <3>2, Zenon
  <2> QED BY <2>1, <2>2
<1> QED BY <1>3, <1>4, <1>7, <1>8, <1>9, <1>10 DEF RestInv, StateInv

LEMMA HandleModifiedKeeps ==
    ASSUME AnyTime, RestInv, HandleModified
    PROVE  RestInv'
<1>1. /\ TypeOK /\ AloneInv /\ CopyInv /\ app = Idle /\ app.at = "idle" /\ bus # <<>>
      /\ Head(bus).type = "modified" /\ Head(bus) \in Events
      /\ Reply(<<>>) /\ <<>> \in Seq(Events) /\ Range(<<>>) = {}
      /\ UNCHANGED <<uiq, prog, prev, ctq, raw, data, names, devProgs, toDev, fromDev, reroute>>
  BY TakingTyped, Tuples, RangeOfEmpty
  DEF HandleModified, Taking, Idle, uiVars, devVars, AnyTime, RestInv, FlightInv
<1>2. PICK b, f : /\ b = Head(bus).buffer /\ f = Head(bus).flag /\ b \in Buffers /\ f \in BOOLEAN
                  /\ Marking(b, f) /\ (b \in {EditBuffer, Current} => f = TRUE)
  <2>1. Head(bus) \in Range(bus)
    BY <1>1, QueueTypes, Taken
  <2> QED BY <1>1, <2>1, EventKinds DEF Marking, RestInv, FlightInv, EditMarksInv
<1>3. ~Led /\ Calm
  BY <1>1, Trailing DEF Leads, Led
<1>4. /\ Range(bus') = Range(Tail(bus)) /\ Range(bus) = {Head(bus)} \cup Range(Tail(bus))
  BY <1>1, Answer
<1>5. /\ app' = (IF b = Current THEN [at |-> "show", flag |-> f] ELSE app)
      /\ modified' = [p \in Programs |-> IF p \in DumpMarks(b) THEN f ELSE modified[p]]
      /\ shown' = [p \in Programs |-> IF p \in GridMarks(b) THEN f ELSE shown[p]]
      /\ edited' = (IF b = EditBuffer \/ (b = Current /\ numbered(prog)) THEN f ELSE edited)
  BY <1>2 DEF HandleModified
<1>6. app'.at \in {"idle", "show"} /\ (app'.at = "show" <=> b = Current) /\ (b = Current => app'.flag = f)
  BY <1>1, <1>5
<1>7. AloneInv'
  <2>1. Calm' /\ app'.at # "reload"
    BY <1>1, <1>3, <1>6 DEF Calm
  <2> QED BY <1>1, <1>3, <1>4, <2>1, StillUnled
<1>8. FlightInv'
  <2>1. /\ reroute[EditBuffer] = NoRoute
        /\ \A p \in Programs : reroute[p] \in {NoRoute, EditBuffer}
    BY <1>3, NoRoutesUnled, BufferSets DEF AnyTime, RestInv, FlightInv
  <2> QED BY <1>1, <1>4, <1>6, <2>1, KeepFlight DEF RestInv
<1>9. /\ \A p : Going(p) => Going(p)'
      /\ \A c, g : Marking(c, g)' => Marking(c, g)
      /\ \A c, g : Marking(c, g) => Marking(c, g)' \/ (c = b /\ g = f)
      /\ Fetching => Fetching'
      /\ NameComes => NameComes'
  <2>1. \A p : Going(p) => Going(p)'
    BY <1>1, <1>4 DEF Going
  <2>2. /\ \A c, g : Marking(c, g)' => Marking(c, g)
        /\ \A c, g : Marking(c, g) => Marking(c, g)' \/ (c = b /\ g = f)
    BY <1>2, <1>4 DEF Marking
  <2>3. Fetching => Fetching'
    BY <1>1, <1>4 DEF Fetching
  <2>4. NameComes => NameComes'
    BY <1>1, <1>4 DEF NameComes
  <2> QED BY <2>1, <2>2, <2>3, <2>4
<1>10. /\ InEdit' = InEdit /\ InEdit = prev
       /\ \A p \in Programs : prev = p <=> prog = p
       /\ numbered(prev) <=> numbered(prog)
  <2>1. \A e \in Range(bus) : e.type # "pc"
    BY <1>3 DEF Led, Leads
  <2>2. InEdit' = prev'
    BY <1>6 DEF InEdit
  <2> QED BY <1>1, <1>3, <2>1, <2>2, CaughtUp DEF RestInv, FlightInv
<1>11. UnmarkInv'
  BY <1>1, <1>6, <1>9 DEF RestInv, UnmarkInv
<1>12. MarkedInv'
  <2> SUFFICES ASSUME NEW p \in Programs
               PROVE  \/ modified'[p] \/ data'[p] = devProgs'[p] \/ Going(p)' \/ Marking(p, TRUE)' \/ Fetching'
    BY DEF MarkedInv
  <2>1. modified[p] \/ data[p] = devProgs[p] \/ Going(p) \/ Marking(p, TRUE) \/ Fetching
    BY <1>1 DEF RestInv, StateInv, MarkedInv
  <2>2. CASE p \in DumpMarks(b) /\ f = TRUE
    BY <1>5, <2>2
  <2>3. CASE p \in DumpMarks(b) /\ f = FALSE
    <3>1. b = p \/ b = All
      BY <1>2, <2>3 DEF DumpMarks
    <3>2. data[p] = devProgs[p] \/ Going(p)
      BY <1>2, <2>3, <3>1 DEF RestInv, UnmarkInv
    <3> QED BY <1>1, <1>9, <3>2
  <2>4. CASE p \notin DumpMarks(b)
    <3>1. modified'[p] = modified[p]
      BY <1>5, <2>4
    <3>2. b # p
      BY <2>4, PodCoreAssumption DEF DumpMarks
    <3>3. Marking(p, TRUE) => Marking(p, TRUE)'
      BY <1>9, <3>2
    <3>4. modified[p] => modified'[p]
      BY <3>1, Zenon
    <3> QED BY <1>1, <1>9, <2>1, <3>3, <3>4
  <2> QED BY <1>2, <2>2, <2>3, <2>4
<1>13. EditInv'
  <2>1. CASE b = EditBuffer \/ (b = Current /\ numbered(prog))
    BY <1>2, <1>5, <2>1 DEF EditInv
  <2>2. CASE b = Current /\ ~numbered(prog)
    BY <1>10, <2>2 DEF EditInv
  <2>3. CASE b \notin {EditBuffer, Current}
    BY <1>1, <1>5, <1>9, <1>10, <2>3 DEF RestInv, StateInv, EditInv
  <2> QED BY <2>1, <2>2, <2>3
<1>14. ReloadInv' /\ ShowInv'
  <2>1. ReloadInv'
    BY <1>6 DEF ReloadInv
  <2>2. ShowInv'
    BY <1>1, <1>5, <1>6 DEF ShowInv, DumpMarks, numbered
  <2> QED BY <2>1, <2>2
<1>15. NamesInv'
  <2>1. \A p \in Programs : names[p] = (IF p = InEdit THEN raw ELSE data[p]).name
                            \/ (p = InEdit /\ NameComes)
    BY <1>1 DEF RestInv, StateInv, NamesInv, NameComes
  <2>2. \A p \in Programs : names'[p] = (IF p = InEdit' THEN raw' ELSE data'[p]).name
                            \/ (p = InEdit' /\ NameComes')
    BY <1>1, <1>9, <1>10, <2>1
  <2> QED BY <2>2 DEF NamesInv, NameComes
<1>16. ShownInv'
  <2> SUFFICES ASSUME NEW p \in Programs
               PROVE  \/ shown'[p] = modified'[p]
                      \/ app'.at = "show" /\ p = prog' /\ modified'[p] = app'.flag
                      \/ Marking(p, TRUE)' /\ modified'[p]
    BY DEF ShownInv
  <2>1. shown[p] = modified[p] \/ (Marking(p, TRUE) /\ modified[p])
    BY <1>1 DEF RestInv, StateInv, ShownInv
  <2>2. CASE p \in GridMarks(b)
    <3>1. p \in DumpMarks(b)
      BY <2>2, PodCoreAssumption DEF GridMarks, DumpMarks
    <3>2. shown'[p] = f /\ modified'[p] = f
      BY <1>5, <2>2, <3>1
    <3> QED BY <3>2
  <2>3. CASE p \notin GridMarks(b) /\ p \in DumpMarks(b)
    <3>1. b = Current /\ p = prog
      BY <2>3, PodCoreAssumption DEF GridMarks, DumpMarks
    <3>2. modified'[p] = f
      BY <1>5, <2>3
    <3> QED BY <1>1, <1>6, <3>1, <3>2
  <2>4. CASE p \notin GridMarks(b) /\ p \notin DumpMarks(b)
    <3>1. modified'[p] = modified[p] /\ shown'[p] = shown[p]
      BY <1>5, <2>4
    <3>2. b # p
      BY <2>4, PodCoreAssumption DEF DumpMarks
    <3>3. Marking(p, TRUE) => Marking(p, TRUE)'
      BY <1>9, <3>2
    <3> QED BY <2>1, <3>1, <3>3, Zenon
  <2> QED BY <2>2, <2>3, <2>4
<1> QED BY <1>7, <1>8, <1>11, <1>12, <1>13, <1>14, <1>15, <1>16 DEF RestInv, StateInv

-----------------------------------------------------------------------------
(* Data arrives.                                                           *)

\* What marks the buffer the data was placed in.
LEMMA AfterKinds ==
    ASSUME NEW b \in Dumpable, NEW r \in BOOLEAN
    PROVE  /\ ModifiedAfter(b, r) \in Seq(Events)
           /\ \A x \in Range(ModifiedAfter(b, r)) :
                 \/ x.type = "modified" /\ x.buffer = b /\ x.flag = (b = EditBuffer \/ r)
                 \/ b = EditBuffer /\ x.type = "store" /\ x.buffer = EditBuffer
           /\ \E x \in Range(ModifiedAfter(b, r)) :
                 x.type = "modified" /\ x.buffer = b /\ x.flag = (b = EditBuffer \/ r)
<1>1. ModifiedAfter(b, r) \in Seq(Events)
  BY ModifiedAfterTyped
<1>2. CASE b # EditBuffer
  <2>1. ModifiedAfter(b, r) = <<ModEvent(b, r)>>
    BY <1>2 DEF ModifiedAfter
  <2>2. Range(ModifiedAfter(b, r)) = {ModEvent(b, r)}
    BY <2>1, RangeOfTuple
  <2>3. ModEvent(b, r).type = "modified" /\ ModEvent(b, r).buffer = b /\ ModEvent(b, r).flag = r
    BY DEF ModEvent
  <2> QED BY <1>1, <1>2, <2>2, <2>3
<1>3. CASE b = EditBuffer
  <2>1. PICK x \in Events : x = ModEvent(EditBuffer, TRUE)
    BY BufferSets, EventsTyped
  <2>2. PICK y \in Events : y = StoreEvent(EditBuffer, "UI")
    BY BufferSets, EventsTyped DEF Origins
  <2>3. /\ x.type = "modified" /\ x.buffer = b /\ x.flag = TRUE
        /\ y.type = "store" /\ y.buffer = EditBuffer
    BY <1>3, <2>1, <2>2 DEF ModEvent, StoreEvent
  <2>4. ModifiedAfter(b, r) = <<x>> \o <<y>> \/ ModifiedAfter(b, r) = <<x>> \o <<>>
    BY <1>3, <2>1, <2>2 DEF ModifiedAfter
  <2>5. /\ <<x>> \in Seq(Events) /\ <<y>> \in Seq(Events) /\ <<>> \in Seq(Events)
        /\ Range(<<x>>) = {x} /\ Range(<<y>>) = {y} /\ Range(<<>>) = {}
    BY Tuples, RangeOfTuple, RangeOfEmpty
  <2>6. \A s, t \in Seq(Events) : Range(s \o t) = Range(s) \cup Range(t)
    BY RangeConcatenation
  <2>7. Range(<<x>> \o <<y>>) = Range(<<x>>) \cup Range(<<y>>)
    BY <2>5, <2>6, Zenon
  <2>8. Range(<<x>> \o <<>>) = Range(<<x>>) \cup Range(<<>>)
    BY <2>5, <2>6, Zenon
  <2>9. x \in Range(ModifiedAfter(b, r)) /\ Range(ModifiedAfter(b, r)) \subseteq {x, y}
    BY <2>4, <2>5, <2>7, <2>8
  <2> QED BY <1>1, <1>3, <2>3, <2>9
<1> QED BY <1>2, <1>3

LEMMA DataFacts ==
    ASSUME AnyTime, RestInv, Taking("data")
    PROVE  /\ TypeOK /\ AloneInv /\ CopyInv /\ app = Idle /\ app.at = "idle" /\ bus # <<>>
           /\ Head(bus).type = "data" /\ Head(bus) \in Events
           /\ Head(bus).buffer \in Dumpable /\ Target \in Dumpable /\ Rerouted \in BOOLEAN
           /\ Rerouted => /\ Leads(Head(bus))
                          /\ Head(bus).buffer = EditBuffer => /\ Target \in Programs
                                                              /\ Head(bus).content = raw
                          /\ Head(bus).buffer # EditBuffer => /\ Head(bus).buffer \in Programs
                                                              /\ Target = EditBuffer
           /\ ~Rerouted => Target = Head(bus).buffer /\ reroute[Head(bus).buffer] = NoRoute
           /\ Head(bus).origin \in {"UI", "MIDI"}
           /\ ~Rerouted /\ Head(bus).buffer # EditBuffer =>
                 /\ Has(IF Head(bus).origin = "UI" THEN data ELSE devProgs, Head(bus).buffer, Head(bus).content)
                 /\ Head(bus).origin = "MIDI" => Leads(Head(bus))
           /\ TakeRoute => \A c \in Dumpable : reroute'[c] = NoRoute
<1>1. /\ TypeOK /\ AloneInv /\ CopyInv /\ app = Idle /\ app.at = "idle" /\ bus # <<>>
      /\ Head(bus).type = "data" /\ Head(bus) \in Events /\ Head(bus) \in Range(bus)
  BY TakingTyped, TakenFrom DEF Taking, Idle, AnyTime, RestInv, FlightInv
<1>2. /\ Target \in Dumpable /\ Rerouted \in BOOLEAN
      /\ Head(bus).buffer \in Dumpable /\ Head(bus).origin \in {"UI", "MIDI"}
  BY <1>1, TargetTyped, EventKinds DEF Origins
<1>3. Rerouted => /\ Leads(Head(bus))
                  /\ Head(bus).buffer = EditBuffer => Target \in Programs /\ Head(bus).content = raw
                  /\ Head(bus).buffer # EditBuffer => /\ Head(bus).buffer \in Programs
                                                      /\ Target = EditBuffer
  BY <1>1, <1>2, RouteLeads DEF Rerouted, Target
<1>4. ~Rerouted => Target = Head(bus).buffer /\ reroute[Head(bus).buffer] = NoRoute
  BY DEF Rerouted, Target
<1>5. ~Rerouted /\ Head(bus).buffer # EditBuffer =>
          /\ Has(IF Head(bus).origin = "UI" THEN data ELSE devProgs, Head(bus).buffer, Head(bus).content)
          /\ Head(bus).origin = "MIDI" => Leads(Head(bus))
  <2>1. Head(bus).buffer # EditBuffer =>
          Has(IF Head(bus).origin = "UI" THEN data ELSE devProgs, Head(bus).buffer, Head(bus).content)
    BY <1>1 DEF RestInv, FlightInv, CarryInv
  <2>2. Head(bus).buffer # EditBuffer /\ Head(bus).origin = "MIDI" => Leads(Head(bus))
    BY <1>1 DEF Leads
  <2> QED BY <2>1, <2>2
<1>6. ASSUME TakeRoute, NEW c \in Dumpable PROVE reroute'[c] = NoRoute
  <2>1. reroute[c] # NoRoute => c = Head(bus).buffer
    BY <1>1, RouteLeads DEF Produces
  <2>2. reroute \in [Dumpable -> Single \cup {NoRoute}]
    BY <1>1 DEF TypeOK
  <2> QED BY <1>2, <1>6, <2>1, <2>2 DEF TakeRoute
<1> QED BY <1>1, <1>2, <1>3, <1>4, <1>5, <1>6

LEMMA DataToDeviceKeeps ==
    ASSUME AnyTime, RestInv, DataToDevice
    PROVE  RestInv'
<1>1. /\ TypeOK /\ AloneInv /\ CopyInv /\ app = Idle /\ app.at = "idle" /\ bus # <<>>
      /\ Head(bus).type = "data" /\ ~Rerouted /\ Head(bus).origin = "UI"
      /\ reroute[Head(bus).buffer] = NoRoute
      /\ \A c \in Dumpable : reroute'[c] = NoRoute
      /\ UNCHANGED <<uiq, prog, prev, ctq, raw, edited, data, names, modified, shown, devProgs, app, toDev,
                     fromDev>>
  BY DataFacts DEF DataToDevice, FromMidi, uiVars, editVars, dumpVars, devVars
<1>2. PICK b \in Dumpable : /\ b = Head(bus).buffer /\ b = Target
                            /\ b # EditBuffer => Has(data, b, Head(bus).content)
  BY <1>1, DataFacts DEF DataToDevice
<1>3. ~Led
  BY <1>1, Trailing DEF Leads
<1>4. PICK y \in Events : y = MsgOut(DumpMsg(b, Head(bus).content))
  BY <1>2, TargetTyped, MsgsTyped, EventsTyped DEF DataToDevice, AnyTime
<1>5. y.type = "out" /\ y.msg.cmd = "dump" /\ y.msg.buffer = b /\ y.msg.content = Head(bus).content
  BY <1>4 DEF MsgOut, DumpMsg
<1>6. PICK evs \in Seq(Events) :
          /\ Reply(evs) /\ Range(evs) = {y} \cup Range(ModifiedAfter(b, FALSE))
  <2>1. ModifiedAfter(b, FALSE) \in Seq(Events) /\ <<y>> \in Seq(Events) /\ Range(<<y>>) = {y}
    BY AfterKinds, Tuples, RangeOfTuple
  <2>2. \A s, t \in Seq(Events) : Range(s \o t) = Range(s) \cup Range(t)
    BY RangeConcatenation
  <2>3. Range(<<y>> \o ModifiedAfter(b, FALSE)) = Range(<<y>>) \cup Range(ModifiedAfter(b, FALSE))
    BY <2>1, <2>2, Zenon
  <2>4. <<y>> \o ModifiedAfter(b, FALSE) \in Seq(Events)
    BY <2>1, Tuples, Zenon
  <2>5. Reply(<<y>> \o ModifiedAfter(b, FALSE))
    BY <1>2, <1>4 DEF DataToDevice
  <2> QED BY <2>1, <2>3, <2>4, <2>5
<1>7. \A x \in Range(evs) : \/ x = y
                            \/ x.type = "modified" /\ x.buffer = b /\ x.flag = (b = EditBuffer)
                            \/ x.type = "store" /\ x.buffer = EditBuffer
  BY <1>6, AfterKinds
<1>8. /\ Range(bus') = Range(Tail(bus)) \cup Range(evs)
      /\ Range(bus) = {Head(bus)} \cup Range(Tail(bus)) /\ Calm
  BY <1>1, <1>6, Answer
<1>9. AloneInv'
  <2>1. \A x \in Range(evs) : ~Leads(x)'
    <3>1. ~Leads(y)'
      BY <1>5 DEF Leads, LeadsOut
    <3> QED BY <1>1, <1>7, <3>1, BufferSets DEF Leads
  <2>2. Calm' /\ app'.at # "reload"
    BY <1>1, <1>8 DEF Calm
  <2> QED BY <1>1, <1>6, <2>1, <2>2, AnswerRests
<1>10. FlightInv'
  <2>1. Harmless(y)
    BY <1>2, <1>5 DEF Harmless, Carries
  <2>2. \A x \in Range(evs) : Harmless(x)
    <3>1. b # Current
      BY DEF Dumpable
    <3>2. CASE b = EditBuffer
      BY <1>7, <2>1, <3>2 DEF Harmless
    <3>3. CASE b # EditBuffer
      BY <1>7, <2>1, <3>1, <3>3 DEF Harmless
    <3> QED BY <3>2, <3>3
  <2>3. /\ reroute'[EditBuffer] = NoRoute
        /\ \A p \in Programs : reroute'[p] \in {NoRoute, EditBuffer}
    BY <1>1, BufferSets
  <2> QED BY <1>1, <1>8, <2>2, <2>3, KeepFlight DEF RestInv
<1>11. \A p \in Programs : b \in {p, All} => Going(p)'
  BY <1>5, <1>6, <1>8 DEF Going, Delivers
<1>12. \A p \in Programs : Going(p) => Going(p)'
  <2> SUFFICES ASSUME NEW p \in Programs, Going(p), b \notin {p, All} PROVE Going(p)'
    BY <1>11
  <2>1. /\ \A e \in Range(bus) : e = Head(bus) \/ e \in Range(bus')
        /\ Head(bus).buffer \notin {p, All} /\ reroute'[p] = NoRoute /\ reroute'[All] = NoRoute
    BY <1>1, <1>2, <1>8, BufferSets
  <2> QED BY <1>1, <2>1 DEF Going
<1>13. /\ \A c, f : Marking(c, f) => Marking(c, f)'
       /\ NameComes => NameComes'
  BY <1>1, <1>6, AnswerKeeps
<1>14. Fetching => Fetching'
  BY <1>1, <1>8 DEF Fetching
<1>15. StateInv'
  BY <1>1, <1>12, <1>13, <1>14, KeepState DEF RestInv
<1>16. UnmarkInv'
  <2> SUFFICES ASSUME NEW p \in Programs, Marking(p, FALSE)' \/ Marking(All, FALSE)'
               PROVE  data[p] = devProgs[p] \/ Going(p)'
    BY <1>1 DEF UnmarkInv
  <2>1. CASE Marking(p, FALSE) \/ Marking(All, FALSE)
    BY <1>12, <2>1 DEF RestInv, UnmarkInv
  <2>2. CASE ~(Marking(p, FALSE) \/ Marking(All, FALSE))
    <3>1. PICK x \in Range(evs) : x.type = "modified" /\ x.buffer \in {p, All}
      BY <1>8, <2>2 DEF Marking
    <3>2. b \in {p, All}
      BY <1>5, <1>7, <3>1
    <3> QED BY <1>11, <3>2
  <2> QED BY <2>1, <2>2
<1> QED BY <1>9, <1>10, <1>15, <1>16 DEF RestInv

LEMMA LoadEditNames ==
    ASSUME TypeOK, NEW d \in Patch, LoadEdit(d)
    PROVE  /\ raw' = d /\ Range(ctq) \subseteq Range(ctq')
           /\ NameComes'
<1>1. PICK n \in Signals : n = NameSignal("NONE")
  BY SignalsTyped
<1>2. PICK c \in Seq(Signals) : ctq' = ctq \o c \o <<n>>
  <2>1. d.val \in Vals
    BY DEF Patch
  <2>2. /\ <<>> \in Seq(Signals)
        /\ <<ControlSignal(d.val, "NONE")>> \in Seq(Signals)
    BY <2>1, SignalsTyped, Tuples
  <2> QED BY <1>1, <2>2 DEF LoadEdit
<1>3. /\ ctq \in Seq(Signals) /\ <<n>> \in Seq(Signals) /\ ctq \o c \in Seq(Signals)
      /\ Range(<<n>>) = {n}
  BY <1>2, QueueTypes, Tuples, RangeOfTuple
<1>4. \A s, t \in Seq(Signals) : Range(s \o t) = Range(s) \cup Range(t)
  BY RangeConcatenation
<1>5. Range(ctq \o c) = Range(ctq) \cup Range(c)
  BY <1>3, <1>4, Zenon
<1>6. Range(ctq \o c \o <<n>>) = Range(ctq \o c) \cup Range(<<n>>)
  BY <1>3, <1>4, Zenon
<1>7. Range(ctq) \subseteq Range(ctq') /\ n \in Range(ctq')
  BY <1>2, <1>3, <1>5, <1>6
<1>8. raw' = d /\ n.key = "name_change"
  BY <1>1 DEF LoadEdit, NameSignal
<1> QED BY <1>7, <1>8 DEF NameComes

LEMMA DataToEditBufferKeeps ==
    ASSUME AnyTime, RestInv, DataToEditBuffer
    PROVE  RestInv'
<1>1. /\ TypeOK /\ AloneInv /\ CopyInv /\ app = Idle /\ app.at = "idle" /\ bus # <<>>
      /\ Head(bus).type = "data" /\ Target = EditBuffer
      /\ \A c \in Dumpable : reroute'[c] = NoRoute
      /\ Head(bus).buffer \in Dumpable /\ Head(bus).buffer # All /\ Rerouted \in BOOLEAN
      /\ UNCHANGED <<uiq, prog, prev, edited, data, names, modified, shown, devProgs, app, toDev, fromDev>>
      /\ LoadEdit(Head(bus).content) /\ Reply(ModifiedAfter(EditBuffer, Rerouted))
      /\ Rerouted \/ Head(bus).origin = "MIDI"
      /\ ~Rerouted => Target = Head(bus).buffer
  <2>1. Taking("data") /\ Target = EditBuffer /\ TakeRoute
    BY DEF DataToEditBuffer
  <2>2. Head(bus).buffer # All
    BY <2>1, DataFacts, BufferSets DEF Rerouted, TypeOK
  <2> QED BY <2>1, <2>2, DataFacts DEF DataToEditBuffer, FromMidi, uiVars, dumpVars, devVars
<1>2. Head(bus).content \in Patch
  <2>1. Target # All
    BY <1>1, BufferSets
  <2> QED BY <1>1, <2>1, TargetTyped DEF DataToEditBuffer
<1>3. PICK evs \in Seq(Events) :
          /\ Reply(evs)
          /\ \A x \in Range(evs) : \/ x.type = "modified" /\ x.buffer = EditBuffer /\ x.flag = TRUE
                                   \/ x.type = "store" /\ x.buffer = EditBuffer
          /\ \E x \in Range(evs) : x.type = "modified" /\ x.buffer = EditBuffer /\ x.flag = TRUE
  <2>1. /\ ModifiedAfter(EditBuffer, Rerouted) \in Seq(Events)
        /\ \A x \in Range(ModifiedAfter(EditBuffer, Rerouted)) :
              \/ x.type = "modified" /\ x.buffer = EditBuffer /\ x.flag = TRUE
              \/ x.type = "store" /\ x.buffer = EditBuffer
        /\ \E x \in Range(ModifiedAfter(EditBuffer, Rerouted)) :
              x.type = "modified" /\ x.buffer = EditBuffer /\ x.flag = TRUE
    <3>1. EditBuffer \in Dumpable /\ Rerouted \in BOOLEAN
      BY <1>1, BufferSets
    <3> DEFINE flag == (EditBuffer = EditBuffer \/ Rerouted)
    <3>2. flag = TRUE
      OBVIOUS
    <3>3. /\ ModifiedAfter(EditBuffer, Rerouted) \in Seq(Events)
          /\ \A x \in Range(ModifiedAfter(EditBuffer, Rerouted)) :
                \/ x.type = "modified" /\ x.buffer = EditBuffer /\ x.flag = flag
                \/ x.type = "store" /\ x.buffer = EditBuffer
          /\ \E x \in Range(ModifiedAfter(EditBuffer, Rerouted)) :
                x.type = "modified" /\ x.buffer = EditBuffer /\ x.flag = flag
      BY <3>1, AfterKinds
    <3> HIDE DEF flag
    <3> QED BY <3>2, <3>3
  <2> QED BY <1>1, <2>1
<1>4. /\ Range(bus') = Range(Tail(bus)) \cup Range(evs)
      /\ Range(bus) = {Head(bus)} \cup Range(Tail(bus)) /\ Calm
  BY <1>1, <1>3, Answer
<1>5. raw' = Head(bus).content /\ Range(ctq) \subseteq Range(ctq') /\ NameComes'
  BY <1>1, <1>2, LoadEditNames
<1>6. AloneInv'
  <2>1. \A x \in Range(evs) : ~Leads(x)'
    BY <1>1, <1>3, BufferSets DEF Leads
  <2>2. Calm' /\ app'.at # "reload"
    BY <1>1, <1>4 DEF Calm
  <2> QED BY <1>1, <1>3, <2>1, <2>2, AnswerRests
<1>7. FlightInv'
  <2>1. \A x \in Range(evs) : Harmless(x)
    BY <1>3, BufferSets DEF Harmless
  <2>2. /\ reroute'[EditBuffer] = NoRoute
        /\ \A p \in Programs : reroute'[p] \in {NoRoute, EditBuffer}
    BY <1>1, BufferSets
  <2> QED BY <1>1, <1>4, <2>1, <2>2, KeepFlight DEF RestInv
<1>8. \A p \in Programs : Going(p) => Going(p)'
  <2>1. CASE Rerouted
    <3>1. reroute[Head(bus).buffer] # NoRoute
      BY <2>1 DEF Rerouted
    <3> QED BY <1>1, <1>4, <3>1, BufferSets DEF Going
  <2>2. CASE ~Rerouted
    <3>1. Head(bus).origin # "UI"
      BY <1>1, <2>2
    <3> QED BY <1>1, <1>4, <3>1, BufferSets DEF Going
  <2> QED BY <2>1, <2>2
<1>9. \A b, f : Marking(b, f) => Marking(b, f)'
  BY <1>1, <1>3, AnswerKeeps
<1>10. Fetching => Fetching'
  BY <1>1, <1>4 DEF Fetching
<1>11. Marking(EditBuffer, TRUE)'
  BY <1>3, <1>4 DEF Marking
<1>12. NamesInv'
  <2>1. InEdit' = InEdit
    BY <1>1 DEF InEdit
  <2>2. \A p \in Programs : p # InEdit => names[p] = data[p].name
    BY DEF RestInv, StateInv, NamesInv
  <2> QED BY <1>1, <1>5, <2>1, <2>2 DEF NamesInv, NameComes
<1>13. StateInv'
  BY <1>1, <1>8, <1>9, <1>10, <1>11, <1>12, EditMarked DEF RestInv
<1>14. UnmarkInv'
  <2>1. \A b \in Programs \cup {All} : Marking(b, FALSE)' => Marking(b, FALSE)
    BY <1>3, <1>4, BufferSets DEF Marking
  <2> QED BY <1>1, <1>8, <2>1, KeepUnmark DEF RestInv
<1> QED BY <1>6, <1>7, <1>13, <1>14 DEF RestInv

\* When one event leads, nothing else is under way.
LEMMA AloneFacts ==
    ASSUME AnyTime, RestInv, app = Idle, bus # <<>>, Leads(Head(bus))
    PROVE  /\ Range(bus) = {Head(bus)} /\ Tail(bus) = <<>>
           /\ toDev = <<>> /\ fromDev = <<>> /\ ctq = <<>> /\ Calm
           /\ Range(toDev) = {} /\ Range(fromDev) = {} /\ Range(ctq) = {}
           /\ Head(bus).type # "modified" => \A b, f : ~Marking(b, f)
           /\ Head(bus).type # "cc" => ~NameComes
           /\ \A p : Going(p) => Head(bus).type \in {"data", "out"}
<1>1. OnlyBus /\ Range(bus) = {Head(bus)} /\ Tail(bus) = <<>>
  BY Leading, Lengths DEF AnyTime, RestInv
<1>2. /\ toDev = <<>> /\ fromDev = <<>> /\ ctq = <<>> /\ Calm
      /\ Range(toDev) = {} /\ Range(fromDev) = {} /\ Range(ctq) = {}
  BY <1>1, RangeOfEmpty DEF OnlyBus
<1>3. Head(bus).type # "modified" => \A b, f : ~Marking(b, f)
  BY <1>1 DEF Marking
<1>4. Head(bus).type # "cc" => ~NameComes
  BY <1>1, <1>2 DEF NameComes
<1>5. \A p : Going(p) => Head(bus).type \in {"data", "out"}
  BY <1>1, <1>2 DEF Going
<1> QED BY <1>1, <1>2, <1>3, <1>4, <1>5

\* What a program is given, and that nothing else is under way.
LEMMA ProgramFacts ==
    ASSUME AnyTime, RestInv, DataToProgram
    PROVE  /\ TypeOK /\ AloneInv /\ CopyInv /\ app = Idle /\ app.at = "idle" /\ bus # <<>>
           /\ Head(bus).type = "data" /\ Leads(Head(bus)) /\ Target \in Programs /\ Rerouted \in BOOLEAN
           /\ \A c \in Dumpable : reroute'[c] = NoRoute
           /\ UNCHANGED <<uiq, prog, prev, ctq, raw, edited, modified, shown, devProgs, toDev, fromDev>>
           /\ Rerouted => Head(bus).content = raw
           /\ ~Rerouted => Head(bus).content = devProgs[Target]
           /\ Range(bus) = {Head(bus)} /\ Tail(bus) = <<>> /\ toDev = <<>> /\ fromDev = <<>> /\ ctq = <<>>
           /\ Range(toDev) = {} /\ Range(fromDev) = {} /\ Range(ctq) = {} /\ Calm
           /\ (\A b, f : ~Marking(b, f)) /\ ~NameComes /\ (\A p \in Programs : ~Going(p)) /\ ~Fetching
           /\ prev = prog \/ (prog = Hidden /\ prev = Manual)
           /\ \A p \in Programs : prev = p <=> prog = p
           /\ InEdit = prev
           /\ data' = [data EXCEPT ![Target] = Head(bus).content]
           /\ names' = [names EXCEPT ![Target] = Head(bus).content.name]
<1>1. /\ Taking("data") /\ FromMidi /\ Target \in Programs /\ TakeRoute
      /\ data' = [data EXCEPT ![Target] = Head(bus).content]
      /\ names' = [names EXCEPT ![Target] = Head(bus).content.name]
      /\ UNCHANGED <<uiq, prog, prev, ctq, raw, edited, modified, shown, devProgs, toDev, fromDev>>
  BY DEF DataToProgram, uiVars, editVars, devVars
<1>2. Target # EditBuffer /\ Target # All
  BY <1>1, PodCoreAssumption
<1>3. /\ TypeOK /\ AloneInv /\ CopyInv /\ app = Idle /\ app.at = "idle" /\ bus # <<>>
      /\ Head(bus).type = "data" /\ Rerouted \in BOOLEAN /\ Head(bus).buffer \in Dumpable
      /\ \A c \in Dumpable : reroute'[c] = NoRoute
  BY <1>1, DataFacts
<1>4. Rerouted => /\ Leads(Head(bus)) /\ Head(bus).content = raw
                  /\ Head(bus).buffer = EditBuffer /\ reroute[Head(bus).buffer] # NoRoute
  BY <1>1, <1>2, DataFacts DEF Rerouted
<1>5. ~Rerouted => /\ Leads(Head(bus)) /\ Head(bus).content = devProgs[Target]
                   /\ Head(bus).buffer = Target /\ Head(bus).origin = "MIDI"
  <2> SUFFICES ASSUME ~Rerouted
               PROVE  /\ Leads(Head(bus)) /\ Head(bus).content = devProgs[Target]
                      /\ Head(bus).buffer = Target /\ Head(bus).origin = "MIDI"
    OBVIOUS
  <2>1. Head(bus).buffer = Target /\ Head(bus).origin = "MIDI"
    BY <1>1, DataFacts DEF FromMidi
  <2>2. /\ Leads(Head(bus))
        /\ Has(IF Head(bus).origin = "UI" THEN data ELSE devProgs, Head(bus).buffer, Head(bus).content)
    BY <1>1, <1>2, <2>1, DataFacts
  <2> QED BY <1>2, <2>1, <2>2 DEF Has
<1>6. Leads(Head(bus))
  BY <1>4, <1>5
<1>7. /\ Range(bus) = {Head(bus)} /\ Tail(bus) = <<>> /\ toDev = <<>> /\ fromDev = <<>> /\ ctq = <<>>
      /\ Range(toDev) = {} /\ Range(fromDev) = {} /\ Range(ctq) = {} /\ Calm
      /\ (\A b, f : ~Marking(b, f)) /\ ~NameComes
  BY <1>3, <1>6, AloneFacts
<1>8. \A p \in Programs : ~Going(p)
  BY <1>3, <1>4, <1>5, <1>7 DEF Going
<1>9. ~Fetching
  BY <1>2, <1>3, <1>4, <1>5, <1>7, BufferSets DEF Fetching
<1>10. /\ prev = prog \/ (prog = Hidden /\ prev = Manual)
       /\ \A p \in Programs : prev = p <=> prog = p
       /\ InEdit = prev
  <2>1. \A e \in Range(bus) : e.type # "pc"
    BY <1>3, <1>7
  <2>2. SwitchInv
    BY DEF RestInv, FlightInv
  <2> QED BY <1>3, <1>7, <2>1, <2>2, CaughtUp
<1> QED BY <1>1, <1>3, <1>4, <1>5, <1>6, <1>7, <1>8, <1>9, <1>10

LEMMA DataToProgramKeeps ==
    ASSUME AnyTime, RestInv, DataToProgram
    PROVE  RestInv'
<1>1. PICK p \in Programs : p = Target
  BY ProgramFacts
<1>2. PICK r \in BOOLEAN : r = Rerouted
  BY ProgramFacts
<1>3. /\ \A q \in Programs : q # p => data'[q] = data[q] /\ names'[q] = names[q]
      /\ data'[p] = Head(bus).content /\ names'[p] = data'[p].name
      /\ r => data'[p] = raw
      /\ ~r => data'[p] = devProgs[p]
  BY <1>1, <1>2, ProgramFacts DEF TypeOK, Dump
<1>4. \A q \in Programs : modified[q] \/ data[q] = devProgs[q]
  BY ProgramFacts DEF RestInv, StateInv, MarkedInv
<1>5. \A q \in Programs : q # prev => names[q] = data[q].name
  BY ProgramFacts DEF RestInv, StateInv, NamesInv, NameComes
<1>6. numbered(prev) /\ ~edited => raw = data[prev] /\ raw = devProgs[prev]
  <2>1. ~Marking(EditBuffer, TRUE) /\ ~Marking(Current, TRUE) /\ app.at # "reload" /\ InEdit = prev
    BY ProgramFacts
  <2> QED BY <2>1 DEF RestInv, StateInv, EditInv
<1>7. \A q \in Programs : shown[q] = modified[q]
  <2>1. (\A b, f : ~Marking(b, f)) /\ app.at # "show"
    BY ProgramFacts
  <2> QED BY <2>1 DEF RestInv, StateInv, ShownInv
<1>8. /\ TypeOK /\ AloneInv /\ CopyInv /\ app = Idle /\ app.at = "idle" /\ bus # <<>>
      /\ UNCHANGED <<uiq, prog, prev, ctq, raw, edited, modified, shown, devProgs, toDev, fromDev>>
      /\ toDev = <<>> /\ fromDev = <<>> /\ ctq = <<>> /\ Calm
      /\ Range(toDev) = {} /\ Range(fromDev) = {} /\ Range(ctq) = {} /\ Range(Tail(bus)) = {}
      /\ Tail(bus) = <<>>
      /\ reroute'[EditBuffer] = NoRoute
      /\ \A q \in Programs : reroute'[q] = NoRoute
      /\ \A q \in Programs : prev = q <=> prog = q
      /\ (prog = Hidden => prev = Manual)
  <2>1. prog = Hidden => prev = Manual
    BY DEF RestInv, FlightInv, SwitchInv
  <2>2. /\ reroute'[EditBuffer] = NoRoute
        /\ \A q \in Programs : reroute'[q] = NoRoute
    BY ProgramFacts, BufferSets
  <2>3. Range(Tail(bus)) = {}
    BY ProgramFacts, RangeOfEmpty
  <2> QED BY <2>1, <2>2, <2>3, ProgramFacts
<1>9. CASE prog = p
  <2>1. /\ app' = [at |-> "reload", buffer |-> p, rerouted |-> r]
        /\ Reply(<<>>)
    BY <1>1, <1>2, <1>9 DEF DataToProgram
  <2>2. bus' = <<>> /\ Range(bus') = {}
    <3>1. <<>> \o <<>> = <<>>
      OBVIOUS
    <3> QED BY <1>8, <2>1, <3>1, RangeOfEmpty DEF Reply
  <2>3. app'.at = "reload" /\ app'.buffer = p /\ app'.rerouted = r
    BY <2>1
  <2>4. AloneInv'
    BY <1>8, <1>9, <2>2, <2>3 DEF AloneInv, Calm
  <2>5. FlightInv'
    <3>1. SwitchInv'
      BY <1>8, <2>2, <2>3 DEF SwitchInv
    <3>2. CopyInv' /\ CarryInv' /\ EditMarksInv'
      BY <1>8, <2>2 DEF CopyInv, CarryInv, EditMarksInv
    <3> QED BY <3>1, <3>2 DEF FlightInv
  <2>6. InEdit' = prev /\ prev = p
    BY <1>8, <1>9, <2>3 DEF InEdit
  <2>7. UnmarkInv'
    <3>1. \A b, f : ~Marking(b, f)'
      BY <2>2 DEF Marking
    <3> QED BY <1>3, <1>8, <2>3, <3>1 DEF UnmarkInv
  <2>8. MarkedInv'
    BY <1>3, <1>4, <1>8, <2>3 DEF MarkedInv
  <2>9. EditInv'
    BY <1>3, <1>6, <1>8, <2>3, <2>6 DEF EditInv
  <2>10. ReloadInv' /\ ShowInv'
    BY <1>3, <1>8, <2>3 DEF ReloadInv, ShowInv
  <2>11. NamesInv'
    BY <1>3, <1>5, <2>3, <2>6 DEF NamesInv
  <2>12. ShownInv'
    BY <1>7, <1>8 DEF ShownInv
  <2> QED BY <2>4, <2>5, <2>7, <2>8, <2>9, <2>10, <2>11, <2>12 DEF RestInv, StateInv
<1>10. CASE prog # p
  <2>1. app' = app /\ Reply(ModifiedAfter(p, r))
    BY <1>1, <1>2, <1>10 DEF DataToProgram
  <2>2. PICK evs \in Seq(Events) :
            /\ Reply(evs)
            /\ \A x \in Range(evs) : x.type = "modified" /\ x.buffer = p /\ x.flag = r
            /\ \E x \in Range(evs) : x.type = "modified" /\ x.buffer = p /\ x.flag = r
    <3>1. p \in Dumpable /\ p # EditBuffer
      BY BufferSets, PodCoreAssumption
    <3>2. ModifiedAfter(p, r) = <<ModEvent(p, r)>>
      BY <3>1 DEF ModifiedAfter
    <3>3. /\ ModEvent(p, r).type = "modified" /\ ModEvent(p, r).buffer = p /\ ModEvent(p, r).flag = r
          /\ Range(<<ModEvent(p, r)>>) = {ModEvent(p, r)}
      BY RangeOfTuple DEF ModEvent
    <3>4. ModifiedAfter(p, r) \in Seq(Events)
      BY <3>1, ModifiedAfterTyped
    <3> QED BY <2>1, <3>2, <3>3, <3>4
  <2>3. Range(bus') = Range(evs)
    BY <1>8, <2>2, Answer
  <2>4. AloneInv'
    <3>1. \A x \in Range(bus') : ~Leads(x)'
      BY <2>2, <2>3 DEF Leads
    <3>2. ~Led'
      BY <1>8, <2>1, <3>1 DEF Led, Calm
    <3> QED BY <3>2 DEF Led, AloneInv
  <2>5. FlightInv'
    <3>1. SwitchInv'
      BY <1>8, <2>1, <2>2, <2>3 DEF SwitchInv
    <3>2. CopyInv' /\ CarryInv'
      BY <1>8, <2>2, <2>3 DEF CopyInv, CarryInv
    <3>3. EditMarksInv'
      BY <2>2, <2>3, PodCoreAssumption DEF EditMarksInv
    <3> QED BY <3>1, <3>2, <3>3 DEF FlightInv
  <2>6. InEdit' = prev /\ prev # p
    BY <1>8, <1>10, <2>1 DEF InEdit
  <2>7. Marking(p, r)' /\ \A b, f : Marking(b, f)' => b = p /\ f = r
    BY <2>2, <2>3 DEF Marking
  <2>8. UnmarkInv'
    BY <1>3, <1>8, <2>1, <2>7, PodCoreAssumption DEF UnmarkInv
  <2>9. MarkedInv'
    <3> SUFFICES ASSUME NEW q \in Programs
                 PROVE  modified'[q] \/ data'[q] = devProgs'[q] \/ Marking(q, TRUE)'
      BY DEF MarkedInv
    <3>1. CASE q = p
      BY <1>3, <1>8, <2>7, <3>1
    <3>2. CASE q # p
      <4>1. modified[q] => modified'[q]
        BY <1>8, Zenon
      <4> QED BY <1>3, <1>4, <1>8, <3>2, <4>1
    <3> QED BY <3>1, <3>2
  <2>10. EditInv'
    BY <1>3, <1>6, <1>8, <2>6 DEF EditInv, numbered
  <2>11. ReloadInv' /\ ShowInv'
    BY <1>8, <2>1 DEF ReloadInv, ShowInv
  <2>12. NamesInv'
    <3> SUFFICES ASSUME NEW q \in Programs
                 PROVE  names'[q] = (IF q = InEdit' THEN raw' ELSE data'[q]).name \/ (q = InEdit' /\ NameComes')
      BY DEF NamesInv, NameComes
    <3>1. CASE q = p
      BY <1>3, <2>6, <3>1
    <3>2. CASE q # p /\ q # prev
      BY <1>3, <1>5, <2>6, <3>2
    <3>3. CASE q = prev
      <4>1. names[q] = raw.name
        BY <3>3, ProgramFacts DEF RestInv, StateInv, NamesInv, NameComes
      <4> QED BY <1>3, <1>8, <2>6, <3>3, <4>1
    <3> QED BY <3>1, <3>2, <3>3
  <2>13. ShownInv'
    BY <1>7, <1>8 DEF ShownInv
  <2> QED BY <2>4, <2>5, <2>8, <2>9, <2>10, <2>11, <2>12, <2>13 DEF RestInv, StateInv
<1> QED BY <1>9, <1>10

LEMMA ReloadKeeps ==
    ASSUME AnyTime, RestInv, Reload
    PROVE  RestInv'
<1>1. /\ TypeOK /\ AloneInv /\ CopyInv /\ app.at = "reload" /\ app' = Idle
      /\ Calm /\ ctq = <<>> /\ bus = <<>> /\ toDev = <<>> /\ fromDev = <<>> /\ prog = app.buffer
      /\ UNCHANGED <<uiq, prog, prev, edited, data, names, modified, shown, devProgs, toDev, fromDev, reroute>>
  BY DEF Reload, uiVars, dumpVars, devVars, AnyTime, RestInv, FlightInv, AloneInv
<1>2. PICK p \in Programs, r \in BOOLEAN : p = app.buffer /\ r = app.rerouted
  BY <1>1 DEF TypeOK, Pauses, Idle
<1>3. /\ Range(bus) = {} /\ Range(ctq) = {} /\ Range(toDev) = {} /\ Range(fromDev) = {}
      /\ Idle.at = "idle"
  BY <1>1, RangeOfEmpty DEF Idle
<1>4. prev = p /\ prog = p /\ InEdit = p /\ InEdit' = p /\ prog # Hidden
  <2>1. \A q \in Programs : prev = q <=> prog = q
    BY <1>1, <1>3, CaughtUp DEF RestInv, FlightInv
  <2> QED BY <1>1, <1>2, <1>3, <2>1, PodCoreAssumption DEF InEdit
<1>5. /\ (\A b, f : ~Marking(b, f)) /\ ~NameComes /\ (\A q : ~Going(q)) /\ ~Fetching
  BY <1>3 DEF Marking, NameComes, Going, Fetching
<1>6. LoadEdit(data[p]) /\ bus' = bus \o ModifiedAfter(p, r)
  BY <1>1, <1>2, <1>4 DEF Reload, numbered
<1>7. raw' = data[p] /\ NameComes'
  <2>1. data[p] \in Patch
    BY <1>1 DEF TypeOK, Dump
  <2> QED BY <1>1, <1>6, <2>1, LoadEditNames
<1>8. PICK evs \in Seq(Events) :
          /\ bus' = bus \o evs
          /\ \A x \in Range(evs) : x.type = "modified" /\ x.buffer = p /\ x.flag = r
          /\ \E x \in Range(evs) : x.type = "modified" /\ x.buffer = p /\ x.flag = r
  <2>1. p \in Dumpable /\ p # EditBuffer
    BY BufferSets, PodCoreAssumption
  <2>2. ModifiedAfter(p, r) = <<ModEvent(p, r)>>
    BY <2>1 DEF ModifiedAfter
  <2>3. /\ ModEvent(p, r).type = "modified" /\ ModEvent(p, r).buffer = p /\ ModEvent(p, r).flag = r
        /\ Range(<<ModEvent(p, r)>>) = {ModEvent(p, r)}
    BY RangeOfTuple DEF ModEvent
  <2>4. ModifiedAfter(p, r) \in Seq(Events)
    BY <2>1, ModifiedAfterTyped
  <2> QED BY <1>6, <2>2, <2>3, <2>4
<1>9. Range(bus') = Range(evs)
  BY <1>1, <1>3, <1>8, QueueTypes, BusAfter
<1>10. reroute[EditBuffer] = NoRoute
  BY <1>3 DEF RestInv, FlightInv, CopyInv
<1>11. AloneInv'
  <2>1. \A x \in Range(bus') : ~Leads(x)'
    BY <1>8, <1>9 DEF Leads
  <2>2. ~Led'
    BY <1>1, <1>3, <2>1 DEF Led, Calm
  <2> QED BY <2>2 DEF Led, AloneInv
<1>12. FlightInv'
  <2>1. SwitchInv'
    BY <1>1, <1>3, <1>4, <1>8, <1>9 DEF SwitchInv
  <2>2. CopyInv' /\ CarryInv'
    BY <1>1, <1>3, <1>8, <1>9, <1>10 DEF CopyInv, CarryInv
  <2>3. EditMarksInv'
    BY <1>8, <1>9, PodCoreAssumption DEF EditMarksInv
  <2> QED BY <2>1, <2>2, <2>3 DEF FlightInv
<1>13. Marking(p, r)' /\ \A b, f : Marking(b, f)' => b = p /\ f = r
  BY <1>8, <1>9 DEF Marking
<1>14. \A q \in Programs : modified[q] \/ data[q] = devProgs[q] \/ (r /\ q = p)
  BY <1>1, <1>2, <1>5 DEF RestInv, StateInv, MarkedInv
<1>15. ~r => data[p] = devProgs[p]
  BY <1>1, <1>2 DEF RestInv, StateInv, ReloadInv
<1>16. UnmarkInv'
  BY <1>1, <1>3, <1>13, <1>15, PodCoreAssumption DEF UnmarkInv
<1>17. MarkedInv'
  <2> SUFFICES ASSUME NEW q \in Programs
               PROVE  modified'[q] \/ data'[q] = devProgs'[q] \/ Marking(q, TRUE)'
    BY DEF MarkedInv
  <2>1. modified[q] => modified'[q]
    BY <1>1, Zenon
  <2>2. r => Marking(p, TRUE)'
    BY <1>13
  <2> QED BY <1>1, <1>14, <2>1, <2>2
<1>18. EditInv'
  <2> SUFFICES ASSUME ~edited PROVE raw' = data[p] /\ raw' = devProgs[p]
    BY <1>1, <1>4 DEF EditInv
  <2>1. CASE r
    <3>1. data[p] = raw
      BY <1>1, <1>2, <2>1 DEF RestInv, StateInv, ReloadInv
    <3>2. raw = devProgs[p]
      BY <1>1, <1>2, <1>4, <1>5, <2>1 DEF RestInv, StateInv, EditInv, numbered
    <3> QED BY <1>7, <3>1, <3>2
  <2>2. CASE ~r
    BY <1>7, <1>15, <2>2
  <2> QED BY <2>1, <2>2
<1>19. ReloadInv' /\ ShowInv'
  BY <1>1, <1>3 DEF ReloadInv, ShowInv
<1>20. NamesInv'
  <2>1. \A q \in Programs : q # p => names[q] = data[q].name
    BY <1>4 DEF RestInv, StateInv, NamesInv
  <2> QED BY <1>1, <1>4, <1>7, <2>1 DEF NamesInv, NameComes
<1>21. ShownInv'
  <2>1. \A q \in Programs : shown[q] = modified[q]
    BY <1>1, <1>5 DEF RestInv, StateInv, ShownInv
  <2> QED BY <1>1, <2>1 DEF ShownInv
<1> QED BY <1>11, <1>12, <1>16, <1>17, <1>18, <1>19, <1>20, <1>21 DEF RestInv, StateInv

LEMMA DataToAllKeeps ==
    ASSUME AnyTime, RestInv, DataToAll
    PROVE  RestInv'
<1>1. /\ Taking("data") /\ FromMidi /\ Target = All /\ TakeRoute
      /\ data' = Head(bus).content /\ names' = NamesOf(Head(bus).content)
      /\ Reply(ModifiedAfter(All, Rerouted))
      /\ UNCHANGED <<uiq, prog, prev, edited, modified, shown, devProgs, toDev, fromDev, app>>
  BY DEF DataToAll, uiVars, devVars
<1>2. All # EditBuffer /\ All \notin Programs /\ All \in Dumpable
  BY PodCoreAssumption, BufferSets
<1>3. /\ TypeOK /\ AloneInv /\ CopyInv /\ app = Idle /\ app.at = "idle" /\ bus # <<>>
      /\ Head(bus).type = "data" /\ ~Rerouted
      /\ \A c \in Dumpable : reroute'[c] = NoRoute
  BY <1>1, <1>2, DataFacts
<1>4. Head(bus).buffer = All /\ Head(bus).origin = "MIDI"
  BY <1>1, <1>3, DataFacts DEF FromMidi
<1>5. Leads(Head(bus)) /\ Head(bus).content = devProgs
  <2>1. /\ Leads(Head(bus))
        /\ Has(IF Head(bus).origin = "UI" THEN data ELSE devProgs, Head(bus).buffer, Head(bus).content)
    BY <1>1, <1>2, <1>3, <1>4, DataFacts
  <2> QED BY <1>4, <2>1 DEF Has
<1>6. /\ Range(bus) = {Head(bus)} /\ Tail(bus) = <<>> /\ toDev = <<>> /\ fromDev = <<>> /\ ctq = <<>>
      /\ Range(toDev) = {} /\ Range(fromDev) = {} /\ Range(ctq) = {} /\ Calm /\ Range(Tail(bus)) = {}
      /\ (\A b, f : ~Marking(b, f)) /\ ~NameComes
  BY <1>3, <1>5, AloneFacts, RangeOfEmpty
<1>7. /\ \A p \in Programs : prev = p <=> prog = p
      /\ InEdit = prev /\ InEdit' = prev /\ (prog = Hidden => prev = Manual)
  <2>1. \A e \in Range(bus) : e.type # "pc"
    BY <1>3, <1>6
  <2>2. SwitchInv
    BY DEF RestInv, FlightInv
  <2> QED BY <1>1, <1>3, <1>6, <2>1, <2>2, CaughtUp DEF InEdit, SwitchInv
<1>8. numbered(prog) => raw' = data'[prog] /\ NameComes'
  <2> SUFFICES ASSUME numbered(prog) PROVE raw' = data'[prog] /\ NameComes'
    OBVIOUS
  <2>1. LoadEdit(data'[prog])
    BY <1>1 DEF DataToAll
  <2>2. data'[prog] \in Patch
    BY <1>1, <1>3, <1>5 DEF TypeOK, Dump, numbered
  <2> QED BY <1>3, <2>1, <2>2, LoadEditNames
<1>9. PICK evs \in Seq(Events) :
          /\ Reply(evs)
          /\ \A x \in Range(evs) : x.type = "modified" /\ x.buffer = All
  <2>1. ModifiedAfter(All, Rerouted) = <<ModEvent(All, Rerouted)>>
    BY <1>2 DEF ModifiedAfter
  <2>2. /\ ModEvent(All, Rerouted).type = "modified" /\ ModEvent(All, Rerouted).buffer = All
        /\ Range(<<ModEvent(All, Rerouted)>>) = {ModEvent(All, Rerouted)}
    BY RangeOfTuple DEF ModEvent
  <2>3. ModifiedAfter(All, Rerouted) \in Seq(Events)
    BY <1>2, <1>3, ModifiedAfterTyped DEF Rerouted
  <2> QED BY <1>1, <2>1, <2>2, <2>3
<1>10. Range(bus') = Range(evs)
  BY <1>3, <1>6, <1>9, Answer
<1>11. AloneInv'
  <2>1. \A x \in Range(bus') : ~Leads(x)'
    BY <1>9, <1>10 DEF Leads
  <2>2. ~Led'
    BY <1>1, <1>3, <1>6, <2>1 DEF Led, Calm
  <2> QED BY <2>2 DEF Led, AloneInv
<1>12. FlightInv'
  <2>1. SwitchInv'
    BY <1>1, <1>3, <1>6, <1>7, <1>9, <1>10 DEF SwitchInv
  <2>2. CopyInv' /\ CarryInv'
    BY <1>1, <1>3, <1>6, <1>9, <1>10, BufferSets DEF CopyInv, CarryInv
  <2>3. EditMarksInv'
    BY <1>9, <1>10, PodCoreAssumption DEF EditMarksInv
  <2> QED BY <2>1, <2>2, <2>3 DEF FlightInv
<1>13. \A p \in Programs : data'[p] = devProgs'[p] /\ names'[p] = data'[p].name
  BY <1>1, <1>5 DEF NamesOf
<1>14. UnmarkInv' /\ MarkedInv'
  BY <1>13 DEF UnmarkInv, MarkedInv
<1>15. EditInv'
  BY <1>1, <1>7, <1>8, <1>13 DEF EditInv, numbered
<1>16. ReloadInv' /\ ShowInv'
  BY <1>1, <1>3 DEF ReloadInv, ShowInv
<1>17. NamesInv'
  BY <1>7, <1>8, <1>13 DEF NamesInv, NameComes, numbered
<1>18. ShownInv'
  <2>1. \A q \in Programs : shown[q] = modified[q]
    BY <1>3, <1>6 DEF RestInv, StateInv, ShownInv
  <2> QED BY <1>1, <2>1 DEF ShownInv
<1> QED BY <1>11, <1>12, <1>14, <1>15, <1>16, <1>17, <1>18 DEF RestInv, StateInv

-----------------------------------------------------------------------------
(* A program change.                                                       *)

LEMMA HandleProgramChangeKeeps ==
    ASSUME AnyTime, RestInv, HandleProgramChange
    PROVE  RestInv'
<1>1. /\ TypeOK /\ AloneInv /\ CopyInv /\ app = Idle /\ app.at = "idle" /\ bus # <<>>
      /\ Head(bus).type = "pc" /\ Leads(Head(bus)) /\ Head(bus) \in Range(bus)
      /\ UNCHANGED <<uiq, prog, prev, shown, devProgs, toDev, fromDev>>
      /\ reroute' = NoRoutes /\ data' = SavedData /\ modified' = SavedModified
      /\ names' = (IF numbered(prev) THEN [names EXCEPT ![prev] = raw.name] ELSE names)
      /\ app'.at = "synced"
  BY TakingTyped, TakenFrom
  DEF HandleProgramChange, Taking, Idle, Leads, uiVars, devVars, AnyTime, RestInv, FlightInv
<1>2. /\ Range(bus) = {Head(bus)} /\ Tail(bus) = <<>> /\ toDev = <<>> /\ fromDev = <<>> /\ ctq = <<>>
      /\ Range(toDev) = {} /\ Range(fromDev) = {} /\ Range(ctq) = {} /\ Calm
      /\ (\A b, f : ~Marking(b, f)) /\ ~NameComes /\ (\A p : ~Going(p))
  BY <1>1, AloneFacts
<1>3. ~Fetching
  BY <1>1, <1>2 DEF Fetching
<1>4. uiq = <<>> /\ prog # Hidden /\ (prog = Hidden => prev = Manual) /\ InEdit = prev /\ InEdit' = prog
  BY <1>1 DEF RestInv, FlightInv, SwitchInv, InEdit
<1>5. \A p \in Programs : /\ p # prev => /\ data'[p] = data[p] /\ names'[p] = names[p]
                                         /\ modified'[p] = modified[p]
                          /\ p = prev => /\ data'[p] = raw /\ names'[p] = raw.name
                                         /\ edited => modified'[p] = TRUE
                                         /\ ~edited => modified'[p] = modified[p]
  BY <1>1 DEF TypeOK, Dump, SavedData, SavedModified, numbered
<1>6. /\ \A p \in Programs : modified[p] \/ data[p] = devProgs[p]
      /\ \A p \in Programs : p # prev => names[p] = data[p].name
      /\ \A p \in Programs : shown[p] = modified[p]
  BY <1>1, <1>2, <1>3, <1>4 DEF RestInv, StateInv, MarkedInv, NamesInv, ShownInv
<1>7. numbered(prev) /\ ~edited => raw = devProgs[prev]
  BY <1>1, <1>2, <1>4 DEF RestInv, StateInv, EditInv
<1>8. \A p \in Programs : modified'[p] \/ data'[p] = devProgs'[p]
  <2> SUFFICES ASSUME NEW p \in Programs PROVE modified'[p] \/ data'[p] = devProgs[p]
    BY <1>1
  <2>1. CASE p # prev
    <3>1. modified[p] => modified'[p]
      BY <1>5, <2>1, Zenon
    <3> QED BY <1>5, <1>6, <2>1, <3>1
  <2>2. CASE p = prev
    BY <1>5, <1>7, <2>2 DEF numbered
  <2> QED BY <2>1, <2>2
<1>9. numbered(prog) => raw' = data'[prog] /\ NameComes' /\ edited' = modified'[prog]
  <2> SUFFICES ASSUME numbered(prog) PROVE raw' = data'[prog] /\ NameComes' /\ edited' = modified'[prog]
    OBVIOUS
  <2>1. LoadEdit(data'[prog]) /\ edited' = modified'[prog]
    BY <1>1 DEF HandleProgramChange
  <2>2. data'[prog] \in Patch
    BY <1>1 DEF SavedData, TypeOK, Dump, numbered
  <2> QED BY <1>1, <2>1, <2>2, LoadEditNames
<1>10. PICK evs \in Seq(Events) :
          /\ Reply(evs)
          /\ \A x \in Range(evs) : x.type = "modified" /\ x.buffer = prev /\ x.flag = TRUE /\ prev \in Programs
          /\ numbered(prev) /\ edited =>
                 \E x \in Range(evs) : x.type = "modified" /\ x.buffer = prev /\ x.flag = TRUE
  <2>1. CASE numbered(prev) /\ edited
    <3>1. PICK x \in Events : x = ModEvent(prev, TRUE)
      BY <2>1, BufferSets, EventsTyped DEF numbered
    <3>2. x.type = "modified" /\ x.buffer = prev /\ x.flag = TRUE
      BY <3>1 DEF ModEvent
    <3>3. Reply(<<x>>) /\ <<x>> \in Seq(Events) /\ Range(<<x>>) = {x}
      BY <2>1, <3>1, Tuples, RangeOfTuple DEF HandleProgramChange
    <3> QED BY <2>1, <3>2, <3>3 DEF numbered
  <2>2. CASE ~(numbered(prev) /\ edited)
    <3>1. Reply(<<>>) /\ <<>> \in Seq(Events) /\ Range(<<>>) = {}
      BY <2>2, Tuples, RangeOfEmpty DEF HandleProgramChange
    <3> QED BY <2>2, <3>1
  <2> QED BY <2>1, <2>2
<1>11. Range(bus') = Range(evs)
  BY <1>1, <1>10, Answer
<1>12. AloneInv'
  <2>1. \A x \in Range(bus') : ~Leads(x)'
    BY <1>10, <1>11 DEF Leads
  <2>2. ~Led'
    BY <1>1, <1>2, <1>4, <2>1 DEF Led, Calm
  <2> QED BY <2>2 DEF Led, AloneInv
<1>13. FlightInv'
  <2>1. SwitchInv'
    BY <1>1, <1>2, <1>4, <1>10, <1>11 DEF SwitchInv, Calm
  <2>2. CopyInv' /\ CarryInv'
    BY <1>1, <1>2, <1>10, <1>11, BufferSets DEF CopyInv, CarryInv, NoRoutes
  <2>3. EditMarksInv'
    BY <1>10, <1>11 DEF EditMarksInv
  <2> QED BY <2>1, <2>2, <2>3 DEF FlightInv
<1>14. UnmarkInv'
  <2>1. \A b, f : Marking(b, f)' => f = TRUE
    BY <1>10, <1>11 DEF Marking
  <2> QED BY <1>1, <2>1 DEF UnmarkInv
<1>15. MarkedInv'
  BY <1>8 DEF MarkedInv
<1>16. EditInv'
  <2> SUFFICES ASSUME numbered(prog), ~edited'
               PROVE  raw' = data'[prog] /\ raw' = devProgs'[prog]
    BY <1>1, <1>4 DEF EditInv
  <2>1. ~modified'[prog]
    BY <1>9, Zenon
  <2> QED BY <1>8, <1>9, <2>1 DEF numbered
<1>17. ReloadInv' /\ ShowInv'
  BY <1>1 DEF ReloadInv, ShowInv
<1>18. NamesInv'
  <2> SUFFICES ASSUME NEW p \in Programs
               PROVE  names'[p] = (IF p = InEdit' THEN raw' ELSE data'[p]).name \/ (p = InEdit' /\ NameComes')
    BY DEF NamesInv, NameComes
  <2>1. CASE p = prog
    BY <1>4, <1>9, <2>1 DEF numbered
  <2>2. CASE p # prog
    BY <1>4, <1>5, <1>6, <2>2
  <2> QED BY <2>1, <2>2
<1>19. ShownInv'
  <2> SUFFICES ASSUME NEW p \in Programs
               PROVE  shown'[p] = modified'[p] \/ (Marking(p, TRUE)' /\ modified'[p])
    BY DEF ShownInv
  <2>1. CASE p = prev /\ edited
    <3>1. Marking(p, TRUE)'
      BY <1>10, <1>11, <2>1 DEF Marking, numbered
    <3>2. modified'[p]
      BY <1>5, <2>1
    <3> QED BY <3>1, <3>2
  <2>2. CASE ~(p = prev /\ edited)
    <3>1. modified'[p] = modified[p] /\ shown' = shown
      BY <1>1, <1>5, <2>2
    <3> QED BY <1>6, <3>1
  <2> QED BY <2>1, <2>2
<1> QED BY <1>12, <1>13, <1>14, <1>15, <1>16, <1>17, <1>18, <1>19 DEF RestInv, StateInv

-----------------------------------------------------------------------------
(* Every step, and the beginning.                                          *)

LEMMA RestInit == Init => RestInv
<1> SUFFICES ASSUME Init PROVE RestInv
  OBVIOUS
<1>1. /\ prog = Hidden /\ prev = Manual /\ uiq = <<"program">> /\ ctq = <<>> /\ app = Idle
      /\ bus = <<LoadEvent(All, "UI")>> /\ toDev = <<>> /\ fromDev = <<>>
      /\ reroute = NoRoutes
  BY DEF Init
<1>2. PICK e \in Events : e = LoadEvent(All, "UI")
  BY BufferSets, EventsTyped DEF Origins
<1>3. /\ Range(bus) = {e} /\ Range(ctq) = {} /\ Range(toDev) = {} /\ Range(fromDev) = {}
      /\ app.at = "idle" /\ e.type = "load" /\ e.buffer = All /\ e.origin = "UI"
  BY <1>1, <1>2, RangeOfTuple, RangeOfEmpty DEF Idle, LoadEvent
<1>4. Len(bus) = 1
  BY <1>1
<1>5. OnlyBus
  BY <1>1, <1>4 DEF OnlyBus, Calm
<1>6. AloneInv
  BY <1>1, <1>3, <1>5 DEF AloneInv, OnlyBus
<1>7. SwitchInv /\ CopyInv /\ CarryInv /\ EditMarksInv
  BY <1>1, <1>3, <1>5, BufferSets
  DEF SwitchInv, CopyInv, CarryInv, EditMarksInv, NoRoutes, OnlyBus
<1>8. Fetching /\ \A b, f : ~Marking(b, f)
  BY <1>3 DEF Fetching, Marking
<1>9. UnmarkInv /\ MarkedInv /\ ReloadInv /\ ShowInv
  BY <1>3, <1>8 DEF UnmarkInv, MarkedInv, ReloadInv, ShowInv
<1>10. InEdit \notin Programs
  BY <1>1, <1>3, PodCoreAssumption DEF InEdit
<1>11. EditInv /\ NamesInv
  BY <1>10 DEF Init, EditInv, NamesInv, numbered
<1>12. ShownInv
  BY DEF Init, ShownInv
<1> QED BY <1>6, <1>7, <1>9, <1>11, <1>12 DEF RestInv, FlightInv, StateInv

-----------------------------------------------------------------------------
(* Every step.                                                             *)

LEMMA AppTaskRests ==
    ASSUME AnyTime, RestInv, AppTask
    PROVE  RestInv'
<1>1. CASE HandleControl \/ HandleName \/ HandleProgramChange \/ FinishProgramChange
  BY <1>1, HandleControlKeeps, HandleNameKeeps, HandleProgramChangeKeeps, FinishProgramChangeKeeps
<1>2. CASE HandleLoad \/ HandleStore \/ HandleCopy
  BY <1>2, HandleLoadKeeps, HandleStoreKeeps, HandleCopyKeeps
<1>3. CASE DataToDevice \/ DataToEditBuffer \/ DataToProgram \/ Reload \/ DataToAll
  BY <1>3, DataToDeviceKeeps, DataToEditBufferKeeps, DataToProgramKeeps, ReloadKeeps, DataToAllKeeps
<1>4. CASE HandleModified \/ ShowModified
  BY <1>4, HandleModifiedKeeps, ShowModifiedKeeps
<1>5. CASE MidiControl \/ MidiProgram \/ MidiSysex \/ HandleMsgOut
  BY <1>5, MidiControlKeeps, MidiProgramKeeps, MidiSysexKeeps, HandleMsgOutKeeps
<1> QED BY <1>1, <1>2, <1>3, <1>4, <1>5 DEF AppTask

LEMMA StutterRests == RestInv /\ UNCHANGED vars => RestInv'
<1> SUFFICES ASSUME RestInv, UNCHANGED vars PROVE RestInv'
  OBVIOUS
<1>1. /\ UNCHANGED <<prog, progOrigin, prev, uiq, ctl, ctq, raw, edited, data, names, modified, shown>>
      /\ UNCHANGED <<devEdit, devProgs, toDev, fromDev, bus, app, reroute>>
  BY DEF vars, uiVars, editVars, dumpVars, devVars
<1>2. AloneInv'
  BY <1>1 DEF RestInv, AloneInv, Calm, OnlyUi, OnlyBus, OnlyToDev, OnlyFromDev, Leads
<1>3. FlightInv'
  BY <1>1 DEF RestInv, FlightInv, SwitchInv, CopyInv, CarryInv, EditMarksInv, Calm
<1>4. (\A p : Going(p)' <=> Going(p)) /\ (\A b, f : Marking(b, f)' <=> Marking(b, f))
      /\ (Fetching' <=> Fetching) /\ InEdit' = InEdit
  BY <1>1 DEF Going, Marking, Fetching, InEdit
<1>5. UnmarkInv'
  BY <1>1, <1>4 DEF RestInv, UnmarkInv
<1>6. MarkedInv' /\ EditInv' /\ ReloadInv' /\ ShownInv' /\ ShowInv'
  BY <1>1, <1>4 DEF RestInv, StateInv, MarkedInv, EditInv, ReloadInv, ShownInv, ShowInv
<1>7. NamesInv'
  BY <1>1, <1>4 DEF RestInv, StateInv, NamesInv
<1> QED BY <1>2, <1>3, <1>5, <1>6, <1>7 DEF RestInv, StateInv

LEMMA StepRests == OneAtATime /\ AnyTime /\ RestInv /\ [Next]_vars => RestInv'
<1> SUFFICES ASSUME OneAtATime, AnyTime, RestInv, [Next]_vars PROVE RestInv'
  OBVIOUS
<1>1. CASE User \/ Device
  BY <1>1, ActsKeep
<1>2. CASE System
  BY <1>2, UiSignalKeeps, CtlSignalKeeps, MidiInKeeps, DevReceiveKeeps, AppTaskRests DEF System
<1>3. CASE UNCHANGED vars
  BY <1>3, StutterRests
<1> QED BY <1>1, <1>2, <1>3 DEF Next

\* Only the hidden program was selected by nobody.
LEMMA StepSilent == TypeOK /\ SilentIsHidden /\ [Next]_vars => SilentIsHidden'
<1> SUFFICES ASSUME TypeOK, SilentIsHidden, [Next]_vars PROVE SilentIsHidden'
  OBVIOUS
<1> USE DEF uiVars, SilentIsHidden
<1>1. CASE AppTask
  <2>1. CASE HandleProgramChange \/ FinishProgramChange
    BY <2>1 DEF HandleProgramChange, FinishProgramChange
  <2>2. CASE MidiProgram
    BY <2>2 DEF MidiProgram, SetProgram
  <2> QED BY <1>1, <2>1, <2>2, ProgramUntouched
<1>2. CASE User
  <2>1. CASE NewDevice
    BY <2>1 DEF NewDevice
  <2>2. ASSUME NEW p \in Programs \cup Modes, UserProgram(p) PROVE SilentIsHidden'
    BY <2>2 DEF UserProgram, SetProgram
  <2> QED BY <1>2, <2>1, <2>2 DEF User, UserEdit, UserRename, UserButton, UserGrid, UserLoadUnmodified
<1>3. CASE Device \/ UiSignal \/ CtlSignal \/ MidiIn \/ DevReceive
  BY <1>3 DEF Device, DevKnob, DevProgram, DevRequest, UiSignal, CtlSignal, MidiIn, DevReceive
<1>4. CASE UNCHANGED vars
  BY <1>4 DEF vars
<1> QED BY <1>1, <1>2, <1>3, <1>4 DEF Next, System

LEMMA AnyTimeHolds == Spec => []AnyTime
<1>1. Init => SilentIsHidden
  BY DEF Init, SilentIsHidden
<1>2. Spec => []SilentIsHidden
  BY <1>1, StepSilent, TypeCorrect, PTL DEF Spec
<1>3. TypeOK /\ SilentIsHidden /\ PreviousCatchesUp /\ RouteIsAwaited => AnyTime
  BY DEF AnyTime
<1> QED BY <1>2, <1>3, TypeCorrect, PreviousCorrect, RouteCorrect, PTL

LEMMA Rests == OneAtATime => (Spec => [](AnyTime /\ RestInv))
<1> SUFFICES ASSUME OneAtATime PROVE Spec => [](AnyTime /\ RestInv)
  OBVIOUS
<1>1. AnyTime /\ RestInv /\ [Next]_vars => RestInv'
  BY StepRests
<1> QED BY <1>1, RestInit, AnyTimeHolds, PTL DEF Spec

-----------------------------------------------------------------------------
(* The properties.                                                         *)

LEMMA AtRestEdit ==
    ASSUME AnyTime, RestInv, OneAtATime, Quiescent
    PROVE  /\ MayAct
           /\ \A p \in Programs : InEdit = p <=> prog = p
           /\ numbered(prog) => InEdit = prog
<1>1. MayAct
  BY DEF MayAct, Quiescent, OneAtATime
<1>2. /\ Calm /\ app.at = "idle" /\ \A e \in Range(bus) : e.type # "pc"
  BY <1>1, Resting
<1>3. InEdit = prev /\ \A p \in Programs : prev = p <=> prog = p
  BY <1>2, CaughtUp DEF RestInv, FlightInv
<1> QED BY <1>1, <1>3 DEF numbered

\* As long as one thing is done at a time, with one device, an edit is never
\* lost track of: whenever everything is handled, a program that is not marked
\* modified is as the device has it, in its slot (dump.rs) and, for the selected
\* one, in the edit buffer (edit.rs), whatever was switched, copied, loaded or
\* stored on either side before.
THEOREM UnmodifiedCorrect == OneAtATime => (Spec => []UnmodifiedMatchesDevice)
<1> SUFFICES ASSUME OneAtATime PROVE Spec => []UnmodifiedMatchesDevice
  OBVIOUS
<1>1. AnyTime /\ RestInv => UnmodifiedMatchesDevice
  <2> SUFFICES ASSUME AnyTime, RestInv, Quiescent PROVE
        /\ \A p \in Programs : ~modified[p] => data[p] = devProgs[p]
        /\ numbered(prog) /\ ~edited => raw = devProgs[prog]
    BY DEF UnmodifiedMatchesDevice
  <2>1. /\ \A p : ~Going(p)
        /\ \A b, f : ~Marking(b, f)
        /\ ~Fetching /\ app.at = "idle"
    BY AtRestEdit, Resting
  <2>2. \A p \in Programs : ~modified[p] => data[p] = devProgs[p]
    BY <2>1 DEF RestInv, StateInv, MarkedInv
  <2>3. numbered(prog) /\ ~edited => raw = devProgs[prog]
    BY <2>1, AtRestEdit DEF RestInv, StateInv, EditInv
  <2> QED BY <2>2, <2>3
<1> QED BY <1>1, Rests, PTL

\* Under the same condition the grid of programs (program_grid.rs, main.rs) shows
\* the marks and the names the dump has, and the name in the edit buffer for the
\* selected program, whenever everything is handled.
THEOREM GridCorrect == OneAtATime => (Spec => []GridShowsDump)
<1> SUFFICES ASSUME OneAtATime PROVE Spec => []GridShowsDump
  OBVIOUS
<1>1. AnyTime /\ RestInv => GridShowsDump
  <2> SUFFICES ASSUME AnyTime, RestInv, Quiescent PROVE
        /\ shown = modified
        /\ \A p \in Programs : names[p] = (IF p = prog THEN raw ELSE data[p]).name
    BY DEF GridShowsDump
  <2>1. (\A b, f : ~Marking(b, f)) /\ ~NameComes /\ app.at = "idle"
    BY AtRestEdit, Resting
  <2>2. \A p \in Programs : shown[p] = modified[p]
    BY <2>1 DEF RestInv, StateInv, ShownInv
  <2>3. shown \in [Programs -> BOOLEAN] /\ modified \in [Programs -> BOOLEAN]
    BY DEF AnyTime, TypeOK
  <2>4. shown = modified
    BY <2>2, <2>3
  <2>5. ASSUME NEW p \in Programs
        PROVE  names[p] = (IF p = prog THEN raw ELSE data[p]).name
    <3>1. names[p] = (IF p = InEdit THEN raw ELSE data[p]).name
      BY <2>1 DEF RestInv, StateInv, NamesInv, NameComes
    <3>2. p = InEdit <=> p = prog
      BY AtRestEdit
    <3> QED BY <3>1, <3>2
  <2> QED BY <2>4, <2>5
<1> QED BY <1>1, Rests, PTL

\* Under the same condition a program change (pc_handler in generic.rs) that
\* writes an edited patch to the slot of the program that is left marks the slot:
\* the edit buffer never differs from its slot without being marked itself.
THEOREM SavedEditsCorrect == OneAtATime => (Spec => SavedEditsAreMarked)
<1> SUFFICES ASSUME OneAtATime PROVE Spec => SavedEditsAreMarked
  OBVIOUS
<1> DEFINE Saves == app.at # "synced" /\ app'.at = "synced" /\ numbered(prev) /\ raw # data[prev]
<1>1. AnyTime /\ RestInv /\ [Next]_vars => [Saves => modified'[prev]]_vars
  <2> SUFFICES ASSUME AnyTime, RestInv, Next, Saves PROVE modified'[prev]
    OBVIOUS
  <2>1. HandleProgramChange
    <3>1. ~User /\ ~Device /\ ~UiSignal /\ ~CtlSignal /\ ~MidiIn /\ ~DevReceive
      <4>1. User => app' = app
        BY DEF User, UserEdit, UserRename, UserProgram, UserButton, UserGrid, UserLoadUnmodified,
               NewDevice
      <4>2. Device \/ UiSignal \/ CtlSignal \/ MidiIn \/ DevReceive => app' = app
        BY DEF Device, DevKnob, DevProgram, DevRequest, UiSignal, CtlSignal, MidiIn, DevReceive
      <4> QED BY <4>1, <4>2
    <3>2. HandleControl \/ HandleName \/ HandleLoad \/ HandleStore \/ HandleCopy => app' = app
      BY DEF HandleControl, HandleName, HandleLoad, HandleStore, HandleCopy
    <3>3. DataToDevice \/ DataToEditBuffer \/ DataToAll => app' = app
      BY DEF DataToDevice, DataToEditBuffer, DataToAll
    <3>4. DataToProgram \/ Reload => app'.at # "synced"
      BY DEF DataToProgram, Reload, Idle
    <3>5. FinishProgramChange \/ HandleModified \/ ShowModified => app'.at # "synced"
      BY DEF FinishProgramChange, HandleModified, ShowModified, Idle
    <3>6. MidiControl \/ MidiProgram \/ MidiSysex \/ HandleMsgOut => app' = app
      BY DEF MidiControl, MidiProgram, MidiSysex, HandleMsgOut
    <3> QED BY <3>1, <3>2, <3>3, <3>4, <3>5, <3>6 DEF Next, System, AppTask
  <2>2. app = Idle /\ bus # <<>> /\ Head(bus).type = "pc" /\ modified' = SavedModified
    BY <2>1 DEF HandleProgramChange, Taking
  <2>3. Leads(Head(bus))
    BY <2>2 DEF Leads
  <2>4. \A b, f : ~Marking(b, f)
    BY <2>2, <2>3, AloneFacts
  <2>5. InEdit = prev /\ app.at = "idle"
    BY <2>2 DEF InEdit, Idle
  <2>6. edited
    BY <2>4, <2>5 DEF RestInv, StateInv, EditInv
  <2>7. modified \in [Programs -> BOOLEAN] /\ prev \in Programs
    BY DEF AnyTime, TypeOK, numbered
  <2> QED BY <2>2, <2>6, <2>7 DEF SavedModified, numbered
<1>2. Spec => [][Saves => modified'[prev]]_vars
  BY <1>1, Rests, PTL DEF Spec
<1> QED BY <1>2 DEF SavedEditsAreMarked
=============================================================================
