-------------------------- MODULE XtHandlerProofs --------------------------
(***************************************************************************)
(* Two parts of the PODxt protocol, for every set of programs and effects, *)
(* every device and every interleaving.                                    *)
(*                                                                         *)
(* Stores: a store sent to the device is watched by a marker or a timer,   *)
(* and stores are refused no longer than that.                             *)
(*                                                                         *)
(* What is left over when all is quiet: neither a request, nor a part of   *)
(* the startup, nor a reroute, whatever the user and the device do.  A     *)
(* request is retired by its answer, and the answer does not say whose it  *)
(* is.  So the queue moves on only as long as the end of a dump is under   *)
(* way for the request at its head, and the startup is complete only as    *)
(* long as no end of a dump overtakes the dump it belongs to (Paired).     *)
(* What is left of a reroute depends on more: that a copy is not dropped   *)
(* as long as a status is awaited (StatusInv), and that nothing comes      *)
(* between an entry of the table and the data it is for (RouteShape).      *)
(***************************************************************************)
EXTENDS XtHandlerProps, PodCoreProofs, FiniteSetTheorems

-----------------------------------------------------------------------------
(* What keeps a store from being forgotten is on the bus before it is sent: *)
(* the data of a store is followed by an end marker.                       *)

\* The event makes XtDataOut send a patch dump.
UserStore(e) == e.type = "data" /\ e.origin # "MIDI" /\ e.request = "UI"

Ended(s) ==
    /\ \E S : s \in Seq(S)
    /\ \A i \in 1..Len(s) : UserStore(s[i]) =>
           \E j \in 1..Len(s) : i < j /\ s[j] = Marker("end")

Plain(s) ==
    /\ \E S : s \in Seq(S)
    /\ \A i \in 1..Len(s) : ~UserStore(s[i])

LEMMA CommonSeq ==
    ASSUME NEW s, NEW t, \E S : s \in Seq(S), \E S : t \in Seq(S)
    PROVE  \E S : s \in Seq(S) /\ t \in Seq(S)
<1>1. PICK S : s \in Seq(S)
  OBVIOUS
<1>2. PICK T : t \in Seq(T)
  OBVIOUS
<1>3. s \in Seq(S \cup T)
  BY <1>1, SeqMonotonic
<1>4. t \in Seq(S \cup T)
  BY <1>2, SeqMonotonic
<1> QED BY <1>3, <1>4

LEMMA PlainTuples ==
    /\ Plain(<<>>)
    /\ \A x : ~UserStore(x) => Plain(<<x>>)
    /\ \A x, y : ~UserStore(x) /\ ~UserStore(y) => Plain(<<x, y>>)
<1>1. Plain(<<>>)
  <2>1. <<>> \in Seq({}) /\ Len(<<>>) = 0
    BY EmptySeq
  <2> QED BY <2>1 DEF Plain
<1>2. ASSUME NEW x, ~UserStore(x) PROVE Plain(<<x>>)
  <2>1. <<x>> \in Seq({x})
    BY Tuples
  <2>2. Len(<<x>>) = 1 /\ <<x>>[1] = x
    OBVIOUS
  <2>3. \A i \in 1..1 : ~UserStore(<<x>>[i])
    BY <1>2, <2>2
  <2> QED BY <2>1, <2>2, <2>3 DEF Plain
<1>3. ASSUME NEW x, NEW y, ~UserStore(x), ~UserStore(y) PROVE Plain(<<x, y>>)
  <2>1. <<x, y>> \in Seq({x, y})
    BY Tuples
  <2>2. Len(<<x, y>>) = 2 /\ <<x, y>>[1] = x /\ <<x, y>>[2] = y
    OBVIOUS
  <2>3. \A i \in 1..2 : ~UserStore(<<x, y>>[i])
    BY <1>3, <2>2
  <2> QED BY <2>1, <2>2, <2>3 DEF Plain
<1> QED BY <1>1, <1>2, <1>3

LEMMA PlainConcat ==
    ASSUME NEW s, NEW t, Plain(s), Plain(t)
    PROVE  Plain(s \o t)
<1>1. PICK S : s \in Seq(S) /\ t \in Seq(S)
  BY CommonSeq DEF Plain
<1>2. /\ s \o t \in Seq(S) /\ Len(s) \in Nat /\ Len(t) \in Nat
      /\ Len(s \o t) = Len(s) + Len(t)
      /\ \A i \in 1..(Len(s) + Len(t)) :
             (s \o t)[i] = IF i <= Len(s) THEN s[i] ELSE t[i - Len(s)]
  BY <1>1, ConcatProperties, LenProperties
<1>3. ASSUME NEW i \in 1..Len(s \o t) PROVE ~UserStore((s \o t)[i])
  <2>1. CASE i <= Len(s)
    BY <1>2, <2>1 DEF Plain
  <2>2. CASE ~(i <= Len(s))
    <3>1. i - Len(s) \in 1..Len(t)
      BY <1>2, <2>2
    <3> QED BY <1>2, <2>2, <3>1 DEF Plain
  <2> QED BY <2>1, <2>2
<1> QED BY <1>2, <1>3 DEF Plain

LEMMA PlainIsEnded == \A s : Plain(s) => Ended(s)
BY DEF Plain, Ended

LEMMA EndedConcat ==
    ASSUME NEW s, NEW t, Ended(s), Ended(t)
    PROVE  Ended(s \o t) /\ Range(s \o t) = Range(s) \cup Range(t)
<1>1. PICK S : s \in Seq(S) /\ t \in Seq(S)
  BY CommonSeq DEF Ended
<1>2. /\ s \o t \in Seq(S) /\ Len(s) \in Nat /\ Len(t) \in Nat
      /\ Len(s \o t) = Len(s) + Len(t)
      /\ \A i \in 1..(Len(s) + Len(t)) :
             (s \o t)[i] = IF i <= Len(s) THEN s[i] ELSE t[i - Len(s)]
  BY <1>1, ConcatProperties, LenProperties
<1>3. ASSUME NEW i \in 1..Len(s \o t), UserStore((s \o t)[i])
      PROVE  \E j \in 1..Len(s \o t) : i < j /\ (s \o t)[j] = Marker("end")
  <2>1. CASE i <= Len(s)
    <3>1. i \in 1..Len(s) /\ (s \o t)[i] = s[i]
      BY <1>2, <2>1
    <3>2. PICK j \in 1..Len(s) : i < j /\ s[j] = Marker("end")
      BY <1>3, <3>1 DEF Ended
    <3>3. j \in 1..Len(s \o t) /\ (s \o t)[j] = s[j]
      BY <1>2, <3>2
    <3> QED BY <3>2, <3>3
  <2>2. CASE ~(i <= Len(s))
    <3>1. i - Len(s) \in 1..Len(t) /\ (s \o t)[i] = t[i - Len(s)]
      BY <1>2, <2>2
    <3>2. PICK j \in 1..Len(t) : i - Len(s) < j /\ t[j] = Marker("end")
      BY <1>3, <3>1 DEF Ended
    <3>3. j + Len(s) \in 1..Len(s \o t) /\ (s \o t)[j + Len(s)] = t[j] /\ i < j + Len(s)
      BY <1>2, <3>2
    <3> QED BY <3>2, <3>3
  <2> QED BY <2>1, <2>2
<1> QED BY <1>1, <1>2, <1>3, RangeConcatenation DEF Ended

LEMMA EndedTail ==
    ASSUME NEW s, Ended(s), s # <<>>
    PROVE  /\ Ended(Tail(s)) /\ Range(s) = {Head(s)} \cup Range(Tail(s))
           /\ UserStore(Head(s)) => Marker("end") \in Range(Tail(s))
<1>1. PICK S : s \in Seq(S)
  BY DEF Ended
<1>2. /\ Tail(s) \in Seq(S) /\ Len(s) \in Nat \ {0} /\ Len(Tail(s)) = Len(s) - 1
      /\ \A i \in 1..Len(Tail(s)) : Tail(s)[i] = s[i + 1]
      /\ Head(s) = s[1] /\ DOMAIN Tail(s) = 1..Len(Tail(s))
  BY <1>1, HeadTailProperties, EmptySeq, LenProperties
<1>3. ASSUME NEW i \in 1..Len(s), UserStore(s[i])
      PROVE  \E j \in 1..Len(Tail(s)) : i <= j /\ Tail(s)[j] = Marker("end")
  <2>1. PICK j \in 1..Len(s) : i < j /\ s[j] = Marker("end")
    BY <1>3 DEF Ended
  <2>2. j - 1 \in 1..Len(Tail(s)) /\ i <= j - 1 /\ Tail(s)[j - 1] = s[j]
    BY <1>2, <2>1
  <2> QED BY <2>1, <2>2
<1>4. ASSUME NEW i \in 1..Len(Tail(s)), UserStore(Tail(s)[i])
      PROVE  \E j \in 1..Len(Tail(s)) : i < j /\ Tail(s)[j] = Marker("end")
  <2>1. i + 1 \in 1..Len(s) /\ Tail(s)[i] = s[i + 1]
    BY <1>2
  <2>2. PICK j \in 1..Len(Tail(s)) : i + 1 <= j /\ Tail(s)[j] = Marker("end")
    BY <1>3, <1>4, <2>1
  <2> QED BY <2>2
<1>5. UserStore(Head(s)) => Marker("end") \in Range(Tail(s))
  <2>1. SUFFICES ASSUME UserStore(Head(s)) PROVE Marker("end") \in Range(Tail(s))
    OBVIOUS
  <2>2. PICK j \in 1..Len(Tail(s)) : Tail(s)[j] = Marker("end")
    BY <1>2, <1>3, <2>1
  <2> QED BY <1>2, <2>2 DEF Range
<1> QED BY <1>1, <1>2, <1>4, <1>5, RangeOfHeadTail DEF Ended

-----------------------------------------------------------------------------
(* What the handlers put on the bus.                                       *)

LEMMA NoUserStore ==
    /\ \A x : ~UserStore(CcEvent(x)) /\ ~UserStore(MsgIn(x)) /\ ~UserStore(MsgOut(x))
             /\ ~UserStore(Marker(x))
    /\ \A x, y : /\ ~UserStore(PcEvent(x, y)) /\ ~UserStore(LoadEvent(x, y))
                 /\ ~UserStore(StoreEvent(x, y)) /\ ~UserStore(CopyEvent(x, y))
                 /\ ~UserStore(ModEvent(x, y))
    /\ \A b, o, d : ~UserStore(XtData(b, o, d, "MIDI")) /\ ~UserStore(XtData(b, "MIDI", d, o))
BY DEF UserStore, CcEvent, MsgIn, MsgOut, Marker, PcEvent, LoadEvent, StoreEvent, CopyEvent,
       ModEvent, XtData

LEMMA ModifiedAfterPlain == \A b, r : Plain(ModifiedAfter(b, r))
<1> TAKE b, r
<1>1. /\ Plain(<<ModEvent(EditBuffer, TRUE)>>) /\ Plain(<<StoreEvent(EditBuffer, "UI")>>)
      /\ Plain(<<>>) /\ Plain(<<ModEvent(b, r)>>)
  BY NoUserStore, PlainTuples
<1>2. Plain(<<ModEvent(EditBuffer, TRUE)>>
            \o (IF r THEN <<StoreEvent(EditBuffer, "UI")>> ELSE <<>>))
  BY <1>1, PlainConcat
<1> QED BY <1>1, <1>2 DEF ModifiedAfter

LEMMA SendFrontPlain == \A q : Plain(SendFront(q))
BY NoUserStore, PlainTuples DEF SendFront

LEMMA StoredIsSeq == \A b : \E S : Stored(b) \in Seq(S)
<1> TAKE b
<1>1. \A x : \E S : <<x>> \in Seq(S)
  BY Tuples
<1>2. \E S : <<>> \in Seq(S)
  BY Tuples
<1>3. CASE b = All /\ ~AllProgramsDump
  <2> DEFINE e(i) == DataEvent(ProgramSeq[i], "UI", data[ProgramSeq[i]])
             S == {e(i) : i \in 1..Len(ProgramSeq)}
  <2>1. \A i \in 1..Len(ProgramSeq) : e(i) \in S
    OBVIOUS
  <2>2. Len(ProgramSeq) \in Nat
    BY PodCoreAssumption
  <2> HIDE DEF e, S
  <2>3. [i \in 1..Len(ProgramSeq) |-> e(i)] \in Seq(S)
    BY <2>1, <2>2
  <2>4. b # Current
    BY <1>3, PodCoreAssumption
  <2> QED BY <1>3, <2>3, <2>4 DEF Stored, e
<1>4. CASE ~(b = All /\ ~AllProgramsDump)
  BY <1>1, <1>2, <1>4 DEF Stored
<1> QED BY <1>3, <1>4

LEMMA RequestedIsSeq ==
    ASSUME NEW b, NEW r
    PROVE  /\ \E S : Requested(Stored(b), r) \in Seq(S)
           /\ r = "MIDI" => Plain(Requested(Stored(b), r))
<1>1. PICK S : Stored(b) \in Seq(S)
  BY StoredIsSeq
<1> DEFINE evs == Stored(b)
           e(i) == XtData(evs[i].buffer, "UI", evs[i].content, r)
           T == {e(i) : i \in 1..Len(evs)}
<1>2. DOMAIN evs = 1..Len(evs) /\ Len(evs) \in Nat
  BY <1>1, LenProperties
<1>3. \A i \in 1..Len(evs) : e(i) \in T
  OBVIOUS
<1>4. r = "MIDI" => \A i \in 1..Len(evs) : ~UserStore(e(i))
  BY NoUserStore
<1>5. Requested(evs, r) = [i \in 1..Len(evs) |-> e(i)]
  BY <1>2 DEF Requested
<1> HIDE DEF evs, e, T
<1>6. [i \in 1..Len(evs) |-> e(i)] \in Seq(T) /\ Len([i \in 1..Len(evs) |-> e(i)]) = Len(evs)
  BY <1>2, <1>3
<1>7. r = "MIDI" => Plain([i \in 1..Len(evs) |-> e(i)])
  BY <1>4, <1>6 DEF Plain
<1> QED BY <1>5, <1>6, <1>7 DEF evs

LEMMA WithEndEnded == \A s : (\E S : s \in Seq(S)) => Ended(WithEnd(s))
<1> SUFFICES ASSUME NEW s, NEW S, s \in Seq(S) PROVE Ended(WithEnd(s))
  OBVIOUS
<1>1. CASE s = <<>>
  BY <1>1, PlainTuples, PlainIsEnded DEF WithEnd
<1>2. CASE s # <<>>
  <2> DEFINE T == S \cup {Marker("end")}
  <2>1. s \in Seq(T) /\ Marker("end") \in T
    BY SeqMonotonic
  <2>2. /\ Append(s, Marker("end")) \in Seq(T) /\ Len(s) \in Nat
        /\ Len(Append(s, Marker("end"))) = Len(s) + 1
        /\ Append(s, Marker("end"))[Len(s) + 1] = Marker("end")
    BY <2>1, AppendProperties, LenProperties
  <2>3. ~UserStore(Marker("end"))
    BY NoUserStore
  <2>4. ASSUME NEW i \in 1..(Len(s) + 1), UserStore(Append(s, Marker("end"))[i])
        PROVE  i < Len(s) + 1
    BY <2>2, <2>3, <2>4
  <2> QED BY <1>2, <2>2, <2>4 DEF WithEnd, Ended
<1> QED BY <1>1, <1>2

-----------------------------------------------------------------------------
(* What a step does to the bus: it answers an event that is no marker, or  *)
(* adds events of its own.                                                 *)

Answers ==
    /\ bus # <<>> /\ Head(bus).type # "marker"
    /\ \E evs : Ended(evs) /\ Reply(evs)

Adds == bus' = bus \/ \E evs : Ended(evs) /\ bus' = bus \o evs

LEMMA ReplyKeeps ==
    ASSUME Ended(bus), bus # <<>>, NEW evs, Ended(evs), Reply(evs)
    PROVE  /\ Ended(bus)'
           /\ \A e \in Range(bus) : e # Head(bus) => e \in Range(bus')
           /\ UserStore(Head(bus)) => OnBus("end")'
<1>1. /\ Ended(Tail(bus)) /\ Range(bus) = {Head(bus)} \cup Range(Tail(bus))
      /\ UserStore(Head(bus)) => Marker("end") \in Range(Tail(bus))
  BY EndedTail
<1>2. Ended(bus') /\ Range(bus') = Range(Tail(bus)) \cup Range(evs)
  BY <1>1, EndedConcat DEF Reply
<1> QED BY <1>1, <1>2 DEF OnBus, Ended

LEMMA Keeps ==
    ASSUME Ended(bus), Answers \/ Adds
    PROVE  Ended(bus)' /\ \A m : OnBus(m) => OnBus(m)'
<1>1. CASE Answers
  <2>1. PICK evs : Ended(evs) /\ Reply(evs)
    BY <1>1 DEF Answers
  <2>2. Ended(bus)' /\ \A e \in Range(bus) : e # Head(bus) => e \in Range(bus')
    BY <1>1, <2>1, ReplyKeeps DEF Answers
  <2>3. \A m : Marker(m) # Head(bus)
    BY <1>1 DEF Answers, Marker
  <2> QED BY <2>2, <2>3 DEF OnBus
<1>2. CASE bus' = bus
  BY <1>2 DEF Ended, OnBus
<1>3. CASE \E evs : Ended(evs) /\ bus' = bus \o evs
  <2>1. PICK evs : Ended(evs) /\ bus' = bus \o evs
    BY <1>3
  <2>2. Ended(bus') /\ Range(bus') = Range(bus) \cup Range(evs)
    BY <2>1, EndedConcat
  <2> QED BY <2>2 DEF Ended, OnBus
<1> QED BY <1>1, <1>2, <1>3 DEF Adds

LEMMA AppendAdds ==
    ASSUME Ended(bus), NEW x, ~UserStore(x), bus' = Append(bus, x)
    PROVE  Adds /\ x \in Range(bus')
<1>1. PICK S : bus \in Seq(S)
  BY DEF Ended
<1> DEFINE T == S \cup {x}
<1>2. bus \in Seq(T) /\ x \in T
  BY <1>1, SeqMonotonic
<1>3. Append(bus, x) = bus \o <<x>> /\ Range(Append(bus, x)) = Range(bus) \cup {x}
  BY <1>2, AppendIsConcat, RangeOfAppend
<1>4. Ended(<<x>>)
  BY PlainTuples, PlainIsEnded
<1> QED BY <1>3, <1>4 DEF Adds

LEMMA PlainReply ==
    ASSUME NEW t, t # "marker", Taking(t), NEW evs, Plain(evs), Reply(evs)
    PROVE  Answers
BY PlainIsEnded DEF Answers, Taking

-----------------------------------------------------------------------------
(* The actions of PodCore.                                                 *)

LEMMA UserAdds == ASSUME Ended(bus), User PROVE Adds
<1>1. ~NewDevice
  BY XtHandlerAssumption DEF NewDevice
<1>2. ASSUME NEW p \in Programs, NEW e \in GridActions(p), UserGrid(e) PROVE Adds
  <2>1. ~UserStore(e)
    BY NoUserStore DEF GridActions
  <2> QED BY <1>2, <2>1, AppendAdds DEF UserGrid
<1>3. ASSUME NEW p \in Programs, UserLoadUnmodified(p) PROVE Adds
  BY <1>3, NoUserStore, AppendAdds DEF UserLoadUnmodified
<1> QED
  BY <1>1, <1>2, <1>3
     DEF User, UserEdit, UserRename, UserProgram, UserButton, Adds

LEMMA SignalAdds == ASSUME Ended(bus), UiSignal \/ CtlSignal \/ MidiIn PROVE Adds
<1>1. CASE UiSignal
  <2>1. ASSUME Head(uiq) \in Buttons PROVE ~UserStore(ButtonEvent[Head(uiq)])
    BY <2>1, NoUserStore DEF ButtonEvent, Buttons
  <2>2. CASE Head(uiq) \in Buttons
    BY <1>1, <2>1, <2>2, AppendAdds DEF UiSignal
  <2>3. CASE Head(uiq) \notin Buttons
    BY <1>1, <2>3, NoUserStore, AppendAdds DEF UiSignal, Adds
  <2> QED BY <2>2, <2>3
<1>2. CASE CtlSignal
  BY <1>2, NoUserStore, AppendAdds DEF CtlSignal
<1>3. CASE MidiIn
  BY <1>3, NoUserStore, AppendAdds DEF MidiIn
<1> QED BY <1>1, <1>2, <1>3

LEMMA CoreTaskSteps == ASSUME Ended(bus), CoreTask PROVE Answers \/ Adds
<1>1. ASSUME HandleControl PROVE Answers
  <2>1. \A x : Plain(SendCc(x)) /\ Plain(<<ModEvent(Current, TRUE)>>)
    BY NoUserStore, PlainTuples DEF SendCc
  <2>2. \A x : Plain(SendCc(x) \o <<ModEvent(Current, TRUE)>>)
    BY <2>1, PlainConcat
  <2>3. \E evs : Plain(evs) /\ Reply(evs)
    BY <1>1, <2>2, PlainTuples DEF HandleControl
  <2> QED BY <1>1, <2>3, PlainReply DEF HandleControl
<1>2. ASSUME HandleName PROVE Answers
  <2>1. \E evs : Plain(evs) /\ Reply(evs)
    BY <1>2, NoUserStore, PlainTuples DEF HandleName
  <2> QED BY <1>2, <2>1, PlainReply DEF HandleName
<1>3. ASSUME HandleProgramChange PROVE Answers
  <2>1. \E evs : Plain(evs) /\ Reply(evs)
    BY <1>3, NoUserStore, PlainTuples DEF HandleProgramChange
  <2> QED BY <1>3, <2>1, PlainReply DEF HandleProgramChange
<1>4. ASSUME FinishProgramChange PROVE Adds
  <2>1. \A x : Plain(<<MsgOut(x)>>) /\ Plain(<<>>) /\ Plain(<<StoreEvent(EditBuffer, "UI")>>)
    BY NoUserStore, PlainTuples
  <2>2. \A x : Plain((IF PcAndEditBuffer THEN <<MsgOut(x)>> ELSE <<>>)
                     \o <<StoreEvent(EditBuffer, "UI")>>)
    BY <2>1, PlainConcat
  <2>3. \E evs : Plain(evs) /\ bus' = bus \o evs
    BY <1>4, <2>1, <2>2 DEF FinishProgramChange
  <2> QED BY <2>3, PlainIsEnded DEF Adds
<1>5. ASSUME HandleCopy PROVE Answers
  <2>1. \E evs : Plain(evs) /\ Reply(evs)
    BY <1>5, NoUserStore, PlainTuples DEF HandleCopy
  <2> QED BY <1>5, <2>1, PlainReply DEF HandleCopy
<1>6. ASSUME Reload PROVE Adds
  BY <1>6, ModifiedAfterPlain, PlainIsEnded DEF Reload, Adds
<1>7. ASSUME HandleModified PROVE Answers
  <2>1. \E evs : Plain(evs) /\ Reply(evs)
    BY <1>7, PlainTuples DEF HandleModified
  <2> QED BY <1>7, <2>1, PlainReply DEF HandleModified
<1>8. ASSUME ShowModified PROVE Adds
  BY <1>8 DEF ShowModified, Adds
<1>9. ASSUME MidiControl PROVE Answers
  <2>1. \E evs : Plain(evs) /\ Reply(evs)
    BY <1>9, NoUserStore, PlainTuples DEF MidiControl
  <2> QED BY <1>9, <2>1, PlainReply DEF MidiControl
<1>10. ASSUME MidiProgram PROVE Answers
  <2>1. \E evs : Plain(evs) /\ Reply(evs)
    BY <1>10, PlainTuples DEF MidiProgram
  <2> QED BY <1>10, <2>1, PlainReply DEF MidiProgram
<1>11. ASSUME HandleMsgOut PROVE Answers
  <2>1. \E evs : Plain(evs) /\ Reply(evs)
    BY <1>11, NoUserStore, PlainTuples DEF HandleMsgOut
  <2> QED BY <1>11, <2>1, PlainReply DEF HandleMsgOut
<1> QED
  BY <1>1, <1>2, <1>3, <1>4, <1>5, <1>6, <1>7, <1>8, <1>9, <1>10, <1>11 DEF CoreTask

-----------------------------------------------------------------------------
(* The actions of the handler that have no part in the wait for a status.  *)

LEMMA LoadSteps ==
    LoadForPeer \/ LoadEditBuffer \/ LoadPatches \/ XtStore => Answers /\ UNCHANGED storeVars
<1> USE DEF ownVars, handlerVars, storeVars
<1>1. ASSUME LoadForPeer PROVE Answers /\ UNCHANGED storeVars
  <2>1. Plain(Requested(Stored(Head(bus).buffer), "MIDI")) /\ Plain(<<Marker("end")>>)
    BY RequestedIsSeq, NoUserStore, PlainTuples
  <2>2. \E evs : Plain(evs) /\ Reply(evs)
    BY <1>1, <2>1, PlainConcat DEF LoadForPeer
  <2> QED BY <1>1, <2>2, PlainReply DEF LoadForPeer
<1>2. ASSUME LoadEditBuffer PROVE Answers /\ UNCHANGED storeVars
  <2>1. \E evs : Plain(evs) /\ Reply(evs)
    BY <1>2, NoUserStore, PlainTuples DEF LoadEditBuffer
  <2> QED BY <1>2, <2>1, PlainReply DEF LoadEditBuffer
<1>3. ASSUME LoadPatches PROVE Answers /\ UNCHANGED storeVars
  <2>1. \E evs : Plain(evs) /\ Reply(evs)
    BY <1>3, SendFrontPlain, PlainTuples DEF LoadPatches
  <2> QED BY <1>3, <2>1, PlainReply DEF LoadPatches
<1>4. ASSUME XtStore PROVE Answers /\ UNCHANGED storeVars
  <2>1. /\ Ended(<<>>)
        /\ Ended(WithEnd(Requested(Stored(Head(bus).buffer), "UI")))
    BY PlainTuples, PlainIsEnded, RequestedIsSeq, WithEndEnded
  <2>2. \E evs : Ended(evs) /\ Reply(evs)
    BY <1>4, <2>1 DEF XtStore
  <2> QED BY <1>4, <2>2 DEF XtStore, Answers, Taking
<1> QED BY <1>1, <1>2, <1>3, <1>4

LEMMA DataInSteps == XtDataIn \/ EffectIn => Answers /\ UNCHANGED storeVars
<1> USE DEF storeVars
<1>1. ASSUME XtDataIn PROVE Answers /\ UNCHANGED storeVars
  <2>1. \E evs : Plain(evs) /\ Reply(evs)
    <3>1. CASE DataToEditBuffer
      BY <3>1, ModifiedAfterPlain DEF DataToEditBuffer
    <3>2. CASE DataToProgram
      BY <3>2, ModifiedAfterPlain, PlainTuples DEF DataToProgram
    <3> QED BY <1>1, <3>1, <3>2 DEF XtDataIn
  <2> QED BY <1>1, <2>1, PlainReply DEF XtDataIn
<1>2. ASSUME EffectIn PROVE Answers /\ UNCHANGED storeVars
  <2>1. \E evs : Plain(evs) /\ Reply(evs)
    BY <1>2, ModifiedAfterPlain DEF EffectIn
  <2> QED BY <1>2, <2>1, PlainReply DEF EffectIn
<1> QED BY <1>1, <1>2

LEMMA AdvancePlain ==
    ASSUME NEW evs, Plain(evs), Advance(evs)
    PROVE  \E e : Plain(e) /\ Reply(e)
BY SendFrontPlain, PlainConcat DEF Advance

LEMMA MessageSteps ==
    \/ BufferDumpIn \/ PatchDumpIn \/ PatchRequestIn \/ DumpEndIn
    \/ ProgramNumberIn \/ EditStateIn \/ NumberRequestIn \/ StateRequestIn
    => Answers /\ UNCHANGED storeVars
<1> USE DEF ownVars, handlerVars, storeVars, Receiving
<1>1. ASSUME BufferDumpIn \/ PatchDumpIn PROVE Answers /\ UNCHANGED storeVars
  <2>1. \E evs : Plain(evs) /\ Reply(evs)
    BY <1>1, NoUserStore, PlainTuples DEF BufferDumpIn, PatchDumpIn
  <2> QED BY <1>1, <2>1, PlainReply DEF BufferDumpIn, PatchDumpIn
<1>2. ASSUME PatchRequestIn \/ NumberRequestIn \/ StateRequestIn
      PROVE  Answers /\ UNCHANGED storeVars
  <2>1. \E evs : Plain(evs) /\ Reply(evs)
    BY <1>2, NoUserStore, PlainTuples DEF PatchRequestIn, NumberRequestIn, StateRequestIn
  <2> QED BY <1>2, <2>1, PlainReply DEF PatchRequestIn, NumberRequestIn, StateRequestIn
<1>3. ASSUME DumpEndIn PROVE Answers /\ UNCHANGED storeVars
  <2>1. \E evs : Plain(evs) /\ Reply(evs)
    BY <1>3, NoUserStore, PlainTuples, AdvancePlain DEF DumpEndIn, NextRequest
  <2> QED BY <1>3, <2>1, PlainReply DEF DumpEndIn
<1>4. ASSUME ProgramNumberIn PROVE Answers /\ UNCHANGED storeVars
  <2>1. \E evs : Plain(evs) /\ Reply(evs)
    BY <1>4, PlainTuples, AdvancePlain DEF ProgramNumberIn
  <2> QED BY <1>4, <2>1, PlainReply DEF ProgramNumberIn
<1>5. ASSUME EditStateIn PROVE Answers /\ UNCHANGED storeVars
  <2>1. /\ Plain(<<>>) /\ Plain(<<LoadEvent(EditBuffer, "UI")>>)
        /\ \A m : Plain(<<ModEvent(reported, m)>>)
    BY NoUserStore, PlainTuples
  <2>2. \A m : Plain(<<ModEvent(reported, m)>>
                    \o (IF prog = reported THEN <<LoadEvent(EditBuffer, "UI")>> ELSE <<>>))
    BY <2>1, PlainConcat
  <2>3. \E evs : Plain(evs) /\ (Advance(evs) \/ Reply(evs))
    BY <1>5, <2>1, <2>2 DEF EditStateIn
  <2>4. \E evs : Plain(evs) /\ Reply(evs)
    BY <2>3, AdvancePlain
  <2> QED BY <1>5, <2>4, PlainReply DEF EditStateIn
<1> QED BY <1>1, <1>2, <1>3, <1>4, <1>5

\* What the device and the peer do leaves the bus alone.
LEMMA DeviceSteps ==
    XtDevice \/ XtDeviceTask => Adds /\ UNCHANGED storeVars
<1> USE DEF ownVars, handlerVars, storeVars, Adds
<1>1. ASSUME XtDevice PROVE Adds /\ UNCHANGED storeVars
  BY <1>1 DEF XtDevice, DevKnob, DevProgram, PeerRequest, PeerDump
<1>2. ASSUME XtDeviceTask PROVE Adds /\ UNCHANGED storeVars
  BY <1>2 DEF XtDeviceTask, XtDevReceive, DevPatchDump, DevDumpEnd
<1> QED BY <1>1, <1>2

LEMMA QuietSteps ==
    ASSUME Ended(bus), XtNext,
           ~XtDataOut, ~EndMarker, ~TimeoutMarker, ~NumberMarker, ~TimerFires, ~StatusIn
    PROVE  (Answers \/ Adds) /\ UNCHANGED storeVars
<1>1. CASE CoreUser \/ XtUiSignal \/ XtCtlSignal \/ XtMidiIn \/ CoreTask
  <2>1. Answers \/ Adds
    BY <1>1, UserAdds, SignalAdds, CoreTaskSteps DEF CoreUser, XtUiSignal, XtCtlSignal, XtMidiIn
  <2>2. UNCHANGED storeVars
    BY <1>1 DEF CoreUser, XtUiSignal, XtCtlSignal, XtMidiIn, CoreTask, ownVars, handlerVars
  <2> QED BY <2>1, <2>2
<1>2. CASE LoadForPeer \/ LoadEditBuffer \/ LoadPatches \/ XtStore
  BY <1>2, LoadSteps
<1>3. CASE XtDataIn \/ EffectIn
  BY <1>3, DataInSteps
<1>4. CASE \/ BufferDumpIn \/ PatchDumpIn \/ PatchRequestIn \/ DumpEndIn
           \/ ProgramNumberIn \/ EditStateIn \/ NumberRequestIn \/ StateRequestIn
  BY <1>4, MessageSteps
<1>5. CASE XtDevice \/ XtDeviceTask
  BY <1>5, DeviceSteps
<1> QED BY <1>1, <1>2, <1>3, <1>4, <1>5 DEF XtNext, XtSystem, XtTask

-----------------------------------------------------------------------------
(* The wait for a status.                                                  *)

\* The programs of a store wait in a finite set, drained into events.
StoreInv == Ended(bus) /\ IsFiniteSet(storing) /\ StoreIsWatched /\ StoreIsNotBlocked

LEMMA DataOutWatched == ASSUME StoreInv, XtDataOut PROVE StoreInv'
<1>1. bus # <<>> /\ Ended(bus)
  BY DEF XtDataOut, Taking, StoreInv
<1>2. PICK evs : Plain(evs) /\ Reply(evs)
  BY NoUserStore, PlainTuples DEF XtDataOut
<1>3. /\ Ended(bus)'
      /\ \A e \in Range(bus) : e # Head(bus) => e \in Range(bus')
      /\ UserStore(Head(bus)) => OnBus("end")'
  BY <1>1, <1>2, ReplyKeeps, PlainIsEnded
<1>4. \A m : Marker(m) # Head(bus)
  BY DEF XtDataOut, Taking, Marker
<1>5. \A m : OnBus(m) => OnBus(m)'
  BY <1>3, <1>4 DEF OnBus
<1>6. UNCHANGED <<handle, orphans>>
  BY DEF XtDataOut
<1>7. IsFiniteSet(storing')
  BY FS_AddElement DEF XtDataOut, StoreInv
<1>8. CASE UserStore(Head(bus))
  BY <1>3, <1>5, <1>6, <1>7, <1>8 DEF StoreInv, StoreIsWatched, StoreIsNotBlocked
<1>9. CASE ~UserStore(Head(bus))
  <2>1. storing' = storing
    BY <1>9 DEF XtDataOut, Taking, FromMidi, UserStore
  <2> QED BY <1>3, <1>5, <1>6, <1>7, <2>1 DEF StoreInv, StoreIsWatched, StoreIsNotBlocked
<1> QED BY <1>8, <1>9

LEMMA MarkersWatched ==
    ASSUME StoreInv, EndMarker \/ TimeoutMarker \/ NumberMarker PROVE StoreInv'
<1>1. bus # <<>> /\ Ended(bus) /\ Head(bus).type = "marker"
  BY DEF EndMarker, TimeoutMarker, NumberMarker, Taking, StoreInv
<1>2. PICK evs : Plain(evs) /\ Reply(evs)
  BY NoUserStore, PlainTuples DEF EndMarker, TimeoutMarker, NumberMarker
<1>3. /\ Ended(bus)'
      /\ \A e \in Range(bus) : e # Head(bus) => e \in Range(bus')
  BY <1>1, <1>2, ReplyKeeps, PlainIsEnded
<1>4. \A m : OnBus(m) /\ m # Head(bus).marker => OnBus(m)'
  BY <1>3 DEF OnBus, Marker
<1>5. CASE EndMarker
  <2>1. OnBus("timeout") => OnBus("timeout")'
    BY <1>4, <1>5 DEF EndMarker
  <2>2. storing' = storing /\ (handle' = "armed" \/ (storing = {} /\ UNCHANGED handle))
    BY <1>5 DEF EndMarker
  <2> QED BY <1>3, <2>1, <2>2 DEF StoreInv, StoreIsWatched, StoreIsNotBlocked
<1>6. CASE TimeoutMarker
  BY <1>3, <1>6, FS_EmptySet
     DEF TimeoutMarker, HandleAfterTimeout, StoreInv, StoreIsWatched, StoreIsNotBlocked
<1>7. CASE NumberMarker
  <2>1. \A m \in {"end", "timeout"} : OnBus(m) => OnBus(m)'
    BY <1>4, <1>7 DEF NumberMarker
  <2>2. UNCHANGED storeVars
    BY <1>7 DEF NumberMarker
  <2> QED BY <1>3, <2>1, <2>2 DEF StoreInv, StoreIsWatched, StoreIsNotBlocked, storeVars
<1> QED BY <1>5, <1>6, <1>7

LEMMA TimerWatched == ASSUME StoreInv, TimerFires PROVE StoreInv'
<1>1. Adds /\ OnBus("timeout")'
  BY NoUserStore, AppendAdds DEF TimerFires, StoreInv, OnBus
<1>2. Ended(bus)'
  BY <1>1, Keeps DEF StoreInv
<1>3. storing' = storing
  BY DEF TimerFires
<1> QED BY <1>1, <1>2, <1>3 DEF StoreInv, StoreIsWatched, StoreIsNotBlocked

LEMMA SetToSeqIsSeq ==
    ASSUME NEW S, IsFiniteSet(S)
    PROVE  SetToSeq(S) \in Seq(S)
<1>1. Cardinality(S) \in Nat /\ ExistsBijection(1..Cardinality(S), S)
  BY FS_CardinalityType
<1>2. \E f \in [1..Cardinality(S) -> S] : IsInjective(f)
  BY <1>1 DEF ExistsBijection, Bijection, Injection
<1>3. SetToSeq(S) \in [1..Cardinality(S) -> S]
  BY <1>2 DEF SetToSeq
<1> QED BY <1>1, <1>3

LEMMA StatusWatched == ASSUME StoreInv, StatusIn PROVE StoreInv'
<1> DEFINE stored == SetToSeq(storing)
           e(i) == ModEvent(stored[i], FALSE)
           T == {e(i) : i \in 1..Len(stored)}
<1>1. stored \in Seq(storing) /\ Len(stored) \in Nat /\ DOMAIN stored = 1..Len(stored)
  BY SetToSeqIsSeq, LenProperties DEF StoreInv
<1>2. \A i \in 1..Len(stored) : e(i) \in T /\ ~UserStore(e(i))
  BY NoUserStore
<1>3. \E evs : (evs = <<>> \/ evs = [i \in 1..Len(stored) |-> e(i)]) /\ Reply(evs)
  BY <1>1 DEF StatusIn
<1> HIDE DEF stored, e, T
<1>4. Plain([i \in 1..Len(stored) |-> e(i)])
  <2>1. /\ [i \in 1..Len(stored) |-> e(i)] \in Seq(T)
        /\ Len([i \in 1..Len(stored) |-> e(i)]) = Len(stored)
    BY <1>1, <1>2
  <2> QED BY <1>2, <2>1 DEF Plain
<1>5. Answers
  <2>1. PICK evs : Plain(evs) /\ Reply(evs)
    BY <1>3, <1>4, PlainTuples
  <2> QED BY <2>1, PlainReply DEF StatusIn, Receiving
<1>6. Ended(bus)'
  BY <1>5, Keeps DEF StoreInv
<1> QED BY <1>6, FS_EmptySet DEF StatusIn, StoreInv, StoreIsWatched, StoreIsNotBlocked

LEMMA StoreInit == XtInit => StoreInv
<1> SUFFICES ASSUME XtInit PROVE StoreInv
  OBVIOUS
<1>1. Ended(bus)
  BY NoUserStore, PlainTuples, PlainIsEnded DEF XtInit
<1> QED BY <1>1, FS_EmptySet DEF XtInit, StoreInv, StoreIsWatched, StoreIsNotBlocked

LEMMA StoreStep == StoreInv /\ [XtNext]_xtVars => StoreInv'
<1> SUFFICES ASSUME StoreInv, [XtNext]_xtVars PROVE StoreInv'
  OBVIOUS
<1>1. CASE UNCHANGED xtVars
  BY <1>1 DEF xtVars, vars, ownVars, handlerVars, storeVars, StoreInv, Ended,
              StoreIsWatched, StoreIsNotBlocked, OnBus
<1>2. CASE XtDataOut \/ EndMarker \/ TimeoutMarker \/ NumberMarker \/ TimerFires \/ StatusIn
  BY <1>2, DataOutWatched, MarkersWatched, TimerWatched, StatusWatched
<1>3. CASE XtNext /\ ~(\/ XtDataOut \/ EndMarker \/ TimeoutMarker
                       \/ NumberMarker \/ TimerFires \/ StatusIn)
  <2>1. (Answers \/ Adds) /\ UNCHANGED storeVars
    BY <1>3, QuietSteps DEF StoreInv
  <2>2. Ended(bus)' /\ \A m : OnBus(m) => OnBus(m)'
    BY <2>1, Keeps DEF StoreInv
  <2> QED BY <2>1, <2>2 DEF storeVars, StoreInv, StoreIsWatched, StoreIsNotBlocked
<1> QED BY <1>1, <1>2, <1>3

\* A store sent to the device is never forgotten: its marks wait for an end
\* marker, a timer or a timeout marker (marker_handler, midi_in_handler).
THEOREM StoreWatched == XtSpec => []StoreIsWatched
<1>1. StoreInv => StoreIsWatched
  BY DEF StoreInv
<1> QED BY <1>1, StoreInit, StoreStep, PTL DEF XtSpec

\* A store is refused only while a timer runs, or its marker is on the bus,
\* that will allow stores again (store_handler, marker_handler).
THEOREM StoreNotBlocked == XtSpec => []StoreIsNotBlocked
<1>1. StoreInv => StoreIsNotBlocked
  BY DEF StoreInv
<1> QED BY <1>1, StoreInit, StoreStep, PTL DEF XtSpec

-----------------------------------------------------------------------------
(* Types.                                                                  *)

CommonMsgs ==
    [cmd : {"cc"}, val : Vals] \cup [cmd : {"pc"}, num : Nat]
    \cup [cmd : {"buffer"}, content : Patch] \cup [cmd : {"status"}, success : BOOLEAN]
    \cup [cmd : {"number"}, program : Programs] \cup [cmd : {"state"}, modified : BOOLEAN]
    \cup [cmd : {"end", "number?", "state?"}]

InMsgs  == CommonMsgs \cup [cmd : {"request"}, buffer : Single]
OutMsgs == CommonMsgs \cup [cmd : {"request"}, buffer : Single \cup Effects]
           \cup [cmd : {"dump"}, buffer : Programs, content : Patch]

XtEvents ==
    [type : {"cc"}, sig : Signals]
    \cup [type : {"pc"}, program : ProgramIds \ {Hidden}, origin : Origins]
    \cup [type : {"load", "store"}, buffer : Buffers, origin : Origins]
    \cup [type : {"copy"}, from : Single, to : Single]
    \cup [type : {"data"}, buffer : Single \cup Effects, origin : {"MIDI"}, content : Patch,
          request : {"UI"}]
    \cup [type : {"data"}, buffer : Single, origin : {"UI"}, content : Patch, request : Origins]
    \cup [type : {"modified"}, buffer : Buffers \cup Effects, flag : BOOLEAN]
    \cup [type : {"marker"}, marker : {"end", "timeout", "number"}]
    \cup [type : {"in"}, msg : InMsgs] \cup [type : {"out"}, msg : OutMsgs]

XtTypeOK ==
    /\ prog \in Programs \cup {Hidden} /\ progOrigin \in Origins \cup {"NONE"}
    /\ uiq \in Seq(Buttons \cup {"program"})
    /\ ctl \in Vals /\ ctq \in Seq(Signals) /\ raw \in Patch
    /\ data \in Dump /\ modified \in [Programs -> BOOLEAN]
    /\ bus \in Seq(XtEvents) /\ app \in Pauses
    /\ reroute \in [Dumpable -> Single \cup {NoRoute}]
    /\ devEdit \in Patch /\ devProgs \in Dump /\ devProg \in Programs
    /\ toDev \in Seq(OutMsgs) /\ fromDev \in Seq(InMsgs)
    /\ queue \in Seq(Requests) /\ reported \in Programs \cup {NoProgram}
    /\ storing \subseteq Programs /\ IsFiniteSet(storing)
    /\ effects \in [Effects -> Names \cup {""}]

-----------------------------------------------------------------------------
(* The queue.                                                              *)

\* Under way to the device, and from it.
Sending(c) == \/ \E e \in Range(bus) : e.type = "out" /\ e.msg.cmd = c
              \/ \E m \in Range(toDev) : m.cmd = c
Arriving(c) == \/ \E e \in Range(bus) : e.type = "in" /\ e.msg.cmd = c
               \/ \E m \in Range(fromDev) : m.cmd = c

\* What moves the queue on: the answer of a request of a patch, which ends in an
\* end of a dump, or of the number or the state.
Due == Sending("request") \/ Arriving("end")
NumberDue == Sending("number?") \/ Arriving("number")
StateDue == Sending("state?") \/ Arriving("state")

\* The head of a queue that is not empty has its request or its answer under way.
Answering ==
    queue # <<>> => \/ Due
                    \/ HeadIs("number?") /\ NumberDue
                    \/ HeadIs("state?") /\ StateDue

\* The marker of the startup is handled right after the startup load, or with
\* requests waiting that it puts itself in front of.
NumberFirst ==
    \A i \in 1..Len(bus) : bus[i] = Marker("number") =>
        \/ i = 1 /\ queue # <<>>
        \/ i = 2 /\ bus[1] = LoadEvent(All, "UI")

\* Waits behind the head
Behind(m) == queue # <<>> /\ m \in Range(Tail(queue))

\* The device's program is known, or somebody still asks for it.
ReportInv ==
    /\ reported = NoProgram => OnBus("number") \/ Behind(ProgramNumberRequest) \/ NumberDue
    /\ reported # NoProgram => numbered(prog)

\* The stream of what comes in.
Feed(ms) == [i \in 1..Len(ms) |-> MsgIn(ms[i])]
Incoming == bus \o Feed(fromDev)
In(e)  == e.type = "in"
Buf(e) == e.type = "in" /\ e.msg.cmd = "buffer"
End(e) == e.type = "in" /\ e.msg.cmd = "end"

\* The stream holds no end of a dump before its first buffer, and none that
\* overtakes a buffer: after anything else that comes in, a buffer is first.
Announced(s) == \A k \in 1..Len(s) : End(s[k]) => \E j \in 1..(k - 1) : Buf(s[j])
Paired(s) == \A j, k \in 1..Len(s) :
    j < k /\ In(s[j]) /\ ~Buf(s[j]) /\ End(s[k]) => \E l \in (j + 1)..(k - 1) : Buf(s[l])

\* An effect has its name, or it is yet to be asked for, or asked for, or its
\* answer is the next to come.
EffectsInv ==
    \A e \in Effects : effects[e] = "" =>
        \/ LoadEvent(All, "UI") \in Range(bus)
        \/ \E d \in Range(bus) : d.type = "data" /\ d.buffer = e
        \/ Behind(ReqMsg(e))
        \/ queue # <<>> /\ Head(queue) = ReqMsg(e) /\ Announced(Incoming)

QueueInv == Answering /\ NumberFirst /\ ReportInv /\ Paired(Incoming) /\ EffectsInv

\* A peer that does not ask for dumps gets none: none is to be acknowledged.
ForPeer(e) == (e.type = "load" /\ e.origin = "MIDI") \/ (e.type = "data" /\ e.request = "MIDI")

PeerFree == PeerRequests \/ ((\A e \in Range(bus) : ~ForPeer(e)) /\ ~Arriving("request"))

\* Inductive whatever the user does.
AnyInv == XtTypeOK /\ QueueInv /\ PeerFree /\ ~ack

-----------------------------------------------------------------------------
(* What is due to the transfers of programs, and to the entries of the    *)
(* reroute table.                                                          *)

DumpOut(e) == e.type = "out" /\ e.msg.cmd = "dump"
EndOut(e)  == e.type = "out" /\ e.msg.cmd = "end"

\* A dump and the end that goes with it, both still on their way.
DumpThenEnd ==
    \/ \E j, k \in 1..Len(toDev) : j < k /\ toDev[j].cmd = "dump" /\ toDev[k].cmd = "end"
    \/ /\ \E m \in Range(toDev) : m.cmd = "dump"
       /\ \E e \in Range(bus) : EndOut(e)
    \/ \E j, k \in 1..Len(bus) : j < k /\ DumpOut(bus[j]) /\ EndOut(bus[k])

\* A store that is marked has its dump or its status under way, a handle has
\* a status coming.
DumpDue == Sending("dump") \/ devGot # "none" \/ Arriving("status")
StatusDue == Arriving("status") \/ (Sending("end") /\ devGot # "none") \/ DumpThenEnd

StatusInv == (storing # {} => DumpDue) /\ (handle # "none" => StatusDue)

\* The user has done nothing that is not handled, and this is all there is.
Still == uiq = <<>> /\ ctq = <<>> /\ app = Idle
Only(b, t, f) == bus = b /\ toDev = t /\ fromDev = f

\* A copy finds nothing in flight: it is never dropped for a status awaited.
CopyAlone ==
    \A e \in Range(bus) : e.type = "copy" => Still /\ queue = <<>> /\ Only(<<e>>, <<>>, <<>>)

\* A copy that has become a store: the event, then the dump it sends.
Copied(b) ==
    /\ queue = <<>>
    /\ \/ Only(<<StoreEvent(b, "UI")>>, <<>>, <<>>)
       \/ \E d \in Patch : Only(<<XtData(b, "UI", d, "UI"), Marker("end")>>, <<>>, <<>>)

\* A copy that waits for a program of the device, from the load to the data.
Request(b) ==
    \/ queue = <<>> /\ Only(<<LoadEvent(b, "UI")>>, <<>>, <<>>)
    \/ /\ queue = <<ReqMsg(b)>>
       /\ \/ Only(<<MsgOut(ReqMsg(b))>>, <<>>, <<>>)
          \/ Only(<<>>, <<ReqMsg(b)>>, <<>>)
          \/ \E d \in Patch :
             \/ Only(<<>>, <<>>, <<BufferDump(d), PatchDumpEnd>>)
             \/ Only(<<MsgIn(BufferDump(d))>>, <<>>, <<PatchDumpEnd>>)
             \/ Only(<<MsgIn(BufferDump(d)), MsgIn(PatchDumpEnd)>>, <<>>, <<>>)
             \/ Only(<<XtData(b, "MIDI", d, "UI")>>, <<>>, <<PatchDumpEnd>>)
             \/ Only(<<XtData(b, "MIDI", d, "UI"), MsgIn(PatchDumpEnd)>>, <<>>, <<>>)
             \/ Only(<<MsgIn(PatchDumpEnd), XtData(b, "MIDI", d, "UI")>>, <<>>, <<>>)
    \/ \E d \in Patch : queue = <<>> /\ Only(<<XtData(b, "MIDI", d, "UI")>>, <<>>, <<>>)

\* There is one entry of the reroute table at a time, and it is always on one of
\* the two ways from a copy to the data that takes it.
RouteShape ==
    \A b \in Dumpable : reroute[b] # NoRoute =>
        /\ Still /\ \A c \in Dumpable : c # b => reroute[c] = NoRoute
        /\ b \in Single
        /\ Copied(b) \/ (b \in Programs /\ Request(b))

\* Inductive when the user acts at rest.
SeqInv == AnyInv /\ StatusInv /\ CopyAlone /\ RouteShape

-----------------------------------------------------------------------------
(* What the constructors build, and what the kinds of messages carry.      *)

LEMMA XtMsgsTyped ==
    /\ \A v \in Vals : CcMsg(v) \in CommonMsgs
    /\ \A n \in Nat : PcMsg(n) \in CommonMsgs
    /\ \A d \in Patch : BufferDump(d) \in CommonMsgs
    /\ \A s \in BOOLEAN : StoreStatus(s) \in CommonMsgs /\ EditState(s) \in CommonMsgs
    /\ \A p \in Programs : ProgramNumber(p) \in CommonMsgs
    /\ PatchDumpEnd \in CommonMsgs /\ ProgramNumberRequest \in CommonMsgs
    /\ EditStateRequest \in CommonMsgs
    /\ \A b \in Single : ReqMsg(b) \in InMsgs
    /\ \A b \in Single \cup Effects : ReqMsg(b) \in OutMsgs
    /\ \A p \in Programs, d \in Patch : DumpMsg(p, d) \in OutMsgs
    /\ CommonMsgs \subseteq InMsgs /\ CommonMsgs \subseteq OutMsgs
BY DEF CommonMsgs, InMsgs, OutMsgs, CcMsg, PcMsg, BufferDump, StoreStatus, EditState,
       ProgramNumber, PatchDumpEnd, ProgramNumberRequest, EditStateRequest, ReqMsg, DumpMsg

LEMMA CommonKinds ==
    ASSUME NEW m \in CommonMsgs
    PROVE  /\ m.cmd = "cc" => m.val \in Vals
           /\ m.cmd = "pc" => m.num \in Nat
           /\ m.cmd = "buffer" => m.content \in Patch /\ m = BufferDump(m.content)
           /\ m.cmd = "status" => m.success \in BOOLEAN
           /\ m.cmd = "number" => m.program \in Programs
           /\ m.cmd = "state" => m.modified \in BOOLEAN
           /\ m.cmd = "end" => m = PatchDumpEnd
           /\ m.cmd \notin {"request", "dump"}
<1>1. CASE m \in [cmd : {"cc"}, val : Vals]
  BY <1>1
<1>2. CASE m \in [cmd : {"pc"}, num : Nat]
  BY <1>2
<1>3. CASE m \in [cmd : {"buffer"}, content : Patch]
  BY <1>3 DEF BufferDump
<1>4. CASE m \in [cmd : {"status"}, success : BOOLEAN]
  BY <1>4
<1>5. CASE m \in [cmd : {"number"}, program : Programs]
  BY <1>5
<1>6. CASE m \in [cmd : {"state"}, modified : BOOLEAN]
  BY <1>6
<1>7. CASE m \in [cmd : {"end", "number?", "state?"}]
  BY <1>7 DEF PatchDumpEnd
<1> QED BY <1>1, <1>2, <1>3, <1>4, <1>5, <1>6, <1>7 DEF CommonMsgs

LEMMA InKinds ==
    ASSUME NEW m \in InMsgs
    PROVE  /\ m.cmd = "cc" => m.val \in Vals
           /\ m.cmd = "pc" => m.num \in Nat
           /\ m.cmd = "buffer" => m.content \in Patch /\ m = BufferDump(m.content)
           /\ m.cmd = "status" => m.success \in BOOLEAN
           /\ m.cmd = "number" => m.program \in Programs
           /\ m.cmd = "state" => m.modified \in BOOLEAN
           /\ m.cmd = "request" => m.buffer \in Single
           /\ m.cmd = "end" => m = PatchDumpEnd
           /\ m.cmd # "dump"
<1>1. CASE m \in CommonMsgs
  BY <1>1, CommonKinds
<1>2. CASE m \in [cmd : {"request"}, buffer : Single]
  BY <1>2
<1> QED BY <1>1, <1>2 DEF InMsgs

LEMMA OutKinds ==
    ASSUME NEW m \in OutMsgs
    PROVE  /\ m.cmd = "cc" => m.val \in Vals
           /\ m.cmd = "pc" => m.num \in Nat
           /\ m.cmd = "buffer" => m.content \in Patch
           /\ m.cmd = "request" => m.buffer \in Single \cup Effects
           /\ m.cmd = "dump" => m.buffer \in Programs /\ m.content \in Patch
<1>1. CASE m \in CommonMsgs
  BY <1>1, CommonKinds
<1>2. CASE m \in [cmd : {"request"}, buffer : Single \cup Effects]
  BY <1>2
<1>3. CASE m \in [cmd : {"dump"}, buffer : Programs, content : Patch]
  BY <1>3
<1> QED BY <1>1, <1>2, <1>3 DEF OutMsgs

LEMMA RequestKinds ==
    ASSUME NEW m \in Requests
    PROVE  /\ m \in OutMsgs
           /\ m.cmd \in {"request", "number?", "state?"}
           /\ m.cmd = "request" => m.buffer \in Programs \cup Effects /\ m = ReqMsg(m.buffer)
           /\ m.cmd = "number?" => m = ProgramNumberRequest
           /\ m.cmd = "state?" => m = EditStateRequest
<1>1. CASE m \in [cmd : {"request"}, buffer : Programs \cup Effects]
  BY <1>1, BufferSets DEF OutMsgs, ReqMsg
<1>2. CASE m \in {ProgramNumberRequest, EditStateRequest}
  BY <1>2 DEF OutMsgs, CommonMsgs, ProgramNumberRequest, EditStateRequest
<1> QED BY <1>1, <1>2 DEF Requests

\* What a handler sends: messages come in only by MidiIn, the user alone copies,
\* and the program number is asked for once.
Sendable == {e \in XtEvents :
                e.type \notin {"in", "copy"} /\ e # Marker("number") /\ (ForPeer(e) => PeerRequests)}

LEMMA SendableTyped ==
    /\ \A s \in Signals : CcEvent(s) \in Sendable
    /\ \A p \in ProgramIds \ {Hidden}, o \in Origins : PcEvent(p, o) \in Sendable
    /\ \A b \in Buffers : LoadEvent(b, "UI") \in Sendable
    /\ \A b \in Buffers : PeerRequests => LoadEvent(b, "MIDI") \in Sendable
    /\ \A b \in Buffers, o \in Origins : StoreEvent(b, o) \in Sendable
    /\ \A b \in Single \cup Effects, d \in Patch : XtData(b, "MIDI", d, "UI") \in Sendable
    /\ \A b \in Single, d \in Patch, r \in Origins :
           r = "UI" \/ PeerRequests => XtData(b, "UI", d, r) \in Sendable
    /\ \A b \in Buffers \cup Effects, f \in BOOLEAN : ModEvent(b, f) \in Sendable
    /\ \A m \in OutMsgs : MsgOut(m) \in Sendable
    /\ Marker("end") \in Sendable /\ Marker("timeout") \in Sendable
<1>1. /\ \A s \in Signals : CcEvent(s) \in Sendable
      /\ \A p \in ProgramIds \ {Hidden}, o \in Origins : PcEvent(p, o) \in Sendable
      /\ \A b \in Buffers : LoadEvent(b, "UI") \in Sendable
      /\ \A b \in Buffers : PeerRequests => LoadEvent(b, "MIDI") \in Sendable
      /\ \A b \in Buffers, o \in Origins : StoreEvent(b, o) \in Sendable
      /\ \A b \in Buffers \cup Effects, f \in BOOLEAN : ModEvent(b, f) \in Sendable
  BY DEF Sendable, XtEvents, ForPeer, CcEvent, PcEvent, LoadEvent, StoreEvent, ModEvent, Marker, Origins
<1>2. /\ \A b \in Single \cup Effects, d \in Patch : XtData(b, "MIDI", d, "UI") \in Sendable
      /\ \A b \in Single, d \in Patch, r \in Origins :
             r = "UI" \/ PeerRequests => XtData(b, "UI", d, r) \in Sendable
      /\ \A m \in OutMsgs : MsgOut(m) \in Sendable
      /\ Marker("end") \in Sendable /\ Marker("timeout") \in Sendable
  BY DEF Sendable, XtEvents, ForPeer, XtData, MsgOut, Marker, Origins
<1> QED BY <1>1, <1>2

LEMMA XtEventKinds ==
    ASSUME NEW e \in XtEvents
    PROVE  /\ e.type = "cc" => e.sig \in Signals
           /\ e.type = "pc" => e \in [type : {"pc"}, program : ProgramIds \ {Hidden},
                                      origin : Origins]
           /\ e.type \in {"load", "store"} => e.buffer \in Buffers /\ e.origin \in Origins
           /\ e.type = "load" => e = LoadEvent(e.buffer, e.origin)
           /\ e.type = "store" => e = StoreEvent(e.buffer, e.origin)
           /\ e.type = "copy" => e.from \in Single /\ e.to \in Single
           /\ e.type = "data" => /\ e.buffer \in Single \cup Effects /\ e.origin \in Origins
                                 /\ e.content \in Patch
                                 /\ e.request # "UI" => e.request = "MIDI" /\ e.origin = "UI"
                                 /\ e.buffer \in Effects =>
                                        e.request = "UI" \/ e.buffer \in Single
           /\ e.type = "modified" => e.buffer \in Buffers \cup Effects /\ e.flag \in BOOLEAN
           /\ e.type = "marker" => e = Marker(e.marker) /\ e.marker \in {"end", "timeout", "number"}
           /\ e.type = "in" => e.msg \in InMsgs /\ e = MsgIn(e.msg)
           /\ e.type = "out" => e.msg \in OutMsgs /\ e = MsgOut(e.msg)
<1>1. CASE e \in [type : {"cc"}, sig : Signals]
  BY <1>1
<1>2. CASE e \in [type : {"pc"}, program : ProgramIds \ {Hidden}, origin : Origins]
  BY <1>2
<1>3. CASE e \in [type : {"load", "store"}, buffer : Buffers, origin : Origins]
  BY <1>3 DEF LoadEvent, StoreEvent
<1>4. CASE e \in [type : {"copy"}, from : Single, to : Single]
  BY <1>4
<1>5. CASE \/ e \in [type : {"data"}, buffer : Single \cup Effects, origin : {"MIDI"}, content : Patch,
                     request : {"UI"}]
           \/ e \in [type : {"data"}, buffer : Single, origin : {"UI"}, content : Patch,
                     request : Origins]
  BY <1>5 DEF Origins
<1>6. CASE e \in [type : {"modified"}, buffer : Buffers \cup Effects, flag : BOOLEAN]
  BY <1>6
<1>7. CASE e \in [type : {"marker"}, marker : {"end", "timeout", "number"}]
  BY <1>7 DEF Marker
<1>8. CASE e \in [type : {"in"}, msg : InMsgs] \cup [type : {"out"}, msg : OutMsgs]
  BY <1>8 DEF MsgIn, MsgOut
<1> QED BY <1>1, <1>2, <1>3, <1>4, <1>5, <1>6, <1>7, <1>8 DEF XtEvents

-----------------------------------------------------------------------------
(* The application task takes an event off the bus and sends more of them, *)
(* or, between two reads of the program, only sends.                       *)

Takes == bus # <<>> /\ app = Idle /\ \E evs \in Seq(Sendable) : Reply(evs)
Grows == \E evs \in Seq(Sendable) : bus' = bus \o evs

LEMMA HeadOnBus ==
    ASSUME NEW S, bus \in Seq(S), bus # <<>>
    PROVE  Head(bus) \in Range(bus)
<1>1. 1 \in DOMAIN bus /\ Head(bus) = bus[1]
  BY HeadTailProperties, EmptySeq, LenProperties
<1> QED BY <1>1 DEF Range

LEMMA XtTaking ==
    ASSUME XtTypeOK, NEW t, Taking(t)
    PROVE  /\ bus \in Seq(XtEvents) /\ bus # <<>> /\ Head(bus) \in XtEvents
           /\ Head(bus).type = t /\ app = Idle
BY Tuples DEF XtTypeOK, Taking

LEMMA XtBufferSets ==
    /\ Programs \subseteq Single /\ EditBuffer \in Single /\ Single \subseteq Buffers
    /\ {EditBuffer, Current, All} \subseteq Buffers
    /\ Effects \cap Buffers = {} /\ Effects \cap Single = {}
    /\ Hidden \notin Programs /\ Modes = {} /\ ~DeviceSwap /\ ~AllProgramsDump
    /\ Programs \subseteq ProgramIds \ {Hidden}
BY BufferSets, PodCoreAssumption, XtHandlerAssumption DEF ProgramIds

LEMMA ModifiedAfterSends ==
    ASSUME NEW b \in Buffers \cup Effects, NEW r \in BOOLEAN
    PROVE  ModifiedAfter(b, r) \in Seq(Sendable)
<1>1. /\ ModEvent(EditBuffer, TRUE) \in Sendable /\ StoreEvent(EditBuffer, "UI") \in Sendable
      /\ ModEvent(b, r) \in Sendable
  BY XtBufferSets, SendableTyped DEF Origins
<1>2. /\ <<ModEvent(EditBuffer, TRUE)>> \in Seq(Sendable) /\ <<ModEvent(b, r)>> \in Seq(Sendable)
      /\ <<StoreEvent(EditBuffer, "UI")>> \in Seq(Sendable) /\ <<>> \in Seq(Sendable)
  BY <1>1, Tuples
<1> QED BY <1>2, Tuples DEF ModifiedAfter

\* What Stored answers: the programs it names, or the edit buffer.
LEMMA StoredPatches ==
    ASSUME XtTypeOK, NEW b \in Buffers
    PROVE  /\ \E S : Stored(b) \in Seq(S)
           /\ \A i \in 1..Len(Stored(b)) :
                  Stored(b)[i].buffer \in Single /\ Stored(b)[i].content \in Patch
<1>0. raw \in Patch /\ \A p \in Programs : data[p] \in Patch
  BY DEF XtTypeOK, Dump
<1>1. ASSUME NEW x \in Single, NEW d \in Patch, Stored(b) = <<DataEvent(x, "UI", d)>>
      PROVE  /\ \E S : Stored(b) \in Seq(S)
             /\ \A i \in 1..Len(Stored(b)) :
                    Stored(b)[i].buffer \in Single /\ Stored(b)[i].content \in Patch
  <2>1. Stored(b) \in Seq({DataEvent(x, "UI", d)})
    BY <1>1, Tuples
  <2>2. Len(Stored(b)) = 1 /\ Stored(b)[1] = DataEvent(x, "UI", d)
    BY <1>1
  <2>3. DataEvent(x, "UI", d).buffer = x /\ DataEvent(x, "UI", d).content = d
    BY DEF DataEvent
  <2> QED BY <2>1, <2>2, <2>3
<1>2. CASE b = Current
  <2>1. CASE numbered(prog)
    <3>1. Stored(b) = <<DataEvent(prog, "UI", data[prog])>>
      BY <1>2, <2>1 DEF Stored
    <3> QED BY <1>0, <1>1, <2>1, <3>1, BufferSets DEF numbered
  <2>2. CASE ~numbered(prog)
    BY <1>2, <2>2, Tuples DEF Stored
  <2> QED BY <2>1, <2>2
<1>3. CASE b = All
  <2> DEFINE e(i) == DataEvent(ProgramSeq[i], "UI", data[ProgramSeq[i]])
             S == {e(i) : i \in 1..Len(ProgramSeq)}
  <2>1. ASSUME NEW i \in 1..Len(ProgramSeq)
        PROVE  e(i) \in S /\ e(i).buffer \in Single /\ e(i).content \in Patch
    <3>1. ProgramSeq[i] \in Programs
      BY PodCoreAssumption
    <3> QED BY <1>0, <3>1, BufferSets DEF DataEvent
  <2>2. b # Current /\ ~AllProgramsDump
    BY <1>3, PodCoreAssumption, XtHandlerAssumption
  <2>3. Stored(b) = [i \in 1..Len(ProgramSeq) |-> e(i)]
    BY <1>3, <2>2 DEF Stored
  <2>4. Len(ProgramSeq) \in Nat
    BY PodCoreAssumption
  <2> HIDE DEF e, S
  <2>5. /\ [i \in 1..Len(ProgramSeq) |-> e(i)] \in Seq(S)
        /\ Len([i \in 1..Len(ProgramSeq) |-> e(i)]) = Len(ProgramSeq)
    BY <2>1, <2>4
  <2> QED BY <2>1, <2>3, <2>5
<1>4. CASE b \in Single
  <2>1. b # Current /\ b # All /\ (b = EditBuffer \/ b \in Programs) /\ EditBuffer # All
    BY <1>4, BufferSets DEF Single, Dumpable
  <2>2. Stored(b) = <<DataEvent(b, "UI", IF b = EditBuffer THEN raw ELSE data[b])>>
    BY <2>1 DEF Stored
  <2>3. (IF b = EditBuffer THEN raw ELSE data[b]) \in Patch
    BY <1>0, <2>1
  <2> QED BY <1>1, <1>4, <2>2, <2>3
<1> QED BY <1>2, <1>3, <1>4, BufferSets

LEMMA RequestedSends ==
    ASSUME XtTypeOK, NEW b \in Buffers, NEW r \in Origins, r = "UI" \/ PeerRequests
    PROVE  Requested(Stored(b), r) \in Seq(Sendable)
<1> DEFINE evs == Stored(b)
           e(i) == XtData(evs[i].buffer, "UI", evs[i].content, r)
<1>1. DOMAIN evs = 1..Len(evs) /\ Len(evs) \in Nat
  BY StoredPatches, LenProperties
<1>2. \A i \in 1..Len(evs) : e(i) \in Sendable
  BY StoredPatches, SendableTyped
<1>3. Requested(evs, r) = [i \in 1..Len(evs) |-> e(i)]
  BY <1>1 DEF Requested
<1> HIDE DEF evs, e
<1>4. [i \in 1..Len(evs) |-> e(i)] \in Seq(Sendable)
  BY <1>1, <1>2
<1> QED BY <1>3, <1>4 DEF evs

LEMMA SendFrontSends ==
    ASSUME NEW q \in Seq(Requests)
    PROVE  /\ SendFront(q) \in Seq(Sendable)
           /\ q = <<>> => SendFront(q) = <<>>
           /\ q # <<>> => SendFront(q) = <<MsgOut(Head(q))>>
<1>1. q # <<>> => MsgOut(Head(q)) \in Sendable
  BY Tuples, RequestKinds, SendableTyped
<1> QED BY <1>1, Tuples DEF SendFront

\* The programs come first: the effects wait behind them.
LEMMA RequestsTyped ==
    ASSUME XtTypeOK, NEW b \in Buffers, b # EditBuffer
    PROVE  /\ RequestsOf(b) \in Seq(Requests)
           /\ b = All => /\ RequestsOf(b) # <<>>
                         /\ \A e \in Effects : ReqMsg(e) \in Range(Tail(RequestsOf(b)))
           /\ b \in Programs => RequestsOf(b) = <<ReqMsg(b)>>
           /\ b = Current => RequestsOf(b) = IF numbered(prog) THEN <<ReqMsg(prog)>> ELSE <<>>
           /\ RequestsOf(b) # <<>> => \A e \in Effects : Head(RequestsOf(b)) # ReqMsg(e)
<1>0. \A x \in Programs \cup Effects : ReqMsg(x) \in Requests
  BY DEF ReqMsg, Requests
<1>1. \A p \in Programs, e \in Effects : ReqMsg(p) # ReqMsg(e)
  BY XtHandlerAssumption DEF ReqMsg, Buffers
<1>2. CASE b = Current
  BY <1>0, <1>1, <1>2, Tuples, BufferSets, PodCoreAssumption DEF RequestsOf, numbered
<1>3. CASE b = All
  <2> DEFINE P == [i \in 1..Len(ProgramSeq) |-> ReqMsg(ProgramSeq[i])]
             E == [i \in 1..Len(EffectSeq) |-> ReqMsg(EffectSeq[i])]
  <2>1. RequestsOf(b) = P \o E
    BY <1>3, BufferSets, PodCoreAssumption, XtHandlerAssumption, LenProperties DEF RequestsOf
  <2>2. ProgramSeq \in Seq(Programs) /\ EffectSeq \in Seq(Effects) /\ Len(ProgramSeq) \in Nat \ {0}
        /\ Len(EffectSeq) \in Nat
    BY PodCoreAssumption, XtHandlerAssumption, EmptySeq, LenProperties,
       XtStartupAssumption
  <2>3. P \in Seq(Requests) /\ Len(P) = Len(ProgramSeq) /\ E \in Seq(Requests) /\ Len(E) = Len(EffectSeq)
    BY <1>0, <2>2
  <2>4. \A i \in 1..Len(P) : P[i] = ReqMsg(ProgramSeq[i])
    BY <2>3
  <2>5. \A i \in 1..Len(E) : E[i] = ReqMsg(EffectSeq[i])
    BY <2>3
  <2> HIDE DEF P, E
  <2>6. /\ P \o E \in Seq(Requests) /\ Len(P \o E) = Len(P) + Len(E)
        /\ \A i \in 1..(Len(P) + Len(E)) : (P \o E)[i] = IF i <= Len(P) THEN P[i] ELSE E[i - Len(P)]
    BY <2>3, ConcatProperties
  <2>7. P \o E # <<>>
    BY <2>2, <2>3, <2>6
  <2>8. ASSUME NEW e \in Effects PROVE ReqMsg(e) \in Range(Tail(P \o E))
    <3>1. PICK i \in DOMAIN EffectSeq : EffectSeq[i] = e
      BY XtStartupAssumption
    <3>2. i \in 1..Len(E) /\ E[i] = ReqMsg(e)
      BY <2>2, <2>3, <2>5, <3>1
    <3>3. Len(P) + i \in 2..Len(P \o E) /\ (P \o E)[Len(P) + i] = ReqMsg(e)
      BY <2>2, <2>3, <2>6, <3>2
    <3>4. /\ Tail(P \o E) \in Seq(Requests) /\ Len(Tail(P \o E)) = Len(P \o E) - 1
          /\ \A j \in 1..Len(Tail(P \o E)) : Tail(P \o E)[j] = (P \o E)[j + 1]
      BY <2>6, <2>7, HeadTailProperties
    <3>5. Len(P \o E) \in Nat /\ Len(P) \in Nat /\ i \in Nat
      BY <2>2, <2>3, <2>6, <3>2
    <3> DEFINE r == P \o E
               k == Len(P) + i
               n == Len(r)
    <3>6. k \in 2..n /\ n \in Nat /\ k - 1 \in 1..(n - 1) /\ (k - 1) + 1 = k
      BY <3>3, <3>5
    <3> HIDE DEF r, k
    <3>7. k - 1 \in 1..Len(Tail(r))
      BY <3>4, <3>6 DEF r
    <3>8. Tail(r)[k - 1] = ReqMsg(e)
      BY <3>3, <3>4, <3>7, <3>6 DEF r, k
    <3>9. DOMAIN Tail(r) = 1..Len(Tail(r))
      BY <3>4, LenProperties DEF r
    <3>10. ReqMsg(e) \in Range(Tail(r))
      BY <3>7, <3>8, <3>9 DEF Range
    <3> QED BY <3>10 DEF r
  <2>9. ASSUME NEW e \in Effects PROVE Head(P \o E) # ReqMsg(e)
    <3>1. Head(P \o E) = P[1] /\ 1 \in 1..Len(P)
      BY <2>2, <2>3, <2>6, <2>7, HeadTailProperties
    <3>2. ProgramSeq[1] \in Programs
      BY <2>2
    <3> QED BY <1>1, <2>4, <3>1, <3>2
  <2>10. b \notin Programs /\ b # Current
    BY <1>3, PodCoreAssumption
  <2> QED BY <2>1, <2>6, <2>7, <2>8, <2>9, <2>10
<1>4. CASE b \in Programs
  <2>1. RequestsOf(b) = <<ReqMsg(b)>> /\ b # All /\ b # Current
    BY <1>4, BufferSets DEF RequestsOf
  <2> QED BY <1>0, <1>1, <1>4, <2>1, Tuples
<1> QED BY <1>2, <1>3, <1>4, BufferSets

\* The signal handlers and PodCore's part of the task.
LEMMA ControlSends ==
    ASSUME XtTypeOK
    PROVE  /\ HandleControl \/ HandleName \/ MidiControl \/ MidiProgram => Takes
           /\ HandleProgramChange \/ HandleCopy \/ HandleModified \/ HandleMsgOut => Takes
           /\ FinishProgramChange \/ Reload \/ ShowModified => Grows
<1> USE XtTaking DEF Takes
<1>0. /\ \A b \in Buffers, f \in BOOLEAN : <<ModEvent(b, f)>> \in Seq(Sendable)
      /\ \A b \in Buffers : <<LoadEvent(b, "UI")>> \in Seq(Sendable)
                            /\ <<StoreEvent(b, "UI")>> \in Seq(Sendable)
      /\ \A m \in OutMsgs : <<MsgOut(m)>> \in Seq(Sendable)
      /\ <<>> \in Seq(Sendable)
  BY SendableTyped, Tuples DEF Origins
<1>1. ASSUME HandleControl PROVE Takes
  <2>1. Head(bus).sig \in Signals /\ Head(bus).sig.key = "control"
    BY <1>1, XtEventKinds DEF HandleControl
  <2>2. SendCc(Head(bus).sig) \in Seq(Sendable)
    BY <1>0, <2>1, SignalsTyped, XtMsgsTyped DEF SendCc
  <2>3. SendCc(Head(bus).sig) \o <<ModEvent(Current, TRUE)>> \in Seq(Sendable)
    BY <1>0, <2>2, XtBufferSets, Tuples
  <2> QED BY <1>0, <1>1, <2>3 DEF HandleControl
<1>2. ASSUME HandleName PROVE Takes
  BY <1>0, <1>2, XtBufferSets DEF HandleName
<1>3. ASSUME MidiControl PROVE Takes
  BY <1>0, <1>3, XtBufferSets DEF MidiControl
<1>4. ASSUME MidiProgram PROVE Takes
  BY <1>0, <1>4 DEF MidiProgram
<1>5. ASSUME HandleProgramChange PROVE Takes
  BY <1>0, <1>5, XtBufferSets DEF HandleProgramChange, numbered
<1>6. ASSUME HandleCopy PROVE Takes
  <2>1. Head(bus).from \in Single
    BY <1>6, XtEventKinds DEF HandleCopy
  <2> QED BY <1>0, <1>6, <2>1, XtBufferSets DEF HandleCopy
<1>7. ASSUME HandleModified PROVE Takes
  BY <1>0, <1>7 DEF HandleModified
<1>8. ASSUME HandleMsgOut PROVE Takes
  BY <1>0, <1>8, XtBufferSets DEF HandleMsgOut
<1>9. ASSUME FinishProgramChange PROVE Grows
  <2>1. \A p \in DOMAIN PcNum : <<MsgOut(PcMsg(PcNum[p]))>> \in Seq(Sendable)
    BY <1>0, PodCoreAssumption, XtMsgsTyped
  <2>2. <<StoreEvent(EditBuffer, "UI")>> \in Seq(Sendable)
    BY <1>0, XtBufferSets
  <2>3. \E evs \in Seq(Sendable) : bus' = bus \o evs
    BY <1>0, <1>9, <2>1, <2>2, Tuples DEF FinishProgramChange
  <2> QED BY <2>3 DEF Grows
<1>10. ASSUME Reload PROVE Grows
  <2>1. app.buffer \in Programs /\ app.rerouted \in BOOLEAN
    <3>1. app \in Pauses
      BY DEF XtTypeOK
    <3> QED BY <1>10, <3>1 DEF Reload, Pauses, Idle
  <2>2. ModifiedAfter(app.buffer, app.rerouted) \in Seq(Sendable)
    BY <2>1, XtBufferSets, ModifiedAfterSends
  <2> QED BY <1>10, <2>2 DEF Reload, Grows
<1>11. ASSUME ShowModified PROVE Grows
  <2>1. bus \o <<>> = bus
    BY ConcatEmptySeq DEF XtTypeOK
  <2> QED BY <1>0, <1>11, <2>1 DEF ShowModified, Grows
<1> QED BY <1>1, <1>2, <1>3, <1>4, <1>5, <1>6, <1>7, <1>8, <1>9, <1>10, <1>11

\* The handler's own part, but for the requests.
LEMMA HandlerSends ==
    ASSUME XtTypeOK, PeerFree
    PROVE  /\ LoadForPeer \/ LoadEditBuffer \/ XtStore => Takes
           /\ XtDataOut \/ XtDataIn \/ EffectIn => Takes
           /\ EndMarker \/ TimeoutMarker \/ NumberMarker => Takes
           /\ BufferDumpIn \/ PatchRequestIn \/ StatusIn => Takes
           /\ NumberRequestIn \/ StateRequestIn => Takes
           /\ ~PatchDumpIn
<1> USE XtTaking DEF Takes
<1>0. /\ \A m \in OutMsgs : <<MsgOut(m)>> \in Seq(Sendable)
      /\ <<Marker("end")>> \in Seq(Sendable) /\ <<>> \in Seq(Sendable)
  BY SendableTyped, Tuples
<1>1. ASSUME LoadForPeer \/ XtStore PROVE Takes
  <2>1. Head(bus).buffer \in Buffers
    BY <1>1, XtEventKinds DEF LoadForPeer, XtStore
  <2>2. /\ Requested(Stored(Head(bus).buffer), "UI") \in Seq(Sendable)
        /\ LoadForPeer => Requested(Stored(Head(bus).buffer), "MIDI") \in Seq(Sendable)
    <3>1. LoadForPeer => PeerRequests
      BY HeadOnBus DEF LoadForPeer, Taking, PeerFree, ForPeer, XtTypeOK
    <3> QED BY <2>1, <3>1, RequestedSends DEF Origins
  <2>3. \A s \in Seq(Sendable) : /\ s \o <<Marker("end")>> \in Seq(Sendable)
                                 /\ WithEnd(s) \in Seq(Sendable)
    BY <1>0, Tuples, SendableTyped DEF WithEnd
  <2>4. \E evs \in Seq(Sendable) : Reply(evs)
    BY <1>0, <1>1, <2>2, <2>3 DEF LoadForPeer, XtStore
  <2> QED BY <1>1, <2>4 DEF LoadForPeer, XtStore
<1>2. ASSUME LoadEditBuffer PROVE Takes
  BY <1>0, <1>2, XtBufferSets, XtMsgsTyped DEF LoadEditBuffer
<1>3. ASSUME XtDataOut PROVE Takes
  <2>1. Head(bus).content \in Patch
    BY <1>3, XtEventKinds DEF XtDataOut
  <2>2. /\ BufferDump(Head(bus).content) \in OutMsgs
        /\ Head(bus).buffer \in Programs => DumpMsg(Head(bus).buffer, Head(bus).content) \in OutMsgs
    BY <2>1, XtMsgsTyped
  <2> QED BY <1>0, <1>3, <2>2 DEF XtDataOut
<1>4. ASSUME XtDataIn PROVE Takes
  <2>1. Rerouted \in BOOLEAN
    BY DEF Rerouted
  <2>2. CASE DataToEditBuffer
    BY <2>1, <2>2, ModifiedAfterSends, XtBufferSets DEF DataToEditBuffer
  <2>3. CASE DataToProgram
    <3>1. ModifiedAfter(Target, Rerouted) \in Seq(Sendable)
      BY <2>1, <2>3, ModifiedAfterSends, XtBufferSets DEF DataToProgram
    <3> QED BY <1>0, <2>3, <3>1 DEF DataToProgram
  <2> QED BY <1>4, <2>2, <2>3 DEF XtDataIn
<1>5. ASSUME EffectIn PROVE Takes
  BY <1>5, ModifiedAfterSends DEF EffectIn
<1>6. ASSUME EndMarker \/ TimeoutMarker \/ NumberMarker PROVE Takes
  BY <1>0, <1>6, XtMsgsTyped DEF EndMarker, TimeoutMarker, NumberMarker
<1>7. ASSUME BufferDumpIn PROVE Takes
  <2>1. Head(bus).msg.content \in Patch
    BY <1>7, XtEventKinds, InKinds DEF BufferDumpIn, Receiving
  <2>2. HeadIs("request") => Head(queue).buffer \in Programs \cup Effects
    BY Tuples, RequestKinds DEF HeadIs, XtTypeOK
  <2>3. QueueNames \in Single \cup Effects
    BY <2>2, XtBufferSets DEF QueueNames
  <2>4. <<XtData(QueueNames, "MIDI", Head(bus).msg.content, "UI")>> \in Seq(Sendable)
    BY <2>1, <2>3, SendableTyped, Tuples
  <2> QED BY <1>7, <2>4 DEF BufferDumpIn, Receiving
<1>8. ASSUME PatchRequestIn PROVE Takes
  <2>1. Head(bus).msg.buffer \in Single
    BY <1>8, XtEventKinds, InKinds DEF PatchRequestIn, Receiving
  <2>2. PeerRequests
    BY <1>8, HeadOnBus DEF PatchRequestIn, Receiving, Taking, PeerFree, Arriving, XtTypeOK
  <2>3. <<LoadEvent(Head(bus).msg.buffer, "MIDI")>> \in Seq(Sendable)
    BY <2>1, <2>2, XtBufferSets, SendableTyped, Tuples
  <2> QED BY <1>8, <2>3 DEF PatchRequestIn, Receiving
<1>9. ASSUME StatusIn PROVE Takes
  <2> DEFINE stored == SetToSeq(storing)
             e(i) == ModEvent(stored[i], FALSE)
  <2>1. stored \in Seq(storing) /\ Len(stored) \in Nat /\ DOMAIN stored = 1..Len(stored)
    BY SetToSeqIsSeq, LenProperties DEF XtTypeOK
  <2>2. \A i \in 1..Len(stored) : stored[i] \in Buffers
    <3>1. storing \subseteq Buffers
      BY XtBufferSets DEF XtTypeOK
    <3>2. \A i \in 1..Len(stored) : stored[i] \in storing
      BY <2>1
    <3> QED BY <3>1, <3>2
  <2>3. \A i \in 1..Len(stored) : e(i) \in Sendable
    BY <2>2, SendableTyped
  <2>4. \E evs : (evs = <<>> \/ evs = [i \in 1..Len(stored) |-> e(i)]) /\ Reply(evs)
    BY <1>9, <2>1 DEF StatusIn
  <2> HIDE DEF stored, e
  <2>5. [i \in 1..Len(stored) |-> e(i)] \in Seq(Sendable)
    BY <2>1, <2>3
  <2> QED BY <1>0, <1>9, <2>4, <2>5 DEF StatusIn, Receiving
<1>10. ASSUME NumberRequestIn \/ StateRequestIn PROVE Takes
  <2>1. ProgramSeq[1] \in Programs
    <3>1. ProgramSeq \in Seq(Programs) /\ Len(ProgramSeq) \in Nat \ {0}
      BY PodCoreAssumption, EmptySeq, LenProperties,
       XtStartupAssumption
    <3> QED BY <3>1
  <2>2. \A p \in Programs : /\ <<MsgOut(ProgramNumber(p))>> \in Seq(Sendable)
                             /\ <<MsgOut(EditState(modified[p]))>> \in Seq(Sendable)
    <3>1. \A p \in Programs : modified[p] \in BOOLEAN
      BY DEF XtTypeOK
    <3> QED BY <1>0, <3>1, XtMsgsTyped
  <2>3. \E evs \in Seq(Sendable) : Reply(evs)
    BY <1>0, <1>10, <2>1, <2>2 DEF NumberRequestIn, StateRequestIn, numbered
  <2> QED BY <1>10, <2>3 DEF NumberRequestIn, StateRequestIn, Receiving
<1>11. ~PatchDumpIn
  BY XtEventKinds, InKinds DEF PatchDumpIn, Receiving
<1> QED BY <1>1, <1>2, <1>3, <1>4, <1>5, <1>6, <1>7, <1>8, <1>9, <1>10, <1>11

LEMMA Concat ==
    ASSUME NEW S, NEW s \in Seq(S), NEW t \in Seq(S)
    PROVE  /\ s \o t \in Seq(S) /\ Range(s \o t) = Range(s) \cup Range(t)
           /\ s \o <<>> = s /\ <<>> \o s = s
BY ConcatProperties, RangeConcatenation, ConcatEmptySeq

\* A request that is answered is taken off the queue, and the next one is sent.
Retired ==
    /\ queue' = IF queue = <<>> THEN queue ELSE Tail(queue)
    /\ \E evs \in Seq(Sendable) : Reply(evs \o SendFront(queue'))

LEMMA RetiredSends ==
    ASSUME XtTypeOK, Retired, bus # <<>>, app = Idle
    PROVE  Takes /\ queue' \in Seq(Requests)
<1>1. queue' \in Seq(Requests)
  BY Tuples DEF Retired, XtTypeOK
<1>2. SendFront(queue') \in Seq(Sendable)
  BY <1>1, SendFrontSends
<1> QED BY <1>1, <1>2, Concat DEF Retired, Takes

LEMMA QueueSends ==
    ASSUME XtTypeOK
    PROVE  /\ LoadPatches => Takes /\ queue' \in Seq(Requests)
           /\ DumpEndIn => Takes /\ ((ack /\ UNCHANGED queue) \/ (~ack /\ Retired))
           /\ ProgramNumberIn => /\ Takes
                                 /\ \/ HeadIs("number?") /\ Retired
                                    \/ ~HeadIs("number?") /\ UNCHANGED queue
           /\ EditStateIn => /\ Takes
                             /\ \/ HeadIs("state?") /\ Retired
                                \/ ~HeadIs("state?") /\ UNCHANGED queue
<1> USE XtTaking DEF Takes
<1>0. /\ \A m \in OutMsgs : <<MsgOut(m)>> \in Seq(Sendable)
      /\ <<>> \in Seq(Sendable)
  BY SendableTyped, Tuples
<1>1. ASSUME NEW s \in Seq(Sendable), NEW t \in Seq(Sendable) PROVE s \o t \in Seq(Sendable)
  BY Tuples
<1>2. ASSUME LoadPatches PROVE Takes /\ queue' \in Seq(Requests)
  <2>1. Head(bus).buffer \in Buffers /\ Head(bus).buffer # EditBuffer
    BY <1>2, XtEventKinds DEF LoadPatches
  <2>2. queue \in Seq(Requests) /\ RequestsOf(Head(bus).buffer) \in Seq(Requests)
    BY <2>1, RequestsTyped DEF XtTypeOK
  <2>3. queue' \in Seq(Requests)
    BY <1>2, <2>2, Tuples DEF LoadPatches
  <2>4. SendFront(queue') \in Seq(Sendable)
    BY <2>3, SendFrontSends
  <2> QED BY <1>0, <1>2, <2>3, <2>4 DEF LoadPatches
<1>3. ASSUME NEW evs \in Seq(Sendable), Advance(evs) PROVE Retired
  BY <1>3 DEF Advance, Retired
<1>4. ASSUME DumpEndIn PROVE Takes /\ ((ack /\ UNCHANGED queue) \/ (~ack /\ Retired))
  <2>1. CASE ack
    <3>1. StoreStatus(TRUE) \in OutMsgs
      BY XtMsgsTyped
    <3> QED BY <1>0, <1>4, <2>1, <3>1 DEF DumpEndIn, Receiving
  <2>2. CASE ~ack
    <3>1. Retired
      BY <1>0, <1>3, <1>4, <2>2 DEF DumpEndIn, NextRequest
    <3> QED BY <1>4, <2>2, <3>1, RetiredSends DEF DumpEndIn, Receiving
  <2> QED BY <2>1, <2>2
<1>5. ASSUME ProgramNumberIn
      PROVE  Takes /\ (\/ HeadIs("number?") /\ Retired
                       \/ ~HeadIs("number?") /\ UNCHANGED queue)
  <2>1. CASE HeadIs("number?")
    <3>1. Retired
      BY <1>0, <1>3, <1>5, <2>1 DEF ProgramNumberIn
    <3> QED BY <1>5, <2>1, <3>1, RetiredSends DEF ProgramNumberIn, Receiving
  <2>2. CASE ~HeadIs("number?")
    BY <1>0, <1>5, <2>2 DEF ProgramNumberIn, Receiving
  <2> QED BY <2>1, <2>2
<1>6. ASSUME EditStateIn
      PROVE  Takes /\ (\/ HeadIs("state?") /\ Retired
                       \/ ~HeadIs("state?") /\ UNCHANGED queue)
  <2> DEFINE evs == IF reported = NoProgram THEN <<>>
                    ELSE <<ModEvent(reported, Head(bus).msg.modified)>>
                         \o (IF prog = reported THEN <<LoadEvent(EditBuffer, "UI")>> ELSE <<>>)
  <2>1. evs \in Seq(Sendable)
    <3>1. Head(bus).msg.modified \in BOOLEAN
      BY <1>6, XtEventKinds, InKinds DEF EditStateIn, Receiving
    <3>2. reported # NoProgram => reported \in Buffers
      BY XtBufferSets DEF XtTypeOK
    <3>3. /\ reported # NoProgram => <<ModEvent(reported, Head(bus).msg.modified)>> \in Seq(Sendable)
          /\ <<LoadEvent(EditBuffer, "UI")>> \in Seq(Sendable)
      BY <3>1, <3>2, XtBufferSets, SendableTyped, Tuples DEF Origins
    <3> QED BY <1>0, <1>1, <3>3
  <2> HIDE DEF evs
  <2>2. IF HeadIs("state?") THEN Advance(evs) ELSE Reply(evs) /\ UNCHANGED queue
    BY <1>6 DEF EditStateIn, evs
  <2>3. CASE HeadIs("state?")
    <3>1. Retired
      BY <1>3, <2>1, <2>2, <2>3
    <3> QED BY <1>6, <2>3, <3>1, RetiredSends DEF EditStateIn, Receiving
  <2>4. CASE ~HeadIs("state?")
    BY <1>6, <2>1, <2>2, <2>4 DEF EditStateIn, Receiving
  <2> QED BY <2>3, <2>4
<1> QED BY <1>2, <1>4, <1>5, <1>6

-----------------------------------------------------------------------------
(* Every step keeps the types.                                             *)

LEMMA XtBusTyped ==
    ASSUME XtTypeOK, Takes \/ Grows
    PROVE  bus' \in Seq(XtEvents)
<1>1. Seq(Sendable) \subseteq Seq(XtEvents)
  <2>1. Sendable \subseteq XtEvents
    BY DEF Sendable
  <2> QED BY <2>1, SeqMonotonic
<1>2. bus \in Seq(XtEvents) /\ (bus # <<>> => Tail(bus) \in Seq(XtEvents))
  BY Tuples DEF XtTypeOK
<1>3. CASE Takes
  <2>1. PICK evs \in Seq(Sendable) : bus' = Tail(bus) \o evs
    BY <1>3 DEF Takes, Reply
  <2> QED BY <1>1, <1>2, <1>3, <2>1, Tuples DEF Takes
<1>4. CASE Grows
  <2>1. PICK evs \in Seq(Sendable) : bus' = bus \o evs
    BY <1>4 DEF Grows
  <2> QED BY <1>1, <1>2, <2>1, Tuples
<1> QED BY <1>3, <1>4

LEMMA XtLoadEditTyped ==
    ASSUME XtTypeOK, NEW d \in Patch, LoadEdit(d)
    PROVE  raw' \in Patch /\ ctl' \in Vals /\ ctq' \in Seq(Signals)
<1>1. d.val \in Vals /\ ctq \in Seq(Signals)
  BY DEF Patch, XtTypeOK
<1>2. ControlSignal(d.val, "NONE") \in Signals /\ NameSignal("NONE") \in Signals
  BY <1>1, SignalsTyped
<1> QED BY <1>1, <1>2, Tuples DEF LoadEdit

LEMMA AppendTyped ==
    ASSUME XtTypeOK
    PROVE  /\ \A e \in XtEvents : Append(bus, e) \in Seq(XtEvents)
           /\ \A s \in Signals : Append(ctq, s) \in Seq(Signals)
           /\ \A b \in Buttons \cup {"program"} : Append(uiq, b) \in Seq(Buttons \cup {"program"})
           /\ \A m \in OutMsgs : Append(toDev, m) \in Seq(OutMsgs)
           /\ \A m \in InMsgs : Append(fromDev, m) \in Seq(InMsgs)
<1>1. /\ bus \in Seq(XtEvents) /\ ctq \in Seq(Signals) /\ uiq \in Seq(Buttons \cup {"program"})
      /\ toDev \in Seq(OutMsgs) /\ fromDev \in Seq(InMsgs)
  BY DEF XtTypeOK
<1> QED BY <1>1, Tuples

LEMMA TailTyped ==
    ASSUME XtTypeOK
    PROVE  /\ uiq # <<>> => /\ Tail(uiq) \in Seq(Buttons \cup {"program"})
                            /\ Head(uiq) \in Buttons \cup {"program"}
           /\ ctq # <<>> => Tail(ctq) \in Seq(Signals) /\ Head(ctq) \in Signals
           /\ toDev # <<>> => Tail(toDev) \in Seq(OutMsgs) /\ Head(toDev) \in OutMsgs
           /\ fromDev # <<>> => Tail(fromDev) \in Seq(InMsgs) /\ Head(fromDev) \in InMsgs
<1>1. /\ ctq \in Seq(Signals) /\ uiq \in Seq(Buttons \cup {"program"})
      /\ toDev \in Seq(OutMsgs) /\ fromDev \in Seq(InMsgs)
  BY DEF XtTypeOK
<1> QED BY <1>1, Tuples

\* The events that are sent and the bus they are added to.
LEMMA SentTyped ==
    /\ Sendable \subseteq XtEvents
    /\ \A f, t \in Single : CopyEvent(f, t) \in XtEvents
    /\ \A m \in InMsgs : MsgIn(m) \in XtEvents
BY DEF Sendable, XtEvents, CopyEvent, MsgIn

LEMMA XtUserTyped == ASSUME XtTypeOK, CoreUser PROVE XtTypeOK'
<1> USE DEF uiVars, editVars, dumpVars, devVars, ownVars, handlerVars, storeVars
<1>0. UNCHANGED ownVars /\ User
  BY DEF CoreUser
<1>1. ASSUME NEW v \in Vals, UserEdit(v) PROVE XtTypeOK'
  <2>1. ControlSignal(v, "UI") \in Signals
    BY SignalsTyped DEF Origins
  <2>2. ctq' \in Seq(Signals)
    BY <1>1, <2>1, AppendTyped DEF UserEdit
  <2> QED BY <1>0, <1>1, <2>2 DEF UserEdit, XtTypeOK
<1>2. ASSUME NEW n \in Names, UserRename(n) PROVE XtTypeOK'
  <2>1. NameSignal("UI") \in Signals
    BY SignalsTyped
  <2>2. ctq' \in Seq(Signals)
    BY <1>2, <2>1, AppendTyped DEF UserRename
  <2>3. raw' \in Patch
    <3>1. raw \in Patch
      BY DEF XtTypeOK
    <3> QED BY <1>2, <3>1 DEF UserRename, Patch
  <2> QED BY <1>0, <1>2, <2>2, <2>3 DEF UserRename, XtTypeOK
<1>3. ASSUME NEW p \in Programs, UserProgram(p) PROVE XtTypeOK'
  <2>1. uiq' \in Seq(Buttons \cup {"program"}) /\ prog' = p /\ progOrigin' = "UI"
    BY <1>3, AppendTyped DEF UserProgram, SetProgram
  <2> QED BY <1>0, <1>3, <2>1 DEF UserProgram, XtTypeOK, Origins
<1>4. ASSUME NEW b \in Buttons, UserButton(b) PROVE XtTypeOK'
  <2>1. uiq' \in Seq(Buttons \cup {"program"})
    BY <1>4, AppendTyped DEF UserButton
  <2> QED BY <1>0, <1>4, <2>1 DEF UserButton, XtTypeOK
<1>5. ASSUME NEW p \in Programs, NEW e \in GridActions(p), UserGrid(e) PROVE XtTypeOK'
  <2>1. e \in XtEvents
    BY XtBufferSets, SendableTyped, SentTyped DEF GridActions, Origins
  <2>2. bus' \in Seq(XtEvents)
    BY <1>5, <2>1, AppendTyped DEF UserGrid
  <2> QED BY <1>0, <1>5, <2>2 DEF UserGrid, XtTypeOK
<1>6. ASSUME NEW p \in Programs, UserLoadUnmodified(p) PROVE XtTypeOK'
  <2>1. bus' \in Seq(XtEvents)
    BY <1>6, AppendTyped, XtBufferSets, SendableTyped, SentTyped DEF UserLoadUnmodified, Origins
  <2>2. reroute' \in [Dumpable -> Single \cup {NoRoute}]
    <3>1. reroute \in [Dumpable -> Single \cup {NoRoute}]
      BY DEF XtTypeOK
    <3> QED BY <1>6, <3>1, BufferSets DEF UserLoadUnmodified
  <2> QED BY <1>0, <1>6, <2>1, <2>2 DEF UserLoadUnmodified, XtTypeOK
<1>7. ~NewDevice
  BY XtBufferSets DEF NewDevice
<1>8. Programs \cup Modes = Programs
  BY XtBufferSets
<1> QED
  <2> HIDE DEF XtTypeOK, uiVars, editVars, dumpVars, devVars, ownVars, handlerVars, storeVars
  <2> QED BY <1>0, <1>1, <1>2, <1>3, <1>4, <1>5, <1>6, <1>7, <1>8 DEF User

LEMMA XtSignalsTyped ==
    ASSUME XtTypeOK, XtUiSignal \/ XtCtlSignal \/ XtMidiIn \/ TimerFires
    PROVE  XtTypeOK'
<1> USE DEF uiVars, editVars, dumpVars, devVars, ownVars, handlerVars, storeVars
<1>1. CASE XtUiSignal
  <2>1. UiSignal /\ UNCHANGED ownVars /\ uiq # <<>>
    BY <1>1 DEF XtUiSignal, UiSignal
  <2>2. uiq' \in Seq(Buttons \cup {"program"})
    BY <2>1, TailTyped DEF UiSignal
  <2>3. Head(uiq) \in Buttons => ButtonEvent[Head(uiq)] \in XtEvents
    BY XtBufferSets, SendableTyped, SentTyped DEF ButtonEvent, Buttons, Origins
  <2>4. progOrigin # "NONE" /\ prog # Hidden => PcEvent(prog, progOrigin) \in XtEvents
    BY XtBufferSets, SendableTyped, SentTyped DEF XtTypeOK
  <2>5. bus' \in Seq(XtEvents)
    <3>1. bus \in Seq(XtEvents)
      BY DEF XtTypeOK
    <3> QED BY <2>1, <2>3, <2>4, <3>1, AppendTyped DEF UiSignal
  <2> QED BY <2>1, <2>2, <2>5 DEF UiSignal, XtTypeOK
<1>2. CASE XtCtlSignal
  <2>1. CtlSignal /\ UNCHANGED ownVars /\ ctq # <<>>
    BY <1>2 DEF XtCtlSignal, CtlSignal
  <2>2. ctq' \in Seq(Signals) /\ bus' \in Seq(XtEvents)
    BY <2>1, TailTyped, AppendTyped, SendableTyped, SentTyped DEF CtlSignal
  <2> QED BY <2>1, <2>2 DEF CtlSignal, XtTypeOK
<1>3. CASE XtMidiIn
  <2>1. MidiIn /\ UNCHANGED ownVars /\ fromDev # <<>>
    BY <1>3 DEF XtMidiIn, MidiIn
  <2>2. fromDev' \in Seq(InMsgs) /\ bus' \in Seq(XtEvents)
    BY <2>1, TailTyped, AppendTyped, SentTyped DEF MidiIn
  <2> QED BY <2>1, <2>2 DEF MidiIn, XtTypeOK
<1>4. CASE TimerFires
  <2>1. bus' \in Seq(XtEvents)
    BY <1>4, AppendTyped, SendableTyped, SentTyped DEF TimerFires
  <2> QED BY <1>4, <2>1 DEF TimerFires, XtTypeOK, coreVars
<1> QED BY <1>1, <1>2, <1>3, <1>4

LEMMA SetProgramTyped ==
    ASSUME XtTypeOK, NEW p \in Programs, NEW o \in Origins, SetProgram(p, o)
    PROVE  prog' = p /\ progOrigin' \in Origins \cup {"NONE"}
           /\ uiq' \in Seq(Buttons \cup {"program"})
<1>1. progOrigin \in Origins \cup {"NONE"} /\ uiq \in Seq(Buttons \cup {"program"})
  BY DEF XtTypeOK
<1>2. Append(uiq, "program") \in Seq(Buttons \cup {"program"})
  BY AppendTyped
<1> QED BY <1>1, <1>2 DEF SetProgram

LEMMA TakeRouteTyped ==
    ASSUME XtTypeOK, Taking("data"), Head(bus).buffer \in Single, TakeRoute
    PROVE  reroute' \in [Dumpable -> Single \cup {NoRoute}]
<1>1. reroute \in [Dumpable -> Single \cup {NoRoute}]
  BY DEF XtTypeOK
<1> QED BY <1>1, BufferSets DEF TakeRoute

\* The data that is placed: its target is what it is of, or what it is
\* rerouted to.
LEMMA DataTargets ==
    ASSUME XtTypeOK, Taking("data"), Head(bus).buffer \notin Effects
    PROVE  /\ Head(bus).buffer \in Single /\ Head(bus).content \in Patch
           /\ Target \in Single /\ Rerouted \in BOOLEAN
           /\ Head(bus).origin \in Origins
<1>1. Head(bus).buffer \in Single /\ Head(bus).content \in Patch /\ Head(bus).origin \in Origins
  BY XtTaking, XtEventKinds
<1>2. reroute[Head(bus).buffer] \in Single \cup {NoRoute}
  BY <1>1, BufferSets DEF XtTypeOK
<1> QED BY <1>1, <1>2 DEF Target, Rerouted

LEMMA XtDataTyped ==
    ASSUME XtTypeOK, PeerFree, XtDataOut \/ XtDataIn \/ EffectIn
    PROVE  XtTypeOK'
<1> USE DEF uiVars, editVars, dumpVars, devVars, coreVars, storeVars
<1>0. bus' \in Seq(XtEvents)
  BY HandlerSends, XtBusTyped
<1>1. CASE XtDataOut
  <2>1. reroute' \in [Dumpable -> Single \cup {NoRoute}]
    BY <1>1, TakeRouteTyped, DataTargets DEF XtDataOut
  <2>2. storing' \subseteq Programs /\ IsFiniteSet(storing')
    <3>1. storing \subseteq Programs /\ IsFiniteSet(storing)
      BY DEF XtTypeOK
    <3>2. \A b : IsFiniteSet(storing \cup {b})
      BY <3>1, FS_AddElement
    <3> QED BY <1>1, <3>1, <3>2 DEF XtDataOut
  <2> QED BY <1>0, <1>1, <2>1, <2>2 DEF XtDataOut, XtTypeOK
<1>2. CASE XtDataIn
  <2>1. reroute' \in [Dumpable -> Single \cup {NoRoute}]
    BY <1>2, TakeRouteTyped, DataTargets DEF XtDataIn, DataToEditBuffer, DataToProgram
  <2>2. Head(bus).content \in Patch
    BY <1>2, DataTargets DEF XtDataIn
  <2>3. CASE DataToEditBuffer
    <3>1. raw' \in Patch /\ ctl' \in Vals /\ ctq' \in Seq(Signals)
      BY <2>2, <2>3, XtLoadEditTyped DEF DataToEditBuffer
    <3> QED BY <1>0, <1>2, <2>1, <2>3, <3>1 DEF XtDataIn, DataToEditBuffer, XtTypeOK
  <2>4. CASE DataToProgram
    <3>1. data' \in Dump
      BY <2>2, <2>4 DEF DataToProgram, XtTypeOK, Dump
    <3>2. app' \in Pauses
      <4>1. Rerouted \in BOOLEAN /\ app \in Pauses
        BY DEF Rerouted, XtTypeOK
      <4>2. /\ Target \in Programs
            /\ \/ app' = [at |-> "reload", buffer |-> Target, rerouted |-> Rerouted]
               \/ app' = app
        BY <2>4 DEF DataToProgram
      <4> HIDE DEF Target, Rerouted
      <4> QED BY <4>1, <4>2 DEF Pauses
    <3> QED BY <1>0, <1>2, <2>1, <2>4, <3>1, <3>2 DEF XtDataIn, DataToProgram, XtTypeOK
  <2> QED BY <1>2, <2>3, <2>4 DEF XtDataIn
<1>3. CASE EffectIn
  <2>1. Head(bus).content \in Patch
    BY <1>3, XtTaking, XtEventKinds DEF EffectIn
  <2>2. effects' \in [Effects -> Names \cup {""}]
    <3>1. Head(bus).content.name \in Names
      BY <2>1 DEF Patch
    <3>2. effects \in [Effects -> Names \cup {""}]
      BY DEF XtTypeOK
    <3> QED BY <1>3, <3>1, <3>2 DEF EffectIn
  <2> QED BY <1>0, <1>3, <2>2 DEF EffectIn, XtTypeOK
<1> QED BY <1>1, <1>2, <1>3

LEMMA XtCoreTaskTyped ==
    ASSUME XtTypeOK, CoreTask
    PROVE  XtTypeOK'
<1> USE DEF uiVars, editVars, dumpVars, devVars, ownVars, handlerVars, storeVars
<1>0. UNCHANGED ownVars /\ bus' \in Seq(XtEvents)
  BY ControlSends, XtBusTyped DEF CoreTask
<1>1. CASE HandleControl
  <2>1. raw \in Patch /\ ctl \in Vals
    BY DEF XtTypeOK
  <2>2. raw' \in Patch
    BY <1>1, <2>1 DEF HandleControl, BufferValue, Patch
  <2> QED BY <1>0, <1>1, <2>2 DEF HandleControl, XtTypeOK
<1>2. CASE HandleName
  BY <1>0, <1>2 DEF HandleName, XtTypeOK
<1>3. CASE HandleProgramChange
  <2>1. raw \in Patch /\ data \in Dump /\ ctl \in Vals /\ ctq \in Seq(Signals)
        /\ modified \in [Programs -> BOOLEAN]
    BY DEF XtTypeOK
  <2>2. SavedData \in Dump /\ SavedModified \in [Programs -> BOOLEAN]
    <3>1. SavedData \in Dump
      BY <2>1 DEF SavedData, Dump, numbered
    <3>2. SavedModified \in [Programs -> BOOLEAN]
      BY <2>1 DEF SavedModified, numbered
    <3> QED BY <3>1, <3>2
  <2>3. raw' \in Patch /\ ctl' \in Vals /\ ctq' \in Seq(Signals)
    <3>1. CASE numbered(prog)
      <4>1. SavedData[prog] \in Patch /\ LoadEdit(SavedData[prog])
        BY <1>3, <2>2, <3>1 DEF HandleProgramChange, Dump, numbered
      <4> QED BY <4>1, XtLoadEditTyped
    <3>2. CASE ~numbered(prog)
      BY <1>3, <2>1, <3>2 DEF HandleProgramChange
    <3> QED BY <3>1, <3>2
  <2>4. app' \in Pauses
    <3>1. Head(bus) \in [type : {"pc"}, program : ProgramIds \ {Hidden}, origin : Origins]
      BY <1>3, XtTaking, XtEventKinds DEF HandleProgramChange
    <3>2. (numbered(prog) /\ SavedModified[prog]) \in BOOLEAN
      BY <2>2 DEF numbered
    <3> QED BY <1>3, <3>1, <3>2 DEF HandleProgramChange, Pauses
  <2>5. reroute' \in [Dumpable -> Single \cup {NoRoute}]
    BY <1>3 DEF HandleProgramChange, NoRoutes
  <2> QED BY <1>0, <1>3, <2>2, <2>3, <2>4, <2>5 DEF HandleProgramChange, XtTypeOK
<1>4. CASE FinishProgramChange
  <2>1. Idle \in Pauses
    BY DEF Pauses
  <2> QED BY <1>0, <1>4, <2>1 DEF FinishProgramChange, XtTypeOK
<1>5. CASE HandleCopy
  <2>1. Head(bus).from \in Single /\ Head(bus).to \in Single
    BY <1>5, XtTaking, XtEventKinds DEF HandleCopy
  <2>2. reroute' \in [Dumpable -> Single \cup {NoRoute}]
    <3>1. reroute \in [Dumpable -> Single \cup {NoRoute}]
      BY DEF XtTypeOK
    <3> QED BY <1>5, <2>1, <3>1, BufferSets DEF HandleCopy
  <2> QED BY <1>0, <1>5, <2>2 DEF HandleCopy, XtTypeOK
<1>6. CASE Reload
  <2>1. Idle \in Pauses
    BY DEF Pauses
  <2>2. raw' \in Patch /\ ctl' \in Vals /\ ctq' \in Seq(Signals)
    <3>1. CASE numbered(prog)
      <4>1. data[prog] \in Patch
        BY <3>1 DEF XtTypeOK, Dump, numbered
      <4> QED BY <1>6, <3>1, <4>1, XtLoadEditTyped DEF Reload
    <3>2. CASE ~numbered(prog)
      BY <1>6, <3>2 DEF Reload, XtTypeOK
    <3> QED BY <3>1, <3>2
  <2> QED BY <1>0, <1>6, <2>1, <2>2 DEF Reload, XtTypeOK
<1>7. CASE HandleModified
  <2>1. Head(bus).flag \in BOOLEAN
    BY <1>7, XtTaking, XtEventKinds DEF HandleModified
  <2>2. modified' \in [Programs -> BOOLEAN]
    <3>1. modified \in [Programs -> BOOLEAN]
      BY DEF XtTypeOK
    <3> QED BY <1>7, <2>1, <3>1 DEF HandleModified
  <2>3. app' \in Pauses
    BY <1>7, <2>1 DEF HandleModified, Pauses, XtTypeOK
  <2> QED BY <1>0, <1>7, <2>2, <2>3 DEF HandleModified, XtTypeOK
<1>8. CASE ShowModified
  <2>1. Idle \in Pauses
    BY DEF Pauses
  <2> QED BY <1>0, <1>8, <2>1 DEF ShowModified, XtTypeOK
<1>9. CASE MidiControl
  <2>1. Head(bus).msg.val \in Vals
    BY <1>9, XtTaking, XtEventKinds, InKinds DEF MidiControl
  <2>2. ctq' \in Seq(Signals) /\ ctl' \in Vals
    <3>1. ControlSignal(Head(bus).msg.val, "MIDI") \in Signals
      BY <2>1, SignalsTyped DEF Origins
    <3>2. ctq \in Seq(Signals)
      BY DEF XtTypeOK
    <3> QED BY <1>9, <2>1, <3>1, <3>2, AppendTyped DEF MidiControl
  <2> QED BY <1>0, <1>9, <2>2 DEF MidiControl, XtTypeOK
<1>10. CASE MidiProgram
  <2>1. /\ prog' \in Programs \cup {Hidden} /\ progOrigin' \in Origins \cup {"NONE"}
        /\ uiq' \in Seq(Buttons \cup {"program"})
    <3>1. DOMAIN PcNum \subseteq Programs
      BY XtHandlerAssumption
    <3>2. \/ UNCHANGED <<prog, progOrigin, uiq>>
          \/ \E p \in Programs : SetProgram(p, "MIDI")
      BY <1>10, <3>1 DEF MidiProgram
    <3>3. ASSUME NEW p \in Programs, SetProgram(p, "MIDI")
          PROVE  /\ prog' \in Programs \cup {Hidden} /\ progOrigin' \in Origins \cup {"NONE"}
                 /\ uiq' \in Seq(Buttons \cup {"program"})
      BY <3>3, SetProgramTyped DEF Origins
    <3> QED BY <3>2, <3>3 DEF XtTypeOK
  <2> QED BY <1>0, <1>10, <2>1 DEF MidiProgram, XtTypeOK
<1>11. CASE HandleMsgOut
  <2>1. toDev' \in Seq(OutMsgs)
    <3>1. Head(bus).msg \in OutMsgs
      BY <1>11, XtTaking, XtEventKinds DEF HandleMsgOut
    <3> QED BY <1>11, <3>1, AppendTyped DEF HandleMsgOut
  <2> QED BY <1>0, <1>11, <2>1 DEF HandleMsgOut, XtTypeOK
<1> QED BY <1>1, <1>2, <1>3, <1>4, <1>5, <1>6, <1>7, <1>8, <1>9, <1>10, <1>11 DEF CoreTask

LEMMA XtMarkersTyped ==
    ASSUME XtTypeOK, PeerFree,
           \/ LoadForPeer \/ LoadEditBuffer \/ XtStore
           \/ EndMarker \/ TimeoutMarker \/ NumberMarker
           \/ BufferDumpIn \/ PatchRequestIn \/ StatusIn \/ NumberRequestIn \/ StateRequestIn
    PROVE  XtTypeOK'
<1> USE DEF uiVars, editVars, dumpVars, devVars, coreVars, ownVars, handlerVars, storeVars
<1>0. bus' \in Seq(XtEvents)
  BY HandlerSends, XtBusTyped
<1>1. CASE LoadForPeer \/ LoadEditBuffer \/ XtStore
  BY <1>0, <1>1 DEF LoadForPeer, LoadEditBuffer, XtStore, XtTypeOK
<1>2. CASE EndMarker
  BY <1>0, <1>2 DEF EndMarker, XtTypeOK
<1>3. CASE TimeoutMarker \/ StatusIn
  <2>1. storing' = {} /\ IsFiniteSet({})
    BY <1>3, FS_EmptySet DEF TimeoutMarker, StatusIn
  <2> QED BY <1>0, <1>3, <2>1 DEF TimeoutMarker, StatusIn, XtTypeOK
<1>4. CASE NumberMarker
  <2>1. queue' \in Seq(Requests)
    <3>1. ProgramNumberRequest \in Requests /\ EditStateRequest \in Requests
      BY DEF Requests
    <3>2. queue \in Seq(Requests)
      BY DEF XtTypeOK
    <3> QED BY <1>4, <3>1, <3>2, Tuples DEF NumberMarker
  <2> QED BY <1>0, <1>4, <2>1 DEF NumberMarker, XtTypeOK
<1>5. CASE BufferDumpIn \/ PatchRequestIn \/ NumberRequestIn \/ StateRequestIn
  BY <1>0, <1>5 DEF BufferDumpIn, PatchRequestIn, NumberRequestIn, StateRequestIn, XtTypeOK
<1> QED BY <1>1, <1>2, <1>3, <1>4, <1>5

LEMMA XtQueueTyped ==
    ASSUME XtTypeOK,
           LoadPatches \/ DumpEndIn \/ ProgramNumberIn \/ EditStateIn
    PROVE  XtTypeOK'
<1> USE DEF uiVars, editVars, dumpVars, devVars, coreVars, ownVars, handlerVars, storeVars
<1>0. bus' \in Seq(XtEvents)
  BY QueueSends, XtBusTyped
<1>1. queue \in Seq(Requests)
  BY DEF XtTypeOK
<1>2. queue' \in Seq(Requests)
  <2>1. \/ queue' = queue
        \/ queue' = (IF queue = <<>> THEN queue ELSE Tail(queue))
        \/ queue' \in Seq(Requests)
    BY QueueSends DEF Retired
  <2> QED BY <1>1, <2>1, Tuples
<1>3. CASE LoadPatches
  BY <1>0, <1>2, <1>3 DEF LoadPatches, XtTypeOK
<1>4. CASE DumpEndIn
  BY <1>0, <1>2, <1>4 DEF DumpEndIn, XtTypeOK
<1>5. CASE ProgramNumberIn
  <2>1. Head(bus).msg.program \in Programs
    BY <1>5, XtTaking, XtEventKinds, InKinds DEF ProgramNumberIn, Receiving
  <2>2. prog' = Head(bus).msg.program /\ progOrigin' \in Origins \cup {"NONE"}
        /\ uiq' \in Seq(Buttons \cup {"program"})
    BY <1>5, <2>1, SetProgramTyped DEF ProgramNumberIn, Origins
  <2> QED BY <1>0, <1>2, <1>5, <2>1, <2>2 DEF ProgramNumberIn, XtTypeOK
<1>6. CASE EditStateIn
  BY <1>0, <1>2, <1>6 DEF EditStateIn, XtTypeOK
<1> QED BY <1>3, <1>4, <1>5, <1>6

LEMMA AnswerTyped ==
    ASSUME XtTypeOK, NEW m \in OutMsgs
    PROVE  Answer(m) \in Seq(InMsgs)
<1>1. m.cmd = "request" => m.buffer \in Single \cup Effects
  BY OutKinds
<1>2. CASE m.cmd = "request"
  <2>1. (IF m.buffer = EditBuffer THEN devEdit ELSE IF m.buffer \in Effects THEN Blank
         ELSE devProgs[m.buffer]) \in Patch
    <3>1. devEdit \in Patch /\ Blank \in Patch /\ \A p \in Programs : devProgs[p] \in Patch
      BY PodCoreAssumption DEF XtTypeOK, Dump
    <3> QED BY <1>1, <1>2, <3>1, BufferSets
  <2>2. DumpOf(m.buffer) \in Seq(InMsgs)
    BY <2>1, XtMsgsTyped, Tuples DEF DumpOf
  <2> QED BY <1>2, <2>2 DEF Answer
<1>3. CASE m.cmd = "number?"
  <2>1. ProgramNumber(devProg) \in InMsgs
    BY XtMsgsTyped DEF XtTypeOK
  <2> QED BY <1>3, <2>1, Tuples DEF Answer
<1>4. CASE m.cmd = "state?"
  <2>1. EditState(devEdit # devProgs[devProg]) \in InMsgs
    BY XtMsgsTyped
  <2> QED BY <1>4, <2>1, Tuples DEF Answer
<1>5. CASE m.cmd \notin {"request", "number?", "state?"}
  BY <1>5, Tuples DEF Answer
<1> QED BY <1>2, <1>3, <1>4, <1>5

LEMMA XtDeviceTyped ==
    ASSUME XtTypeOK, ~PeerDumps, XtDevice \/ XtDeviceTask
    PROVE  XtTypeOK'
<1> USE DEF uiVars, editVars, dumpVars, devVars, coreVars, ownVars, handlerVars, storeVars
<1>0. devEdit \in Patch /\ devProgs \in Dump /\ devProg \in Programs
      /\ fromDev \in Seq(InMsgs)
  BY DEF XtTypeOK
<1>1. ASSUME NEW v \in Vals, DevKnob(v), UNCHANGED ownVars PROVE XtTypeOK'
  <2>1. devEdit' \in Patch
    BY <1>0, <1>1 DEF DevKnob, Patch
  <2>2. fromDev' \in Seq(InMsgs)
    BY <1>1, XtMsgsTyped, AppendTyped DEF DevKnob
  <2> QED BY <1>1, <2>1, <2>2 DEF DevKnob, XtTypeOK
<1>2. ASSUME NEW p \in Programs, DevProgram(p), devProg' = p, UNCHANGED <<handlerVars, devGot>>
      PROVE  XtTypeOK'
  <2>1. devEdit' \in Patch
    BY <1>0, <1>2 DEF DevProgram, Dump
  <2>2. PcNum[p] \in Nat
    BY PodCoreAssumption, XtHandlerAssumption
  <2>3. fromDev' \in Seq(InMsgs)
    BY <1>2, <2>2, XtMsgsTyped, AppendTyped DEF DevProgram
  <2> QED BY <1>2, <2>1, <2>3 DEF DevProgram, XtTypeOK
<1>3. ASSUME NEW m \in InMsgs, PeerRequest(m) PROVE XtTypeOK'
  <2>1. fromDev' \in Seq(InMsgs)
    BY <1>3, AppendTyped DEF PeerRequest
  <2> QED BY <1>3, <2>1 DEF PeerRequest, XtTypeOK
<1>4. ASSUME XtDevice PROVE XtTypeOK'
  <2>1. ~\E p \in Programs, d \in Patch : PeerDump(p, d)
    BY DEF PeerDump
  <2>2. /\ \A b \in Programs \cup {EditBuffer} : ReqMsg(b) \in InMsgs
        /\ ProgramNumberRequest \in InMsgs /\ EditStateRequest \in InMsgs
    BY XtMsgsTyped, BufferSets
  <2> HIDE DEF XtTypeOK, uiVars, editVars, dumpVars, devVars, coreVars, ownVars, handlerVars, storeVars
  <2> QED BY <1>1, <1>2, <1>3, <1>4, <2>1, <2>2 DEF XtDevice
<1>5. CASE XtDevReceive
  <2> DEFINE m == Head(toDev)
             P == {p \in Programs : m.cmd = "pc" /\ PcNum[p] = m.num}
  <2>1. m \in OutMsgs /\ toDev' \in Seq(OutMsgs)
    BY <1>5, TailTyped DEF XtDevReceive
  <2>2. fromDev' \in Seq(InMsgs)
    BY <1>0, <1>5, <2>1, AnswerTyped, Tuples DEF XtDevReceive
  <2>3. devProg' \in Programs
    <3>1. devProg' = IF P = {} THEN devProg ELSE CHOOSE p \in P : TRUE
      BY <1>5 DEF XtDevReceive
    <3> QED BY <1>0, <3>1
  <2>4. devEdit' \in Patch
    <3>1. devEdit' = IF m.cmd = "cc" THEN [devEdit EXCEPT !.val = m.val]
                     ELSE IF m.cmd = "buffer" THEN m.content
                     ELSE IF P = {} THEN devEdit ELSE devProgs[devProg']
      BY <1>5 DEF XtDevReceive
    <3>2. devProgs[devProg'] \in Patch
      BY <1>0, <2>3 DEF Dump
    <3>3. m.cmd = "cc" => [devEdit EXCEPT !.val = m.val] \in Patch
      BY <1>0, <2>1, OutKinds DEF Patch
    <3>4. m.cmd = "buffer" => m.content \in Patch
      BY <2>1, OutKinds
    <3> HIDE DEF m, P
    <3> QED BY <1>0, <3>1, <3>2, <3>3, <3>4
  <2> QED BY <1>5, <2>1, <2>2, <2>3, <2>4 DEF XtDevReceive, XtTypeOK
<1>6. CASE DevPatchDump
  <2>1. Head(toDev) \in OutMsgs /\ toDev' \in Seq(OutMsgs)
    BY <1>6, TailTyped DEF DevPatchDump
  <2>2. devProgs' \in Dump
    <3>1. Head(toDev).content \in Patch
      BY <1>6, <2>1, OutKinds DEF DevPatchDump
    <3> QED BY <1>0, <1>6, <3>1 DEF DevPatchDump, Dump
  <2> QED BY <1>6, <2>1, <2>2 DEF DevPatchDump, XtTypeOK
<1>7. CASE DevDumpEnd
  <2>1. toDev' \in Seq(OutMsgs)
    BY <1>7, TailTyped DEF DevDumpEnd
  <2>2. fromDev' \in Seq(InMsgs)
    <3>1. StoreStatus(devGot = "stored") \in InMsgs
      BY XtMsgsTyped
    <3> QED BY <1>0, <1>7, <3>1, AppendTyped DEF DevDumpEnd
  <2> QED BY <1>7, <2>1, <2>2 DEF DevDumpEnd, XtTypeOK
<1> QED BY <1>4, <1>5, <1>6, <1>7 DEF XtDeviceTask

\* Every step of the handler, of the user and of the device keeps the types.
LEMMA XtTypeStep ==
    ASSUME ~PeerDumps, XtTypeOK, PeerFree, [XtNext]_xtVars
    PROVE  XtTypeOK'
<1>1. CASE UNCHANGED xtVars
  BY <1>1 DEF xtVars, ownVars, handlerVars, storeVars, vars, uiVars, editVars, dumpVars,
              devVars, XtTypeOK
<1>2. CASE XtTask
  <2>1. ~PatchDumpIn
    BY HandlerSends
  <2> QED BY <1>2, <2>1, XtCoreTaskTyped, XtMarkersTyped, XtDataTyped, XtQueueTyped DEF XtTask
<1>3. CASE XtNext /\ ~XtTask
  BY <1>3, XtUserTyped, XtSignalsTyped, XtDeviceTyped DEF XtNext, XtSystem
<1> QED BY <1>1, <1>2, <1>3

-----------------------------------------------------------------------------
(* The stream of what comes in: its head is taken, answers are sent in the *)
(* middle of it, and the device appends to it.                             *)

LEMMA StreamTail ==
    ASSUME NEW S, NEW s \in Seq(S), s # <<>>
    PROVE  /\ Paired(s) => Paired(Tail(s))
           /\ Paired(s) /\ In(s[1]) /\ ~Buf(s[1]) => Announced(Tail(s))
           /\ Announced(s) => ~End(s[1])
           /\ Announced(s) /\ ~Buf(s[1]) => Announced(Tail(s))
<1> DEFINE t == Tail(s)
<1>1. /\ Len(s) \in Nat \ {0} /\ Len(t) = Len(s) - 1
      /\ \A i \in 1..Len(t) : t[i] = s[i + 1]
  BY HeadTailProperties, EmptySeq, LenProperties
<1> HIDE DEF t
<1>2. ASSUME Paired(s) PROVE Paired(t)
  <2>1. ASSUME NEW j \in 1..Len(t), NEW k \in 1..Len(t), j < k, In(t[j]), ~Buf(t[j]), End(t[k])
        PROVE  \E l \in (j + 1)..(k - 1) : Buf(t[l])
    <3>1. PICK l \in (j + 2)..k : Buf(s[l])
      <4>1. j + 1 \in 1..Len(s) /\ k + 1 \in 1..Len(s) /\ t[j] = s[j + 1] /\ t[k] = s[k + 1]
        BY <1>1, <2>1
      <4>2. \E l \in ((j + 1) + 1)..((k + 1) - 1) : Buf(s[l])
        BY <1>2, <2>1, <4>1 DEF Paired
      <4> QED BY <4>2
    <3>2. l - 1 \in (j + 1)..(k - 1) /\ t[l - 1] = s[l]
      BY <1>1, <3>1
    <3> QED BY <3>1, <3>2
  <2> QED BY <2>1 DEF Paired
<1>3. ASSUME Paired(s), In(s[1]), ~Buf(s[1]) PROVE Announced(t)
  <2>1. ASSUME NEW k \in 1..Len(t), End(t[k])
        PROVE  \E l \in 1..(k - 1) : Buf(t[l])
    <3>1. k + 1 \in 1..Len(s) /\ t[k] = s[k + 1] /\ 1 \in 1..Len(s) /\ 1 < k + 1
      BY <1>1
    <3>2. \E l \in (1 + 1)..((k + 1) - 1) : Buf(s[l])
      BY <1>3, <2>1, <3>1 DEF Paired
    <3>3. PICK l \in 2..k : Buf(s[l])
      BY <3>2
    <3>4. l - 1 \in 1..(k - 1) /\ t[l - 1] = s[l]
      BY <1>1, <3>3
    <3> QED BY <3>3, <3>4
  <2> QED BY <2>1 DEF Announced
<1>4. Announced(s) => ~End(s[1])
  <2>1. 1 \in 1..Len(s) /\ 1..(1 - 1) = {}
    BY <1>1
  <2> QED BY <2>1 DEF Announced
<1>5. ASSUME Announced(s), ~Buf(s[1]) PROVE Announced(t)
  <2>1. ASSUME NEW k \in 1..Len(t), End(t[k])
        PROVE  \E l \in 1..(k - 1) : Buf(t[l])
    <3>1. k + 1 \in 1..Len(s) /\ t[k] = s[k + 1]
      BY <1>1
    <3>2. PICK l \in 1..k : Buf(s[l])
      <4>1. \E l \in 1..((k + 1) - 1) : Buf(s[l])
        BY <1>5, <2>1, <3>1 DEF Announced
      <4> QED BY <4>1
    <3>3. l # 1
      BY <1>5, <3>2
    <3>4. l - 1 \in 1..(k - 1) /\ t[l - 1] = s[l]
      BY <1>1, <3>2, <3>3
    <3> QED BY <3>2, <3>4
  <2> QED BY <2>1 DEF Announced
<1> QED BY <1>2, <1>3, <1>4, <1>5 DEF t

\* What does not come in may be put anywhere in the stream.
LEMMA StreamInsert ==
    ASSUME NEW S, NEW s \in Seq(S), NEW e \in Seq(S), NEW t \in Seq(S),
           \A i \in 1..Len(e) : ~In(e[i])
    PROVE  /\ Paired(s \o t) => Paired((s \o e) \o t)
           /\ Announced(s \o t) => Announced((s \o e) \o t)
<1> DEFINE u == s \o t
           v == (s \o e) \o t
           n == Len(s)
           m == Len(e)
           f(i) == IF i <= n THEN i ELSE i - m
           g(i) == IF i <= n THEN i ELSE i + m
<1>1. /\ n \in Nat /\ m \in Nat /\ Len(t) \in Nat
      /\ Len(u) = n + Len(t) /\ Len(v) = n + m + Len(t)
      /\ \A i \in 1..Len(u) : u[i] = IF i <= n THEN s[i] ELSE t[i - n]
      /\ \A i \in 1..Len(v) : v[i] = IF i <= n THEN s[i]
                                     ELSE IF i <= n + m THEN e[i - n] ELSE t[i - n - m]
  <2>1. s \o e \in Seq(S) /\ Len(s \o e) = n + m /\ n \in Nat /\ m \in Nat /\ Len(t) \in Nat
        /\ \A i \in 1..(n + m) : (s \o e)[i] = IF i <= n THEN s[i] ELSE e[i - n]
    BY ConcatProperties, LenProperties
  <2>2. Len(v) = n + m + Len(t)
        /\ \A i \in 1..Len(v) : v[i] = IF i <= n + m THEN (s \o e)[i] ELSE t[i - (n + m)]
    BY <2>1, ConcatProperties
  <2>3. Len(u) = n + Len(t) /\ \A i \in 1..Len(u) : u[i] = IF i <= n THEN s[i] ELSE t[i - n]
    BY <2>1, ConcatProperties
  <2> HIDE DEF u, v, n, m
  <2>4. ASSUME NEW i \in 1..Len(v)
        PROVE  v[i] = IF i <= n THEN s[i] ELSE IF i <= n + m THEN e[i - n] ELSE t[i - n - m]
    <3>1. CASE i <= n + m
      <4>1. i \in 1..(n + m) /\ v[i] = (s \o e)[i]
        BY <2>1, <2>2, <3>1
      <4>2. (s \o e)[i] = IF i <= n THEN s[i] ELSE e[i - n]
        BY <2>1, <4>1
      <4> QED BY <3>1, <4>1, <4>2
    <3>2. CASE ~(i <= n + m)
      <4>1. i - (n + m) = i - n - m /\ ~(i <= n)
        BY <2>1, <2>2, <3>2
      <4> QED BY <2>2, <3>2, <4>1
    <3> QED BY <3>1, <3>2
  <2> QED BY <2>1, <2>2, <2>3, <2>4
<1>2. ASSUME NEW i \in 1..Len(v), In(v[i])
      PROVE  /\ f(i) \in 1..Len(u) /\ v[i] = u[f(i)] /\ (i <= n \/ i > n + m)
  BY <1>1, <1>2
<1>3. ASSUME NEW i \in 1..Len(u)
      PROVE  g(i) \in 1..Len(v) /\ v[g(i)] = u[i]
  BY <1>1
<1>4. \A x : Buf(x) \/ End(x) => In(x)
  BY DEF Buf, End, In
<1> HIDE DEF u, v
<1>5. ASSUME Paired(u) PROVE Paired(v)
  <2>1. ASSUME NEW j \in 1..Len(v), NEW k \in 1..Len(v), j < k, In(v[j]), ~Buf(v[j]), End(v[k])
        PROVE  \E l \in (j + 1)..(k - 1) : Buf(v[l])
    <3>1. /\ f(j) \in 1..Len(u) /\ v[j] = u[f(j)] /\ (j <= n \/ j > n + m)
          /\ f(k) \in 1..Len(u) /\ v[k] = u[f(k)] /\ (k <= n \/ k > n + m)
      BY <1>2, <1>4, <2>1
    <3>2. f(j) < f(k)
      BY <1>1, <2>1, <3>1
    <3>3. PICK l \in (f(j) + 1)..(f(k) - 1) : Buf(u[l])
      BY <1>5, <2>1, <3>1, <3>2 DEF Paired
    <3>4. l \in 1..Len(u)
      BY <1>1, <3>1, <3>3
    <3>5. l \in Int /\ f(j) + 1 <= l /\ l <= f(k) - 1 /\ l <= Len(u)
      BY <1>1, <3>1, <3>3, <3>4
    <3>6. g(l) \in (j + 1)..(k - 1)
      <4>1. CASE l <= n
        BY <1>1, <2>1, <3>1, <3>5, <4>1
      <4>2. CASE l > n
        BY <1>1, <2>1, <3>1, <3>5, <4>2
      <4> QED BY <1>1, <3>5, <4>1, <4>2
    <3> QED BY <1>3, <3>3, <3>4, <3>6
  <2> QED BY <2>1 DEF Paired
<1>6. ASSUME Announced(u) PROVE Announced(v)
  <2>1. ASSUME NEW k \in 1..Len(v), End(v[k])
        PROVE  \E l \in 1..(k - 1) : Buf(v[l])
    <3>1. f(k) \in 1..Len(u) /\ v[k] = u[f(k)] /\ (k <= n \/ k > n + m)
      BY <1>2, <1>4, <2>1
    <3>2. PICK l \in 1..(f(k) - 1) : Buf(u[l])
      BY <1>6, <2>1, <3>1 DEF Announced
    <3>3. l \in 1..Len(u)
      BY <1>1, <3>1, <3>2
    <3>4. g(l) \in 1..(k - 1)
      BY <1>1, <3>1, <3>2, <3>3
    <3> QED BY <1>3, <3>2, <3>3, <3>4
  <2> QED BY <2>1 DEF Announced
<1> QED BY <1>5, <1>6 DEF u, v

LEMMA StreamAppend ==
    ASSUME NEW S, NEW s \in Seq(S), NEW x \in S, ~End(x)
    PROVE  /\ Paired(s) => Paired(Append(s, x))
           /\ Announced(s) => Announced(Append(s, x))
<1> DEFINE v == Append(s, x)
<1>1. /\ Len(s) \in Nat /\ Len(v) = Len(s) + 1 /\ v[Len(s) + 1] = x
      /\ \A i \in 1..Len(s) : v[i] = s[i]
  BY AppendProperties, LenProperties
<1> HIDE DEF v
<1>2. \A k \in 1..Len(v) : End(v[k]) => k \in 1..Len(s) /\ v[k] = s[k]
  BY <1>1
<1>3. ASSUME Paired(s) PROVE Paired(v)
  <2>1. ASSUME NEW j \in 1..Len(v), NEW k \in 1..Len(v), j < k, In(v[j]), ~Buf(v[j]), End(v[k])
        PROVE  \E l \in (j + 1)..(k - 1) : Buf(v[l])
    <3>1. k \in 1..Len(s) /\ v[k] = s[k] /\ j \in 1..Len(s) /\ v[j] = s[j]
      BY <1>1, <1>2, <2>1
    <3>2. PICK l \in (j + 1)..(k - 1) : Buf(s[l])
      BY <1>3, <2>1, <3>1 DEF Paired
    <3>3. v[l] = s[l]
      BY <1>1, <3>1, <3>2
    <3> QED BY <3>2, <3>3
  <2> QED BY <2>1 DEF Paired
<1>4. ASSUME Announced(s) PROVE Announced(v)
  <2>1. ASSUME NEW k \in 1..Len(v), End(v[k])
        PROVE  \E l \in 1..(k - 1) : Buf(v[l])
    <3>1. k \in 1..Len(s) /\ v[k] = s[k]
      BY <1>2, <2>1
    <3>2. PICK l \in 1..(k - 1) : Buf(s[l])
      BY <1>4, <2>1, <3>1 DEF Announced
    <3>3. v[l] = s[l]
      BY <1>1, <3>1, <3>2
    <3> QED BY <3>2, <3>3
  <2> QED BY <2>1 DEF Announced
<1> QED BY <1>3, <1>4 DEF v

\* A dump comes before its end.
LEMMA StreamDump ==
    ASSUME NEW S, NEW s \in Seq(S), NEW b \in S, NEW x \in S, Buf(b)
    PROVE  /\ Paired(s) => Paired(s \o <<b, x>>)
           /\ Announced(s) => Announced(s \o <<b, x>>)
<1> DEFINE v == s \o <<b, x>>
<1>1. /\ Len(s) \in Nat /\ Len(v) = Len(s) + 2 /\ v[Len(s) + 1] = b
      /\ \A i \in 1..Len(s) : v[i] = s[i]
  <2>1. <<b, x>> \in Seq(S) /\ Len(<<b, x>>) = 2 /\ <<b, x>>[1] = b
    BY Tuples
  <2>2. Len(s) \in Nat /\ Len(v) = Len(s) + 2
        /\ \A i \in 1..(Len(s) + 2) : v[i] = IF i <= Len(s) THEN s[i] ELSE <<b, x>>[i - Len(s)]
    BY <2>1, ConcatProperties, LenProperties
  <2> HIDE DEF v
  <2>3. v[Len(s) + 1] = b
    BY <2>1, <2>2
  <2>4. \A i \in 1..Len(s) : v[i] = s[i]
    BY <2>2
  <2> QED BY <2>2, <2>3, <2>4
<1> HIDE DEF v
<1>2. ~End(b)
  BY DEF Buf, End
<1>3. \A k \in 1..Len(v) : End(v[k]) => (k \in 1..Len(s) /\ v[k] = s[k]) \/ k = Len(s) + 2
  BY <1>1, <1>2
<1>4. ASSUME Paired(s) PROVE Paired(v)
  <2>1. ASSUME NEW j \in 1..Len(v), NEW k \in 1..Len(v), j < k, In(v[j]), ~Buf(v[j]), End(v[k])
        PROVE  \E l \in (j + 1)..(k - 1) : Buf(v[l])
    <3>1. CASE k \in 1..Len(s) /\ v[k] = s[k]
      <4>1. j \in 1..Len(s) /\ v[j] = s[j]
        BY <1>1, <2>1, <3>1
      <4>2. PICK l \in (j + 1)..(k - 1) : Buf(s[l])
        BY <1>4, <2>1, <3>1, <4>1 DEF Paired
      <4>3. v[l] = s[l]
        BY <1>1, <3>1, <4>2
      <4> QED BY <4>2, <4>3
    <3>2. CASE k = Len(s) + 2
      <4>1. j # Len(s) + 1
        BY <1>1, <2>1
      <4>2. Len(s) + 1 \in (j + 1)..(k - 1)
        BY <1>1, <2>1, <3>2, <4>1
      <4> QED BY <1>1, <4>2
    <3> QED BY <1>3, <2>1, <3>1, <3>2
  <2> QED BY <2>1 DEF Paired
<1>5. ASSUME Announced(s) PROVE Announced(v)
  <2>1. ASSUME NEW k \in 1..Len(v), End(v[k])
        PROVE  \E l \in 1..(k - 1) : Buf(v[l])
    <3>1. CASE k \in 1..Len(s) /\ v[k] = s[k]
      <4>1. PICK l \in 1..(k - 1) : Buf(s[l])
        BY <1>5, <2>1, <3>1 DEF Announced
      <4>2. v[l] = s[l]
        BY <1>1, <3>1, <4>1
      <4> QED BY <4>1, <4>2
    <3>2. CASE k = Len(s) + 2
      <4>1. Len(s) + 1 \in 1..(k - 1)
        BY <1>1, <3>2
      <4> QED BY <1>1, <4>1
    <3> QED BY <1>3, <2>1, <3>1, <3>2
  <2> QED BY <2>1 DEF Announced
<1> QED BY <1>4, <1>5 DEF v

LEMMA FeedTyped ==
    ASSUME NEW ms \in Seq(InMsgs)
    PROVE  /\ Feed(ms) \in Seq(XtEvents) /\ Len(Feed(ms)) = Len(ms) /\ Len(ms) \in Nat
           /\ \A i \in 1..Len(ms) : Feed(ms)[i] = MsgIn(ms[i])
<1>1. Len(ms) \in Nat /\ \A i \in 1..Len(ms) : MsgIn(ms[i]) \in XtEvents
  BY SentTyped, LenProperties
<1> QED BY <1>1 DEF Feed

LEMMA FeedAppend ==
    ASSUME NEW ms \in Seq(InMsgs), NEW m \in InMsgs
    PROVE  Feed(Append(ms, m)) = Append(Feed(ms), MsgIn(m))
<1> DEFINE s == Feed(Append(ms, m))
           t == Append(Feed(ms), MsgIn(m))
<1>1. /\ Append(ms, m) \in Seq(InMsgs) /\ Len(Append(ms, m)) = Len(ms) + 1
      /\ \A i \in 1..Len(ms) : Append(ms, m)[i] = ms[i]
      /\ Append(ms, m)[Len(ms) + 1] = m
  BY AppendProperties, LenProperties
<1>2. /\ s \in Seq(XtEvents) /\ Len(s) = Len(ms) + 1 /\ Len(ms) \in Nat
      /\ \A i \in 1..(Len(ms) + 1) : s[i] = MsgIn(Append(ms, m)[i])
  BY <1>1, FeedTyped
<1>3. /\ t \in Seq(XtEvents) /\ Len(t) = Len(ms) + 1
      /\ \A i \in 1..Len(ms) : t[i] = MsgIn(ms[i])
      /\ t[Len(ms) + 1] = MsgIn(m)
  BY FeedTyped, SentTyped, AppendProperties
<1> HIDE DEF s, t
<1>4. ASSUME NEW i \in 1..Len(s) PROVE s[i] = t[i]
  <2>1. CASE i \in 1..Len(ms)
    BY <1>1, <1>2, <1>3, <2>1
  <2>2. CASE i = Len(ms) + 1
    BY <1>1, <1>2, <1>3, <2>2
  <2> QED BY <1>2, <2>1, <2>2
<1>5. s = t
  BY <1>2, <1>3, <1>4, SeqEqual
<1> QED BY <1>5 DEF s, t

LEMMA PairAppends ==
    ASSUME NEW S, NEW s \in Seq(S), NEW x \in S, NEW y \in S
    PROVE  s \o <<x, y>> = Append(Append(s, x), y)
<1> DEFINE u == s \o <<x, y>>
           v == Append(Append(s, x), y)
<1>1. /\ u \in Seq(S) /\ Len(u) = Len(s) + 2 /\ Len(s) \in Nat
      /\ \A i \in 1..(Len(s) + 2) : u[i] = IF i <= Len(s) THEN s[i] ELSE <<x, y>>[i - Len(s)]
  <2>1. <<x, y>> \in Seq(S) /\ Len(<<x, y>>) = 2
    BY Tuples
  <2> QED BY <2>1, ConcatProperties, LenProperties
<1>2. /\ v \in Seq(S) /\ Len(v) = Len(s) + 2
      /\ \A i \in 1..Len(s) : v[i] = s[i]
      /\ v[Len(s) + 1] = x /\ v[Len(s) + 2] = y
  <2>1. /\ Append(s, x) \in Seq(S) /\ Len(Append(s, x)) = Len(s) + 1 /\ Len(s) \in Nat
        /\ \A i \in 1..Len(s) : Append(s, x)[i] = s[i]
        /\ Append(s, x)[Len(s) + 1] = x
    BY AppendProperties, LenProperties
  <2>2. /\ v \in Seq(S) /\ Len(v) = Len(Append(s, x)) + 1
        /\ \A i \in 1..Len(Append(s, x)) : v[i] = Append(s, x)[i]
        /\ v[Len(Append(s, x)) + 1] = y
    BY <2>1, AppendProperties
  <2> HIDE DEF v
  <2> QED BY <2>1, <2>2
<1>3. u[Len(s) + 1] = x /\ u[Len(s) + 2] = y
  <2> HIDE DEF u
  <2> QED BY <1>1
<1> HIDE DEF u, v
<1>4. ASSUME NEW i \in 1..Len(u) PROVE u[i] = v[i]
  <2>1. CASE i <= Len(s)
    BY <1>1, <1>2, <2>1
  <2>2. CASE i = Len(s) + 1 \/ i = Len(s) + 2
    BY <1>2, <1>3, <2>2
  <2> QED BY <1>1, <2>1, <2>2
<1>5. u = v
  BY <1>1, <1>2, <1>4, SeqEqual
<1> QED BY <1>5 DEF u, v

LEMMA ConcatAppend ==
    ASSUME NEW S, NEW s \in Seq(S), NEW t \in Seq(S), NEW x \in S
    PROVE  s \o Append(t, x) = Append(s \o t, x)
<1> DEFINE u == s \o Append(t, x)
           v == Append(s \o t, x)
<1>1. /\ Append(t, x) \in Seq(S) /\ Len(Append(t, x)) = Len(t) + 1
      /\ \A i \in 1..Len(t) : Append(t, x)[i] = t[i]
      /\ Append(t, x)[Len(t) + 1] = x
      /\ Len(s) \in Nat /\ Len(t) \in Nat
  BY AppendProperties, LenProperties
<1>2. /\ s \o t \in Seq(S) /\ Len(s \o t) = Len(s) + Len(t)
      /\ \A i \in 1..(Len(s) + Len(t)) : (s \o t)[i] = IF i <= Len(s) THEN s[i] ELSE t[i - Len(s)]
  BY ConcatProperties
<1>3. /\ u \in Seq(S) /\ Len(u) = Len(s) + Len(t) + 1
      /\ \A i \in 1..(Len(s) + Len(Append(t, x))) :
             u[i] = IF i <= Len(s) THEN s[i] ELSE Append(t, x)[i - Len(s)]
  BY <1>1, ConcatProperties
<1>4. /\ v \in Seq(S) /\ Len(v) = Len(s) + Len(t) + 1
      /\ \A i \in 1..Len(s \o t) : v[i] = (s \o t)[i]
      /\ v[Len(s \o t) + 1] = x
  BY <1>2, AppendProperties
<1> HIDE DEF u, v
<1>5. ASSUME NEW i \in 1..Len(u) PROVE u[i] = v[i]
  <2>0. i \in Nat /\ 1 <= i /\ i <= Len(s) + Len(t) + 1 /\ Len(s) \in Nat /\ Len(t) \in Nat
    BY <1>1, <1>3
  <2>1. CASE i <= Len(s)
    <3>1. i \in 1..(Len(s) + Len(Append(t, x))) /\ i \in 1..(Len(s) + Len(t)) /\ i \in 1..Len(s \o t)
      BY <1>1, <1>2, <2>0, <2>1
    <3> QED BY <1>2, <1>3, <1>4, <2>1, <3>1
  <2>2. CASE i > Len(s) /\ i <= Len(s) + Len(t)
    <3>1. i - Len(s) \in 1..Len(t) /\ u[i] = Append(t, x)[i - Len(s)]
      BY <1>1, <1>3, <2>2
    <3>2. i \in 1..(Len(s) + Len(t)) /\ i \in 1..Len(s \o t)
      BY <1>1, <1>2, <2>2
    <3>3. v[i] = t[i - Len(s)]
      BY <1>1, <1>2, <1>4, <2>2, <3>2
    <3> QED BY <1>1, <3>1, <3>3
  <2>3. CASE i = Len(s) + Len(t) + 1
    <3>1. i - Len(s) = Len(t) + 1 /\ i \in 1..(Len(s) + Len(Append(t, x))) /\ ~(i <= Len(s))
      BY <1>1, <2>3
    <3>2. u[i] = x
      BY <1>1, <1>3, <3>1
    <3>3. i = Len(s \o t) + 1
      BY <1>2, <2>3
    <3> QED BY <1>4, <3>2, <3>3
  <2> QED BY <2>0, <2>1, <2>2, <2>3
<1>6. u = v
  BY <1>3, <1>4, <1>5, SeqEqual
<1> QED BY <1>6 DEF u, v

\* What the receiver thread moves stays where it is in the stream.
LEMMA FeedHead ==
    ASSUME NEW s \in Seq(XtEvents), NEW ms \in Seq(InMsgs), ms # <<>>
    PROVE  Append(s, MsgIn(Head(ms))) \o Feed(Tail(ms)) = s \o Feed(ms)
<1> DEFINE a == Append(s, MsgIn(Head(ms)))
           u == a \o Feed(Tail(ms))
           v == s \o Feed(ms)
           n == Len(s)
           k == Len(ms)
<1>1. /\ Head(ms) \in InMsgs /\ Tail(ms) \in Seq(InMsgs) /\ k \in Nat \ {0} /\ Head(ms) = ms[1]
      /\ Len(Tail(ms)) = k - 1 /\ \A i \in 1..Len(Tail(ms)) : Tail(ms)[i] = ms[i + 1]
  BY HeadTailProperties, EmptySeq, LenProperties
<1>2. /\ a \in Seq(XtEvents) /\ Len(a) = n + 1 /\ n \in Nat
      /\ \A i \in 1..n : a[i] = s[i] 
      /\ a[n + 1] = MsgIn(ms[1])
  <2>1. MsgIn(Head(ms)) \in XtEvents /\ n \in Nat
    BY <1>1, SentTyped, LenProperties
  <2> QED BY <1>1, <2>1, AppendProperties
<1>3. /\ Feed(ms) \in Seq(XtEvents) /\ Len(Feed(ms)) = k
      /\ \A i \in 1..k : Feed(ms)[i] = MsgIn(ms[i])
  BY FeedTyped
<1>4. /\ Feed(Tail(ms)) \in Seq(XtEvents) /\ Len(Feed(Tail(ms))) = k - 1
      /\ \A i \in 1..(k - 1) : Feed(Tail(ms))[i] = MsgIn(Tail(ms)[i])
  <2> DEFINE t == Tail(ms)
  <2> HIDE DEF k, t
  <2>1. t \in Seq(InMsgs) /\ Len(t) = k - 1
    BY <1>1 DEF t
  <2>2. /\ Feed(t) \in Seq(XtEvents) /\ Len(Feed(t)) = Len(t)
        /\ \A i \in 1..Len(t) : Feed(t)[i] = MsgIn(t[i])
    BY <2>1, FeedTyped
  <2>3. \A i \in 1..(k - 1) : Feed(t)[i] = MsgIn(t[i])
    BY <2>1, <2>2
  <2> QED BY <2>1, <2>2, <2>3 DEF t
<1> HIDE DEF a, n, k
<1>5. /\ u \in Seq(XtEvents) /\ Len(u) = n + k
      /\ \A i \in 1..(Len(a) + Len(Feed(Tail(ms)))) :
             u[i] = IF i <= Len(a) THEN a[i] ELSE Feed(Tail(ms))[i - Len(a)]
  <2>1. /\ u \in Seq(XtEvents) /\ Len(u) = Len(a) + Len(Feed(Tail(ms)))
        /\ \A i \in 1..(Len(a) + Len(Feed(Tail(ms)))) :
               u[i] = IF i <= Len(a) THEN a[i] ELSE Feed(Tail(ms))[i - Len(a)]
    <3> DEFINE F == Feed(Tail(ms))
    <3>1. a \in Seq(XtEvents) /\ F \in Seq(XtEvents)
      BY <1>2, <1>4
    <3> HIDE DEF F
    <3>2. /\ a \o F \in Seq(XtEvents) /\ Len(a \o F) = Len(a) + Len(F)
          /\ \A i \in 1..(Len(a) + Len(F)) :
                 (a \o F)[i] = IF i <= Len(a) THEN a[i] ELSE F[i - Len(a)]
      BY <3>1, ConcatProperties
    <3> QED BY <3>2 DEF F
  <2>2. Len(a) + Len(Feed(Tail(ms))) = n + k
    BY <1>1, <1>2, <1>4
  <2> QED BY <2>1, <2>2
<1>6. /\ v \in Seq(XtEvents) /\ Len(v) = n + k
      /\ \A i \in 1..(n + k) : v[i] = IF i <= n THEN s[i] ELSE Feed(ms)[i - n]
  BY <1>3, ConcatProperties DEF n
<1> HIDE DEF u, v
<1>7. ASSUME NEW i \in 1..Len(u) PROVE u[i] = v[i]
  <2>1. CASE i <= n
    <3>1. i \in 1..n /\ i <= Len(a) /\ i \in 1..(Len(a) + Len(Feed(Tail(ms)))) /\ i \in 1..(n + k)
      BY <1>1, <1>2, <1>4, <1>5, <2>1
    <3> QED BY <1>2, <1>5, <1>6, <2>1, <3>1
  <2>2. CASE i = n + 1
    <3>1. i <= Len(a) /\ i \in 1..(Len(a) + Len(Feed(Tail(ms)))) /\ u[i] = MsgIn(ms[1])
      BY <1>1, <1>2, <1>4, <1>5, <2>2
    <3>2. i - n = 1 /\ 1 \in 1..k /\ i \in 1..(n + k) /\ ~(i <= n)
      BY <1>1, <1>2, <2>2
    <3>3. v[i] = MsgIn(ms[1])
      BY <1>3, <1>6, <3>2
    <3> QED BY <3>1, <3>3
  <2>3. CASE i > n + 1
    <3>1. /\ i \in 1..(n + k) /\ ~(i <= Len(a)) /\ i - Len(a) = i - n - 1
          /\ i - n - 1 \in 1..(k - 1)
      BY <1>1, <1>2, <1>5, <2>3
    <3>2. i \in 1..(Len(a) + Len(Feed(Tail(ms))))
      BY <1>1, <1>2, <1>4, <3>1
    <3>3. u[i] = MsgIn(Tail(ms)[i - n - 1])
      BY <1>4, <1>5, <3>1, <3>2
    <3>4. Tail(ms)[i - n - 1] = ms[i - n]
      <4>1. (i - n - 1) + 1 = i - n
        BY <1>2, <3>1
      <4> QED BY <1>1, <3>1, <4>1
    <3>5. i - n \in 1..k /\ ~(i <= n)
      BY <1>1, <1>2, <3>1
    <3> QED BY <1>3, <1>6, <3>1, <3>3, <3>4, <3>5
  <2> QED BY <1>2, <1>5, <2>1, <2>2, <2>3
<1>8. u = v
  BY <1>5, <1>6, <1>7, SeqEqual
<1> QED BY <1>8 DEF u, v, a

\* What the program itself puts on the bus, copies of the user included.
Own == {e \in XtEvents : e.type # "in" /\ e # Marker("number") /\ (ForPeer(e) => PeerRequests)}
Puts == \E evs \in Seq(Own) : bus' = bus \o evs

LEMMA SendableOwn == Sendable \subseteq Own /\ Own \subseteq XtEvents
<1>1. ASSUME NEW e \in Sendable PROVE e \in Own
  <2>1. e \in XtEvents /\ e.type \notin {"in", "copy"} /\ e # Marker("number")
        /\ (ForPeer(e) => PeerRequests)
    BY DEF Sendable
  <2> QED BY <2>1 DEF Own
<1>2. Own \subseteq XtEvents
  BY DEF Own
<1> QED BY <1>1, <1>2

LEMMA PutsOne ==
    ASSUME XtTypeOK
    PROVE  /\ Grows => Puts /\ (UNCHANGED bus => Puts)
           /\ UNCHANGED bus => Puts
           /\ \A e \in Own : bus' = Append(bus, e) => Puts
<1>1. Sendable \subseteq Own
  BY SendableOwn
<1>2. Seq(Sendable) \subseteq Seq(Own)
  BY <1>1, SeqMonotonic
<1>3. UNCHANGED bus => Puts
  <2>1. bus \o <<>> = bus /\ <<>> \in Seq(Own)
    BY Concat, Tuples DEF XtTypeOK
  <2> QED BY <2>1 DEF Puts
<1>4. ASSUME NEW e \in Own, bus' = Append(bus, e) PROVE Puts
  <2>1. bus \o <<e>> = Append(bus, e)
    BY AppendIsConcat DEF XtTypeOK, Own
  <2>2. <<e>> \in Seq(Own)
    BY Tuples
  <2> QED BY <1>4, <2>1, <2>2 DEF Puts
<1> QED BY <1>2, <1>3, <1>4 DEF Grows, Puts

LEMMA OwnAreNotIn ==
    ASSUME NEW evs, evs \in Seq(Own) \/ evs \in Seq(Sendable)
    PROVE  /\ evs \in Seq(XtEvents) /\ evs \in Seq(Own) /\ Range(evs) \subseteq Own
           /\ \A i \in 1..Len(evs) : ~In(evs[i]) /\ evs[i] # Marker("number")
<1>1. Sendable \subseteq Own /\ Own \subseteq XtEvents
  BY SendableOwn
<1>2. evs \in Seq(Own) /\ evs \in Seq(XtEvents)
  BY <1>1, SeqMonotonic
<1>3. \A i \in 1..Len(evs) : evs[i] \in Own
  BY <1>2
<1>4. DOMAIN evs = 1..Len(evs)
  BY <1>2, LenProperties
<1>5. Range(evs) \subseteq Own
  BY <1>3, <1>4 DEF Range
<1> QED BY <1>2, <1>3, <1>5 DEF Own, In

LEMMA BusParts ==
    ASSUME XtTypeOK
    PROVE  /\ bus \in Seq(XtEvents) /\ Feed(fromDev) \in Seq(XtEvents)
           /\ Incoming \in Seq(XtEvents)
           /\ bus # <<>> => /\ Tail(bus) \in Seq(XtEvents) /\ Head(bus) \in XtEvents
                            /\ Range(bus) = {Head(bus)} \cup Range(Tail(bus))
                            /\ Incoming # <<>> /\ Incoming[1] = Head(bus) /\ bus[1] = Head(bus)
                            /\ Tail(Incoming) = Tail(bus) \o Feed(fromDev)
<1>1. bus \in Seq(XtEvents) /\ Feed(fromDev) \in Seq(XtEvents)
  BY FeedTyped DEF XtTypeOK
<1>2. Incoming \in Seq(XtEvents)
  BY <1>1, Tuples DEF Incoming
<1>3. ASSUME bus # <<>>
      PROVE  /\ Tail(bus) \in Seq(XtEvents) /\ Head(bus) \in XtEvents
             /\ Range(bus) = {Head(bus)} \cup Range(Tail(bus))
             /\ Incoming # <<>> /\ Incoming[1] = Head(bus) /\ bus[1] = Head(bus)
             /\ Tail(Incoming) = Tail(bus) \o Feed(fromDev)
  <2> DEFINE F == Feed(fromDev)
             n == Len(bus)
             t == Tail(bus)
  <2>1. /\ t \in Seq(XtEvents) /\ Head(bus) \in XtEvents /\ Head(bus) = bus[1]
        /\ n \in Nat \ {0} /\ Len(t) = n - 1 /\ \A i \in 1..(n - 1) : t[i] = bus[i + 1]
    BY <1>1, <1>3, HeadTailProperties, EmptySeq, LenProperties
  <2>2. Range(bus) = {Head(bus)} \cup Range(Tail(bus))
    BY <1>1, <1>3, RangeOfHeadTail
  <2>3. /\ F \in Seq(XtEvents) /\ Len(F) \in Nat /\ Len(Incoming) = n + Len(F)
        /\ \A i \in 1..(n + Len(F)) : Incoming[i] = IF i <= n THEN bus[i] ELSE F[i - n]
    BY <1>1, ConcatProperties, LenProperties DEF Incoming
  <2> HIDE DEF F, n, t
  <2>4. Incoming # <<>> /\ Incoming[1] = Head(bus)
    BY <2>1, <2>3
  <2>5. /\ t \o F \in Seq(XtEvents) /\ Len(t \o F) = n - 1 + Len(F)
        /\ \A i \in 1..(n - 1 + Len(F)) : (t \o F)[i] = IF i <= n - 1 THEN t[i] ELSE F[i - (n - 1)]
    <3>1. /\ t \o F \in Seq(XtEvents) /\ Len(t \o F) = Len(t) + Len(F)
          /\ \A i \in 1..(Len(t) + Len(F)) : (t \o F)[i] = IF i <= Len(t) THEN t[i] ELSE F[i - Len(t)]
      BY <2>1, <2>3, ConcatProperties
    <3> QED BY <2>1, <3>1
  <2>6. /\ Tail(Incoming) \in Seq(XtEvents) /\ Len(Tail(Incoming)) = n - 1 + Len(F)
        /\ \A i \in 1..(n - 1 + Len(F)) : Tail(Incoming)[i] = Incoming[i + 1]
    <3>1. /\ Tail(Incoming) \in Seq(XtEvents) /\ Len(Tail(Incoming)) = Len(Incoming) - 1
          /\ \A i \in 1..Len(Tail(Incoming)) : Tail(Incoming)[i] = Incoming[i + 1]
      BY <1>2, <2>4, HeadTailProperties
    <3>2. Len(Incoming) - 1 = n - 1 + Len(F)
      BY <2>1, <2>3
    <3> QED BY <3>1, <3>2
  <2>7. ASSUME NEW i \in 1..(n - 1 + Len(F)) PROVE Tail(Incoming)[i] = (t \o F)[i]
    <3>1. i + 1 \in 1..(n + Len(F)) /\ Tail(Incoming)[i] = Incoming[i + 1]
      BY <2>1, <2>3, <2>6
    <3>2. CASE i <= n - 1
      <4>1. i + 1 <= n /\ i \in 1..(n - 1)
        BY <2>1, <2>3, <3>2
      <4> QED BY <2>1, <2>3, <2>5, <3>1, <3>2, <4>1
    <3>3. CASE i > n - 1
      <4>1. ~(i + 1 <= n) /\ (i + 1) - n = i - (n - 1) /\ ~(i <= n - 1)
        BY <2>1, <2>3, <3>3
      <4> QED BY <2>3, <2>5, <3>1, <4>1
    <3> QED BY <2>1, <2>3, <3>2, <3>3
  <2>8. Tail(Incoming) = t \o F
    BY <2>5, <2>6, <2>7, SeqEqual
  <2> QED BY <2>1, <2>2, <2>4, <2>8 DEF t, F
<1> QED BY <1>1, <1>2, <1>3

\* The application task takes the head of the stream.
LEMMA StreamTakes ==
    ASSUME XtTypeOK, Takes, UNCHANGED fromDev
    PROVE  /\ Paired(Incoming) => Paired(Incoming)'
           /\ Paired(Incoming) /\ In(Head(bus)) /\ ~Buf(Head(bus)) => Announced(Incoming)'
           /\ Announced(Incoming) => ~End(Head(bus))
           /\ Announced(Incoming) /\ ~Buf(Head(bus)) => Announced(Incoming)'
<1>1. PICK evs \in Seq(Sendable) : bus' = Tail(bus) \o evs
  BY DEF Takes, Reply
<1>2. bus # <<>>
  BY DEF Takes
<1> DEFINE t == Tail(bus)
           F == Feed(fromDev)
<1>3. /\ Incoming \in Seq(XtEvents) /\ Incoming # <<>> /\ Incoming[1] = Head(bus)
      /\ t \in Seq(XtEvents) /\ F \in Seq(XtEvents) /\ Tail(Incoming) = t \o F
  BY <1>2, BusParts
<1>4. Incoming' = (t \o evs) \o F
  BY <1>1 DEF Incoming
<1>5. /\ Paired(t \o F) => Paired((t \o evs) \o F)
      /\ Announced(t \o F) => Announced((t \o evs) \o F)
  BY <1>3, OwnAreNotIn, StreamInsert
<1> HIDE DEF t, F
<1>6. /\ Paired(Incoming) => Paired(t \o F)
      /\ Paired(Incoming) /\ In(Head(bus)) /\ ~Buf(Head(bus)) => Announced(t \o F)
      /\ Announced(Incoming) => ~End(Head(bus))
      /\ Announced(Incoming) /\ ~Buf(Head(bus)) => Announced(t \o F)
  <2>1. /\ Paired(Incoming) => Paired(Tail(Incoming))
        /\ Paired(Incoming) /\ In(Incoming[1]) /\ ~Buf(Incoming[1]) => Announced(Tail(Incoming))
        /\ Announced(Incoming) => ~End(Incoming[1])
        /\ Announced(Incoming) /\ ~Buf(Incoming[1]) => Announced(Tail(Incoming))
    BY <1>3, StreamTail
  <2> QED BY <1>3, <2>1
<1>7. Paired(Incoming)' = Paired(Incoming') /\ Announced(Incoming)' = Announced(Incoming')
  BY DEF Paired, Announced
<1> QED BY <1>4, <1>5, <1>6, <1>7

\* Anybody but the application task.
LEMMA StreamPuts ==
    ASSUME XtTypeOK, Puts,
           \/ UNCHANGED fromDev
           \/ \E m \in InMsgs : m.cmd # "end" /\ fromDev' = Append(fromDev, m)
           \/ UNCHANGED bus /\ \E d \in Patch : fromDev' = fromDev \o <<BufferDump(d), PatchDumpEnd>>
    PROVE  /\ Paired(Incoming) => Paired(Incoming)'
           /\ Announced(Incoming) => Announced(Incoming)'
<1> DEFINE F == Feed(fromDev)
<1>1. PICK evs \in Seq(Own) : bus' = bus \o evs
  BY DEF Puts
<1>2. /\ Incoming \in Seq(XtEvents) /\ bus \in Seq(XtEvents) /\ F \in Seq(XtEvents)
      /\ fromDev \in Seq(InMsgs) /\ Incoming = bus \o F
  BY BusParts DEF Incoming, XtTypeOK
<1>3. /\ Paired(Incoming) => Paired((bus \o evs) \o F)
      /\ Announced(Incoming) => Announced((bus \o evs) \o F)
      /\ bus \o evs \in Seq(XtEvents)
  BY <1>2, OwnAreNotIn, StreamInsert, Tuples
<1>4. Paired(Incoming)' = Paired(Incoming') /\ Announced(Incoming)' = Announced(Incoming')
  BY DEF Paired, Announced
<1>5. Incoming' = bus' \o Feed(fromDev')
  BY DEF Incoming, Feed
<1>6. CASE UNCHANGED fromDev
  BY <1>1, <1>3, <1>4, <1>5, <1>6
<1>7. CASE \E m \in InMsgs : m.cmd # "end" /\ fromDev' = Append(fromDev, m)
  <2>1. PICK m \in InMsgs : m.cmd # "end" /\ fromDev' = Append(fromDev, m)
    BY <1>7
  <2>2. MsgIn(m) \in XtEvents /\ ~End(MsgIn(m))
    BY <2>1, SentTyped DEF End, MsgIn
  <2>3. Incoming' = Append((bus \o evs) \o F, MsgIn(m)) /\ (bus \o evs) \o F \in Seq(XtEvents)
    <3>1. Feed(fromDev') = Append(F, MsgIn(m))
      BY <1>2, <2>1, FeedAppend
    <3>2. bus' \o Append(F, MsgIn(m)) = Append(bus' \o F, MsgIn(m))
      <4>1. bus' \in Seq(XtEvents)
        BY <1>1, <1>3
      <4> HIDE DEF F
      <4> QED BY <1>2, <2>2, <4>1, ConcatAppend
    <3>3. (bus \o evs) \o F \in Seq(XtEvents)
      <4> DEFINE b == bus \o evs
      <4>1. b \in Seq(XtEvents) /\ F \in Seq(XtEvents)
        BY <1>2, <1>3
      <4> HIDE DEF b, F
      <4>2. b \o F \in Seq(XtEvents)
        BY <4>1, ConcatProperties
      <4> QED BY <4>2 DEF b
    <3> QED BY <1>1, <1>5, <3>1, <3>2, <3>3
  <2> HIDE DEF F
  <2> QED BY <1>3, <1>4, <2>2, <2>3, StreamAppend
<1>8. CASE UNCHANGED bus /\ \E d \in Patch : fromDev' = fromDev \o <<BufferDump(d), PatchDumpEnd>>
  <2>1. PICK d \in Patch : fromDev' = fromDev \o <<BufferDump(d), PatchDumpEnd>>
    BY <1>8
  <2>2. BufferDump(d) \in InMsgs /\ PatchDumpEnd \in InMsgs
    BY XtMsgsTyped
  <2> DEFINE b == MsgIn(BufferDump(d))
             x == MsgIn(PatchDumpEnd)
  <2>3. b \in XtEvents /\ x \in XtEvents /\ Buf(b)
    BY <2>2, SentTyped DEF Buf, MsgIn, BufferDump
  <2>4. Feed(fromDev') = Append(Append(F, b), x)
    <3>1. fromDev' = Append(Append(fromDev, BufferDump(d)), PatchDumpEnd)
      BY <1>2, <2>1, <2>2, PairAppends
    <3>2. Append(fromDev, BufferDump(d)) \in Seq(InMsgs)
      BY <1>2, <2>2, Tuples
    <3> QED BY <1>2, <2>2, <3>1, <3>2, FeedAppend
  <2> HIDE DEF b, x, F
  <2>5. Incoming' = Incoming \o <<b, x>>
    <3>1. Append(F, b) \in Seq(XtEvents)
      BY <1>2, <2>3, Tuples
    <3>2. bus \o Append(Append(F, b), x) = Append(Append(Incoming, b), x)
      BY <1>2, <2>3, <3>1, ConcatAppend
    <3>3. Incoming \o <<b, x>> = Append(Append(Incoming, b), x)
      <4>1. Incoming \in Seq(XtEvents)
        BY <1>2
      <4> QED BY <2>3, <4>1, PairAppends
    <3>4. bus' = bus
      BY <1>8
    <3> QED BY <1>5, <2>4, <3>2, <3>3, <3>4
  <2> QED BY <1>2, <1>4, <2>3, <2>5, StreamDump
<1> QED BY <1>6, <1>7, <1>8

LEMMA StreamMidiIn == ASSUME XtTypeOK, MidiIn PROVE Incoming' = Incoming
<1>1. bus \in Seq(XtEvents) /\ fromDev \in Seq(InMsgs) /\ fromDev # <<>>
  BY DEF XtTypeOK, MidiIn
<1>2. Incoming' = bus' \o Feed(fromDev')
  BY DEF Incoming, Feed
<1> QED BY <1>1, <1>2, FeedHead DEF MidiIn, Incoming
-----------------------------------------------------------------------------
(* What is under way: an event that is taken, or an event that is sent.    *)

LEMMA TakesRange ==
    ASSUME XtTypeOK, Takes
    PROVE  /\ Range(bus) \subseteq {Head(bus)} \cup Range(bus')
           /\ Range(bus') \subseteq Range(bus) \cup Sendable
           /\ Head(bus) \in Range(bus)
<1>1. PICK evs \in Seq(Sendable) : bus' = Tail(bus) \o evs
  BY DEF Takes, Reply
<1>2. /\ bus # <<>> /\ Tail(bus) \in Seq(XtEvents) /\ evs \in Seq(XtEvents)
      /\ Range(bus) = {Head(bus)} \cup Range(Tail(bus))
  BY BusParts, OwnAreNotIn DEF Takes
<1>3. Range(bus') = Range(Tail(bus)) \cup Range(evs)
  <2>1. Range(Tail(bus) \o evs) = Range(Tail(bus)) \cup Range(evs)
    <3> DEFINE t == Tail(bus)
    <3>1. t \in Seq(XtEvents) /\ evs \in Seq(XtEvents)
      BY <1>2
    <3> HIDE DEF t
    <3>2. Range(t \o evs) = Range(t) \cup Range(evs)
      BY <3>1, RangeConcatenation
    <3> QED BY <3>2 DEF t
  <2> QED BY <1>1, <2>1
<1>4. Range(evs) \subseteq Sendable
  <2>1. DOMAIN evs = 1..Len(evs) /\ \A i \in 1..Len(evs) : evs[i] \in Sendable
    BY LenProperties
  <2> QED BY <2>1 DEF Range
<1> QED BY <1>2, <1>3, <1>4

LEMMA PutsRange ==
    ASSUME XtTypeOK, Puts
    PROVE  Range(bus) \subseteq Range(bus') /\ Range(bus') \subseteq Range(bus) \cup Own
<1>1. PICK evs \in Seq(Own) : bus' = bus \o evs
  BY DEF Puts
<1>2. Range(bus') = Range(bus) \cup Range(evs) /\ Range(evs) \subseteq Own
  BY <1>1, BusParts, OwnAreNotIn, Concat
<1> QED BY <1>2

LEMMA SeqRange ==
    ASSUME NEW S, NEW s \in Seq(S)
    PROVE  /\ \A x \in S : Range(Append(s, x)) = Range(s) \cup {x}
           /\ s # <<>> => Range(s) = {Head(s)} \cup Range(Tail(s))
           /\ Range(s) \subseteq S /\ (s = <<>> => Range(s) = {})
           /\ (s # <<>> => Head(s) \in Range(s))
<1>1. \A x \in S : Range(Append(s, x)) = Range(s) \cup {x}
  BY RangeOfAppend
<1>2. s # <<>> => Range(s) = {Head(s)} \cup Range(Tail(s))
  BY RangeOfHeadTail
<1>3. Range(s) \subseteq S /\ (s = <<>> => Range(s) = {})
  <2>1. DOMAIN s = 1..Len(s) /\ \A i \in 1..Len(s) : s[i] \in S
    BY LenProperties
  <2>2. s = <<>> => 1..Len(s) = {}
    BY EmptySeq
  <2> QED BY <2>1, <2>2 DEF Range
<1> QED BY <1>1, <1>2, <1>3

\* The device serves a message.
Served(m, answers) ==
    /\ m.cmd = "request" => \E x \in answers : x.cmd = "end"
    /\ m.cmd = "number?" => \E x \in answers : x.cmd = "number"
    /\ m.cmd = "state?"  => \E x \in answers : x.cmd = "state"

\* Nothing under way is lost but the event h that is taken.
Carried(h) ==
    /\ Range(bus) \subseteq {h} \cup Range(bus')
    /\ h.type = "out" => h.msg \in Range(toDev')
    /\ \A m \in Range(toDev) : m \in Range(toDev') \/ Served(m, Range(fromDev'))
    /\ \A m \in Range(fromDev) : m \in Range(fromDev') \/ MsgIn(m) \in Range(bus')

LEMMA TokensCarried ==
    ASSUME NEW h, Carried(h)
    PROVE  /\ Due => Due' \/ (h.type = "in" /\ h.msg.cmd = "end")
           /\ NumberDue => NumberDue' \/ (h.type = "in" /\ h.msg.cmd = "number")
           /\ StateDue => StateDue' \/ (h.type = "in" /\ h.msg.cmd = "state")
<1>1. ASSUME NEW c, c \in {"end", "number", "state"}, Arriving(c)
      PROVE  Arriving(c)' \/ (h.type = "in" /\ h.msg.cmd = c)
  <2>1. CASE \E e \in Range(bus) : e.type = "in" /\ e.msg.cmd = c
    BY <2>1 DEF Carried, Arriving
  <2>2. CASE \E m \in Range(fromDev) : m.cmd = c
    <3>1. PICK m \in Range(fromDev) : m.cmd = c
      BY <2>2
    <3>2. CASE m \in Range(fromDev')
      BY <3>1, <3>2 DEF Arriving
    <3>3. CASE MsgIn(m) \in Range(bus')
      <4>1. MsgIn(m).type = "in" /\ MsgIn(m).msg = m
        BY DEF MsgIn
      <4> QED BY <3>1, <3>3, <4>1 DEF Arriving
    <3> QED BY <3>1, <3>2, <3>3 DEF Carried
  <2> QED BY <1>1, <2>1, <2>2 DEF Arriving
<1>2. ASSUME NEW c, c \in {"request", "number?", "state?"}, Sending(c)
      PROVE  Sending(c)' \/ \E m : m.cmd = c /\ Served(m, Range(fromDev'))
  <2>1. CASE \E e \in Range(bus) : e.type = "out" /\ e.msg.cmd = c
    <3>1. PICK e \in Range(bus) : e.type = "out" /\ e.msg.cmd = c
      BY <2>1
    <3>2. CASE e \in Range(bus')
      BY <3>1, <3>2 DEF Sending
    <3>3. CASE e = h
      BY <3>1, <3>3 DEF Carried, Sending
    <3> QED BY <3>1, <3>2, <3>3 DEF Carried
  <2>2. CASE \E m \in Range(toDev) : m.cmd = c
    BY <2>2 DEF Carried, Sending
  <2> QED BY <1>2, <2>1, <2>2 DEF Sending
<1>3. /\ \A m : m.cmd = "request" /\ Served(m, Range(fromDev')) => Arriving("end")'
      /\ \A m : m.cmd = "number?" /\ Served(m, Range(fromDev')) => Arriving("number")'
      /\ \A m : m.cmd = "state?" /\ Served(m, Range(fromDev')) => Arriving("state")'
  BY DEF Served, Arriving
<1>4. Due => Due' \/ (h.type = "in" /\ h.msg.cmd = "end")
  <2>1. Sending("request") => Sending("request")' \/ Arriving("end")'
    BY <1>2, <1>3
  <2>2. Arriving("end") => Arriving("end")' \/ (h.type = "in" /\ h.msg.cmd = "end")
    BY <1>1
  <2> QED BY <2>1, <2>2 DEF Due
<1>5. NumberDue => NumberDue' \/ (h.type = "in" /\ h.msg.cmd = "number")
  <2>1. Sending("number?") => Sending("number?")' \/ Arriving("number")'
    BY <1>2, <1>3
  <2>2. Arriving("number") => Arriving("number")' \/ (h.type = "in" /\ h.msg.cmd = "number")
    BY <1>1
  <2> QED BY <2>1, <2>2 DEF NumberDue
<1>6. StateDue => StateDue' \/ (h.type = "in" /\ h.msg.cmd = "state")
  <2>1. Sending("state?") => Sending("state?")' \/ Arriving("state")'
    BY <1>2, <1>3
  <2>2. Arriving("state") => Arriving("state")' \/ (h.type = "in" /\ h.msg.cmd = "state")
    BY <1>1
  <2> QED BY <2>1, <2>2 DEF StateDue
<1> QED BY <1>4, <1>5, <1>6

LEMMA CarriedBy ==
    ASSUME XtTypeOK
    PROVE  /\ Takes /\ Head(bus).type # "out" /\ UNCHANGED <<toDev, fromDev>> => Carried(Head(bus))
           /\ HandleMsgOut /\ Takes => Carried(Head(bus))
           /\ (/\ Puts /\ UNCHANGED toDev
               /\ UNCHANGED fromDev \/ \E m \in InMsgs : fromDev' = Append(fromDev, m))
                  => \A h : h.type # "out" => Carried(h)
           /\ \A h : h.type # "out" /\ MidiIn => Carried(h)
<1>0. fromDev \in Seq(InMsgs) /\ toDev \in Seq(OutMsgs) /\ bus \in Seq(XtEvents)
  BY DEF XtTypeOK
<1>1. ASSUME Takes, Head(bus).type # "out", UNCHANGED <<toDev, fromDev>> PROVE Carried(Head(bus))
  BY <1>1, TakesRange DEF Carried
<1>2. ASSUME HandleMsgOut, Takes PROVE Carried(Head(bus))
  <2>1. Head(bus).msg \in OutMsgs
    BY <1>2, XtTaking, XtEventKinds DEF HandleMsgOut
  <2>2. Range(toDev') = Range(toDev) \cup {Head(bus).msg}
    BY <1>0, <1>2, <2>1, SeqRange DEF HandleMsgOut
  <2>3. UNCHANGED fromDev
    BY <1>2 DEF HandleMsgOut
  <2> QED BY <1>2, <2>2, <2>3, TakesRange DEF Carried
<1>3. ASSUME NEW h, h.type # "out", Puts, UNCHANGED toDev,
             UNCHANGED fromDev \/ \E m \in InMsgs : fromDev' = Append(fromDev, m)
      PROVE  Carried(h)
  <2>1. \A m \in InMsgs : Range(Append(fromDev, m)) = Range(fromDev) \cup {m}
    BY <1>0, SeqRange
  <2>2. Range(fromDev) \subseteq Range(fromDev')
    BY <1>3, <2>1
  <2> QED BY <1>3, <2>2, PutsRange DEF Carried
<1>4. ASSUME NEW h, h.type # "out", MidiIn PROVE Carried(h)
  <2>1. fromDev # <<>> /\ bus' = Append(bus, MsgIn(Head(fromDev))) /\ fromDev' = Tail(fromDev)
        /\ UNCHANGED toDev
    BY <1>4 DEF MidiIn, devVars
  <2>2. MsgIn(Head(fromDev)) \in XtEvents
    BY <1>0, <2>1, Tuples, SentTyped
  <2>3. Range(bus') = Range(bus) \cup {MsgIn(Head(fromDev))}
    BY <1>0, <2>1, <2>2, SeqRange
  <2>4. Range(fromDev) = {Head(fromDev)} \cup Range(fromDev')
    BY <1>0, <2>1, SeqRange
  <2> QED BY <1>4, <2>1, <2>3, <2>4 DEF Carried
<1> QED BY <1>1, <1>2, <1>3, <1>4

LEMMA DeviceCarries ==
    ASSUME XtTypeOK, XtDeviceTask, NEW h, h.type # "out"
    PROVE  Carried(h) /\ UNCHANGED <<bus, queue, reported, effects, prog>>
<1>0. fromDev \in Seq(InMsgs) /\ toDev \in Seq(OutMsgs) /\ toDev # <<>>
  BY DEF XtTypeOK, XtDeviceTask, XtDevReceive, DevPatchDump, DevDumpEnd
<1>1. UNCHANGED <<bus, queue, reported, effects, prog>> /\ toDev' = Tail(toDev)
  BY DEF XtDeviceTask, XtDevReceive, DevPatchDump, DevDumpEnd, handlerVars, uiVars
<1>2. Range(toDev) = {Head(toDev)} \cup Range(toDev')
  BY <1>0, <1>1, SeqRange
<1>3. Range(fromDev) \subseteq Range(fromDev') /\ Served(Head(toDev), Range(fromDev'))
  <2>1. CASE XtDevReceive
    <3>1. Head(toDev) \in OutMsgs
      BY <1>0, Tuples
    <3>2. Answer(Head(toDev)) \in Seq(InMsgs) /\ fromDev' = fromDev \o Answer(Head(toDev))
      BY <2>1, <3>1, AnswerTyped DEF XtDevReceive
    <3>3. Range(fromDev') = Range(fromDev) \cup Range(Answer(Head(toDev)))
      BY <1>0, <3>2, Concat
    <3>4. ASSUME NEW x, NEW y, NEW s, s = <<x>> \/ s = <<y, x>> PROVE x \in Range(s)
      <4>1. CASE s = <<x>>
        <5>1. 1 \in DOMAIN s /\ s[1] = x
          BY <4>1
        <5> QED BY <5>1 DEF Range
      <4>2. CASE s = <<y, x>>
        <5>1. 2 \in DOMAIN s /\ s[2] = x
          BY <4>2
        <5> QED BY <5>1 DEF Range
      <4> QED BY <3>4, <4>1, <4>2
    <3>5. CASE Head(toDev).cmd = "request"
      <4>1. PatchDumpEnd \in Range(Answer(Head(toDev)))
        BY <3>4, <3>5 DEF Answer, DumpOf
      <4> QED BY <3>3, <3>5, <4>1 DEF Served, PatchDumpEnd
    <3>6. CASE Head(toDev).cmd = "number?"
      <4>1. ProgramNumber(devProg) \in Range(Answer(Head(toDev)))
        BY <3>4, <3>6 DEF Answer
      <4> QED BY <3>3, <3>6, <4>1 DEF Served, ProgramNumber
    <3>7. CASE Head(toDev).cmd = "state?"
      <4>1. EditState(devEdit # devProgs[devProg]) \in Range(Answer(Head(toDev)))
        BY <3>4, <3>7 DEF Answer
      <4> QED BY <3>3, <3>7, <4>1 DEF Served, EditState
    <3>8. CASE Head(toDev).cmd \notin {"request", "number?", "state?"}
      BY <3>3, <3>8 DEF Served
    <3> QED BY <3>5, <3>6, <3>7, <3>8
  <2>2. CASE DevPatchDump
    BY <2>2 DEF DevPatchDump, Served
  <2>3. CASE DevDumpEnd
    <3>1. StoreStatus(devGot = "stored") \in InMsgs
      BY XtMsgsTyped
    <3>2. Range(fromDev) \subseteq Range(fromDev')
      <4>1. Range(Append(fromDev, StoreStatus(devGot = "stored")))
            = Range(fromDev) \cup {StoreStatus(devGot = "stored")}
        BY <1>0, <3>1, SeqRange
      <4>2. \/ fromDev' = Append(fromDev, StoreStatus(devGot = "stored"))
            \/ fromDev' = fromDev
        BY <2>3 DEF DevDumpEnd
      <4> QED BY <4>1, <4>2
    <3> QED BY <2>3, <3>2 DEF DevDumpEnd, Served
  <2> QED BY <2>1, <2>2, <2>3 DEF XtDeviceTask
<1> QED BY <1>1, <1>2, <1>3 DEF Carried

-----------------------------------------------------------------------------
(* The parts of QueueInv, step by step.                                    *)

LEMMA AnsweringKept ==
    ASSUME Answering, NEW h, Carried(h), queue' = queue,
           h.type = "in" => /\ h.msg.cmd # "end"
                            /\ h.msg.cmd = "number" => ~HeadIs("number?")
                            /\ h.msg.cmd = "state" => ~HeadIs("state?")
    PROVE  Answering'
<1>1. HeadIs("number?")' = HeadIs("number?") /\ HeadIs("state?")' = HeadIs("state?")
  BY DEF HeadIs
<1> QED BY <1>1, TokensCarried DEF Answering

LEMMA ReportKept ==
    ASSUME ReportInv, NEW h, Carried(h), reported' = reported, queue' = queue,
           h # Marker("number"), h.type = "in" => h.msg.cmd # "number",
           numbered(prog) => numbered(prog')
    PROVE  ReportInv'
<1>1. Behind(ProgramNumberRequest)' = Behind(ProgramNumberRequest)
  BY DEF Behind, ProgramNumberRequest
<1>2. OnBus("number") => OnBus("number")'
  <2>1. OnBus("number")' = (Marker("number") \in Range(bus'))
    BY DEF OnBus, Marker
  <2> QED BY <2>1 DEF Carried, OnBus
<1>3. numbered(prog)' = numbered(prog')
  BY DEF numbered
<1> QED BY <1>1, <1>2, <1>3, TokensCarried DEF ReportInv

LEMMA EffectsKept ==
    ASSUME EffectsInv, NEW h, Carried(h), effects' = effects, queue' = queue,
           h # LoadEvent(All, "UI"), h.type = "data" => h.buffer \notin Effects,
           Announced(Incoming) => Announced(Incoming)'
    PROVE  EffectsInv'
<1> SUFFICES ASSUME NEW e \in Effects, effects[e] = ""
             PROVE  \/ LoadEvent(All, "UI") \in Range(bus')
                    \/ \E d \in Range(bus') : d.type = "data" /\ d.buffer = e
                    \/ Behind(ReqMsg(e))'
                    \/ queue' # <<>> /\ Head(queue') = ReqMsg(e) /\ Announced(Incoming)'
  BY DEF EffectsInv, LoadEvent, ReqMsg
<1>1. Behind(ReqMsg(e)) => Behind(ReqMsg(e))'
  BY DEF Behind, ReqMsg
<1>2. \/ LoadEvent(All, "UI") \in Range(bus)
      \/ \E d \in Range(bus) : d.type = "data" /\ d.buffer = e
      \/ Behind(ReqMsg(e))
      \/ queue # <<>> /\ Head(queue) = ReqMsg(e) /\ Announced(Incoming)
  BY DEF EffectsInv
<1> QED BY <1>1, <1>2 DEF Carried

LEMMA NumberFirstTakes ==
    ASSUME XtTypeOK, NumberFirst, Takes, Head(bus) = LoadEvent(All, "UI") => queue' # <<>>
    PROVE  NumberFirst'
<1>1. PICK evs \in Seq(Sendable) : bus' = Tail(bus) \o evs
  BY DEF Takes, Reply
<1> DEFINE t == Tail(bus)
<1>2. /\ bus \in Seq(XtEvents) /\ t \in Seq(XtEvents) /\ bus[1] = Head(bus)
      /\ Len(bus) \in Nat \ {0} /\ Len(t) = Len(bus) - 1 /\ \A i \in 1..Len(t) : t[i] = bus[i + 1]
  BY BusParts, HeadTailProperties, EmptySeq, LenProperties DEF Takes
<1>3. /\ Len(t) \in Nat /\ Len(evs) \in Nat /\ Len(bus') = Len(t) + Len(evs)
      /\ \A i \in 1..(Len(t) + Len(evs)) : bus'[i] = IF i <= Len(t) THEN t[i] ELSE evs[i - Len(t)]
      /\ \A i \in 1..Len(evs) : evs[i] # Marker("number")
  <2>1. evs \in Seq(XtEvents) /\ \A i \in 1..Len(evs) : evs[i] # Marker("number")
    BY OwnAreNotIn
  <2> HIDE DEF t
  <2>2. Len(t) \in Nat /\ Len(evs) \in Nat
    BY <1>2, <2>1, LenProperties
  <2>3. /\ Len(t \o evs) = Len(t) + Len(evs)
        /\ \A i \in 1..(Len(t) + Len(evs)) : (t \o evs)[i] = IF i <= Len(t) THEN t[i] ELSE evs[i - Len(t)]
    BY <1>2, <2>1, ConcatProperties
  <2> QED BY <1>1, <2>1, <2>2, <2>3 DEF t
<1> HIDE DEF t
<1>4. ASSUME NEW i \in 1..Len(bus'), bus'[i] = Marker("number")
      PROVE  i = 1 /\ queue' # <<>>
  <2>1. i <= Len(t)
    <3>1. CASE ~(i <= Len(t))
      <4>1. i - Len(t) \in 1..Len(evs) /\ bus'[i] = evs[i - Len(t)]
        BY <1>3, <3>1
      <4> QED BY <1>3, <1>4, <4>1
    <3> QED BY <3>1
  <2>2. i + 1 \in 1..Len(bus) /\ bus[i + 1] = Marker("number") /\ i + 1 # 1
    BY <1>2, <1>3, <1>4, <2>1
  <2>3. i + 1 = 2 /\ bus[1] = LoadEvent(All, "UI")
    BY <2>2 DEF NumberFirst
  <2> QED BY <1>2, <2>2, <2>3
<1>5. Marker("number")' = Marker("number")
  BY DEF Marker
<1> QED BY <1>4, <1>5 DEF NumberFirst

LEMMA NumberFirstPuts ==
    ASSUME XtTypeOK, NumberFirst, UNCHANGED queue, 
           \/ Puts
           \/ \E m \in InMsgs : bus' = Append(bus, MsgIn(m))
    PROVE  NumberFirst'
<1>1. PICK evs \in Seq(XtEvents) : /\ bus' = bus \o evs
                                   /\ \A i \in 1..Len(evs) : evs[i] # Marker("number")
  <2>1. CASE Puts
    BY <2>1, OwnAreNotIn DEF Puts
  <2>2. CASE \E m \in InMsgs : bus' = Append(bus, MsgIn(m))
    <3>1. PICK m \in InMsgs : bus' = Append(bus, MsgIn(m))
      BY <2>2
    <3>2. MsgIn(m) \in XtEvents /\ MsgIn(m) # Marker("number")
      BY SentTyped DEF MsgIn, Marker
    <3>3. bus' = bus \o <<MsgIn(m)>>
      BY <3>1, <3>2, AppendIsConcat DEF XtTypeOK
    <3>4. <<MsgIn(m)>> \in Seq(XtEvents) /\ Len(<<MsgIn(m)>>) = 1 /\ <<MsgIn(m)>>[1] = MsgIn(m)
      BY <3>2, Tuples
    <3>5. \A i \in 1..1 : <<MsgIn(m)>>[i] # Marker("number")
      BY <3>2, <3>4
    <3> QED BY <3>3, <3>4, <3>5
  <2> QED BY <2>1, <2>2
<1>2. /\ Len(bus) \in Nat /\ Len(evs) \in Nat /\ Len(bus') = Len(bus) + Len(evs)
      /\ \A i \in 1..(Len(bus) + Len(evs)) :
             bus'[i] = IF i <= Len(bus) THEN bus[i] ELSE evs[i - Len(bus)]
  <2>1. bus \in Seq(XtEvents)
    BY DEF XtTypeOK
  <2>2. /\ Len(bus \o evs) = Len(bus) + Len(evs) /\ Len(bus) \in Nat /\ Len(evs) \in Nat
        /\ \A i \in 1..(Len(bus) + Len(evs)) :
               (bus \o evs)[i] = IF i <= Len(bus) THEN bus[i] ELSE evs[i - Len(bus)]
    BY <2>1, ConcatProperties, LenProperties
  <2> QED BY <1>1, <2>2
<1>3. ASSUME NEW i \in 1..Len(bus'), bus'[i] = Marker("number")
      PROVE  (i = 1 /\ queue' # <<>>) \/ (i = 2 /\ bus'[1] = LoadEvent(All, "UI"))
  <2>1. i <= Len(bus)
    <3>1. CASE ~(i <= Len(bus))
      <4>1. i - Len(bus) \in 1..Len(evs) /\ bus'[i] = evs[i - Len(bus)]
        BY <1>2, <3>1
      <4> QED BY <1>1, <1>3, <4>1
    <3> QED BY <3>1
  <2>2. i \in 1..Len(bus) /\ bus[i] = Marker("number") /\ bus'[1] = bus[1]
    BY <1>2, <1>3, <2>1
  <2> QED BY <2>2 DEF NumberFirst
<1>4. Marker("number")' = Marker("number") /\ LoadEvent(All, "UI")' = LoadEvent(All, "UI")
  BY DEF Marker, LoadEvent
<1> QED BY <1>3, <1>4 DEF NumberFirst

\* A step that neither takes an answer nor touches the queue.
QueueSame == UNCHANGED <<queue, reported, effects>> /\ (numbered(prog) => numbered(prog'))

Common(h) ==
    /\ h.type = "in" => h.msg.cmd \notin {"end", "number", "state", "buffer"}
    /\ h.type = "data" => h.buffer \notin Effects
    /\ h # LoadEvent(All, "UI") /\ h # Marker("number")

LEMMA CommonTaken ==
    ASSUME XtTypeOK, QueueInv, Takes, Common(Head(bus)), QueueSame,
           \/ Head(bus).type # "out" /\ UNCHANGED <<toDev, fromDev>>
           \/ HandleMsgOut
    PROVE  QueueInv'
<1> DEFINE h == Head(bus)
<1>1. Carried(h) /\ UNCHANGED fromDev
  BY CarriedBy DEF HandleMsgOut, devVars
<1>2. ~Buf(h)
  BY DEF Buf, Common
<1>3. /\ Paired(Incoming)'
      /\ Announced(Incoming) => Announced(Incoming)'
  BY <1>1, <1>2, StreamTakes DEF QueueInv
<1>4. NumberFirst'
  BY NumberFirstTakes DEF QueueInv, Common
<1> HIDE DEF h
<1>5. Common(h)
  BY DEF h
<1>6. Answering'
  BY <1>1, <1>5, AnsweringKept DEF Common, QueueInv, QueueSame
<1>7. ReportInv'
  BY <1>1, <1>5, ReportKept DEF Common, QueueInv, QueueSame
<1>8. EffectsInv'
  BY <1>1, <1>3, <1>5, EffectsKept DEF Common, QueueInv, QueueSame
<1> QED BY <1>3, <1>4, <1>6, <1>7, <1>8 DEF QueueInv

\* ... nor takes anything.
LEMMA CommonPut ==
    ASSUME XtTypeOK, QueueInv, QueueSame, NumberFirst',
           \A h : h.type # "out" => Carried(h),
           Paired(Incoming)', Announced(Incoming) => Announced(Incoming)'
    PROVE  QueueInv'
<1> DEFINE h == Marker("end")
<1>1. Common(h) /\ h.type # "out"
  BY DEF Common, Marker, LoadEvent
<1>2. Carried(h)
  BY <1>1
<1> HIDE DEF h
<1>6. Answering'
  BY <1>1, <1>2, AnsweringKept DEF Common, QueueInv, QueueSame
<1>7. ReportInv'
  BY <1>1, <1>2, ReportKept DEF Common, QueueInv, QueueSame
<1>8. EffectsInv'
  BY <1>1, <1>2, EffectsKept DEF Common, QueueInv, QueueSame
<1> QED BY <1>6, <1>7, <1>8 DEF QueueInv

\* The events of the handlers that leave the queue alone.
LEMMA CommonHeads ==
    ASSUME XtTypeOK
    PROVE  /\ HandleControl \/ HandleName \/ HandleProgramChange \/ HandleCopy \/ HandleModified
                  \/ MidiControl \/ MidiProgram \/ HandleMsgOut => Common(Head(bus))
           /\ LoadForPeer \/ LoadEditBuffer \/ XtStore \/ XtDataOut \/ XtDataIn
                  \/ EndMarker \/ TimeoutMarker => Common(Head(bus))
           /\ PatchRequestIn \/ StatusIn \/ NumberRequestIn \/ StateRequestIn => Common(Head(bus))
<1>1. \A h : h.type \in {"cc", "pc", "copy", "modified", "out", "store"} => Common(h)
  BY DEF Common, LoadEvent, Marker
<1>2. HandleControl \/ HandleName \/ HandleProgramChange \/ HandleCopy \/ HandleModified
          \/ HandleMsgOut \/ XtStore => Common(Head(bus))
  BY <1>1 DEF HandleControl, HandleName, HandleProgramChange, HandleCopy, HandleModified,
              HandleMsgOut, XtStore, Taking
<1>3. \A h : h.type = "in" /\ h.msg.cmd \notin {"end", "number", "state", "buffer"} => Common(h)
  BY DEF Common, LoadEvent, Marker
<1>4. MidiControl \/ MidiProgram \/ PatchRequestIn \/ StatusIn \/ NumberRequestIn \/ StateRequestIn
          => Common(Head(bus))
  BY <1>3 DEF MidiControl, MidiProgram, PatchRequestIn, StatusIn, NumberRequestIn, StateRequestIn,
              Receiving, Taking
<1>5. LoadForPeer \/ LoadEditBuffer => Common(Head(bus))
  <2>1. LoadEvent(All, "UI").origin = "UI" /\ LoadEvent(All, "UI").buffer = All
    BY DEF LoadEvent
  <2>2. All # EditBuffer
    BY PodCoreAssumption
  <2>3. \A h : h.type = "load" => h # Marker("number")
    BY DEF Marker
  <2>4. \A h : h.type = "load" /\ (h.origin = "MIDI" \/ h.buffer = EditBuffer) => Common(h)
    BY <2>1, <2>2, <2>3 DEF Common
  <2> QED BY <2>4 DEF LoadForPeer, LoadEditBuffer, Taking
<1>6. XtDataOut \/ XtDataIn => Common(Head(bus))
  BY DEF XtDataOut, XtDataIn, Taking, Common, LoadEvent, Marker
<1>7. EndMarker \/ TimeoutMarker => Common(Head(bus))
  BY DEF EndMarker, TimeoutMarker, Taking, Common, LoadEvent, Marker
<1> QED BY <1>2, <1>4, <1>5, <1>6, <1>7

LEMMA CommonSteps ==
    ASSUME XtTypeOK, PeerFree, QueueInv,
           \/ /\ \/ HandleControl \/ HandleName \/ HandleProgramChange \/ HandleCopy
                 \/ HandleModified \/ MidiControl \/ MidiProgram \/ HandleMsgOut
              /\ UNCHANGED ownVars
           \/ LoadForPeer \/ LoadEditBuffer \/ XtStore \/ XtDataOut \/ XtDataIn
           \/ EndMarker \/ TimeoutMarker
           \/ PatchRequestIn \/ StatusIn \/ NumberRequestIn \/ StateRequestIn
    PROVE  QueueInv'
<1>1. Takes /\ Common(Head(bus))
  BY ControlSends, HandlerSends, CommonHeads
<1>2. UNCHANGED <<queue, reported, effects>>
  BY DEF ownVars, handlerVars, LoadForPeer, LoadEditBuffer, XtStore, XtDataOut, XtDataIn,
         EndMarker, TimeoutMarker, PatchRequestIn, StatusIn, NumberRequestIn, StateRequestIn
<1>3. numbered(prog) => numbered(prog')
  <2>1. CASE MidiProgram
    <3>1. DOMAIN PcNum \subseteq Programs
      BY XtHandlerAssumption
    <3> QED BY <2>1, <3>1 DEF MidiProgram, SetProgram, numbered
  <2>2. CASE ~MidiProgram
    <3>1. UNCHANGED prog
      BY <2>2 DEF HandleControl, HandleName, HandleProgramChange, HandleCopy, HandleModified,
            MidiControl, HandleMsgOut, LoadForPeer, LoadEditBuffer, XtStore, XtDataOut,
            XtDataIn, DataToEditBuffer, DataToProgram, EndMarker, TimeoutMarker, PatchRequestIn,
            StatusIn, NumberRequestIn, StateRequestIn, coreVars, uiVars
    <3> QED BY <3>1 DEF numbered
  <2> QED BY <2>1, <2>2
<1>4. HandleMsgOut \/ (Head(bus).type # "out" /\ UNCHANGED <<toDev, fromDev>>)
  <2>1. CASE ~HandleMsgOut
    <3>1. UNCHANGED <<toDev, fromDev>>
      BY <2>1 DEF HandleControl, HandleName, HandleProgramChange, HandleCopy, HandleModified,
            MidiControl, MidiProgram, LoadForPeer, LoadEditBuffer, XtStore, XtDataOut,
            XtDataIn, DataToEditBuffer, DataToProgram, EndMarker, TimeoutMarker, PatchRequestIn,
            StatusIn, NumberRequestIn, StateRequestIn, coreVars, devVars
    <3>2. Head(bus).type # "out"
      BY <2>1 DEF HandleControl, HandleName, HandleProgramChange, HandleCopy, HandleModified,
            MidiControl, MidiProgram, LoadForPeer, LoadEditBuffer, XtStore, XtDataOut,
            XtDataIn, EndMarker, TimeoutMarker, PatchRequestIn,
            StatusIn, NumberRequestIn, StateRequestIn, Taking, Receiving
    <3> QED BY <3>1, <3>2
  <2> QED BY <2>1
<1> QED BY <1>1, <1>2, <1>3, <1>4, CommonTaken DEF QueueSame

LEMMA PuttingSteps ==
    ASSUME XtTypeOK, QueueInv, QueueSame, Puts, UNCHANGED toDev,
           \/ UNCHANGED fromDev
           \/ \E m \in InMsgs : m.cmd # "end" /\ fromDev' = Append(fromDev, m)
    PROVE  QueueInv'
<1>1. \A h : h.type # "out" => Carried(h)
  BY CarriedBy
<1>2. Paired(Incoming)' /\ (Announced(Incoming) => Announced(Incoming)')
  BY StreamPuts DEF QueueInv
<1>3. NumberFirst'
  BY NumberFirstPuts DEF QueueInv, QueueSame
<1> QED BY <1>1, <1>2, <1>3, CommonPut

LEMMA ContinuedSteps ==
    ASSUME XtTypeOK, QueueInv, FinishProgramChange \/ Reload \/ ShowModified, UNCHANGED ownVars
    PROVE  QueueInv'
<1>1. Puts
  BY ControlSends, PutsOne
<1>2. UNCHANGED <<toDev, fromDev, prog>>
  BY DEF FinishProgramChange, Reload, ShowModified, uiVars, devVars
<1>3. QueueSame
  BY <1>2 DEF QueueSame, ownVars, handlerVars, numbered
<1> QED BY <1>1, <1>2, <1>3, PuttingSteps

LEMMA UserPuts ==
    ASSUME XtTypeOK, CoreUser
    PROVE  Puts /\ UNCHANGED <<toDev, fromDev, ownVars>> /\ (numbered(prog) => numbered(prog'))
<1>0. UNCHANGED ownVars /\ User /\ Modes = {}
  BY XtBufferSets DEF CoreUser
<1>1. \A f, t \in Single : CopyEvent(f, t) \in Own
  BY DEF Own, XtEvents, CopyEvent, ForPeer, Marker
<1>2. ~NewDevice
  BY XtBufferSets DEF NewDevice
<1>3. UNCHANGED <<toDev, fromDev>>
  BY <1>0, <1>2 DEF User, UserEdit, UserRename, UserProgram, UserButton, UserGrid,
                    UserLoadUnmodified, devVars
<1>4. numbered(prog) => numbered(prog')
  BY <1>0, <1>2 DEF User, UserEdit, UserRename, UserProgram, UserButton, UserGrid,
                    UserLoadUnmodified, uiVars, SetProgram, numbered
<1>5. UNCHANGED bus \/ \E e \in Own : bus' = Append(bus, e)
  <2>1. ASSUME NEW p \in Programs, NEW e \in GridActions(p) PROVE e \in Own
    BY <1>1, XtBufferSets, SendableTyped, SendableOwn DEF GridActions, Origins
  <2>2. \A p \in Programs : LoadEvent(p, "UI") \in Own
    BY XtBufferSets, SendableTyped, SendableOwn DEF Origins
  <2> QED BY <1>0, <1>2, <2>1, <2>2 DEF User, UserEdit, UserRename, UserProgram, UserButton, UserGrid,
                    UserLoadUnmodified
<1> QED BY <1>0, <1>3, <1>4, <1>5, PutsOne

LEMMA SignalPuts ==
    ASSUME XtTypeOK, XtUiSignal \/ XtCtlSignal \/ TimerFires
    PROVE  Puts /\ UNCHANGED <<toDev, fromDev, prog, queue, reported, effects, ack>>
<1>1. UNCHANGED <<toDev, fromDev, prog, queue, reported, effects, ack>>
  BY DEF XtUiSignal, XtCtlSignal, TimerFires, UiSignal, CtlSignal, ownVars, handlerVars, coreVars,
         devVars, uiVars
<1>2. UNCHANGED bus \/ \E e \in Own : bus' = Append(bus, e)
  <2>1. CASE XtUiSignal
    <3>1. UiSignal
      BY <2>1 DEF XtUiSignal
    <3>2. Head(uiq) \in Buttons => ButtonEvent[Head(uiq)] \in Own
      BY XtBufferSets, SendableTyped, SendableOwn DEF ButtonEvent, Buttons, Origins
    <3>3. progOrigin # "NONE" /\ prog # Hidden => PcEvent(prog, progOrigin) \in Own
      BY XtBufferSets, SendableTyped, SendableOwn DEF XtTypeOK
    <3> QED BY <3>1, <3>2, <3>3 DEF UiSignal
  <2>2. CASE XtCtlSignal
    <3>1. CtlSignal /\ ctq # <<>>
      BY <2>2 DEF XtCtlSignal, CtlSignal
    <3>2. CcEvent(Head(ctq)) \in Own
      BY <3>1, TailTyped, SendableTyped, SendableOwn
    <3> QED BY <3>1, <3>2 DEF CtlSignal
  <2>3. CASE TimerFires
    BY <2>3, SendableTyped, SendableOwn DEF TimerFires
  <2> QED BY <2>1, <2>2, <2>3
<1> QED BY <1>1, <1>2, PutsOne

LEMMA DevicePuts ==
    ASSUME XtTypeOK, ~PeerDumps, XtDevice
    PROVE  /\ UNCHANGED <<bus, toDev, prog, handlerVars>>
           /\ \E m \in InMsgs : /\ m.cmd \notin {"end", "status"} /\ fromDev' = Append(fromDev, m)
                                /\ m.cmd = "request" => PeerRequests
<1>1. ~\E p \in Programs, d \in Patch : PeerDump(p, d)
  BY DEF PeerDump
<1>2. UNCHANGED <<bus, toDev, prog, handlerVars>>
  BY <1>1 DEF XtDevice, DevKnob, DevProgram, PeerRequest, uiVars, ownVars
<1>3. ASSUME NEW m \in InMsgs, PeerRequest(m) 
      PROVE  PeerRequests /\ fromDev' = Append(fromDev, m)
  BY <1>3 DEF PeerRequest
<1>4. /\ \A b \in Programs \cup {EditBuffer} : ReqMsg(b) \in InMsgs /\ ReqMsg(b).cmd = "request"
      /\ ProgramNumberRequest \in InMsgs /\ ProgramNumberRequest.cmd = "number?"
      /\ EditStateRequest \in InMsgs /\ EditStateRequest.cmd = "state?"
  <2>1. /\ \A b \in Programs \cup {EditBuffer} : ReqMsg(b) \in InMsgs
        /\ ProgramNumberRequest \in InMsgs /\ EditStateRequest \in InMsgs
    BY XtMsgsTyped, BufferSets
  <2> QED BY <2>1 DEF ReqMsg, ProgramNumberRequest, EditStateRequest
<1>5. CASE \E b \in Programs \cup {EditBuffer} : PeerRequest(ReqMsg(b))
  BY <1>2, <1>3, <1>4, <1>5
<1>6. CASE PeerRequest(ProgramNumberRequest) \/ PeerRequest(EditStateRequest)
  BY <1>2, <1>3, <1>4, <1>6
<1>7. CASE \E v \in Vals : DevKnob(v)
  <2>1. PICK v \in Vals : fromDev' = Append(fromDev, CcMsg(v))
    BY <1>7 DEF DevKnob
  <2>2. CcMsg(v) \in InMsgs /\ CcMsg(v).cmd = "cc"
    BY XtMsgsTyped DEF CcMsg
  <2> QED BY <1>2, <2>1, <2>2
<1>8. CASE \E p \in Programs : DevProgram(p)
  <2>1. PICK p \in Programs : fromDev' = Append(fromDev, PcMsg(PcNum[p]))
    BY <1>8 DEF DevProgram
  <2>2. PcNum[p] \in Nat
    BY PodCoreAssumption, XtHandlerAssumption
  <2>3. PcMsg(PcNum[p]) \in InMsgs /\ PcMsg(PcNum[p]).cmd = "pc"
    BY <2>2, XtMsgsTyped DEF PcMsg
  <2> QED BY <1>2, <2>1, <2>3
<1> QED BY <1>1, <1>5, <1>6, <1>7, <1>8 DEF XtDevice

\* What the device sends of its own.
LEMMA DeviceSends ==
    ASSUME XtTypeOK, XtDeviceTask
    PROVE  \/ UNCHANGED fromDev
           \/ \E m \in InMsgs : m.cmd \notin {"end", "request"} /\ fromDev' = Append(fromDev, m)
           \/ \E d \in Patch : fromDev' = fromDev \o <<BufferDump(d), PatchDumpEnd>>
<1>0. fromDev \in Seq(InMsgs) /\ toDev \in Seq(OutMsgs) /\ toDev # <<>>
  BY DEF XtTypeOK, XtDeviceTask, XtDevReceive, DevPatchDump, DevDumpEnd
<1>1. CASE XtDevReceive
  <2> DEFINE m == Head(toDev)
  <2>1. fromDev' = fromDev \o Answer(m) /\ m \in OutMsgs
    BY <1>0, <1>1, Tuples DEF XtDevReceive
  <2>2. ASSUME NEW x \in InMsgs, Answer(m) = <<x>>
        PROVE  fromDev' = Append(fromDev, x)
    BY <1>0, <2>1, <2>2, AppendIsConcat
  <2>3. CASE m.cmd = "request"
    <3> DEFINE d == IF m.buffer = EditBuffer THEN devEdit ELSE IF m.buffer \in Effects THEN Blank
                    ELSE devProgs[m.buffer]
    <3>1. Answer(m) = <<BufferDump(d), PatchDumpEnd>>
      BY <2>3 DEF Answer, DumpOf
    <3>2. d \in Patch
      <4>1. m.buffer \in Single \cup Effects
        BY <2>1, <2>3, OutKinds
      <4>2. devEdit \in Patch /\ Blank \in Patch /\ \A p \in Programs : devProgs[p] \in Patch
        BY PodCoreAssumption DEF XtTypeOK, Dump
      <4> QED BY <4>1, <4>2, BufferSets
    <3> HIDE DEF m, d
    <3> QED BY <2>1, <3>1, <3>2
  <2>4. CASE m.cmd = "number?"
    <3>1. ProgramNumber(devProg) \in InMsgs /\ ProgramNumber(devProg).cmd = "number"
      BY XtMsgsTyped DEF XtTypeOK, ProgramNumber
    <3>2. Answer(m) = <<ProgramNumber(devProg)>>
      BY <2>4 DEF Answer
    <3> QED BY <2>2, <3>1, <3>2
  <2>5. CASE m.cmd = "state?"
    <3> DEFINE x == EditState(devEdit # devProgs[devProg])
    <3>1. x \in InMsgs /\ x.cmd = "state"
      BY XtMsgsTyped DEF EditState
    <3>2. Answer(m) = <<x>>
      BY <2>5 DEF Answer
    <3> QED BY <2>2, <3>1, <3>2
  <2>6. CASE m.cmd \notin {"request", "number?", "state?"}
    <3>1. Answer(m) = <<>> /\ fromDev \o <<>> = fromDev
      BY <1>0, <2>6, Concat DEF Answer
    <3> QED BY <2>1, <3>1
  <2> QED BY <2>3, <2>4, <2>5, <2>6
<1>2. CASE DevPatchDump
  BY <1>2 DEF DevPatchDump
<1>3. CASE DevDumpEnd
  <2>1. StoreStatus(devGot = "stored") \in InMsgs /\ StoreStatus(devGot = "stored").cmd = "status"
    BY XtMsgsTyped DEF StoreStatus
  <2> QED BY <1>3, <2>1 DEF DevDumpEnd
<1> QED BY <1>1, <1>2, <1>3 DEF XtDeviceTask

LEMMA OutsideSteps ==
    ASSUME XtTypeOK, QueueInv, ~PeerDumps,
           \/ CoreUser \/ XtUiSignal \/ XtCtlSignal \/ TimerFires
           \/ XtDevice \/ XtMidiIn \/ XtDeviceTask
    PROVE  QueueInv'
<1>1. CASE CoreUser
  <2>1. QueueSame
    BY <1>1, UserPuts DEF QueueSame, ownVars, handlerVars
  <2> QED BY <1>1, <2>1, UserPuts, PuttingSteps
<1>2. CASE XtUiSignal \/ XtCtlSignal \/ TimerFires
  <2>1. QueueSame
    BY <1>2, SignalPuts DEF QueueSame, numbered
  <2> QED BY <1>2, <2>1, SignalPuts, PuttingSteps
<1>3. CASE XtDevice
  <2>1. Puts /\ QueueSame /\ UNCHANGED toDev
    BY <1>3, DevicePuts, PutsOne DEF QueueSame, numbered, handlerVars
  <2> QED BY <1>3, <2>1, DevicePuts, PuttingSteps
<1>4. CASE XtMidiIn
  <2>1. MidiIn /\ QueueSame
    BY <1>4 DEF XtMidiIn, MidiIn, QueueSame, numbered, ownVars, handlerVars, uiVars
  <2>2. \A h : h.type # "out" => Carried(h)
    BY <2>1, CarriedBy
  <2>3. Paired(Incoming)' /\ (Announced(Incoming) => Announced(Incoming)')
    BY <2>1, StreamMidiIn DEF QueueInv, Paired, Announced
  <2>4. NumberFirst'
    <3>1. Head(fromDev) \in InMsgs /\ bus' = Append(bus, MsgIn(Head(fromDev)))
      BY <2>1, TailTyped DEF MidiIn
    <3> QED BY <2>1, <3>1, NumberFirstPuts DEF QueueInv, QueueSame
  <2> QED BY <2>1, <2>2, <2>3, <2>4, CommonPut
<1>5. CASE XtDeviceTask
  <2>1. \A h : h.type # "out" => Carried(h)
    BY <1>5, DeviceCarries
  <2>2. UNCHANGED <<bus, queue, reported, effects, prog>> /\ QueueSame
    <3>1. UNCHANGED <<bus, queue, reported, effects, prog>>
      <4>1. Marker("end").type # "out"
        BY DEF Marker
      <4> QED BY <1>5, <4>1, DeviceCarries
    <3> QED BY <3>1 DEF QueueSame, numbered
  <2>3. Puts
    BY <2>2, PutsOne
  <2>4. Paired(Incoming)' /\ (Announced(Incoming) => Announced(Incoming)')
    BY <1>5, <2>2, <2>3, DeviceSends, StreamPuts DEF QueueInv
  <2>5. NumberFirst'
    BY <2>2, <2>3, NumberFirstPuts DEF QueueInv
  <2> QED BY <2>1, <2>2, <2>4, <2>5, CommonPut
<1> QED BY <1>1, <1>2, <1>3, <1>4, <1>5

-----------------------------------------------------------------------------
(* The steps that take an answer or touch the queue.                       *)

LEMMA QueueConcat ==
    ASSUME NEW S, NEW q \in Seq(S), NEW r \in Seq(S)
    PROVE  /\ q \o r \in Seq(S)
           /\ q = <<>> => q \o r = r
           /\ q # <<>> => /\ q \o r # <<>> /\ Head(q \o r) = Head(q)
                          /\ Range(Tail(q \o r)) = Range(Tail(q)) \cup Range(r)
           /\ r # <<>> => q \o r # <<>> /\ Range(Tail(r)) \subseteq Range(Tail(q \o r))
<1>1. q \o r \in Seq(S) /\ (q = <<>> => q \o r = r)
  BY Concat
<1>2. ASSUME q # <<>>
      PROVE  /\ q \o r # <<>> /\ Head(q \o r) = Head(q)
             /\ Range(Tail(q \o r)) = Range(Tail(q)) \cup Range(r)
  <2> DEFINE t == Tail(q)
             u == q \o r
  <2>1. /\ t \in Seq(S) /\ Len(q) \in Nat \ {0} /\ Len(t) = Len(q) - 1 /\ Len(r) \in Nat
        /\ \A i \in 1..Len(t) : t[i] = q[i + 1]
        /\ Head(q) = q[1]
    BY <1>2, HeadTailProperties, EmptySeq, LenProperties
  <2>2. /\ Len(u) = Len(q) + Len(r)
        /\ \A i \in 1..(Len(q) + Len(r)) : u[i] = IF i <= Len(q) THEN q[i] ELSE r[i - Len(q)]
    BY ConcatProperties
  <2>3. /\ Len(t \o r) = Len(t) + Len(r) /\ t \o r \in Seq(S)
        /\ \A i \in 1..(Len(t) + Len(r)) : (t \o r)[i] = IF i <= Len(t) THEN t[i] ELSE r[i - Len(t)]
    BY <2>1, ConcatProperties
  <2>4. u # <<>> /\ u \in Seq(S)
    BY <1>1, <2>1, <2>2, EmptySeq
  <2>5. /\ Tail(u) \in Seq(S) /\ Len(Tail(u)) = Len(u) - 1 /\ Head(u) = u[1]
        /\ \A i \in 1..Len(Tail(u)) : Tail(u)[i] = u[i + 1]
    BY <2>4, HeadTailProperties
  <2>6. Head(u) = Head(q)
    <3> HIDE DEF u
    <3> QED BY <2>1, <2>2, <2>5
  <2>7. Tail(u) = t \o r
    <3> DEFINE v == Tail(u)
               w == t \o r
    <3>1. v \in Seq(S) /\ w \in Seq(S) /\ Len(v) = Len(w) /\ Len(v) = Len(q) + Len(r) - 1
      BY <2>1, <2>2, <2>3, <2>5
    <3>2. ASSUME NEW i \in 1..Len(v) PROVE v[i] = w[i]
      <4> HIDE DEF u, t
      <4>1. i + 1 \in 1..(Len(q) + Len(r)) /\ v[i] = u[i + 1] /\ i \in 1..(Len(t) + Len(r))
        BY <2>1, <2>5, <3>1
      <4>2. CASE i <= Len(t)
        BY <2>1, <2>2, <2>3, <4>1, <4>2
      <4>3. CASE ~(i <= Len(t))
        <5>1. i - Len(t) = i + 1 - Len(q)
          BY <2>1
        <5> QED BY <2>1, <2>2, <2>3, <4>1, <4>3, <5>1
      <4> QED BY <4>2, <4>3
    <3> HIDE DEF v, w
    <3>3. v = w
      BY <3>1, <3>2, SeqEqual
    <3> QED BY <3>3 DEF v, w
  <2>8. Range(t \o r) = Range(t) \cup Range(r)
    <3> HIDE DEF t
    <3> QED BY <2>1, Concat
  <2> QED BY <2>4, <2>6, <2>7, <2>8
<1>3. ASSUME r # <<>> PROVE q \o r # <<>> /\ Range(Tail(r)) \subseteq Range(Tail(q \o r))
  <2>1. Range(r) = {Head(r)} \cup Range(Tail(r))
    BY <1>3, SeqRange
  <2> QED BY <1>1, <1>2, <1>3, <2>1
<1> QED BY <1>1, <1>2, <1>3

\* The request that is sent again, or now.
LEMMA HeadSent ==
    ASSUME queue' \in Seq(Requests), queue' # <<>> => MsgOut(Head(queue')) \in Range(bus')
    PROVE  Answering'
<1> SUFFICES ASSUME queue' # <<>> PROVE (Due \/ (HeadIs("number?") /\ NumberDue)
                                          \/ (HeadIs("state?") /\ StateDue))'
  BY DEF Answering
<1> DEFINE m == Head(queue')
<1>1. m \in Requests
  BY Tuples
<1>2. MsgOut(m).type = "out" /\ MsgOut(m).msg = m /\ MsgOut(m) \in Range(bus')
  BY DEF MsgOut
<1>3. m.cmd \in {"request", "number?", "state?"}
  BY <1>1, RequestKinds
<1>4. \A c : m.cmd = c => \E e \in Range(bus') : e.type = "out" /\ e.msg.cmd = c
  BY <1>2
<1>5. \A c : m.cmd = c => HeadIs(c)'
  BY DEF HeadIs
<1> HIDE DEF m
<1>6. CASE m.cmd = "request"
  BY <1>4, <1>6 DEF Due, Sending
<1>7. CASE m.cmd = "number?"
  BY <1>4, <1>5, <1>7 DEF NumberDue, Sending
<1>8. CASE m.cmd = "state?"
  BY <1>4, <1>5, <1>8 DEF StateDue, Sending
<1> QED BY <1>3, <1>6, <1>7, <1>8

\* The queue grows: what waits still waits.
LEMMA GrownQueue ==
    ASSUME XtTypeOK, QueueInv, NEW r \in Seq(Requests), queue' = queue \o r,
           NEW h, Carried(h), h.type \notin {"in", "data"},
           UNCHANGED <<reported, effects, prog>>,
           Announced(Incoming) => Announced(Incoming)',
           h # Marker("number") \/ (ProgramNumberRequest \in Range(r) /\ queue # <<>>),
           h # LoadEvent(All, "UI") \/ (r # <<>> /\ \A e \in Effects : ReqMsg(e) \in Range(Tail(r)))
    PROVE  ReportInv' /\ EffectsInv'
<1>0. queue \in Seq(Requests)
  BY DEF XtTypeOK
<1>1. /\ \A m : Behind(m) => queue' # <<>> /\ m \in Range(Tail(queue'))
      /\ queue # <<>> => queue' # <<>> /\ Head(queue') = Head(queue)
      /\ \A m \in Range(r) : queue # <<>> => m \in Range(Tail(queue'))
      /\ r # <<>> => queue' # <<>> /\ Range(Tail(r)) \subseteq Range(Tail(queue'))
  BY <1>0, QueueConcat DEF Behind
<1>2. ReportInv'
  <2>1. ASSUME reported = NoProgram
        PROVE  (OnBus("number") \/ Behind(ProgramNumberRequest) \/ NumberDue)'
    <3>1. CASE OnBus("number") /\ h # Marker("number")
      <4>1. Marker("number") \in Range(bus')
        BY <3>1 DEF Carried, OnBus
      <4> QED BY <4>1 DEF OnBus, Marker
    <3>2. CASE h = Marker("number")
      <4>1. queue' # <<>> /\ ProgramNumberRequest \in Range(Tail(queue'))
        BY <1>1, <3>2
      <4> QED BY <4>1 DEF Behind, ProgramNumberRequest
    <3>3. CASE Behind(ProgramNumberRequest)
      <4>1. queue' # <<>> /\ ProgramNumberRequest \in Range(Tail(queue'))
        BY <1>1, <3>3
      <4> QED BY <4>1 DEF Behind, ProgramNumberRequest
    <3>4. CASE NumberDue
      BY <3>4, TokensCarried
    <3> QED BY <2>1, <3>1, <3>2, <3>3, <3>4 DEF QueueInv, ReportInv
  <2>2. reported # NoProgram => numbered(prog')
    BY DEF QueueInv, ReportInv
  <2> QED BY <2>1, <2>2 DEF ReportInv, numbered
<1>3. EffectsInv'
  <2> SUFFICES ASSUME NEW e \in Effects, effects[e] = ""
               PROVE  \/ LoadEvent(All, "UI") \in Range(bus')
                      \/ \E d \in Range(bus') : d.type = "data" /\ d.buffer = e
                      \/ Behind(ReqMsg(e))'
                      \/ queue' # <<>> /\ Head(queue') = ReqMsg(e) /\ Announced(Incoming)'
    BY DEF EffectsInv, LoadEvent, ReqMsg
  <2>0. queue' # <<>> /\ ReqMsg(e) \in Range(Tail(queue')) => Behind(ReqMsg(e))'
    BY DEF Behind, ReqMsg
  <2>1. CASE LoadEvent(All, "UI") \in Range(bus)
    <3>1. CASE h = LoadEvent(All, "UI")
      BY <1>1, <2>0, <3>1
    <3>2. CASE h # LoadEvent(All, "UI")
      BY <2>1, <3>2 DEF Carried
    <3> QED BY <3>1, <3>2
  <2>2. CASE \E d \in Range(bus) : d.type = "data" /\ d.buffer = e
    BY <2>2 DEF Carried
  <2>3. CASE Behind(ReqMsg(e))
    BY <1>1, <2>0, <2>3
  <2>4. CASE queue # <<>> /\ Head(queue) = ReqMsg(e) /\ Announced(Incoming)
    BY <1>1, <2>4
  <2> QED BY <2>1, <2>2, <2>3, <2>4 DEF QueueInv, EffectsInv
<1> QED BY <1>2, <1>3

LEMMA LoadPatchesStep ==
    ASSUME XtTypeOK, QueueInv, LoadPatches
    PROVE  QueueInv'
<1> DEFINE h == Head(bus)
           b == Head(bus).buffer
           r == RequestsOf(Head(bus).buffer)
<1>0. /\ Taking("load") /\ b # EditBuffer /\ Takes
      /\ UNCHANGED <<toDev, fromDev, reported, effects, prog>>
      /\ queue' = queue \o r
      /\ Reply(IF r = <<>> THEN <<>> ELSE SendFront(queue'))
  BY QueueSends DEF LoadPatches, coreVars, uiVars, devVars
<1>1. h \in XtEvents /\ h.type = "load" /\ h = LoadEvent(b, "UI") /\ b \in Buffers
  BY <1>0, XtTaking, XtEventKinds DEF LoadPatches
<1>2. Carried(h) /\ ~Buf(h)
  BY <1>0, <1>1, CarriedBy DEF Buf
<1>3. Paired(Incoming)' /\ (Announced(Incoming) => Announced(Incoming)')
  BY <1>0, <1>2, StreamTakes DEF QueueInv
<1>4. r \in Seq(Requests) /\ (b = All => r # <<>> /\ \A e \in Effects : ReqMsg(e) \in Range(Tail(r)))
  BY <1>0, <1>1, RequestsTyped
<1>5. queue \in Seq(Requests)
  BY DEF XtTypeOK
<1>6. CASE r = <<>>
  <2>1. UNCHANGED queue
    BY <1>0, <1>5, <1>6, Concat
  <2>2. Common(h)
    <3>1. LoadEvent(All, "UI").buffer = All /\ h # Marker("number")
      BY <1>1 DEF LoadEvent, Marker
    <3> QED BY <1>1, <1>4, <1>6, <3>1 DEF Common
  <2>3. QueueSame
    BY <1>0, <2>1 DEF QueueSame, numbered
  <2> QED BY <1>0, <1>1, <2>2, <2>3, CommonTaken
<1>7. CASE r # <<>>
  <2>1. queue' # <<>> /\ queue' \in Seq(Requests)
    BY <1>0, <1>4, <1>5, <1>7, QueueConcat
  <2>2. MsgOut(Head(queue')) \in Range(bus')
    <3> DEFINE x == MsgOut(Head(queue'))
    <3>1. bus' = Tail(bus) \o <<x>> /\ bus # <<>>
      BY <1>0, <1>7, <2>1 DEF SendFront, Reply, Taking
    <3>2. Tail(bus) \in Seq(XtEvents) /\ x \in XtEvents
      <4>1. Head(queue') \in OutMsgs
        BY <2>1, Tuples, RequestKinds
      <4> QED BY <3>1, <4>1, BusParts, SendableTyped, SentTyped
    <3> DEFINE t == Tail(bus)
    <3> HIDE DEF x, t
    <3>3. t \o <<x>> = Append(t, x)
      BY <3>2, AppendIsConcat DEF t
    <3>4. x \in Range(Append(t, x))
      <4>1. t \in Seq(XtEvents) /\ x \in XtEvents
        BY <3>2 DEF t
      <4> QED BY <4>1, SeqRange
    <3> QED BY <3>1, <3>3, <3>4 DEF x, t
  <2>3. Answering'
    BY <2>1, <2>2, HeadSent
  <2>4. NumberFirst'
    BY <1>0, <2>1, NumberFirstTakes DEF QueueInv
  <2>5. ReportInv' /\ EffectsInv'
    <3>1. h # Marker("number") /\ h.type \notin {"in", "data"}
      BY <1>1 DEF Marker
    <3>2. h # LoadEvent(All, "UI") \/ b = All
      BY DEF LoadEvent
    <3>3. h # LoadEvent(All, "UI") \/ (r # <<>> /\ \A e \in Effects : ReqMsg(e) \in Range(Tail(r)))
      BY <1>4, <3>2
    <3> HIDE DEF h, b, r
    <3> QED BY <1>0, <1>2, <1>3, <1>4, <3>1, <3>3, GrownQueue
  <2> QED BY <1>3, <2>3, <2>4, <2>5 DEF QueueInv
<1> QED BY <1>6, <1>7

LEMMA NumberMarkerStep ==
    ASSUME XtTypeOK, QueueInv, PeerFree, NumberMarker
    PROVE  QueueInv'
<1> DEFINE h == Head(bus)
           r == <<ProgramNumberRequest, EditStateRequest>>
<1>0. /\ Taking("marker") /\ h.marker = "number" /\ Takes
      /\ UNCHANGED <<toDev, fromDev, reported, effects, prog>>
      /\ queue' = queue \o r
  BY HandlerSends DEF NumberMarker, coreVars, uiVars, devVars
<1>1. h \in XtEvents /\ h = Marker("number") /\ h.type = "marker"
  BY <1>0, XtTaking, XtEventKinds
<1>2. Carried(h) /\ ~Buf(h)
  BY <1>0, <1>1, CarriedBy DEF Buf
<1>3. Paired(Incoming)' /\ (Announced(Incoming) => Announced(Incoming)')
  BY <1>0, <1>2, StreamTakes DEF QueueInv
<1>4. r \in Seq(Requests) /\ ProgramNumberRequest \in Range(r)
  <2>1. ProgramNumberRequest \in Requests /\ EditStateRequest \in Requests
    BY DEF Requests
  <2>2. r \in Seq(Requests) /\ r # <<>> /\ Head(r) = ProgramNumberRequest
    BY <2>1, Tuples
  <2> HIDE DEF r
  <2>3. Head(r) \in Range(r)
    BY <2>2, SeqRange
  <2> QED BY <2>2, <2>3
<1>5. queue # <<>>
  <2>1. bus[1] = Marker("number") /\ 1 \in 1..Len(bus)
    <3>1. bus \in Seq(XtEvents) /\ bus # <<>>
      BY <1>0, XtTaking
    <3> QED BY <1>1, <3>1, HeadTailProperties, EmptySeq, LenProperties
  <2>2. Marker("number") # LoadEvent(All, "UI")
    BY DEF Marker, LoadEvent
  <2>3. NumberFirst
    BY DEF QueueInv
  <2>4. (1 = 1 /\ queue # <<>>) \/ (1 = 2 /\ bus[1] = LoadEvent(All, "UI"))
    BY <2>1, <2>3 DEF NumberFirst
  <2> QED BY <2>1, <2>2, <2>4
<1> HIDE DEF r
<1>6. queue' # <<>> /\ Head(queue') = Head(queue)
  <2>1. queue \in Seq(Requests)
    BY DEF XtTypeOK
  <2> QED BY <1>0, <1>4, <1>5, <2>1, QueueConcat
<1>7. Answering'
  <2>1. HeadIs("number?")' = HeadIs("number?") /\ HeadIs("state?")' = HeadIs("state?")
    BY <1>5, <1>6 DEF HeadIs
  <2> QED BY <1>1, <1>2, <1>5, <2>1, TokensCarried DEF Answering, QueueInv
<1>8. NumberFirst'
  BY <1>0, <1>6, NumberFirstTakes DEF QueueInv
<1>9. ReportInv' /\ EffectsInv'
  <2>1. h # LoadEvent(All, "UI") /\ h.type \notin {"in", "data"}
    BY <1>1 DEF LoadEvent
  <2> HIDE DEF h
  <2> QED BY <1>0, <1>2, <1>3, <1>4, <1>5, <2>1, GrownQueue
<1> QED BY <1>3, <1>7, <1>8, <1>9 DEF QueueInv

LEMMA EffectInStep ==
    ASSUME XtTypeOK, QueueInv, PeerFree, EffectIn
    PROVE  QueueInv'
<1> DEFINE h == Head(bus)
<1>0. /\ Taking("data") /\ h.buffer \in Effects /\ Takes
      /\ UNCHANGED <<toDev, fromDev, reported, prog, queue>>
      /\ effects' = [effects EXCEPT ![h.buffer] = h.content.name]
  BY HandlerSends DEF EffectIn, coreVars, uiVars, devVars
<1>1. h \in XtEvents /\ h.type = "data" /\ h.content \in Patch
  BY <1>0, XtTaking, XtEventKinds
<1>2. Carried(h) /\ ~Buf(h)
  BY <1>0, <1>1, CarriedBy DEF Buf
<1>3. Paired(Incoming)' /\ (Announced(Incoming) => Announced(Incoming)')
  BY <1>0, <1>2, StreamTakes DEF QueueInv
<1>4. h # LoadEvent(All, "UI") /\ h # Marker("number")
  BY <1>1 DEF LoadEvent, Marker
<1>5. NumberFirst'
  BY <1>0, <1>4, NumberFirstTakes DEF QueueInv
<1>6. \A e \in Effects : effects'[e] = "" => effects[e] = "" /\ e # h.buffer
  <2>1. h.content.name # ""
    BY <1>1, XtStartupAssumption DEF Patch
  <2>2. effects \in [Effects -> Names \cup {""}]
    BY DEF XtTypeOK
  <2> QED BY <1>0, <2>1, <2>2
<1> HIDE DEF h
<1>7. Answering'
  BY <1>0, <1>1, <1>2, AnsweringKept DEF QueueInv
<1>8. ReportInv'
  BY <1>0, <1>1, <1>2, <1>4, ReportKept DEF QueueInv, numbered
<1>9. EffectsInv'
  <2> SUFFICES ASSUME NEW e \in Effects, effects'[e] = ""
               PROVE  \/ LoadEvent(All, "UI") \in Range(bus')
                      \/ \E d \in Range(bus') : d.type = "data" /\ d.buffer = e
                      \/ Behind(ReqMsg(e))'
                      \/ queue' # <<>> /\ Head(queue') = ReqMsg(e) /\ Announced(Incoming)'
    BY DEF EffectsInv, LoadEvent, ReqMsg
  <2>1. Behind(ReqMsg(e)) => Behind(ReqMsg(e))'
    BY <1>0 DEF Behind, ReqMsg
  <2>2. \A d \in Range(bus) : d.buffer = e \/ d = LoadEvent(All, "UI") => d \in Range(bus')
    BY <1>2, <1>4, <1>6 DEF Carried
  <2>3. \/ LoadEvent(All, "UI") \in Range(bus)
        \/ \E d \in Range(bus) : d.type = "data" /\ d.buffer = e
        \/ Behind(ReqMsg(e))
        \/ queue # <<>> /\ Head(queue) = ReqMsg(e) /\ Announced(Incoming)
    BY <1>6 DEF EffectsInv, QueueInv
  <2> QED BY <1>0, <1>3, <2>1, <2>2, <2>3
<1> QED BY <1>3, <1>5, <1>7, <1>8, <1>9 DEF QueueInv

LEMMA BufferDumpStep ==
    ASSUME XtTypeOK, QueueInv, PeerFree, BufferDumpIn
    PROVE  QueueInv'
<1> DEFINE h == Head(bus)
           x == XtData(QueueNames, "MIDI", h.msg.content, "UI")
<1>0. /\ Taking("in") /\ h.msg.cmd = "buffer" /\ Takes
      /\ UNCHANGED <<toDev, fromDev, reported, effects, prog, queue>>
      /\ bus' = Tail(bus) \o <<x>>
  BY HandlerSends DEF BufferDumpIn, Receiving, coreVars, uiVars, devVars, ownVars, handlerVars, Reply
<1>1. h \in XtEvents /\ h.type = "in" /\ bus # <<>>
  BY <1>0, XtTaking
<1>2. Carried(h)
  BY <1>0, <1>1, CarriedBy
<1>3. Paired(Incoming)'
  BY <1>0, StreamTakes DEF QueueInv
<1>4. h # LoadEvent(All, "UI") /\ h # Marker("number")
  BY <1>1 DEF LoadEvent, Marker
<1>5. NumberFirst'
  BY <1>0, <1>4, NumberFirstTakes DEF QueueInv
<1>6. x \in Range(bus')
  <2>1. \E evs \in Seq(Sendable) : Tail(bus) \o <<x>> = Tail(bus) \o evs
    BY <1>0 DEF Takes, Reply
  <2>2. Tail(bus) \in Seq(XtEvents)
    BY <1>1, BusParts
  <2> HIDE DEF x
  <2> DEFINE t == Tail(bus)
             S == XtEvents \cup {x}
  <2> HIDE DEF t, S
  <2>3. t \in Seq(S) /\ x \in S
    BY <2>2 DEF t, S
  <2>4. x \in Range(Append(t, x)) /\ Append(t, x) = t \o <<x>>
    <3>1. \A y \in S : Range(Append(t, y)) = Range(t) \cup {y}
      BY <2>3, SeqRange
    <3>2. Append(t, x) = t \o <<x>>
      BY <2>3, AppendIsConcat
    <3> QED BY <2>3, <3>1, <3>2
  <2> QED BY <1>0, <2>4 DEF t, x
<1>7. \A e \in Effects : queue # <<>> /\ Head(queue) = ReqMsg(e) => x.type = "data" /\ x.buffer = e
  BY DEF XtData, QueueNames, HeadIs, ReqMsg
<1> HIDE DEF h, x
<1>8. Answering'
  BY <1>0, <1>1, <1>2, AnsweringKept DEF QueueInv
<1>9. ReportInv'
  BY <1>0, <1>1, <1>2, <1>4, ReportKept DEF QueueInv, numbered
<1>10. EffectsInv'
  <2> SUFFICES ASSUME NEW e \in Effects, effects[e] = ""
               PROVE  \/ LoadEvent(All, "UI") \in Range(bus')
                      \/ \E d \in Range(bus') : d.type = "data" /\ d.buffer = e
                      \/ Behind(ReqMsg(e))'
    BY <1>0 DEF EffectsInv, LoadEvent, ReqMsg
  <2>1. Behind(ReqMsg(e)) => Behind(ReqMsg(e))'
    BY <1>0 DEF Behind, ReqMsg
  <2>2. \A d \in Range(bus) : d.type = "data" \/ d = LoadEvent(All, "UI") => d \in Range(bus')
    BY <1>1, <1>2, <1>4 DEF Carried
  <2>3. \/ LoadEvent(All, "UI") \in Range(bus)
        \/ \E d \in Range(bus) : d.type = "data" /\ d.buffer = e
        \/ Behind(ReqMsg(e))
        \/ queue # <<>> /\ Head(queue) = ReqMsg(e)
    BY DEF EffectsInv, QueueInv
  <2> QED BY <1>6, <1>7, <2>1, <2>2, <2>3
<1> QED BY <1>3, <1>5, <1>8, <1>9, <1>10 DEF QueueInv

-----------------------------------------------------------------------------
(* An answer retires the head of the queue.                                *)

LEMMA FrontIsSent ==
    ASSUME XtTypeOK, Retired, bus # <<>>, app = Idle, queue' # <<>>
    PROVE  MsgOut(Head(queue')) \in Range(bus')
<1>1. PICK evs \in Seq(Sendable) : bus' = Tail(bus) \o (evs \o <<MsgOut(Head(queue'))>>)
  BY DEF Retired, Reply, SendFront
<1>2. MsgOut(Head(queue')) \in Sendable
  <2>1. queue' \in Seq(Requests)
    BY RetiredSends
  <2>2. Head(queue') \in OutMsgs
    BY <2>1, Tuples, RequestKinds
  <2> QED BY <2>2, SendableTyped
<1>3. Tail(bus) \in Seq(XtEvents) /\ evs \in Seq(XtEvents) /\ MsgOut(Head(queue')) \in XtEvents
  BY <1>2, BusParts, OwnAreNotIn, SentTyped
<1> DEFINE x == MsgOut(Head(queue'))
           t == Tail(bus)
<1> HIDE DEF x, t
<1>4. evs \o <<x>> = Append(evs, x) /\ Append(evs, x) \in Seq(XtEvents)
      /\ Range(Append(evs, x)) = Range(evs) \cup {x}
  <2>1. evs \in Seq(XtEvents) /\ x \in XtEvents
    BY <1>3 DEF x
  <2>2. \A y \in XtEvents : Range(Append(evs, y)) = Range(evs) \cup {y}
    BY <2>1, SeqRange
  <2> QED BY <2>1, <2>2, AppendIsConcat, AppendProperties
<1>5. Range(t \o Append(evs, x)) = Range(t) \cup Range(Append(evs, x))
  <2>1. t \in Seq(XtEvents)
    BY <1>3 DEF t
  <2> DEFINE a == Append(evs, x)
  <2>2. a \in Seq(XtEvents)
    BY <1>4
  <2> HIDE DEF a
  <2>3. Range(t \o a) = Range(t) \cup Range(a)
    BY <2>1, <2>2, Concat
  <2> QED BY <2>3 DEF a
<1>6. bus' = t \o Append(evs, x)
  BY <1>1, <1>4 DEF t, x
<1> QED BY <1>4, <1>5, <1>6 DEF x

LEMMA RetiredSteps ==
    ASSUME XtTypeOK, QueueInv, Retired, Taking("in"),
           Head(bus).msg.cmd \in {"end", "number", "state"},
           Head(bus).msg.cmd \in {"number", "state"} => HeadIs("number?") \/ HeadIs("state?"),
           UNCHANGED <<toDev, fromDev, effects>>,
           \/ reported' = reported /\ numbered(prog') = numbered(prog)
              /\ Head(bus).msg.cmd # "number"
           \/ reported' # NoProgram /\ numbered(prog')
    PROVE  QueueInv'
<1> DEFINE h == Head(bus)
<1>1. h \in XtEvents /\ h.type = "in" /\ bus # <<>> /\ app = Idle
  BY XtTaking
<1>2. Takes /\ queue' \in Seq(Requests)
  BY <1>1, RetiredSends
<1>3. Carried(h)
  BY <1>1, <1>2, CarriedBy
<1>4. In(h) /\ ~Buf(h)
  BY <1>1 DEF In, Buf
<1>5. Paired(Incoming)' /\ Announced(Incoming)'
  BY <1>2, <1>4, StreamTakes DEF QueueInv
<1>6. queue' # <<>> => MsgOut(Head(queue')) \in Range(bus')
  BY <1>1, FrontIsSent
<1>7. Answering'
  BY <1>2, <1>6, HeadSent
<1>8. h # LoadEvent(All, "UI") /\ h # Marker("number")
  BY <1>1 DEF LoadEvent, Marker
<1>9. NumberFirst'
  BY <1>2, <1>8, NumberFirstTakes DEF QueueInv
<1>10. queue \in Seq(Requests) /\ queue' = IF queue = <<>> THEN queue ELSE Tail(queue)
  BY DEF XtTypeOK, Retired
<1>11. ASSUME NEW m, Behind(m)
       PROVE  queue' # <<>> /\ (Head(queue') = m \/ m \in Range(Tail(queue')))
  <2>1. queue # <<>> /\ m \in Range(queue')
    BY <1>10, <1>11 DEF Behind
  <2>2. queue' = <<>> => Range(queue') = {}
    BY <1>2, SeqRange
  <2>3. queue' # <<>> => Range(queue') = {Head(queue')} \cup Range(Tail(queue'))
    BY <1>2, SeqRange
  <2> QED BY <2>1, <2>2, <2>3
<1>12. h.msg.cmd = "end" => End(h)
  BY <1>1 DEF End
<1>13. Announced(Incoming) => ~End(h)
  BY <1>2, StreamTakes
<1> HIDE DEF h
<1>14. ReportInv'
  <2>1. CASE reported' # NoProgram /\ numbered(prog')
    BY <2>1 DEF ReportInv, numbered
  <2>2. CASE reported' = reported /\ numbered(prog') = numbered(prog) /\ h.msg.cmd # "number"
    <3>1. ASSUME reported = NoProgram
          PROVE  (OnBus("number") \/ Behind(ProgramNumberRequest) \/ NumberDue)'
      <4>1. CASE OnBus("number")
        <5>1. Marker("number") \in Range(bus')
          BY <1>3, <1>8, <4>1 DEF Carried, OnBus
        <5> QED BY <5>1 DEF OnBus, Marker
      <4>2. CASE Behind(ProgramNumberRequest)
        <5>1. queue' # <<>> /\ (Head(queue') = ProgramNumberRequest
                                \/ ProgramNumberRequest \in Range(Tail(queue')))
          BY <1>11, <4>2
        <5>2. CASE Head(queue') = ProgramNumberRequest
          <6>1. MsgOut(ProgramNumberRequest) \in Range(bus')
            BY <1>6, <5>1, <5>2
          <6>2. MsgOut(ProgramNumberRequest).type = "out"
                /\ MsgOut(ProgramNumberRequest).msg.cmd = "number?"
            BY DEF MsgOut, ProgramNumberRequest
          <6> QED BY <6>1, <6>2 DEF NumberDue, Sending
        <5>3. CASE ProgramNumberRequest \in Range(Tail(queue'))
          BY <5>1, <5>3 DEF Behind, ProgramNumberRequest
        <5> QED BY <5>1, <5>2, <5>3
      <4>3. CASE NumberDue
        BY <1>3, <2>2, <4>3, TokensCarried
      <4> QED BY <3>1, <4>1, <4>2, <4>3 DEF QueueInv, ReportInv
    <3>2. reported # NoProgram => numbered(prog')
      BY <2>2 DEF QueueInv, ReportInv
    <3> QED BY <2>2, <3>1, <3>2 DEF ReportInv, numbered
  <2> QED BY <2>1, <2>2 DEF h
<1>15. EffectsInv'
  <2> SUFFICES ASSUME NEW e \in Effects, effects[e] = ""
               PROVE  \/ LoadEvent(All, "UI") \in Range(bus')
                      \/ \E d \in Range(bus') : d.type = "data" /\ d.buffer = e
                      \/ Behind(ReqMsg(e))'
                      \/ queue' # <<>> /\ Head(queue') = ReqMsg(e) /\ Announced(Incoming)'
    BY DEF EffectsInv, LoadEvent, ReqMsg
  <2>1. CASE LoadEvent(All, "UI") \in Range(bus)
    BY <1>3, <1>8, <2>1 DEF Carried
  <2>2. CASE \E d \in Range(bus) : d.type = "data" /\ d.buffer = e
    BY <1>1, <1>3, <2>2 DEF Carried, h
  <2>3. CASE Behind(ReqMsg(e))
    <3>1. queue' # <<>> /\ (Head(queue') = ReqMsg(e) \/ ReqMsg(e) \in Range(Tail(queue')))
      BY <1>11, <2>3
    <3>2. queue' # <<>> /\ ReqMsg(e) \in Range(Tail(queue')) => Behind(ReqMsg(e))'
      BY DEF Behind, ReqMsg
    <3> QED BY <1>5, <3>1, <3>2
  <2>4. CASE queue # <<>> /\ Head(queue) = ReqMsg(e) /\ Announced(Incoming)
    <3>1. ~End(h)
      BY <1>13, <2>4
    <3>2. Head(queue).cmd = "request"
      <4>1. ReqMsg(e).cmd = "request"
        BY DEF ReqMsg
      <4> QED BY <2>4, <4>1
    <3>3. ~HeadIs("number?") /\ ~HeadIs("state?")
      BY <3>2 DEF HeadIs
    <3> QED BY <1>12, <3>1, <3>3 DEF h
  <2> QED BY <2>1, <2>2, <2>3, <2>4 DEF QueueInv, EffectsInv
<1> QED BY <1>5, <1>7, <1>9, <1>14, <1>15 DEF QueueInv

\* An answer to what the head of the queue does not ask.
LEMMA UnaskedSteps ==
    ASSUME XtTypeOK, QueueInv, Takes, Taking("in"), UNCHANGED <<toDev, fromDev, queue, effects>>,
           \/ /\ Head(bus).msg.cmd = "number" /\ ~HeadIs("number?")
              /\ reported' # NoProgram /\ numbered(prog')
           \/ /\ Head(bus).msg.cmd = "state" /\ ~HeadIs("state?")
              /\ reported' = reported /\ numbered(prog') = numbered(prog)
    PROVE  QueueInv'
<1> DEFINE h == Head(bus)
<1>1. h \in XtEvents /\ h.type = "in"
  BY XtTaking
<1>2. Carried(h) /\ In(h) /\ ~Buf(h)
  BY <1>1, CarriedBy DEF In, Buf
<1>3. Paired(Incoming)' /\ Announced(Incoming)'
  BY <1>2, StreamTakes DEF QueueInv
<1>4. h # LoadEvent(All, "UI") /\ h # Marker("number")
  BY <1>1 DEF LoadEvent, Marker
<1>5. NumberFirst'
  BY <1>4, NumberFirstTakes DEF QueueInv
<1>6. Answering'
  <2>1. h.msg.cmd # "end" /\ (h.msg.cmd = "number" => ~HeadIs("number?"))
        /\ (h.msg.cmd = "state" => ~HeadIs("state?"))
    OBVIOUS
  <2> HIDE DEF h
  <2> QED BY <1>2, <2>1, AnsweringKept DEF QueueInv
<1>7. ReportInv'
  <2>1. CASE reported' # NoProgram /\ numbered(prog')
    BY <2>1 DEF ReportInv, numbered
  <2>2. CASE h.msg.cmd = "state" /\ reported' = reported /\ numbered(prog') = numbered(prog)
    <3> HIDE DEF h
    <3> QED BY <1>2, <1>4, <2>2, ReportKept DEF QueueInv
  <2> QED BY <2>1, <2>2
<1> HIDE DEF h
<1>8. EffectsInv'
  BY <1>1, <1>2, <1>3, <1>4, EffectsKept DEF QueueInv
<1> QED BY <1>3, <1>5, <1>6, <1>7, <1>8 DEF QueueInv

LEMMA AnswerSteps ==
    ASSUME XtTypeOK, QueueInv, ~ack,
           DumpEndIn \/ ProgramNumberIn \/ EditStateIn
    PROVE  QueueInv'
<1>0. UNCHANGED <<toDev, fromDev, effects>>
  BY DEF DumpEndIn, ProgramNumberIn, EditStateIn, coreVars, devVars
<1>1. CASE DumpEndIn
  <2>1. Retired /\ Taking("in") /\ Head(bus).msg.cmd = "end"
    BY <1>1, QueueSends DEF DumpEndIn, Receiving
  <2>2. reported' = reported /\ numbered(prog') = numbered(prog)
    BY <1>1 DEF DumpEndIn, coreVars, uiVars, numbered
  <2> QED BY <1>0, <2>1, <2>2, RetiredSteps
<1>2. CASE ProgramNumberIn
  <2>1. Takes /\ Taking("in") /\ Head(bus).msg.cmd = "number"
    BY <1>2, QueueSends DEF ProgramNumberIn, Receiving
  <2>2. Head(bus).msg.program \in Programs
    BY <2>1, XtTaking, XtEventKinds, InKinds
  <2>3. reported' # NoProgram /\ numbered(prog')
    BY <1>2, <2>2, XtHandlerAssumption DEF ProgramNumberIn, SetProgram, numbered
  <2>4. CASE HeadIs("number?") /\ Retired
    BY <1>0, <2>1, <2>3, <2>4, RetiredSteps
  <2>5. CASE ~HeadIs("number?") /\ UNCHANGED queue
    BY <1>0, <2>1, <2>3, <2>5, UnaskedSteps
  <2> QED BY <1>2, <2>4, <2>5, QueueSends
<1>3. CASE EditStateIn
  <2>1. Takes /\ Taking("in") /\ Head(bus).msg.cmd = "state"
    BY <1>3, QueueSends DEF EditStateIn, Receiving
  <2>2. reported' = reported /\ numbered(prog') = numbered(prog)
    BY <1>3 DEF EditStateIn, coreVars, uiVars, numbered
  <2>3. CASE HeadIs("state?") /\ Retired
    BY <1>0, <2>1, <2>2, <2>3, RetiredSteps
  <2>4. CASE ~HeadIs("state?") /\ UNCHANGED queue
    BY <1>0, <2>1, <2>2, <2>4, UnaskedSteps
  <2> QED BY <1>3, <2>3, <2>4, QueueSends
<1> QED BY <1>1, <1>2, <1>3

\* QueueInv is kept by every step.
LEMMA QueueStep ==
    ASSUME ~PeerDumps, AnyInv, [XtNext]_xtVars
    PROVE  QueueInv'
<1>0. XtTypeOK /\ QueueInv /\ PeerFree /\ ~ack
  BY DEF AnyInv
<1>1. CASE UNCHANGED xtVars
  <2>1. UNCHANGED <<bus, toDev, fromDev, queue, reported, effects, prog>>
    BY <1>1 DEF xtVars, vars, ownVars, handlerVars, uiVars, devVars
  <2> QED BY <1>0, <2>1, PutsOne, PuttingSteps DEF QueueSame, numbered
<1>2. CASE CoreTask
  <2>1. CASE FinishProgramChange \/ Reload \/ ShowModified
    BY <1>0, <1>2, <2>1, ContinuedSteps DEF CoreTask
  <2>2. CASE ~(FinishProgramChange \/ Reload \/ ShowModified)
    BY <1>0, <1>2, <2>2, CommonSteps DEF CoreTask
  <2> QED BY <2>1, <2>2
<1>3. CASE XtTask /\ ~CoreTask
  <2>1. ~PatchDumpIn
    BY <1>0, HandlerSends
  <2>2. CASE LoadPatches \/ NumberMarker \/ EffectIn \/ BufferDumpIn
    BY <1>0, <2>2, LoadPatchesStep, NumberMarkerStep, EffectInStep, BufferDumpStep
  <2>3. CASE DumpEndIn \/ ProgramNumberIn \/ EditStateIn
    BY <1>0, <2>3, AnswerSteps
  <2>4. CASE ~(LoadPatches \/ NumberMarker \/ EffectIn \/ BufferDumpIn)
             /\ ~(DumpEndIn \/ ProgramNumberIn \/ EditStateIn)
    BY <1>0, <1>3, <2>1, <2>4, CommonSteps DEF XtTask
  <2> QED BY <2>2, <2>3, <2>4
<1>4. CASE XtNext /\ ~XtTask
  BY <1>0, <1>4, OutsideSteps DEF XtNext, XtSystem
<1> QED BY <1>1, <1>2, <1>3, <1>4

-----------------------------------------------------------------------------
(* Without requests of the peer.  The invariant, and what it says of rest. *)

\* No dump is sent for the peer when the peer asks for none.
LEMMA PeerFreeStep ==
    ASSUME ~PeerDumps, AnyInv, [XtNext]_xtVars
    PROVE  PeerFree'
<1>0. XtTypeOK /\ PeerFree
  BY DEF AnyInv
<1> SUFFICES ASSUME ~PeerRequests
             PROVE  (\A e \in Range(bus') : ~ForPeer(e)) /\ Arriving("request")' = FALSE
  BY DEF PeerFree, ForPeer
<1>1. (\A e \in Range(bus) : ~ForPeer(e)) /\ ~Arriving("request")
  BY <1>0 DEF PeerFree
<1>2. \A e \in Sendable \cup Own : ~ForPeer(e) /\ e.type # "in"
  BY DEF Sendable, Own
<1>3. ASSUME Takes \/ Puts, UNCHANGED fromDev
      PROVE  (\A e \in Range(bus') : ~ForPeer(e)) /\ Arriving("request")' = FALSE
  <2>1. Range(bus') \subseteq Range(bus) \cup Sendable \cup Own
    BY <1>0, <1>3, TakesRange, PutsRange
  <2> QED BY <1>1, <1>2, <1>3, <2>1 DEF Arriving
<1>4. ASSUME NEW m \in InMsgs, fromDev' = Append(fromDev, m), m.cmd # "request", UNCHANGED bus
      PROVE  (\A e \in Range(bus') : ~ForPeer(e)) /\ Arriving("request")' = FALSE
  <2>1. fromDev \in Seq(InMsgs)
    BY <1>0 DEF XtTypeOK
  <2>2. \A x \in InMsgs : Range(Append(fromDev, x)) = Range(fromDev) \cup {x}
    BY <2>1, SeqRange
  <2> QED BY <1>1, <1>4, <2>2 DEF Arriving
<1>5. CASE UNCHANGED xtVars
  BY <1>0, <1>3, <1>5, PutsOne DEF xtVars, vars, devVars
<1>6. CASE CoreTask
  <2>1. Takes \/ Puts
    BY <1>0, <1>6, ControlSends, PutsOne DEF CoreTask
  <2>2. UNCHANGED fromDev
    BY <1>6 DEF CoreTask, HandleControl, HandleName, HandleProgramChange, FinishProgramChange,
                HandleCopy, Reload, HandleModified, ShowModified, MidiControl, MidiProgram,
                HandleMsgOut, devVars
  <2> QED BY <1>3, <2>1, <2>2
<1>7. CASE XtTask /\ ~CoreTask
  <2>1. Takes
    BY <1>0, <1>7, HandlerSends, QueueSends DEF XtTask
  <2>2. UNCHANGED fromDev
    <3>1. ~PatchDumpIn
      BY <1>0, HandlerSends
    <3> QED BY <1>7, <3>1 DEF XtTask, LoadForPeer, LoadEditBuffer, LoadPatches, XtStore, XtDataOut, XtDataIn,
                DataToEditBuffer, DataToProgram, EffectIn, EndMarker, TimeoutMarker,
                NumberMarker, BufferDumpIn, PatchRequestIn, DumpEndIn, StatusIn,
                ProgramNumberIn, EditStateIn, NumberRequestIn, StateRequestIn, coreVars, devVars
  <2> QED BY <1>3, <2>1, <2>2
<1>8. CASE CoreUser
  BY <1>0, <1>3, <1>8, UserPuts
<1>9. CASE XtUiSignal \/ XtCtlSignal \/ TimerFires
  BY <1>0, <1>3, <1>9, SignalPuts
<1>10. CASE XtDevice
  <2>1. PICK m \in InMsgs : fromDev' = Append(fromDev, m) /\ (m.cmd = "request" => PeerRequests)
    BY <1>0, <1>10, DevicePuts
  <2>2. UNCHANGED bus
    BY <1>0, <1>10, DevicePuts
  <2> QED BY <1>4, <2>1, <2>2
<1>11. CASE XtMidiIn
  <2>1. fromDev # <<>> /\ bus' = Append(bus, MsgIn(Head(fromDev))) /\ fromDev' = Tail(fromDev)
    BY <1>11 DEF XtMidiIn, MidiIn
  <2>2. MsgIn(Head(fromDev)) \in XtEvents /\ MsgIn(Head(fromDev)).type = "in"
        /\ MsgIn(Head(fromDev)).msg = Head(fromDev)
    BY <1>0, <2>1, TailTyped, SentTyped DEF MsgIn
  <2>3. Range(bus') = Range(bus) \cup {MsgIn(Head(fromDev))}
    <3>1. bus \in Seq(XtEvents)
      BY <1>0 DEF XtTypeOK
    <3>2. \A x \in XtEvents : Range(Append(bus, x)) = Range(bus) \cup {x}
      BY <3>1, SeqRange
    <3> QED BY <2>1, <2>2, <3>2
  <2>4. Range(fromDev) = {Head(fromDev)} \cup Range(fromDev')
    <3>1. fromDev \in Seq(InMsgs)
      BY <1>0 DEF XtTypeOK
    <3> QED BY <2>1, <3>1, SeqRange
  <2> QED BY <1>1, <2>2, <2>3, <2>4 DEF Arriving, ForPeer
<1>12. CASE XtDeviceTask
  <2>0. UNCHANGED bus
    <3>1. Marker("end").type # "out"
      BY DEF Marker
    <3> QED BY <1>0, <1>12, <3>1, DeviceCarries
  <2>1. CASE UNCHANGED fromDev
    BY <1>0, <1>3, <2>0, <2>1, PutsOne
  <2>2. CASE \E m \in InMsgs : m.cmd \notin {"end", "request"} /\ fromDev' = Append(fromDev, m)
    BY <1>4, <2>0, <2>2
  <2>3. CASE \E d \in Patch : fromDev' = fromDev \o <<BufferDump(d), PatchDumpEnd>>
    <3>1. PICK d \in Patch : fromDev' = fromDev \o <<BufferDump(d), PatchDumpEnd>>
      BY <2>3
    <3> DEFINE x == BufferDump(d)
               y == PatchDumpEnd
               s == Append(fromDev, x)
    <3>2. x \in InMsgs /\ y \in InMsgs /\ x.cmd # "request" /\ y.cmd # "request"
          /\ fromDev \in Seq(InMsgs)
      BY <1>0, XtMsgsTyped DEF XtTypeOK, BufferDump, PatchDumpEnd
    <3> HIDE DEF x, y
    <3>3. s \in Seq(InMsgs) /\ \A z \in InMsgs : Range(Append(fromDev, z)) = Range(fromDev) \cup {z}
      BY <3>2, SeqRange, AppendProperties
    <3>4. fromDev \o <<x, y>> = Append(s, y)
      BY <3>2, PairAppends
    <3>5. Range(s) = Range(fromDev) \cup {x}
      BY <3>2, <3>3
    <3> HIDE DEF s
    <3>6. Range(Append(s, y)) = Range(s) \cup {y}
      BY <3>2, <3>3, SeqRange
    <3>7. Range(fromDev') = Range(fromDev) \cup {x, y}
      BY <3>1, <3>4, <3>5, <3>6 DEF x, y
    <3> QED BY <1>1, <2>0, <3>2, <3>7 DEF Arriving
  <2> QED BY <1>0, <1>12, <2>1, <2>2, <2>3, DeviceSends
<1> QED BY <1>5, <1>6, <1>7, <1>8, <1>9, <1>10, <1>11, <1>12 DEF XtNext, XtSystem

\* A dump is to be acknowledged only to a peer that asked for it, and is then
\* one of the program's own.
LEMMA AckStep ==
    ASSUME AnyInv, [XtNext]_xtVars
    PROVE  ~ack' \/ (/\ XtDataIn /\ PeerRequests /\ Head(bus).request = "MIDI"
                     /\ Head(bus).origin = "UI" /\ Rerouted)
<1>0. XtTypeOK /\ PeerFree /\ ~ack
  BY DEF AnyInv
<1>1. CASE XtDataIn \/ EffectIn
  <2> SUFFICES ASSUME ack' PROVE (/\ XtDataIn /\ PeerRequests /\ Head(bus).request = "MIDI"
                                  /\ Head(bus).origin = "UI" /\ Rerouted)
    OBVIOUS
  <2>1. Head(bus).request = "MIDI" /\ Taking("data")
    BY <1>0, <1>1 DEF XtDataIn, EffectIn, NoteAck
  <2>2. Head(bus) \in XtEvents /\ Head(bus).type = "data" /\ Head(bus) \in Range(bus)
    BY <1>0, <2>1, XtTaking, HeadOnBus
  <2>3. Head(bus).origin = "UI" /\ (Head(bus).buffer \in Effects => Head(bus).buffer \in Single)
    BY <2>1, <2>2, XtEventKinds
  <2>4. ~EffectIn
    BY <2>3, XtBufferSets DEF EffectIn
  <2>5. PeerRequests
    BY <1>0, <2>1, <2>2 DEF PeerFree, ForPeer
  <2>6. Rerouted
    BY <1>1, <2>3, <2>4 DEF XtDataIn, DataToEditBuffer, DataToProgram, FromMidi
  <2> QED BY <1>1, <2>1, <2>3, <2>4, <2>5, <2>6
<1>2. CASE ~(XtDataIn \/ EffectIn) /\ XtTask
  <2>1. ~PatchDumpIn
    BY <1>0, HandlerSends
  <2>2. ack' = ack
    BY <1>2, <2>1 DEF XtTask, CoreTask, LoadForPeer, LoadEditBuffer, LoadPatches, XtStore, XtDataOut,
                EndMarker, TimeoutMarker,
                NumberMarker, BufferDumpIn, PatchRequestIn, DumpEndIn, StatusIn,
                ProgramNumberIn, EditStateIn, NumberRequestIn, StateRequestIn, ownVars, handlerVars
  <2> QED BY <1>0, <2>2
<1>3. CASE ~XtTask /\ XtNext
  <2>1. ack' = ack
    BY <1>3 DEF XtNext, XtSystem, CoreUser, XtUiSignal, XtCtlSignal, XtMidiIn, TimerFires, XtDevice,
             DevKnob, DevProgram, PeerRequest, PeerDump, XtDeviceTask, XtDevReceive, DevPatchDump,
             DevDumpEnd, ownVars, handlerVars
  <2> QED BY <1>0, <2>1
<1>4. CASE UNCHANGED xtVars
  BY <1>0, <1>4 DEF xtVars, ownVars, handlerVars
<1> QED BY <1>1, <1>2, <1>3, <1>4

\* Initially the startup load and its marker are on the bus.
LEMMA AnyInit ==
    ASSUME XtInit
    PROVE  AnyInv
<1> DEFINE l == LoadEvent(All, "UI")
           m == Marker("number")
<1>1. l \in XtEvents /\ m \in XtEvents /\ l # m /\ ~ForPeer(l) /\ ~ForPeer(m) /\ ~In(l) /\ ~In(m)
      /\ l.type = "load" /\ m.type = "marker"
  BY XtBufferSets DEF XtEvents, LoadEvent, Marker, ForPeer, In, Origins
<1> DEFINE b == <<l, m>>
<1>2. bus = b /\ queue = <<>> /\ toDev = <<>> /\ fromDev = <<>> /\ reported = NoProgram /\ ~ack
      /\ effects = [e \in Effects |-> ""]
  BY DEF XtInit
<1> HIDE DEF l, m
<1>3. b \in Seq(XtEvents) /\ b[1] = l /\ b[2] = m /\ Len(b) = 2 /\ Range(b) = {l, m}
  <2>1. b \in Seq(XtEvents) /\ b[1] = l /\ b[2] = m /\ Len(b) = 2 /\ DOMAIN b = 1..2
    BY <1>1, Tuples
  <2>2. 1..2 = {1, 2}
    OBVIOUS
  <2> HIDE DEF b
  <2> QED BY <2>1, <2>2 DEF Range
<1> HIDE DEF b
<1>4. Range(fromDev) = {} /\ Range(toDev) = {}
  <2>1. <<>> \in Seq({}) /\ Range(<<>>) = {}
    BY Tuples, SeqRange
  <2> QED BY <1>2, <2>1
<1>5. XtTypeOK
  <2>1. <<>> \in Seq(Signals) /\ <<>> \in Seq(OutMsgs) /\ <<>> \in Seq(InMsgs) /\ <<>> \in Seq(Requests)
        /\ <<"program">> \in Seq(Buttons \cup {"program"})
    BY Tuples
  <2>2. Blank \in Patch /\ Blank.val \in Vals
    BY PodCoreAssumption DEF Patch
  <2>3. Idle \in Pauses /\ NoRoutes \in [Dumpable -> Single \cup {NoRoute}]
    BY DEF Pauses, NoRoutes
  <2>4. IsFiniteSet({})
    BY FS_EmptySet
  <2> QED BY <1>2, <1>3, <2>1, <2>2, <2>3, <2>4 DEF XtInit, XtTypeOK, Dump
<1>6. PeerFree
  BY <1>1, <1>2, <1>3, <1>4 DEF PeerFree, Arriving, In
<1>7. Answering
  BY <1>2 DEF Answering
<1>8. NumberFirst
  <2>1. ASSUME NEW i \in 1..2, b[i] = m PROVE i = 2 /\ b[1] = l
    BY <1>1, <1>3, <2>1
  <2> QED BY <1>2, <1>3, <2>1 DEF NumberFirst, l, m
<1>9. ReportInv
  BY <1>2, <1>3 DEF ReportInv, OnBus, m
<1>10. EffectsInv
  BY <1>2, <1>3 DEF EffectsInv, l
<1>11. Paired(Incoming)
  <2> DEFINE F == Feed(fromDev)
  <2>1. F \in Seq(XtEvents) /\ Len(F) = 0
    <3>1. <<>> \in Seq(InMsgs) /\ Len(<<>>) = 0
      BY Tuples
    <3> QED BY <1>2, <3>1, FeedTyped
  <2>2. Incoming = b \o F
    BY <1>2 DEF Incoming
  <2> HIDE DEF F
  <2>3. Len(b \o F) = 2 /\ \A i \in 1..2 : (b \o F)[i] = b[i]
    <3>1. /\ Len(b \o F) = Len(b) + Len(F)
          /\ \A i \in 1..(Len(b) + Len(F)) : (b \o F)[i] = IF i <= Len(b) THEN b[i] ELSE F[i - Len(b)]
      BY <1>3, <2>1, ConcatProperties
    <3>2. Len(b) = 2 /\ Len(F) = 0 /\ Len(b) + Len(F) = 2
      BY <1>3, <2>1
    <3> HIDE DEF F, b
    <3> QED BY <3>1, <3>2
  <2>4. \A i \in 1..2 : ~In((b \o F)[i])
    BY <1>1, <1>3, <2>3
  <2> QED BY <2>2, <2>3, <2>4 DEF Paired
<1> QED BY <1>2, <1>5, <1>6, <1>7, <1>8, <1>9, <1>10, <1>11 DEF AnyInv, QueueInv

\* At rest nothing is due, and nothing is said to be under way.
LEMMA AtRest ==
    ASSUME AnyInv
    PROVE  RestMeansAnswered /\ StartedUp
<1> SUFFICES ASSUME Quiescent
             PROVE  /\ queue = <<>> /\ numbered(prog) /\ reported \in Programs
                    /\ \A e \in Effects : effects[e] # ""
  BY DEF RestMeansAnswered, StartedUp
<1>0. XtTypeOK /\ Answering /\ ReportInv /\ EffectsInv
  BY DEF AnyInv, QueueInv
<1>1. bus = <<>> /\ toDev = <<>> /\ fromDev = <<>>
  <2>1. /\ Len(uiq) \in Nat /\ Len(ctq) \in Nat /\ Len(bus) \in Nat /\ Len(toDev) \in Nat
        /\ Len(fromDev) \in Nat
    BY <1>0, LenProperties DEF XtTypeOK
  <2>2. Len(bus) = 0 /\ Len(toDev) = 0 /\ Len(fromDev) = 0
    BY <2>1 DEF Quiescent, Backlog
  <2>3. bus \in Seq(XtEvents) /\ toDev \in Seq(OutMsgs) /\ fromDev \in Seq(InMsgs)
    BY <1>0 DEF XtTypeOK
  <2> QED BY <2>2, <2>3, EmptySeq
<1>2. Range(bus) = {} /\ Range(toDev) = {} /\ Range(fromDev) = {}
  <2>1. <<>> \in Seq({}) /\ Range(<<>>) = {}
    BY Tuples, SeqRange
  <2> QED BY <1>1, <2>1
<1>3. \A c : ~Sending(c) /\ ~Arriving(c)
  BY <1>2 DEF Sending, Arriving
<1>4. queue = <<>>
  BY <1>0, <1>3 DEF Answering, Due, NumberDue, StateDue
<1>5. reported # NoProgram
  BY <1>0, <1>2, <1>3, <1>4 DEF ReportInv, OnBus, Behind, NumberDue
<1>6. numbered(prog) /\ reported \in Programs
  BY <1>0, <1>5 DEF ReportInv, XtTypeOK
<1>7. \A e \in Effects : effects[e] # ""
  BY <1>0, <1>2, <1>4 DEF EffectsInv, Behind
<1> QED BY <1>4, <1>6, <1>7

\* Whatever the user does and however the events interleave: once everything
\* is quiet the queue is empty, and once the startup is through the program
\* is known and so is the name of every effect (queue_ack and queue_send,
\* handler.rs).  Only programs that the device dumps, or asks for, of its own
\* accord are left out: their answers retire requests that are not theirs.
THEOREM XtAnswersAndStartsUp ==
    ASSUME ~PeerDumps, ~PeerRequests
    PROVE  XtSpec => [](RestMeansAnswered /\ StartedUp)
<1>1. XtInit => AnyInv
  BY AnyInit
<1>2. AnyInv /\ [XtNext]_xtVars => AnyInv'
  <2> SUFFICES ASSUME AnyInv, [XtNext]_xtVars PROVE AnyInv'
    OBVIOUS
  <2>1. XtTypeOK'
    BY XtTypeStep DEF AnyInv
  <2>2. QueueInv' /\ PeerFree'
    BY QueueStep, PeerFreeStep
  <2>3. ~ack'
    BY AckStep
  <2> QED BY <2>1, <2>2, <2>3 DEF AnyInv
<1>3. AnyInv => RestMeansAnswered /\ StartedUp
  BY AtRest
<1> QED BY <1>1, <1>2, <1>3, PTL DEF XtSpec

-----------------------------------------------------------------------------
(* What is under way stays in order.                                       *)

LEMMA TakesOrder ==
    ASSUME XtTypeOK, Takes
    PROVE  /\ Len(bus) \in Nat \ {0} /\ bus[1] = Head(bus)
           /\ \A i \in 2..Len(bus) : i - 1 \in 1..Len(bus') /\ bus'[i - 1] = bus[i]
<1>1. PICK evs \in Seq(Sendable) : bus' = Tail(bus) \o evs
  BY DEF Takes, Reply
<1> DEFINE t == Tail(bus)
<1>2. /\ bus \in Seq(XtEvents) /\ t \in Seq(XtEvents) /\ bus[1] = Head(bus)
      /\ Len(bus) \in Nat \ {0} /\ Len(t) = Len(bus) - 1 /\ \A i \in 1..Len(t) : t[i] = bus[i + 1]
  BY BusParts, HeadTailProperties, EmptySeq, LenProperties DEF Takes
<1>3. evs \in Seq(XtEvents)
  BY OwnAreNotIn
<1> HIDE DEF t
<1>4. /\ Len(t) \in Nat /\ Len(evs) \in Nat /\ Len(t \o evs) = Len(t) + Len(evs)
      /\ \A i \in 1..(Len(t) + Len(evs)) : (t \o evs)[i] = IF i <= Len(t) THEN t[i] ELSE evs[i - Len(t)]
  BY <1>2, <1>3, ConcatProperties, LenProperties
<1>5. bus' = t \o evs
  BY <1>1 DEF t
<1>6. ASSUME NEW i \in 2..Len(bus) PROVE i - 1 \in 1..Len(bus') /\ bus'[i - 1] = bus[i]
  <2>1. i - 1 \in 1..Len(t) /\ i - 1 \in 1..(Len(t) + Len(evs)) /\ (i - 1) + 1 = i
    BY <1>2, <1>4
  <2>2. (t \o evs)[i - 1] = t[i - 1]
    BY <1>4, <2>1
  <2>3. t[i - 1] = bus[i]
    BY <1>2, <2>1
  <2> QED BY <1>4, <1>5, <2>1, <2>2, <2>3
<1> QED BY <1>2, <1>6

LEMMA PutsOrder ==
    ASSUME XtTypeOK, Puts
    PROVE  Len(bus) \in Nat /\ \A i \in 1..Len(bus) : i \in 1..Len(bus') /\ bus'[i] = bus[i]
<1>1. PICK evs \in Seq(Own) : bus' = bus \o evs
  BY DEF Puts
<1>2. bus \in Seq(XtEvents) /\ evs \in Seq(XtEvents)
  BY OwnAreNotIn DEF XtTypeOK
<1>3. /\ Len(bus) \in Nat /\ Len(evs) \in Nat /\ Len(bus \o evs) = Len(bus) + Len(evs)
      /\ \A i \in 1..(Len(bus) + Len(evs)) :
             (bus \o evs)[i] = IF i <= Len(bus) THEN bus[i] ELSE evs[i - Len(bus)]
  BY <1>2, ConcatProperties, LenProperties
<1> QED BY <1>1, <1>3

LEMMA SeqOrder ==
    ASSUME NEW S, NEW s \in Seq(S)
    PROVE  /\ Len(s) \in Nat
           /\ \A x \in S : /\ Len(Append(s, x)) = Len(s) + 1 /\ Append(s, x)[Len(s) + 1] = x
                           /\ \A i \in 1..Len(s) : Append(s, x)[i] = s[i]
           /\ s # <<>> => /\ Len(s) # 0 /\ Head(s) = s[1] /\ Len(Tail(s)) = Len(s) - 1
                          /\ \A i \in 2..Len(s) : i - 1 \in 1..Len(Tail(s)) /\ Tail(s)[i - 1] = s[i]
           /\ \A x : x \in Range(s) <=> \E i \in 1..Len(s) : s[i] = x
<1>1. Len(s) \in Nat /\ DOMAIN s = 1..Len(s)
  BY LenProperties
<1>2. \A x \in S : /\ Len(Append(s, x)) = Len(s) + 1 /\ Append(s, x)[Len(s) + 1] = x
                   /\ \A i \in 1..Len(s) : Append(s, x)[i] = s[i]
  BY AppendProperties
<1>3. ASSUME s # <<>>
      PROVE  /\ Len(s) # 0 /\ Head(s) = s[1] /\ Len(Tail(s)) = Len(s) - 1
             /\ \A i \in 2..Len(s) : i - 1 \in 1..Len(Tail(s)) /\ Tail(s)[i - 1] = s[i]
  <2> DEFINE t == Tail(s)
  <2>1. /\ Len(t) = Len(s) - 1 /\ Head(s) = s[1] /\ Len(s) # 0
        /\ \A i \in 1..Len(t) : t[i] = s[i + 1]
    BY <1>3, HeadTailProperties, EmptySeq
  <2> HIDE DEF t
  <2>2. ASSUME NEW i \in 2..Len(s) PROVE i - 1 \in 1..Len(t) /\ t[i - 1] = s[i]
    <3>1. i - 1 \in 1..Len(t) /\ (i - 1) + 1 = i
      BY <1>1, <2>1
    <3> QED BY <2>1, <3>1
  <2> QED BY <2>1, <2>2 DEF t
<1>4. \A x : x \in Range(s) <=> \E i \in 1..Len(s) : s[i] = x
  BY <1>1 DEF Range
<1> QED BY <1>1, <1>2, <1>3, <1>4

-----------------------------------------------------------------------------
(* A status is due.                                                        *)

LEMMA DueTaken ==
    ASSUME XtTypeOK, Takes, Head(bus).type # "out", UNCHANGED <<toDev, fromDev, devGot>>
    PROVE  /\ ~(Head(bus).type = "in" /\ Head(bus).msg.cmd = "status") =>
                  (DumpDue => DumpDue') /\ (StatusDue => StatusDue')
           /\ Sending("dump") => Sending("dump")'
<1> DEFINE h == Head(bus)
<1>1. Range(bus) \subseteq {h} \cup Range(bus')
  BY TakesRange
<1>2. \A c : Sending(c) => \/ \E e \in Range(bus') : e.type = "out" /\ e.msg.cmd = c
                           \/ \E m \in Range(toDev') : m.cmd = c
  BY <1>1 DEF Sending
<1>3. ~(h.type = "in" /\ h.msg.cmd = "status") =>
      (Arriving("status") => \/ \E e \in Range(bus') : e.type = "in" /\ e.msg.cmd = "status"
                             \/ \E m \in Range(fromDev') : m.cmd = "status")
  BY <1>1 DEF Arriving
<1>4. DumpThenEnd => DumpThenEnd'
  <2>1. CASE \E j, k \in 1..Len(toDev) : j < k /\ toDev[j].cmd = "dump" /\ toDev[k].cmd = "end"
    BY <2>1 DEF DumpThenEnd
  <2>2. CASE (\E m \in Range(toDev) : m.cmd = "dump") /\ \E e \in Range(bus) : EndOut(e)
    BY <1>1, <2>2 DEF DumpThenEnd, EndOut
  <2>3. CASE \E j, k \in 1..Len(bus) : j < k /\ DumpOut(bus[j]) /\ EndOut(bus[k])
    <3>1. PICK j \in 1..Len(bus), k \in 1..Len(bus) : j < k /\ DumpOut(bus[j]) /\ EndOut(bus[k])
      BY <2>3
    <3>2. j # 1 /\ Len(bus) \in Nat
      BY <3>1, TakesOrder DEF DumpOut
    <3>3. j \in 2..Len(bus) /\ k \in 2..Len(bus)
      BY <3>1, <3>2
    <3>4. j - 1 \in 1..Len(bus') /\ k - 1 \in 1..Len(bus') /\ bus'[j - 1] = bus[j] /\ bus'[k - 1] = bus[k]
          /\ j - 1 < k - 1
      BY <3>1, <3>3, TakesOrder
    <3>5. DumpOut(bus'[j - 1]) /\ EndOut(bus'[k - 1])
      BY <3>1, <3>4
    <3>6. \E i, l \in 1..Len(bus') : i < l /\ DumpOut(bus'[i]) /\ EndOut(bus'[l])
      BY <3>4, <3>5
    <3> QED BY <3>6 DEF DumpThenEnd, DumpOut, EndOut
  <2> QED BY <2>1, <2>2, <2>3 DEF DumpThenEnd
<1> HIDE DEF h
<1> QED BY <1>2, <1>3, <1>4 DEF DumpDue, StatusDue, Sending, Arriving, h

LEMMA DuePut ==
    ASSUME XtTypeOK, UNCHANGED <<toDev, devGot>>,
           \/ Puts /\ (UNCHANGED fromDev \/ \E m \in InMsgs : fromDev' = Append(fromDev, m))
           \/ MidiIn
    PROVE  (DumpDue => DumpDue') /\ (StatusDue => StatusDue')
<1>0. bus \in Seq(XtEvents) /\ fromDev \in Seq(InMsgs)
  BY DEF XtTypeOK
<1>1. /\ Range(bus) \subseteq Range(bus')
      /\ Len(bus) \in Nat /\ \A i \in 1..Len(bus) : i \in 1..Len(bus') /\ bus'[i] = bus[i]
  <2>1. CASE Puts
    BY <2>1, PutsRange, PutsOrder
  <2>2. CASE MidiIn
    <3> DEFINE x == MsgIn(Head(fromDev))
    <3>1. bus' = Append(bus, x) /\ x \in XtEvents
      BY <2>2, TailTyped, SentTyped DEF MidiIn
    <3> HIDE DEF x
    <3>2. Range(Append(bus, x)) = Range(bus) \cup {x}
      BY <1>0, <3>1, SeqRange
    <3>3. /\ Len(bus) \in Nat /\ Len(Append(bus, x)) = Len(bus) + 1
          /\ \A i \in 1..Len(bus) : Append(bus, x)[i] = bus[i]
      BY <1>0, <3>1, SeqOrder
    <3> QED BY <3>1, <3>2, <3>3
  <2> QED BY <2>1, <2>2
<1>2. \A m \in Range(fromDev) : m \in Range(fromDev') \/ MsgIn(m) \in Range(bus')
  <2>1. CASE UNCHANGED fromDev
    BY <2>1
  <2>2. CASE \E m \in InMsgs : fromDev' = Append(fromDev, m)
    <3>1. \A m \in InMsgs : Range(Append(fromDev, m)) = Range(fromDev) \cup {m}
      BY <1>0, SeqRange
    <3> QED BY <2>2, <3>1
  <2>3. CASE MidiIn
    <3>1. Marker("end").type # "out"
      BY DEF Marker
    <3> QED BY <2>3, <3>1, CarriedBy DEF Carried
  <2> QED BY <2>1, <2>2, <2>3
<1>3. \A c : Sending(c) => \/ \E e \in Range(bus') : e.type = "out" /\ e.msg.cmd = c
                           \/ \E m \in Range(toDev') : m.cmd = c
  BY <1>1 DEF Sending
<1>4. Arriving("status") => \/ \E e \in Range(bus') : e.type = "in" /\ e.msg.cmd = "status"
                            \/ \E m \in Range(fromDev') : m.cmd = "status"
  <2>1. \A m : MsgIn(m).type = "in" /\ MsgIn(m).msg = m
    BY DEF MsgIn
  <2> QED BY <1>1, <1>2, <2>1 DEF Arriving
<1>5. DumpThenEnd => DumpThenEnd'
  <2>1. CASE \E j, k \in 1..Len(toDev) : j < k /\ toDev[j].cmd = "dump" /\ toDev[k].cmd = "end"
    BY <2>1 DEF DumpThenEnd
  <2>2. CASE (\E m \in Range(toDev) : m.cmd = "dump") /\ \E e \in Range(bus) : EndOut(e)
    BY <1>1, <2>2 DEF DumpThenEnd, EndOut
  <2>3. CASE \E j, k \in 1..Len(bus) : j < k /\ DumpOut(bus[j]) /\ EndOut(bus[k])
    BY <1>1, <2>3 DEF DumpThenEnd, DumpOut, EndOut
  <2> QED BY <2>1, <2>2, <2>3 DEF DumpThenEnd
<1> QED BY <1>3, <1>4, <1>5 DEF DumpDue, StatusDue, Sending, Arriving

\* A message out moves from the bus to the device, behind the others.
LEMMA DueMoved ==
    ASSUME XtTypeOK, HandleMsgOut, Takes, UNCHANGED devGot
    PROVE  (DumpDue => DumpDue') /\ (StatusDue => StatusDue')
<1> DEFINE h == Head(bus)
           n == Len(toDev)
<1>0. toDev \in Seq(OutMsgs) /\ h \in XtEvents /\ h.type = "out" /\ h.msg \in OutMsgs
      /\ UNCHANGED fromDev
  BY XtTaking, XtEventKinds DEF XtTypeOK, HandleMsgOut
<1>1. toDev' = Append(toDev, h.msg)
  BY DEF HandleMsgOut
<1>2. Range(bus) \subseteq {h} \cup Range(bus')
  BY TakesRange
<1>3. Range(toDev') = Range(toDev) \cup {h.msg}
  BY <1>0, <1>1, SeqRange
<1>4. /\ n \in Nat /\ Len(toDev') = n + 1 /\ toDev'[n + 1] = h.msg
      /\ \A i \in 1..n : toDev'[i] = toDev[i]
  BY <1>0, <1>1, SeqOrder
<1>5. \A c : Sending(c) => \/ \E e \in Range(bus') : e.type = "out" /\ e.msg.cmd = c
                           \/ \E m \in Range(toDev') : m.cmd = c
  BY <1>2, <1>3 DEF Sending
<1>6. Arriving("status") => \/ \E e \in Range(bus') : e.type = "in" /\ e.msg.cmd = "status"
                            \/ \E m \in Range(fromDev') : m.cmd = "status"
  BY <1>0, <1>2 DEF Arriving
<1>7. DumpThenEnd => DumpThenEnd'
  <2>1. CASE \E j, k \in 1..n : j < k /\ toDev[j].cmd = "dump" /\ toDev[k].cmd = "end"
    <3>1. PICK j \in 1..n, k \in 1..n : j < k /\ toDev[j].cmd = "dump" /\ toDev[k].cmd = "end"
      BY <2>1
    <3> HIDE DEF h, n
    <3>2. j \in 1..Len(toDev') /\ k \in 1..Len(toDev') /\ toDev'[j] = toDev[j] /\ toDev'[k] = toDev[k]
      BY <1>4, <3>1
    <3>3. \E i, l \in 1..Len(toDev') : i < l /\ toDev'[i].cmd = "dump" /\ toDev'[l].cmd = "end"
      BY <3>1, <3>2
    <3> QED BY <3>3 DEF DumpThenEnd
  <2>2. CASE (\E m \in Range(toDev) : m.cmd = "dump") /\ \E e \in Range(bus) : EndOut(e)
    <3>1. CASE EndOut(h)
      <4>1. PICK j \in 1..n : toDev[j].cmd = "dump"
        BY <1>0, <2>2, SeqOrder
      <4>2. h.msg.cmd = "end"
        BY <3>1 DEF EndOut
      <4> HIDE DEF h, n
      <4>3. j \in 1..Len(toDev') /\ n + 1 \in 1..Len(toDev') /\ j < n + 1
            /\ toDev'[j].cmd = "dump" /\ toDev'[n + 1].cmd = "end"
        BY <1>4, <4>1, <4>2
      <4>4. \E i, l \in 1..Len(toDev') : i < l /\ toDev'[i].cmd = "dump" /\ toDev'[l].cmd = "end"
        BY <4>3
      <4> QED BY <4>4 DEF DumpThenEnd
    <3>2. CASE ~EndOut(h)
      <4>1. (\E m \in Range(toDev') : m.cmd = "dump") /\ \E e \in Range(bus') : EndOut(e)
        BY <1>2, <1>3, <2>2, <3>2
      <4> QED BY <4>1 DEF DumpThenEnd, EndOut
    <3> QED BY <3>1, <3>2
  <2>3. CASE \E j, k \in 1..Len(bus) : j < k /\ DumpOut(bus[j]) /\ EndOut(bus[k])
    <3>1. PICK j \in 1..Len(bus), k \in 1..Len(bus) : j < k /\ DumpOut(bus[j]) /\ EndOut(bus[k])
      BY <2>3
    <3>2. Len(bus) \in Nat /\ k \in 2..Len(bus)
      BY <3>1, TakesOrder
    <3>3. k - 1 \in 1..Len(bus') /\ bus'[k - 1] = bus[k]
      BY <3>2, TakesOrder
    <3>4. CASE j = 1
      <4>1. h.msg.cmd = "dump"
        BY <3>1, <3>4, TakesOrder DEF DumpOut
      <4>2. bus[k] \in Range(bus')
        <5>1. Takes => bus' \in Seq(XtEvents)
          BY XtBusTyped
        <5> QED BY <3>3, <5>1, SeqOrder
      <4>3. (\E m \in Range(toDev') : m.cmd = "dump") /\ \E e \in Range(bus') : EndOut(e)
        BY <1>3, <3>1, <4>1, <4>2
      <4> QED BY <4>3 DEF DumpThenEnd, EndOut
    <3>5. CASE j # 1
      <4>1. j \in 2..Len(bus)
        BY <3>1, <3>2, <3>5
      <4>2. j - 1 \in 1..Len(bus') /\ bus'[j - 1] = bus[j] /\ j - 1 < k - 1
        BY <3>1, <3>2, <4>1, TakesOrder
      <4>3. DumpOut(bus'[j - 1]) /\ EndOut(bus'[k - 1])
        BY <3>1, <3>3, <4>2
      <4>4. \E i, l \in 1..Len(bus') : i < l /\ DumpOut(bus'[i]) /\ EndOut(bus'[l])
        BY <3>3, <4>2, <4>3
      <4> QED BY <4>4 DEF DumpThenEnd, DumpOut, EndOut
    <3> QED BY <3>4, <3>5
  <2> QED BY <2>1, <2>2, <2>3 DEF DumpThenEnd
<1> HIDE DEF h
<1> QED BY <1>5, <1>6, <1>7 DEF DumpDue, StatusDue, Sending, Arriving

LEMMA DueServed ==
    ASSUME XtTypeOK, XtDeviceTask, ~StatusMayBeLost
    PROVE  (DumpDue => DumpDue') /\ (StatusDue => StatusDue') /\ UNCHANGED storeVars
<1> DEFINE n == Len(toDev)
<1>0. toDev \in Seq(OutMsgs) /\ fromDev \in Seq(InMsgs) /\ toDev # <<>> /\ toDev' = Tail(toDev)
      /\ UNCHANGED <<bus, storeVars>>
  BY DEF XtTypeOK, XtDeviceTask, XtDevReceive, DevPatchDump, DevDumpEnd, handlerVars
<1>1. /\ n \in Nat \ {0} /\ Head(toDev) = toDev[1] /\ Len(toDev') = n - 1
      /\ \A i \in 2..n : i - 1 \in 1..Len(toDev') /\ toDev'[i - 1] = toDev[i]
      /\ Range(toDev) = {Head(toDev)} \cup Range(toDev')
  BY <1>0, SeqOrder, SeqRange
<1>2. Arriving("status") => \/ \E e \in Range(bus') : e.type = "in" /\ e.msg.cmd = "status"
                            \/ \E m \in Range(fromDev') : m.cmd = "status"
  <2>1. Carried(Marker("end"))
    <3>1. Marker("end").type # "out"
      BY DEF Marker
    <3> QED BY <3>1, DeviceCarries
  <2>2. \A m \in Range(fromDev) : m \in Range(fromDev') \/ MsgIn(m) \in Range(bus')
    BY <2>1 DEF Carried
  <2>3. \A m : MsgIn(m).type = "in" /\ MsgIn(m).msg = m
    BY DEF MsgIn
  <2> QED BY <1>0, <2>2, <2>3 DEF Arriving
\* What is not taken stays in order.
<1>3. ASSUME NEW c, Head(toDev).cmd # c
      PROVE  Sending(c) => \/ \E e \in Range(bus') : e.type = "out" /\ e.msg.cmd = c
                           \/ \E m \in Range(toDev') : m.cmd = c
  BY <1>0, <1>1, <1>3 DEF Sending
<1>4. ASSUME Head(toDev).cmd # "dump" PROVE DumpThenEnd => DumpThenEnd'
  <2>1. CASE \E j, k \in 1..n : j < k /\ toDev[j].cmd = "dump" /\ toDev[k].cmd = "end"
    <3>1. PICK j \in 1..n, k \in 1..n : j < k /\ toDev[j].cmd = "dump" /\ toDev[k].cmd = "end"
      BY <2>1
    <3> HIDE DEF n
    <3>2. j # 1
      BY <1>1, <1>4, <3>1
    <3>3. j \in 2..n /\ k \in 2..n
      BY <1>1, <3>1, <3>2
    <3>4. j - 1 \in 1..Len(toDev') /\ k - 1 \in 1..Len(toDev') /\ j - 1 < k - 1
          /\ toDev'[j - 1].cmd = "dump" /\ toDev'[k - 1].cmd = "end"
      <4>1. j - 1 \in 1..Len(toDev') /\ toDev'[j - 1] = toDev[j]
        BY <1>1, <3>3
      <4>2. k - 1 \in 1..Len(toDev') /\ toDev'[k - 1] = toDev[k]
        BY <1>1, <3>3
      <4>3. j - 1 < k - 1
        BY <3>1, <3>3
      <4> QED BY <3>1, <4>1, <4>2, <4>3
    <3>5. \E i, l \in 1..Len(toDev') : i < l /\ toDev'[i].cmd = "dump" /\ toDev'[l].cmd = "end"
      BY <3>4
    <3> QED BY <3>5 DEF DumpThenEnd
  <2>2. CASE (\E m \in Range(toDev) : m.cmd = "dump") /\ \E e \in Range(bus) : EndOut(e)
    <3>1. (\E m \in Range(toDev') : m.cmd = "dump") /\ \E e \in Range(bus') : EndOut(e)
      BY <1>0, <1>1, <1>4, <2>2
    <3> QED BY <3>1 DEF DumpThenEnd, EndOut
  <2>3. CASE \E j, k \in 1..Len(bus) : j < k /\ DumpOut(bus[j]) /\ EndOut(bus[k])
    BY <1>0, <2>3 DEF DumpThenEnd, DumpOut, EndOut
  <2> QED BY <2>1, <2>2, <2>3 DEF DumpThenEnd
<1>5. CASE XtDevReceive
  <2>1. Head(toDev).cmd \notin {"dump", "end"} /\ UNCHANGED devGot
    BY <1>5 DEF XtDevReceive
  <2> HIDE DEF n
  <2> QED BY <1>0, <1>2, <1>3, <1>4, <2>1 DEF DumpDue, StatusDue, Sending, Arriving
<1>6. CASE DevPatchDump
  <2>1. Head(toDev).cmd = "dump" /\ devGot' # "none"
    BY <1>6 DEF DevPatchDump
  <2>2. DumpThenEnd => Sending("end")
    <3>1. CASE \E j, k \in 1..n : j < k /\ toDev[j].cmd = "dump" /\ toDev[k].cmd = "end"
      <4>1. \E m \in Range(toDev) : m.cmd = "end"
        BY <1>0, <3>1, SeqOrder
      <4> QED BY <4>1 DEF Sending
    <3>2. CASE (\E m \in Range(toDev) : m.cmd = "dump") /\ \E e \in Range(bus) : EndOut(e)
      BY <3>2 DEF Sending, EndOut
    <3>3. CASE \E j, k \in 1..Len(bus) : j < k /\ DumpOut(bus[j]) /\ EndOut(bus[k])
      <4>1. bus \in Seq(XtEvents)
        BY DEF XtTypeOK
      <4>2. \E e \in Range(bus) : EndOut(e)
        BY <3>3, <4>1, SeqOrder
      <4> QED BY <4>2 DEF Sending, EndOut
    <3> QED BY <3>1, <3>2, <3>3 DEF DumpThenEnd
  <2>3. Sending("end") => \/ \E e \in Range(bus') : e.type = "out" /\ e.msg.cmd = "end"
                          \/ \E m \in Range(toDev') : m.cmd = "end"
    BY <1>3, <2>1
  <2> HIDE DEF n
  <2> QED BY <1>0, <1>2, <2>1, <2>2, <2>3 DEF DumpDue, StatusDue, Sending, Arriving
<1>7. CASE DevDumpEnd
  <2>1. Head(toDev).cmd = "end" /\ devGot' = "none"
    BY <1>7 DEF DevDumpEnd
  <2>2. CASE devGot # "none"
    <3> DEFINE x == StoreStatus(devGot = "stored")
    <3>1. fromDev' = Append(fromDev, x)
      BY <1>7, <2>2 DEF DevDumpEnd
    <3>2. x \in InMsgs /\ x.cmd = "status"
      BY XtMsgsTyped DEF StoreStatus
    <3> HIDE DEF x
    <3>3. x \in Range(fromDev')
      BY <1>0, <3>1, <3>2, SeqRange
    <3> QED BY <1>0, <3>2, <3>3 DEF DumpDue, StatusDue, Arriving
  <2>3. CASE devGot = "none"
    <3> HIDE DEF n
    <3> QED BY <1>0, <1>2, <1>3, <1>4, <2>1, <2>3 DEF DumpDue, StatusDue, Sending, Arriving
  <2> QED BY <2>2, <2>3
<1> QED BY <1>0, <1>5, <1>6, <1>7 DEF XtDeviceTask

\* The store itself: the dump goes first, the end marker, which arms the
\* timer, finds it under way.
LEMMA AnswerSent ==
    ASSUME XtTypeOK, Takes, NEW x \in XtEvents, bus' = Tail(bus) \o <<x>>
    PROVE  /\ x \in Range(bus') /\ Len(bus') = Len(bus) /\ bus'[Len(bus)] = x
           /\ Len(bus) \in Nat \ {0}
<1> DEFINE t == Tail(bus)
<1>1. t \in Seq(XtEvents) /\ Len(t) = Len(bus) - 1 /\ Len(bus) \in Nat \ {0}
  BY BusParts, HeadTailProperties, EmptySeq, LenProperties DEF Takes
<1>2. bus' = t \o <<x>>
  OBVIOUS
<1> HIDE DEF t
<1>3. t \o <<x>> = Append(t, x)
  BY <1>1, AppendIsConcat
<1>4. x \in Range(Append(t, x)) /\ Len(Append(t, x)) = Len(t) + 1 /\ Append(t, x)[Len(t) + 1] = x
  BY <1>1, SeqRange, SeqOrder
<1>5. Len(t) + 1 = Len(bus)
  BY <1>1
<1> QED BY <1>1, <1>2, <1>3, <1>4, <1>5

LEMMA StatusStored ==
    ASSUME XtTypeOK, PeerFree, StatusInv, XtDataOut
    PROVE  StatusInv'
<1>1. /\ Takes /\ Head(bus).type = "data" /\ UNCHANGED <<toDev, fromDev, devGot, handle>>
      /\ Head(bus) \in XtEvents /\ bus # <<>>
  BY HandlerSends, XtTaking DEF XtDataOut, devVars
<1>2. (DumpDue => DumpDue') /\ (StatusDue => StatusDue')
  BY <1>1, DueTaken
<1> DEFINE e == Head(bus)
           x == MsgOut(DumpMsg(e.buffer, e.content))
<1>3. CASE e.buffer \in Programs /\ e.request = "UI"
  <2>1. bus' = Tail(bus) \o <<x>>
    BY <1>3 DEF XtDataOut, Reply
  <2>2. x \in XtEvents /\ x.type = "out" /\ x.msg.cmd = "dump"
    <3>1. e.content \in Patch
      BY <1>1, XtEventKinds
    <3>2. DumpMsg(e.buffer, e.content) \in OutMsgs /\ DumpMsg(e.buffer, e.content).cmd = "dump"
      BY <1>3, <3>1, XtMsgsTyped DEF DumpMsg
    <3>3. x \in XtEvents
      BY <3>2, SendableTyped, SentTyped
    <3> QED BY <3>2, <3>3 DEF MsgOut
  <2> HIDE DEF x
  <2>3. x \in Range(bus')
    BY <1>1, <2>1, <2>2, AnswerSent
  <2> QED BY <1>1, <1>2, <2>2, <2>3 DEF StatusInv, DumpDue, Sending
<1>4. CASE ~(e.buffer \in Programs /\ e.request = "UI")
  <2>1. storing' = storing
    BY <1>4 DEF XtDataOut
  <2> QED BY <1>1, <1>2, <2>1 DEF StatusInv
<1> QED BY <1>3, <1>4

LEMMA StatusArmed ==
    ASSUME XtTypeOK, PeerFree, StatusInv, EndMarker
    PROVE  StatusInv'
<1>1. /\ Takes /\ Head(bus).type = "marker" /\ UNCHANGED <<toDev, fromDev, devGot, storing>>
      /\ Head(bus) \in XtEvents /\ bus # <<>>
  BY HandlerSends, XtTaking DEF EndMarker, coreVars, devVars
<1>2. (DumpDue => DumpDue') /\ (StatusDue => StatusDue')
  BY <1>1, DueTaken
<1>3. CASE storing = {}
  <2>1. handle' = handle
    BY <1>3 DEF EndMarker
  <2> QED BY <1>1, <1>2, <2>1 DEF StatusInv
<1>4. CASE storing # {}
  <2> DEFINE x == MsgOut(PatchDumpEnd)
  <2>1. bus' = Tail(bus) \o <<x>>
    BY DEF EndMarker, Reply
  <2>2. x \in XtEvents /\ EndOut(x)
    <3>1. PatchDumpEnd \in OutMsgs /\ PatchDumpEnd.cmd = "end"
      BY XtMsgsTyped DEF PatchDumpEnd
    <3>2. x \in XtEvents
      BY <3>1, SendableTyped, SentTyped
    <3> QED BY <3>1, <3>2 DEF MsgOut, EndOut
  <2> HIDE DEF x
  <2>3. x \in Range(bus') /\ Len(bus') = Len(bus) /\ bus'[Len(bus)] = x /\ Len(bus) \in Nat \ {0}
    BY <1>1, <2>1, <2>2, AnswerSent
  <2>4. DumpDue
    BY <1>4 DEF StatusInv
  <2>5. CASE \E m \in Range(toDev) : m.cmd = "dump"
    <3>1. (\E m \in Range(toDev') : m.cmd = "dump") /\ \E e \in Range(bus') : EndOut(e)
      BY <1>1, <2>2, <2>3, <2>5
    <3>2. StatusDue'
      BY <3>1 DEF StatusDue, DumpThenEnd, EndOut
    <3> QED BY <1>1, <1>2, <3>2 DEF StatusInv
  <2>6. CASE \E e \in Range(bus) : e.type = "out" /\ e.msg.cmd = "dump"
    <3>1. bus \in Seq(XtEvents)
      BY DEF XtTypeOK
    <3>2. PICK j \in 1..Len(bus) : DumpOut(bus[j])
      BY <2>6, <3>1, SeqOrder DEF DumpOut
    <3>3. j # 1
      BY <1>1, <3>2, TakesOrder DEF DumpOut
    <3>4. j \in 2..Len(bus)
      BY <2>3, <3>2, <3>3
    <3>5. j - 1 \in 1..Len(bus') /\ DumpOut(bus'[j - 1])
      BY <1>1, <3>2, <3>4, TakesOrder
    <3>6. j - 1 < Len(bus) /\ Len(bus) \in 1..Len(bus') /\ EndOut(bus'[Len(bus)])
      BY <2>2, <2>3, <3>4
    <3>7. \E i, l \in 1..Len(bus') : i < l /\ DumpOut(bus'[i]) /\ EndOut(bus'[l])
      BY <3>5, <3>6
    <3>8. StatusDue'
      BY <3>7 DEF StatusDue, DumpThenEnd, DumpOut, EndOut
    <3> QED BY <1>1, <1>2, <3>8 DEF StatusInv
  <2>7. CASE devGot # "none"
    <3>1. \E e \in Range(bus') : e.type = "out" /\ e.msg.cmd = "end"
      BY <2>2, <2>3 DEF EndOut
    <3>2. StatusDue'
      BY <1>1, <2>7, <3>1 DEF StatusDue, Sending
    <3> QED BY <1>1, <1>2, <3>2 DEF StatusInv
  <2>8. CASE Arriving("status")
    <3>1. StatusDue'
      BY <1>2, <2>8 DEF StatusDue
    <3> QED BY <1>1, <1>2, <3>1 DEF StatusInv
  <2> QED BY <2>4, <2>5, <2>6, <2>7, <2>8 DEF DumpDue, Sending
<1> QED BY <1>3, <1>4

\* StatusInv is kept by every step.
LEMMA StatusStep ==
    ASSUME ~PeerDumps, ~StatusMayBeLost, AnyInv, StatusInv, [XtNext]_xtVars
    PROVE  StatusInv'
<1>0. XtTypeOK /\ PeerFree
  BY DEF AnyInv
<1>1. ASSUME (DumpDue => DumpDue') /\ (StatusDue => StatusDue'), UNCHANGED storing,
             handle' = handle \/ handle # "none"
      PROVE  StatusInv'
  BY <1>1 DEF StatusInv
<1>2. CASE UNCHANGED xtVars
  <2>1. UNCHANGED <<storing, handle, bus, toDev, fromDev, devGot>>
    BY <1>2 DEF xtVars, ownVars, handlerVars, storeVars, vars, devVars
  <2> QED BY <1>0, <1>1, <2>1, PutsOne, DuePut
<1>3. CASE CoreTask
  <2>0. UNCHANGED <<storing, handle, devGot>>
    BY <1>3 DEF CoreTask, ownVars, handlerVars, storeVars
  <2>1. CASE HandleMsgOut
    BY <1>0, <1>1, <2>0, <2>1, ControlSends, DueMoved
  <2>2. CASE FinishProgramChange \/ Reload \/ ShowModified
    <3>1. UNCHANGED <<toDev, fromDev>>
      BY <2>2 DEF FinishProgramChange, Reload, ShowModified, devVars
    <3> QED BY <1>0, <1>1, <2>0, <2>2, <3>1, ControlSends, PutsOne, DuePut
  <2>3. CASE HandleControl \/ HandleName \/ HandleProgramChange \/ HandleCopy \/ HandleModified
                 \/ MidiControl \/ MidiProgram
    <3>1. UNCHANGED <<toDev, fromDev>> /\ Head(bus).type # "out"
          /\ ~(Head(bus).type = "in" /\ Head(bus).msg.cmd = "status")
      BY <2>3 DEF HandleControl, HandleName, HandleProgramChange, HandleCopy, HandleModified,
                  MidiControl, MidiProgram, devVars, Taking
    <3> QED BY <1>0, <1>1, <2>0, <2>3, <3>1, ControlSends, DueTaken
  <2> QED BY <1>3, <2>1, <2>2, <2>3 DEF CoreTask
<1>4. CASE XtDataOut \/ EndMarker
  BY <1>0, <1>4, StatusStored, StatusArmed
<1>5. CASE TimeoutMarker \/ StatusIn
  <2>1. storing' = {} /\ handle' = "none"
    BY <1>5 DEF TimeoutMarker, HandleAfterTimeout, StatusIn
  <2> QED BY <2>1 DEF StatusInv
<1>6. CASE XtTask /\ ~CoreTask /\ ~(XtDataOut \/ EndMarker) /\ ~(TimeoutMarker \/ StatusIn)
  <2>1. ~PatchDumpIn
    BY <1>0, HandlerSends
  <2>2. Takes
    BY <1>0, <1>6, <2>1, HandlerSends, QueueSends DEF XtTask
  <2>3. UNCHANGED <<toDev, fromDev, devGot, storing, handle>>
    BY <1>6, <2>1 DEF XtTask, LoadForPeer, LoadEditBuffer, LoadPatches, XtStore, XtDataIn,
                DataToEditBuffer, DataToProgram, EffectIn,
                NumberMarker, BufferDumpIn, PatchRequestIn, DumpEndIn,
                ProgramNumberIn, EditStateIn, NumberRequestIn, StateRequestIn, coreVars, devVars,
                ownVars, handlerVars, storeVars
  <2>4. Head(bus).type # "out" /\ ~(Head(bus).type = "in" /\ Head(bus).msg.cmd = "status")
    BY <1>6, <2>1 DEF XtTask, LoadForPeer, LoadEditBuffer, LoadPatches, XtStore, XtDataIn,
                EffectIn, NumberMarker, BufferDumpIn, PatchRequestIn, DumpEndIn,
                ProgramNumberIn, EditStateIn, NumberRequestIn, StateRequestIn, Receiving, Taking
  <2> QED BY <1>0, <1>1, <2>2, <2>3, <2>4, DueTaken
<1>7. CASE CoreUser
  <2>1. UNCHANGED <<storing, handle, devGot>>
    BY <1>7 DEF CoreUser, ownVars, handlerVars, storeVars
  <2> QED BY <1>0, <1>1, <1>7, <2>1, UserPuts, DuePut
<1>8. CASE XtUiSignal \/ XtCtlSignal \/ TimerFires
  <2>1. UNCHANGED <<storing, devGot>> /\ (handle' = handle \/ handle # "none")
    BY <1>8 DEF XtUiSignal, XtCtlSignal, TimerFires, ownVars, handlerVars, storeVars
  <2> QED BY <1>0, <1>1, <1>8, <2>1, SignalPuts, DuePut
<1>9. CASE XtDevice
  <2>1. UNCHANGED <<storing, handle, devGot>>
    BY <1>9 DEF XtDevice, DevKnob, DevProgram, PeerRequest, PeerDump, ownVars, handlerVars, storeVars
  <2>2. UNCHANGED <<bus, toDev>> /\ \E m \in InMsgs : fromDev' = Append(fromDev, m)
    BY <1>0, <1>9, DevicePuts
  <2> QED BY <1>0, <1>1, <2>1, <2>2, PutsOne, DuePut
<1>10. CASE XtMidiIn
  <2>1. UNCHANGED <<storing, handle, devGot, toDev>> /\ MidiIn
    BY <1>10 DEF XtMidiIn, MidiIn, ownVars, handlerVars, storeVars
  <2> QED BY <1>0, <1>1, <2>1, DuePut
<1>11. CASE XtDeviceTask
  <2>1. (DumpDue => DumpDue') /\ (StatusDue => StatusDue') /\ UNCHANGED storeVars
    BY <1>0, <1>11, DueServed
  <2> QED BY <1>1, <2>1 DEF storeVars
<1> QED BY <1>2, <1>3, <1>4, <1>5, <1>6, <1>7, <1>8, <1>9, <1>10, <1>11 DEF XtNext, XtSystem

-----------------------------------------------------------------------------
(* One thing at a time: who acts finds nothing in flight.                  *)

LEMMA ActsAtRest ==
    ASSUME XtTypeOK, MaxBacklog = 0, MayAct
    PROVE  Quiescent /\ Still /\ Only(<<>>, <<>>, <<>>)
<1>1. /\ Len(uiq) \in Nat /\ Len(ctq) \in Nat /\ Len(bus) \in Nat /\ Len(toDev) \in Nat
      /\ Len(fromDev) \in Nat
  BY LenProperties DEF XtTypeOK
<1>2. Backlog = 0 /\ app = Idle /\ Len(uiq) = 0 /\ Len(ctq) = 0
      /\ Len(bus) = 0 /\ Len(toDev) = 0 /\ Len(fromDev) = 0
  BY <1>1 DEF MayAct, Backlog
<1>3. /\ uiq \in Seq(Buttons \cup {"program"}) /\ ctq \in Seq(Signals)
      /\ bus \in Seq(XtEvents) /\ toDev \in Seq(OutMsgs) /\ fromDev \in Seq(InMsgs)
  BY DEF XtTypeOK
<1>4. uiq = <<>> /\ ctq = <<>> /\ bus = <<>> /\ toDev = <<>> /\ fromDev = <<>>
  BY <1>2, <1>3, EmptySeq
<1> QED BY <1>2, <1>4 DEF Quiescent, Still, Only

LEMMA OutsidersActAtRest ==
    ASSUME XtTypeOK, MaxBacklog = 0, Timely, CoreUser \/ XtDevice \/ TimerFires
    PROVE  MayAct
<1>1. Quiescent => MayAct
  BY DEF Quiescent, MayAct
<1>2. ~NewDevice
  BY XtBufferSets DEF NewDevice
<1>3. CASE CoreUser
  BY <1>2, <1>3 DEF CoreUser, User, UserEdit, UserRename, UserProgram, UserButton, UserGrid,
                    UserLoadUnmodified
<1>4. CASE XtDevice
  BY <1>4 DEF XtDevice, DevKnob, DevProgram, PeerRequest, PeerDump
<1>5. CASE TimerFires
  BY <1>1, <1>5 DEF TimerFires, MayTimeOut
<1> QED BY <1>3, <1>4, <1>5

\* While something is in flight and no signal is, only the task, the MIDI
\* thread and the device step.
LEMMA StillSteps ==
    ASSUME XtTypeOK, MaxBacklog = 0, Timely, Still, ~Only(<<>>, <<>>, <<>>), XtNext
    PROVE  XtTask \/ XtMidiIn \/ XtDeviceTask
<1>1. ~(CoreUser \/ XtDevice \/ TimerFires)
  BY OutsidersActAtRest, ActsAtRest
<1>2. ~XtUiSignal /\ ~XtCtlSignal
  BY DEF Still, XtUiSignal, XtCtlSignal, UiSignal, CtlSignal
<1> QED BY <1>1, <1>2 DEF XtNext, XtSystem

\* Which handler takes the event at the head of the bus.
LEMMA HandlerOf ==
    ASSUME XtTask, app = Idle
    PROVE  /\ bus # <<>>
           /\ Head(bus).type = "copy" => HandleCopy /\ UNCHANGED ownVars
           /\ Head(bus).type = "store" => XtStore
           /\ Head(bus).type = "load" => LoadForPeer \/ LoadEditBuffer \/ LoadPatches
           /\ Head(bus).type = "data" => XtDataOut \/ XtDataIn \/ EffectIn
           /\ Head(bus).type = "out" => HandleMsgOut /\ UNCHANGED ownVars
           /\ Head(bus).type = "in" /\ Head(bus).msg.cmd = "buffer" => BufferDumpIn
           /\ Head(bus).type = "in" /\ Head(bus).msg.cmd = "end" => DumpEndIn
<1>1. ~FinishProgramChange /\ ~Reload /\ ~ShowModified
  BY DEF FinishProgramChange, Reload, ShowModified, Idle
<1>2. CASE CoreTask
  <2>1. \/ HandleControl \/ HandleName \/ HandleProgramChange \/ HandleCopy \/ HandleModified
        \/ MidiControl \/ MidiProgram \/ HandleMsgOut
    BY <1>1, <1>2 DEF CoreTask
  <2>2. UNCHANGED ownVars
    BY <1>2 DEF CoreTask
  <2> HIDE DEF ownVars
  <2> QED BY <2>1, <2>2 DEF HandleControl, HandleName, HandleProgramChange, HandleCopy,
                HandleModified, MidiControl, MidiProgram, HandleMsgOut, Taking
<1>3. CASE ~CoreTask
  <2> USE DEF Receiving, Taking
  <2>1. CASE LoadForPeer \/ LoadEditBuffer \/ LoadPatches
    BY <2>1 DEF LoadForPeer, LoadEditBuffer, LoadPatches
  <2>2. CASE XtStore
    BY <2>2 DEF XtStore
  <2>3. CASE XtDataOut \/ XtDataIn \/ EffectIn
    BY <2>3 DEF XtDataOut, XtDataIn, EffectIn
  <2>4. CASE EndMarker \/ TimeoutMarker \/ NumberMarker
    BY <2>4 DEF EndMarker, TimeoutMarker, NumberMarker
  <2>5. CASE BufferDumpIn
    BY <2>5 DEF BufferDumpIn
  <2>6. CASE DumpEndIn
    BY <2>6 DEF DumpEndIn
  <2>7. CASE PatchDumpIn \/ PatchRequestIn \/ StatusIn
             \/ ProgramNumberIn \/ EditStateIn \/ NumberRequestIn \/ StateRequestIn
    BY <2>7 DEF PatchDumpIn, PatchRequestIn, StatusIn,
                ProgramNumberIn, EditStateIn, NumberRequestIn, StateRequestIn
  <2> QED BY <1>3, <2>1, <2>2, <2>3, <2>4, <2>5, <2>6, <2>7 DEF XtTask
<1> QED BY <1>2, <1>3

LEMMA AppendPair == ASSUME NEW x, NEW y PROVE Append(<<x>>, y) = <<x, y>>
<1>1. <<>> \in Seq({x, y}) /\ <<x, y>> \in Seq({x, y})
  BY Tuples
<1>2. Append(<<>>, x) = <<x>>
  OBVIOUS
<1>3. <<>> \o <<x, y>> = Append(Append(<<>>, x), y)
  BY <1>1, PairAppends
<1>4. <<>> \o <<x, y>> = <<x, y>>
  BY <1>1, ConcatEmptySeq
<1> QED BY <1>2, <1>3, <1>4

LEMMA ConcatPair == ASSUME NEW x, NEW y PROVE <<x>> \o <<y>> = <<x, y>>
<1>1. <<>> \in Seq({x, y}) /\ <<x>> \in Seq({x, y})
  BY Tuples
<1>2. <<x>> \o Append(<<>>, y) = Append(<<x>> \o <<>>, y)
  BY <1>1, ConcatAppend
<1>3. Append(<<>>, y) = <<y>>
  OBVIOUS
<1>4. <<x>> \o <<>> = <<x>>
  BY <1>1, ConcatEmptySeq
<1> QED BY <1>2, <1>3, <1>4, AppendPair

LEMMA ShortTuples ==
    ASSUME NEW x, NEW y
    PROVE  /\ <<>> \o <<>> = <<>> /\ <<>> \o <<x>> = <<x>> /\ <<>> \o <<x, y>> = <<x, y>>
           /\ <<x>> \o <<>> = <<x>> /\ <<x>> \o <<y>> = <<x, y>>
           /\ Append(<<>>, x) = <<x>> /\ Append(<<x>>, y) = <<x, y>>
           /\ <<x>> # <<>> /\ Head(<<x>>) = x /\ Tail(<<x>>) = <<>>
           /\ <<x, y>> # <<>> /\ Head(<<x, y>>) = x /\ Tail(<<x, y>>) = <<y>>
           /\ Range(<<>>) = {} /\ Range(<<x>>) = {x} /\ Range(<<x, y>>) = {x, y}
<1>1. <<>> \in Seq({x, y}) /\ <<x>> \in Seq({x, y}) /\ <<y>> \in Seq({x, y}) /\ <<x, y>> \in Seq({x, y})
  BY Tuples
<1>2. /\ <<>> \o <<>> = <<>> /\ <<>> \o <<x>> = <<x>> /\ <<>> \o <<x, y>> = <<x, y>>
      /\ <<x>> \o <<>> = <<x>>
  BY <1>1, ConcatEmptySeq
<1>3. /\ <<x>> # <<>> /\ Head(<<x>>) = x /\ <<x, y>> # <<>> /\ Head(<<x, y>>) = x
  OBVIOUS
<1>4. Tail(<<x>>) = <<>> /\ Tail(<<x, y>>) = <<y>>
  OBVIOUS
<1>5. Append(<<>>, x) = <<x>> /\ Append(<<x>>, y) = <<x, y>>
  <2>1. Append(<<>>, x) = <<x>>
    OBVIOUS
  <2> QED BY <2>1, AppendPair
<1>8. <<x>> \o <<y>> = <<x, y>>
  BY ConcatPair
<1>6. Range(<<>>) = {} /\ Range(<<x>>) = {x}
  BY RangeOfEmpty, RangeOfTuple
<1>7. Range(<<x, y>>) = {x, y}
  <2>1. Range(<<y>>) = {y}
    BY RangeOfTuple
  <2>2. Range(<<x, y>>) = {Head(<<x, y>>)} \cup Range(Tail(<<x, y>>))
    BY <1>1, <1>3, SeqRange
  <2> QED BY <1>3, <1>4, <2>1, <2>2
<1> QED BY <1>2, <1>3, <1>4, <1>5, <1>6, <1>7, <1>8

-----------------------------------------------------------------------------
(* A copy is alone on the bus.                                             *)

NoCopies == \A e \in Range(bus) : e.type # "copy"

\* Only the user adds a copy.
LEMMA CopiesAreOfUser ==
    ASSUME ~PeerDumps, XtTypeOK, PeerFree, NoCopies, XtNext
    PROVE  NoCopies' \/ CoreUser
<1>1. CASE XtTask
  <2>1. Takes \/ Grows
    <3>1. ~PatchDumpIn
      BY HandlerSends
    <3> QED BY <1>1, <3>1, ControlSends, HandlerSends, QueueSends DEF XtTask, CoreTask
  <2>2. CASE Takes
    <3>1. Range(bus') \subseteq Range(bus) \cup Sendable
      BY <2>2, TakesRange
    <3> QED BY <3>1 DEF NoCopies, Sendable
  <2>3. CASE Grows
    <3>1. PICK evs \in Seq(Sendable) : bus' = bus \o evs
      BY <2>3 DEF Grows
    <3>2. bus \in Seq(XtEvents) /\ evs \in Seq(XtEvents)
      <4>1. Sendable \subseteq XtEvents
        BY DEF Sendable
      <4> QED BY <4>1, SeqMonotonic DEF XtTypeOK
    <3>3. Range(bus') = Range(bus) \cup Range(evs)
      BY <3>1, <3>2, Concat
    <3>4. Range(evs) \subseteq Sendable
      BY SeqRange
    <3> QED BY <3>3, <3>4 DEF NoCopies, Sendable
  <2> QED BY <2>1, <2>2, <2>3
<1>2. ASSUME NEW e \in XtEvents, e.type # "copy", bus' = Append(bus, e) PROVE NoCopies'
  <2>1. bus \in Seq(XtEvents)
    BY DEF XtTypeOK
  <2>2. Range(bus') = Range(bus) \cup {e}
    BY <1>2, <2>1, SeqRange
  <2> QED BY <1>2, <2>2 DEF NoCopies
<1>3. CASE XtUiSignal
  <2>1. /\ \A b \in Buttons : ButtonEvent[b] \in XtEvents /\ ButtonEvent[b].type # "copy"
        /\ progOrigin # "NONE" /\ prog # Hidden =>
               PcEvent(prog, progOrigin) \in XtEvents /\ PcEvent(prog, progOrigin).type # "copy"
    <3>1. \A b \in Buttons : ButtonEvent[b] \in Sendable
      BY XtBufferSets, SendableTyped DEF ButtonEvent, Buttons, Origins
    <3>2. progOrigin # "NONE" /\ prog # Hidden => PcEvent(prog, progOrigin) \in Sendable
      BY XtBufferSets, SendableTyped DEF XtTypeOK
    <3> QED BY <3>1, <3>2 DEF Sendable
  <2>2. CASE UNCHANGED bus
    BY <2>2 DEF NoCopies
  <2>3. CASE \E b \in Buttons : bus' = Append(bus, ButtonEvent[b])
    BY <1>2, <2>1, <2>3
  <2>4. CASE progOrigin # "NONE" /\ prog # Hidden /\ bus' = Append(bus, PcEvent(prog, progOrigin))
    BY <1>2, <2>1, <2>4
  <2> QED BY <1>3, <2>2, <2>3, <2>4 DEF XtUiSignal, UiSignal
<1>4. CASE XtCtlSignal
  <2>1. CtlSignal /\ ctq # <<>>
    BY <1>4 DEF XtCtlSignal, CtlSignal
  <2>2. CcEvent(Head(ctq)) \in Sendable
    BY <2>1, TailTyped, SendableTyped
  <2> QED BY <1>2, <2>1, <2>2 DEF CtlSignal, Sendable
<1>5. CASE TimerFires
  <2>1. Marker("timeout") \in Sendable
    BY SendableTyped
  <2> QED BY <1>2, <1>5, <2>1 DEF TimerFires, Sendable
<1>6. CASE XtMidiIn
  <2>1. MidiIn /\ fromDev # <<>>
    BY <1>6 DEF XtMidiIn, MidiIn
  <2>2. MsgIn(Head(fromDev)) \in XtEvents /\ MsgIn(Head(fromDev)).type # "copy"
    BY <2>1, TailTyped, SentTyped DEF MsgIn
  <2> QED BY <1>2, <2>1, <2>2 DEF MidiIn
<1>7. CASE XtDevice \/ XtDeviceTask
  <2>1. UNCHANGED bus
    BY <1>7, DevicePuts DEF XtDeviceTask, XtDevReceive, DevPatchDump, DevDumpEnd
  <2> QED BY <2>1 DEF NoCopies
<1> QED BY <1>1, <1>3, <1>4, <1>5, <1>6, <1>7 DEF XtNext, XtSystem

\* CopyAlone is kept by every step.
LEMMA CopyStep ==
    ASSUME ~PeerDumps, MaxBacklog = 0, Timely, AnyInv, CopyAlone,
           [XtNext]_xtVars
    PROVE  CopyAlone'
<1>0. XtTypeOK /\ PeerFree
  BY DEF AnyInv
<1>1. CASE UNCHANGED xtVars
  <2>1. UNCHANGED <<bus, uiq, ctq, app, queue, toDev, fromDev>>
    BY <1>1 DEF xtVars, vars, uiVars, editVars, devVars, ownVars, handlerVars
  <2> QED BY <2>1 DEF CopyAlone, Still, Only
<1>2. NoCopies' => CopyAlone'
  BY DEF NoCopies, CopyAlone
<1>3. CASE NoCopies /\ XtNext
  <2>1. CASE CoreUser
    <3>1. User /\ UNCHANGED ownVars /\ Quiescent /\ Still /\ Only(<<>>, <<>>, <<>>)
      BY <1>0, <2>1, OutsidersActAtRest, ActsAtRest DEF CoreUser
    <3>2. queue = <<>> /\ queue' = <<>>
      BY <3>1, AtRest DEF RestMeansAnswered, ownVars, handlerVars
    <3>3. ASSUME NEW e, UserGrid(e) PROVE CopyAlone'
      <4>1. bus' = <<e>> /\ UNCHANGED <<uiq, ctq, app, toDev, fromDev>>
        BY <3>1, <3>3, ShortTuples DEF UserGrid, Only, uiVars, editVars, devVars
      <4>2. Range(bus') = {e}
        BY <4>1, ShortTuples
      <4> QED BY <3>1, <3>2, <4>1, <4>2 DEF CopyAlone, Still, Only
    <3>4. ASSUME NEW p \in Programs, UserLoadUnmodified(p) PROVE CopyAlone'
      <4>1. bus' = <<LoadEvent(p, "UI")>>
        BY <3>1, <3>4, ShortTuples DEF UserLoadUnmodified, Only
      <4>2. Range(bus') = {LoadEvent(p, "UI")}
        BY <4>1, ShortTuples
      <4> QED BY <1>2, <4>2 DEF NoCopies, LoadEvent
    <3>5. CASE UNCHANGED bus
      BY <1>2, <1>3, <3>5 DEF NoCopies
    <3>6. ~NewDevice
      BY XtBufferSets DEF NewDevice
    <3>7. (\E e : UserGrid(e)) \/ (\E p \in Programs : UserLoadUnmodified(p)) \/ UNCHANGED bus
      BY <3>1, <3>6 DEF User, UserEdit, UserRename, UserProgram, UserButton
    <3> QED BY <3>3, <3>4, <3>5, <3>7
  <2> QED BY <1>0, <1>2, <1>3, <2>1, CopiesAreOfUser
<1>4. CASE ~NoCopies /\ XtNext
  <2>1. PICK e \in Range(bus) : e.type = "copy"
    BY <1>4 DEF NoCopies
  <2>2. Still /\ Only(<<e>>, <<>>, <<>>)
    BY <2>1 DEF CopyAlone
  <2>3. bus # <<>> /\ Head(bus) = e /\ Tail(bus) = <<>> /\ app = Idle
    BY <2>2, ShortTuples DEF Only, Still
  <2>4. XtTask
    <3>1. ~XtMidiIn /\ ~XtDeviceTask
      BY <2>2 DEF Only, XtMidiIn, MidiIn, XtDeviceTask, XtDevReceive, DevPatchDump, DevDumpEnd
    <3> QED BY <1>0, <1>4, <2>2, <2>3, <3>1, StillSteps DEF Only
  <2>5. HandleCopy
    BY <2>1, <2>3, <2>4, HandlerOf
  <2>6. bus' = <<StoreEvent(e.from, "UI")>>
    BY <2>3, <2>5, ShortTuples DEF HandleCopy, Reply
  <2>7. Range(bus') = {StoreEvent(e.from, "UI")}
    BY <2>6, ShortTuples
  <2> QED BY <1>2, <2>7 DEF NoCopies, StoreEvent
<1> QED BY <1>1, <1>3, <1>4

-----------------------------------------------------------------------------
(* A route from its entry to the data that takes it.                       *)

Freed(b) == reroute' = [reroute EXCEPT ![b] = NoRoute]

\* Data of a buffer with a route is rerouted, wherever it comes from.
LEMMA DataFrees ==
    ASSUME XtTask, app = Idle, Head(bus).type = "data", NEW b \in Single,
           Head(bus).buffer = b, reroute[b] # NoRoute
    PROVE  Freed(b)
<1>1. XtDataOut \/ XtDataIn \/ EffectIn
  BY HandlerOf
<1>2. ~XtDataOut
  BY DEF XtDataOut, FromMidi, Rerouted
<1>3. ~EffectIn
  BY XtBufferSets DEF EffectIn
<1>4. TakeRoute
  BY <1>1, <1>2, <1>3 DEF XtDataIn, DataToEditBuffer, DataToProgram
<1> QED BY <1>4 DEF TakeRoute, Freed

\* A store asked for by a copy is not dropped: no status is awaited while
\* nothing but the store is in flight.
LEMMA StoreOfCopy ==
    ASSUME XtTypeOK, StatusInv, XtTask, Still, queue = <<>>, NEW b \in Single,
           Only(<<StoreEvent(b, "UI")>>, <<>>, <<>>)
    PROVE  UNCHANGED reroute /\ Still' /\ Copied(b)'
<1>1. bus # <<>> /\ Head(bus) = StoreEvent(b, "UI") /\ Tail(bus) = <<>>
      /\ Range(bus) = {StoreEvent(b, "UI")} /\ toDev = <<>> /\ fromDev = <<>>
  BY ShortTuples DEF Only
<1>2. handle = "none"
  <2>1. \A c : ~Sending(c) /\ ~Arriving(c)
    <3>1. Range(toDev) = {} /\ Range(fromDev) = {}
      BY <1>1, ShortTuples
    <3> QED BY <1>1, <3>1 DEF Sending, Arriving, StoreEvent
  <2>2. ~DumpThenEnd
    <3>1. \A e \in Range(bus) : ~EndOut(e)
      BY <1>1 DEF EndOut, StoreEvent
    <3>2. Len(toDev) = 0 /\ Len(bus) = 1
      BY <1>1 DEF Only
    <3> QED BY <3>1, <3>2 DEF DumpThenEnd
  <2> QED BY <2>1, <2>2 DEF StatusInv, StatusDue
<1>3. XtStore
  BY <1>1, HandlerOf DEF Still, StoreEvent
<1>4. PICK d \in Patch : Stored(b) = <<DataEvent(b, "UI", d)>>
  <2>1. b # Current /\ b # All /\ (b = EditBuffer \/ b \in Programs)
    BY BufferSets DEF Single, Dumpable
  <2>2. Stored(b) = <<DataEvent(b, "UI", IF b = EditBuffer THEN raw ELSE data[b])>>
    BY <2>1, BufferSets, PodCoreAssumption DEF Stored
  <2>3. (IF b = EditBuffer THEN raw ELSE data[b]) \in Patch
    BY <2>1 DEF XtTypeOK, Dump
  <2> QED BY <2>2, <2>3
<1>5. Requested(<<DataEvent(b, "UI", d)>>, "UI") = <<XtData(b, "UI", d, "UI")>>
  <2> DEFINE s == <<DataEvent(b, "UI", d)>>
             f == [i \in 1..1 |-> XtData(b, "UI", d, "UI")]
  <2>1. DOMAIN s = 1..1 /\ s[1].buffer = b /\ s[1].content = d
    BY DEF DataEvent
  <2>2. Requested(s, "UI") = f
    BY <2>1 DEF Requested
  <2>3. f = <<XtData(b, "UI", d, "UI")>>
    OBVIOUS
  <2> QED BY <2>2, <2>3
<1>6. WithEnd(<<XtData(b, "UI", d, "UI")>>) = <<XtData(b, "UI", d, "UI"), Marker("end")>>
  <2>1. ASSUME NEW x, NEW m, m = Marker("end") PROVE WithEnd(<<x>>) = <<x, m>>
    <3>1. <<x>> # <<>>
      BY ShortTuples
    <3>2. Append(<<x>>, m) = <<x, m>>
      BY AppendPair
    <3> QED BY <2>1, <3>1, <3>2 DEF WithEnd
  <2> QED BY <2>1
<1>7. bus' = <<XtData(b, "UI", d, "UI"), Marker("end")>>
  <2>1. bus' = <<>> \o WithEnd(Requested(Stored(b), "UI"))
    <3>1. Head(bus).buffer = b
      BY <1>1 DEF StoreEvent
    <3>2. bus' = Tail(bus) \o WithEnd(Requested(Stored(Head(bus).buffer), "UI"))
      BY <1>2, <1>3 DEF XtStore, Reply
    <3> QED BY <1>1, <3>1, <3>2
  <2> QED BY <1>4, <1>5, <1>6, <2>1, ShortTuples
<1>8. UNCHANGED <<uiq, ctq, app, toDev, fromDev, reroute, queue>>
  BY <1>3 DEF XtStore, coreVars, uiVars, editVars, devVars, ownVars, handlerVars
<1> QED BY <1>1, <1>7, <1>8 DEF Copied, Only, Still

\* A store of a copy goes on to its dump, and its dump takes the entry.
LEMMA CopiedStep ==
    ASSUME XtTypeOK, MaxBacklog = 0, Timely, StatusInv, XtNext, Still, NEW b \in Single,
           reroute[b] # NoRoute, Copied(b)
    PROVE  Freed(b) \/ (UNCHANGED reroute /\ Still' /\ Copied(b)')
<1>1. CASE queue = <<>> /\ Only(<<StoreEvent(b, "UI")>>, <<>>, <<>>)
  <2>1. XtTask
    <3>1. ~XtMidiIn /\ ~XtDeviceTask /\ ~Only(<<>>, <<>>, <<>>)
      BY <1>1, ShortTuples DEF Only, XtMidiIn, MidiIn, XtDeviceTask, XtDevReceive, DevPatchDump, DevDumpEnd
    <3> QED BY <3>1, StillSteps
  <2> QED BY <1>1, <2>1, StoreOfCopy
<1>2. ASSUME NEW d \in Patch, Only(<<XtData(b, "UI", d, "UI"), Marker("end")>>, <<>>, <<>>)
      PROVE  Freed(b)
  <2>1. bus # <<>> /\ Head(bus) = XtData(b, "UI", d, "UI") /\ toDev = <<>> /\ fromDev = <<>>
    BY <1>2, ShortTuples DEF Only
  <2>2. XtTask
    <3>1. ~XtMidiIn /\ ~XtDeviceTask /\ ~Only(<<>>, <<>>, <<>>)
      BY <2>1 DEF Only, XtMidiIn, MidiIn, XtDeviceTask, XtDevReceive, DevPatchDump, DevDumpEnd
    <3> QED BY <3>1, StillSteps
  <2> QED BY <2>1, <2>2, DataFrees DEF Still, XtData
<1> QED BY <1>1, <1>2 DEF Copied

\* The request of a load is the only one in the queue, and is sent.
LEMMA LoadOfRoute ==
    ASSUME XtTypeOK, XtTask, Still, queue = <<>>, NEW b \in Programs,
           Only(<<LoadEvent(b, "UI")>>, <<>>, <<>>)
    PROVE  UNCHANGED reroute /\ Still' /\ Request(b)'
<1>1. bus # <<>> /\ Head(bus) = LoadEvent(b, "UI") /\ Tail(bus) = <<>>
      /\ toDev = <<>> /\ fromDev = <<>>
  BY ShortTuples DEF Only
<1>2. Head(bus).type = "load" /\ Head(bus).origin = "UI" /\ Head(bus).buffer = b
  BY <1>1 DEF LoadEvent
<1>3. LoadPatches
  <2>1. b # EditBuffer
    BY PodCoreAssumption
  <2> QED BY <1>2, <2>1, HandlerOf DEF Still, LoadForPeer, LoadEditBuffer
<1>4. RequestsOf(b) = <<ReqMsg(b)>>
  BY PodCoreAssumption DEF RequestsOf
<1>5. queue' = <<ReqMsg(b)>>
  BY <1>2, <1>3, <1>4, ShortTuples DEF LoadPatches
<1>6. bus' = <<MsgOut(ReqMsg(b))>>
  <2>1. RequestsOf(b) # <<>> /\ queue' # <<>> /\ Head(queue') = ReqMsg(b)
    BY <1>4, <1>5, ShortTuples
  <2>2. bus' = <<>> \o SendFront(queue')
    BY <1>1, <1>2, <1>3, <2>1 DEF LoadPatches, Reply
  <2>3. SendFront(queue') = <<MsgOut(ReqMsg(b))>>
    BY <2>1 DEF SendFront
  <2> QED BY <2>2, <2>3, ShortTuples
<1>7. UNCHANGED <<uiq, ctq, app, toDev, fromDev, reroute>>
  BY <1>3 DEF LoadPatches, coreVars, uiVars, editVars, devVars
<1> QED BY <1>1, <1>5, <1>6, <1>7 DEF Request, Only, Still

LEMMA RequestOut ==
    ASSUME XtTypeOK, XtTask, Still, NEW b \in Programs, queue = <<ReqMsg(b)>>,
           Only(<<MsgOut(ReqMsg(b))>>, <<>>, <<>>)
    PROVE  UNCHANGED reroute /\ Still' /\ Request(b)'
<1>1. bus # <<>> /\ Head(bus) = MsgOut(ReqMsg(b)) /\ Tail(bus) = <<>>
      /\ toDev = <<>> /\ fromDev = <<>>
  BY ShortTuples DEF Only
<1>2. Head(bus).type = "out" /\ Head(bus).msg = ReqMsg(b) /\ Head(bus).msg.cmd = "request"
  BY <1>1 DEF MsgOut, ReqMsg
<1>3. HandleMsgOut /\ UNCHANGED ownVars
  BY <1>2, HandlerOf DEF Still
<1>4. bus' = <<>>
  <2>1. bus' = <<>> \o <<>>
    BY <1>1, <1>2, <1>3 DEF HandleMsgOut, Reply
  <2> QED BY <2>1, ShortTuples
<1>5. toDev' = <<ReqMsg(b)>>
  <2>1. toDev' = Append(<<>>, ReqMsg(b))
    BY <1>1, <1>2, <1>3 DEF HandleMsgOut
  <2> QED BY <2>1, ShortTuples
<1>6. UNCHANGED <<uiq, ctq, app, fromDev, reroute, queue>>
  BY <1>3 DEF HandleMsgOut, uiVars, editVars, ownVars, handlerVars
<1> QED BY <1>1, <1>4, <1>5, <1>6 DEF Request, Only, Still

LEMMA DeviceAnswers ==
    ASSUME XtTypeOK, XtDeviceTask, Still, NEW b \in Programs, queue = <<ReqMsg(b)>>,
           Only(<<>>, <<ReqMsg(b)>>, <<>>)
    PROVE  UNCHANGED reroute /\ Still' /\ Request(b)'
<1>1. toDev # <<>> /\ Head(toDev) = ReqMsg(b) /\ Tail(toDev) = <<>> /\ bus = <<>> /\ fromDev = <<>>
  BY ShortTuples DEF Only
<1>2. Head(toDev).cmd = "request" /\ Head(toDev).buffer = b
  BY <1>1 DEF ReqMsg
<1>3. XtDevReceive
  BY <1>2 DEF XtDeviceTask, DevPatchDump, DevDumpEnd
<1>4. PICK d \in Patch : d = devProgs[b]
  BY DEF XtTypeOK, Dump
<1>5. DumpOf(b) = <<BufferDump(d), PatchDumpEnd>>
  <2>1. b # EditBuffer /\ b \notin Effects
    BY PodCoreAssumption, XtHandlerAssumption DEF Buffers
  <2> QED BY <1>4, <2>1 DEF DumpOf
<1>6. fromDev' = <<BufferDump(d), PatchDumpEnd>>
  <2>1. fromDev' = <<>> \o DumpOf(b)
    BY <1>1, <1>2, <1>3 DEF XtDevReceive, Answer
  <2> QED BY <1>5, <2>1, ShortTuples
<1>7. toDev' = <<>> /\ bus' = <<>> /\ UNCHANGED <<uiq, ctq, app, reroute, queue>>
  BY <1>1, <1>3 DEF XtDevReceive, uiVars, editVars, handlerVars
<1>8. Only(<<>>, <<>>, <<BufferDump(d), PatchDumpEnd>>)'
  BY <1>6, <1>7 DEF Only
<1>9. queue' = <<ReqMsg(b)>> /\ Still'
  BY <1>7 DEF Still
<1>10. Request(b)'
  BY <1>4, <1>8, <1>9 DEF Request
<1> QED BY <1>7, <1>9, <1>10

\* The MIDI thread passes on what came in.
LEMMA MidiMoves ==
    ASSUME XtMidiIn, Still, NEW s, bus = s
    PROVE  /\ UNCHANGED <<reroute, queue, toDev>> /\ Still' /\ fromDev # <<>>
           /\ bus' = Append(s, MsgIn(Head(fromDev))) /\ fromDev' = Tail(fromDev)
BY DEF XtMidiIn, MidiIn, uiVars, editVars, Still, ownVars, handlerVars

\* An answer is taken for the patch that was asked for.
LEMMA AnswerNamed ==
    ASSUME XtTask, app = Idle, NEW b, queue = <<ReqMsg(b)>>, NEW d,
           bus # <<>>, Head(bus) = MsgIn(BufferDump(d))
    PROVE  /\ UNCHANGED <<uiq, ctq, app, reroute, queue, toDev, fromDev>>
           /\ bus' = Tail(bus) \o <<XtData(b, "MIDI", d, "UI")>>
<1>1. Head(bus).type = "in" /\ Head(bus).msg.cmd = "buffer" /\ Head(bus).msg.content = d
  BY DEF MsgIn, BufferDump
<1>2. BufferDumpIn
  BY <1>1, HandlerOf
<1>3. QueueNames = b
  <2>1. queue # <<>> /\ Head(queue) = ReqMsg(b)
    BY ShortTuples
  <2> QED BY <2>1 DEF QueueNames, HeadIs, ReqMsg
<1>4. UNCHANGED <<uiq, ctq, app, reroute, queue, toDev, fromDev>>
  BY <1>2 DEF BufferDumpIn, coreVars, uiVars, editVars, devVars, ownVars, handlerVars
<1> QED BY <1>1, <1>2, <1>3, <1>4 DEF BufferDumpIn, Reply

\* The end of the dump retires the request.
LEMMA EndRetires ==
    ASSUME XtTask, app = Idle, ~ack, NEW b, queue = <<ReqMsg(b)>>,
           NEW x, bus = <<MsgIn(PatchDumpEnd), x>>
    PROVE  /\ UNCHANGED <<uiq, ctq, app, reroute, toDev, fromDev>>
           /\ queue' = <<>> /\ bus' = <<x>>
<1>1. bus # <<>> /\ Head(bus) = MsgIn(PatchDumpEnd) /\ Tail(bus) = <<x>>
  BY ShortTuples
<1>2. Head(bus).type = "in" /\ Head(bus).msg.cmd = "end"
  BY <1>1 DEF MsgIn, PatchDumpEnd
<1>3. DumpEndIn
  BY <1>2, HandlerOf
<1>4. queue # <<>> /\ Tail(queue) = <<>>
  BY ShortTuples
<1>5. queue' = <<>> /\ Reply(<<>> \o SendFront(queue'))
  BY <1>3, <1>4 DEF DumpEndIn, NextRequest, Advance
<1>6. SendFront(queue') = <<>>
  BY <1>5 DEF SendFront
<1>7. bus' = <<x>> \o <<>>
  BY <1>1, <1>5, <1>6, ShortTuples DEF Reply
<1>8. UNCHANGED <<uiq, ctq, app, reroute, toDev, fromDev>>
  BY <1>3 DEF DumpEndIn, coreVars, uiVars, editVars, devVars
<1> QED BY <1>5, <1>7, <1>8, ShortTuples

\* A request of a copy goes on by one link, up to the data that takes the entry.
LEMMA RequestStep ==
    ASSUME XtTypeOK, ~ack, MaxBacklog = 0, Timely, XtNext, Still, NEW b \in Programs,
           reroute[b] # NoRoute, Request(b)
    PROVE  Freed(b) \/ (UNCHANGED reroute /\ Still' /\ Request(b)')
<1> DEFINE Kept == UNCHANGED reroute /\ Still' /\ Request(b)'
<1>0. b \in Single /\ b \notin Effects
  BY XtBufferSets
<1>1. app = Idle
  BY DEF Still
<1>2. ASSUME NEW s, NEW t, NEW f, Only(s, t, f), s # <<>> \/ t # <<>> \/ f # <<>>
      PROVE  /\ XtTask \/ XtMidiIn \/ XtDeviceTask
             /\ XtTask => s # <<>>
             /\ XtMidiIn => f # <<>>
             /\ XtDeviceTask => t # <<>>
  <2>1. ~Only(<<>>, <<>>, <<>>)
    BY <1>2 DEF Only
  <2>2. XtTask => s # <<>>
    BY <1>1, <1>2, HandlerOf DEF Only
  <2> QED BY <1>2, <2>1, <2>2, StillSteps DEF Only, XtMidiIn, MidiIn, XtDeviceTask,
             XtDevReceive, DevPatchDump, DevDumpEnd
<1>3. CASE queue = <<>> /\ Only(<<LoadEvent(b, "UI")>>, <<>>, <<>>)
  <2>1. XtTask
    BY <1>2, <1>3, ShortTuples
  <2> QED BY <1>3, <2>1, LoadOfRoute
<1>4. ASSUME NEW d \in Patch, Only(<<XtData(b, "MIDI", d, "UI")>>, <<>>, <<>>) PROVE Freed(b)
  <2>1. XtTask
    BY <1>2, <1>4, ShortTuples
  <2>2. Head(bus) = XtData(b, "MIDI", d, "UI")
    BY <1>4, ShortTuples DEF Only
  <2> QED BY <1>0, <1>1, <2>1, <2>2, DataFrees DEF XtData
<1>5. ASSUME queue = <<ReqMsg(b)>>, Only(<<MsgOut(ReqMsg(b))>>, <<>>, <<>>) PROVE Kept
  <2>1. XtTask
    BY <1>2, <1>5, ShortTuples
  <2> QED BY <1>5, <2>1, RequestOut
<1>6. ASSUME queue = <<ReqMsg(b)>>, Only(<<>>, <<ReqMsg(b)>>, <<>>) PROVE Kept
  <2>1. XtDeviceTask
    BY <1>2, <1>6, ShortTuples
  <2> QED BY <1>6, <2>1, DeviceAnswers
<1>7. ASSUME queue = <<ReqMsg(b)>>, NEW d \in Patch,
             Only(<<>>, <<>>, <<BufferDump(d), PatchDumpEnd>>)
      PROVE  Kept
  <2>1. XtMidiIn
    BY <1>2, <1>7, ShortTuples
  <2>2. bus = <<>> /\ Head(fromDev) = BufferDump(d) /\ Tail(fromDev) = <<PatchDumpEnd>>
        /\ toDev = <<>>
    BY <1>7, ShortTuples DEF Only
  <2>3. UNCHANGED <<reroute, queue, toDev>> /\ Still'
        /\ bus' = Append(<<>>, MsgIn(BufferDump(d))) /\ fromDev' = <<PatchDumpEnd>>
    BY <2>1, <2>2, MidiMoves
  <2>4. Only(<<MsgIn(BufferDump(d))>>, <<>>, <<PatchDumpEnd>>)'
    BY <2>2, <2>3, ShortTuples DEF Only
  <2> QED BY <1>7, <2>3, <2>4 DEF Request
<1>8. ASSUME queue = <<ReqMsg(b)>>, NEW d \in Patch,
             Only(<<MsgIn(BufferDump(d))>>, <<>>, <<PatchDumpEnd>>)
      PROVE  Kept
  <2>1. XtTask \/ XtMidiIn
    BY <1>2, <1>8, ShortTuples
  <2>2. bus = <<MsgIn(BufferDump(d))>> /\ toDev = <<>> /\ fromDev = <<PatchDumpEnd>>
    BY <1>8 DEF Only
  <2>3. CASE XtTask
    <3>1. bus # <<>> /\ Head(bus) = MsgIn(BufferDump(d)) /\ Tail(bus) = <<>>
      BY <2>2, ShortTuples
    <3>2. UNCHANGED <<uiq, ctq, app, reroute, queue, toDev, fromDev>>
          /\ bus' = Tail(bus) \o <<XtData(b, "MIDI", d, "UI")>>
      BY <1>1, <1>8, <2>3, <3>1, AnswerNamed
    <3>3. bus' = <<XtData(b, "MIDI", d, "UI")>>
      BY <3>1, <3>2, ShortTuples
    <3>4. Only(<<XtData(b, "MIDI", d, "UI")>>, <<>>, <<PatchDumpEnd>>)'
      BY <2>2, <3>2, <3>3 DEF Only
    <3> QED BY <1>8, <3>2, <3>4 DEF Request, Still
  <2>4. CASE XtMidiIn
    <3>1. UNCHANGED <<reroute, queue, toDev>> /\ Still'
          /\ bus' = Append(<<MsgIn(BufferDump(d))>>, MsgIn(PatchDumpEnd)) /\ fromDev' = <<>>
      BY <2>2, <2>4, MidiMoves, ShortTuples
    <3>2. bus' = <<MsgIn(BufferDump(d)), MsgIn(PatchDumpEnd)>>
      BY <3>1, AppendPair
    <3>3. Only(<<MsgIn(BufferDump(d)), MsgIn(PatchDumpEnd)>>, <<>>, <<>>)'
      BY <2>2, <3>1, <3>2 DEF Only
    <3> QED BY <1>8, <3>1, <3>3 DEF Request
  <2> QED BY <2>1, <2>3, <2>4
<1>9. ASSUME queue = <<ReqMsg(b)>>, NEW d \in Patch,
             Only(<<MsgIn(BufferDump(d)), MsgIn(PatchDumpEnd)>>, <<>>, <<>>)
      PROVE  Kept
  <2>1. XtTask
    BY <1>2, <1>9, ShortTuples
  <2>2. bus # <<>> /\ Head(bus) = MsgIn(BufferDump(d)) /\ Tail(bus) = <<MsgIn(PatchDumpEnd)>>
        /\ toDev = <<>> /\ fromDev = <<>>
    BY <1>9, ShortTuples DEF Only
  <2>3. UNCHANGED <<uiq, ctq, app, reroute, queue, toDev, fromDev>>
        /\ bus' = Tail(bus) \o <<XtData(b, "MIDI", d, "UI")>>
    BY <1>1, <1>9, <2>1, <2>2, AnswerNamed
  <2>4. bus' = <<MsgIn(PatchDumpEnd), XtData(b, "MIDI", d, "UI")>>
    BY <2>2, <2>3, ConcatPair
  <2>5. Only(<<MsgIn(PatchDumpEnd), XtData(b, "MIDI", d, "UI")>>, <<>>, <<>>)'
    BY <2>2, <2>3, <2>4 DEF Only
  <2> QED BY <1>9, <2>3, <2>5 DEF Request, Still
<1>10. ASSUME queue = <<ReqMsg(b)>>, NEW d \in Patch,
              Only(<<XtData(b, "MIDI", d, "UI")>>, <<>>, <<PatchDumpEnd>>)
       PROVE  Freed(b) \/ Kept
  <2>1. XtTask \/ XtMidiIn
    BY <1>2, <1>10, ShortTuples
  <2>2. bus = <<XtData(b, "MIDI", d, "UI")>> /\ toDev = <<>> /\ fromDev = <<PatchDumpEnd>>
    BY <1>10 DEF Only
  <2>3. CASE XtTask
    <3>1. Head(bus) = XtData(b, "MIDI", d, "UI")
      BY <2>2, ShortTuples
    <3> QED BY <1>0, <1>1, <2>3, <3>1, DataFrees DEF XtData
  <2>4. CASE XtMidiIn
    <3>1. UNCHANGED <<reroute, queue, toDev>> /\ Still'
          /\ bus' = Append(<<XtData(b, "MIDI", d, "UI")>>, MsgIn(PatchDumpEnd)) /\ fromDev' = <<>>
      BY <2>2, <2>4, MidiMoves, ShortTuples
    <3>2. bus' = <<XtData(b, "MIDI", d, "UI"), MsgIn(PatchDumpEnd)>>
      BY <3>1, AppendPair
    <3>3. Only(<<XtData(b, "MIDI", d, "UI"), MsgIn(PatchDumpEnd)>>, <<>>, <<>>)'
      BY <2>2, <3>1, <3>2 DEF Only
    <3> QED BY <1>10, <3>1, <3>3 DEF Request
  <2> QED BY <2>1, <2>3, <2>4
<1>11. ASSUME NEW d \in Patch,
              Only(<<XtData(b, "MIDI", d, "UI"), MsgIn(PatchDumpEnd)>>, <<>>, <<>>)
       PROVE  Freed(b)
  <2>1. XtTask
    BY <1>2, <1>11, ShortTuples
  <2>2. Head(bus) = XtData(b, "MIDI", d, "UI")
    BY <1>11, ShortTuples DEF Only
  <2> QED BY <1>0, <1>1, <2>1, <2>2, DataFrees DEF XtData
<1>12. ASSUME queue = <<ReqMsg(b)>>, NEW d \in Patch,
              Only(<<MsgIn(PatchDumpEnd), XtData(b, "MIDI", d, "UI")>>, <<>>, <<>>)
       PROVE  Kept
  <2>1. XtTask
    BY <1>2, <1>12, ShortTuples
  <2>2. bus = <<MsgIn(PatchDumpEnd), XtData(b, "MIDI", d, "UI")>> /\ toDev = <<>> /\ fromDev = <<>>
    BY <1>12 DEF Only
  <2>3. UNCHANGED <<uiq, ctq, app, reroute, toDev, fromDev>>
        /\ queue' = <<>> /\ bus' = <<XtData(b, "MIDI", d, "UI")>>
    BY <1>1, <1>12, <2>1, <2>2, EndRetires
  <2>4. Only(<<XtData(b, "MIDI", d, "UI")>>, <<>>, <<>>)'
    BY <2>2, <2>3 DEF Only
  <2> QED BY <2>3, <2>4 DEF Request, Still
<1> HIDE DEF Kept
<1>13. Freed(b) \/ Kept
  BY <1>3, <1>4, <1>5, <1>6, <1>7, <1>8, <1>9, <1>10, <1>11, <1>12 DEF Request, Kept
<1> QED BY <1>13 DEF Kept

\* A route is made by the user when nothing is in flight, or by a copy that
\* is alone on the bus.
LEMMA RouteMade ==
    ASSUME ~PeerDumps, MaxBacklog = 0, Timely, AnyInv, CopyAlone,
           \A b \in Dumpable : reroute[b] = NoRoute, XtNext
    PROVE  RouteShape'
<1>0. XtTypeOK
  BY DEF AnyInv
<1>1. CASE \A b \in Dumpable : reroute'[b] = NoRoute
  BY <1>1 DEF RouteShape
<1>2. CASE HandleCopy /\ UNCHANGED ownVars
  <2> DEFINE f == Head(bus).from
  <2>1. Head(bus).from \in Single /\ Head(bus).to \in Single /\ Head(bus).type = "copy"
    BY <1>0, <1>2, XtTaking, XtEventKinds DEF HandleCopy
  <2>2. Still /\ queue = <<>> /\ Only(<<Head(bus)>>, <<>>, <<>>)
    <3>1. Head(bus) \in Range(bus)
      BY <1>0, <1>2, HeadOnBus DEF HandleCopy, Taking, XtTypeOK
    <3> QED BY <2>1, <3>1 DEF CopyAlone
  <2>3. bus' = <<StoreEvent(f, "UI")>>
    <3>1. Tail(bus) = <<>>
      BY <2>2, ShortTuples DEF Only
    <3>2. bus' = <<>> \o <<StoreEvent(f, "UI")>>
      BY <1>2, <3>1 DEF HandleCopy, Reply
    <3> QED BY <3>2, ShortTuples
  <2>4. UNCHANGED <<uiq, ctq, app, toDev, fromDev, queue>>
        /\ reroute' = [reroute EXCEPT ![f] = Head(bus).to]
    BY <1>2 DEF HandleCopy, uiVars, editVars, devVars, ownVars, handlerVars
  <2>5. Still' /\ queue' = <<>> /\ toDev' = <<>> /\ fromDev' = <<>>
    BY <2>2, <2>4 DEF Still, Only
  <2>6. f \in Single /\ \A c \in Dumpable : c # f => reroute'[c] = NoRoute
    BY <1>0, <2>1, <2>4 DEF XtTypeOK
  <2> HIDE DEF f
  <2>7. ASSUME NEW b \in Dumpable, reroute'[b] # NoRoute
        PROVE  /\ Still' /\ \A c \in Dumpable : c # b => reroute'[c] = NoRoute
               /\ b \in Single /\ Copied(b)'
    <3>1. b = f
      BY <2>6, <2>7
    <3> QED BY <2>3, <2>5, <2>6, <3>1 DEF Copied, Only
  <2> QED BY <2>7 DEF RouteShape
<1>3. ASSUME NEW p \in Programs, UserLoadUnmodified(p), CoreUser PROVE RouteShape'
  <2>1. Quiescent /\ Still /\ Only(<<>>, <<>>, <<>>)
    BY <1>0, <1>3, OutsidersActAtRest, ActsAtRest
  <2>2. queue = <<>>
    BY <2>1, AtRest DEF RestMeansAnswered
  <2>3. bus' = <<LoadEvent(p, "UI")>>
    BY <1>3, <2>1, ShortTuples DEF UserLoadUnmodified, Only
  <2>4. UNCHANGED <<uiq, ctq, app, toDev, fromDev, queue>>
        /\ reroute' = [reroute EXCEPT ![p] = EditBuffer]
    BY <1>3 DEF UserLoadUnmodified, uiVars, editVars, devVars, CoreUser, ownVars, handlerVars
  <2>5. Still' /\ queue' = <<>> /\ toDev' = <<>> /\ fromDev' = <<>>
    BY <2>1, <2>2, <2>4 DEF Still, Only
  <2>6. p \in Single /\ \A c \in Dumpable : c # p => reroute'[c] = NoRoute
    BY <1>0, <2>4, XtBufferSets DEF XtTypeOK
  <2>7. ASSUME NEW b \in Dumpable, reroute'[b] # NoRoute
        PROVE  /\ Still' /\ \A c \in Dumpable : c # b => reroute'[c] = NoRoute
               /\ b \in Single /\ b \in Programs /\ Request(b)'
    <3>1. b = p
      BY <2>6, <2>7
    <3> QED BY <2>3, <2>5, <2>6, <3>1 DEF Request, Only
  <2> QED BY <2>7 DEF RouteShape
<1>4. \/ HandleCopy /\ UNCHANGED ownVars
      \/ \E p \in Programs : UserLoadUnmodified(p) /\ CoreUser
      \/ \A b \in Dumpable : reroute'[b] = NoRoute
  <2>1. TakeRoute => \A b \in Dumpable : reroute'[b] = NoRoute
    BY <1>0 DEF TakeRoute, XtTypeOK
  <2>2. HandleProgramChange => \A b \in Dumpable : reroute'[b] = NoRoute
    BY DEF HandleProgramChange, NoRoutes
  <2>3. UNCHANGED reroute => \A b \in Dumpable : reroute'[b] = NoRoute
    OBVIOUS
  <2>4. CASE CoreUser
    <3>1. ~NewDevice
      BY XtBufferSets DEF NewDevice
    <3> QED BY <2>3, <2>4, <3>1 DEF CoreUser, User, UserEdit, UserRename, UserProgram, UserButton, UserGrid
  <2>5. CASE CoreTask
    BY <2>2, <2>3, <2>5 DEF CoreTask, HandleControl, HandleName, FinishProgramChange, Reload,
                  HandleModified, ShowModified, MidiControl, MidiProgram, HandleMsgOut
  <2>6. CASE XtDataOut \/ XtDataIn
    BY <2>1, <2>6 DEF XtDataOut, XtDataIn, DataToEditBuffer, DataToProgram
  <2>7. CASE XtTask /\ ~CoreTask /\ ~(XtDataOut \/ XtDataIn)
    <3>1. UNCHANGED reroute
      BY <2>7 DEF XtTask, LoadForPeer, LoadEditBuffer, LoadPatches, XtStore, EffectIn,
            EndMarker, TimeoutMarker, NumberMarker, BufferDumpIn, PatchDumpIn, PatchRequestIn,
            DumpEndIn, StatusIn, ProgramNumberIn, EditStateIn, NumberRequestIn, StateRequestIn, coreVars
    <3> QED BY <2>3, <3>1
  <2>8. CASE XtDevice \/ XtDeviceTask
    <3>1. UNCHANGED reroute
      BY <2>8 DEF XtDevice, DevKnob, DevProgram, PeerRequest, PeerDump, XtDeviceTask,
                  XtDevReceive, DevPatchDump, DevDumpEnd
    <3> QED BY <2>3, <3>1
  <2>9. CASE XtUiSignal \/ XtCtlSignal \/ XtMidiIn \/ TimerFires
    BY <2>3, <2>9 DEF XtUiSignal, XtCtlSignal, XtMidiIn, TimerFires, UiSignal, CtlSignal, MidiIn, coreVars
  <2> QED BY <2>4, <2>5, <2>6, <2>7, <2>8, <2>9 DEF XtNext, XtSystem
<1> QED BY <1>1, <1>2, <1>3, <1>4

\* RouteShape is kept by every step.
LEMMA RouteStep ==
    ASSUME ~PeerDumps, MaxBacklog = 0, Timely, AnyInv, StatusInv, CopyAlone,
           RouteShape, [XtNext]_xtVars
    PROVE  RouteShape'
<1>0. XtTypeOK /\ ~ack
  BY DEF AnyInv
<1>1. CASE UNCHANGED xtVars
  <2>1. UNCHANGED <<bus, uiq, ctq, app, queue, toDev, fromDev, reroute>>
    BY <1>1 DEF xtVars, vars, uiVars, editVars, devVars, ownVars, handlerVars
  <2> QED BY <2>1 DEF RouteShape, Still, Only, Copied, Request
<1>2. CASE XtNext /\ \A b \in Dumpable : reroute[b] = NoRoute
  BY <1>2, RouteMade
<1>3. ASSUME XtNext, NEW b \in Dumpable, reroute[b] # NoRoute PROVE RouteShape'
  <2>1. /\ Still /\ \A c \in Dumpable : c # b => reroute[c] = NoRoute
        /\ b \in Single
        /\ Copied(b) \/ (b \in Programs /\ Request(b))
    BY <1>3 DEF RouteShape
  <2>2. CASE Freed(b)
    <3>1. \A c \in Dumpable : reroute'[c] = NoRoute
      BY <1>0, <2>1, <2>2 DEF Freed, XtTypeOK
    <3> QED BY <3>1 DEF RouteShape
  <2>3. CASE UNCHANGED reroute /\ Still' /\ (Copied(b)' \/ (b \in Programs /\ Request(b)'))
    <3>1. ASSUME NEW a \in Dumpable, reroute'[a] # NoRoute
          PROVE  /\ Still' /\ \A c \in Dumpable : c # a => reroute'[c] = NoRoute
                 /\ a \in Single /\ (Copied(a)' \/ (a \in Programs /\ Request(a)'))
      <4>1. a = b
        BY <2>1, <2>3, <3>1
      <4> QED BY <2>1, <2>3, <4>1
    <3> QED BY <3>1 DEF RouteShape
  <2>4. CASE Copied(b)
    BY <1>0, <1>3, <2>1, <2>2, <2>3, <2>4, CopiedStep
  <2>5. CASE b \in Programs /\ Request(b)
    BY <1>0, <1>3, <2>1, <2>2, <2>3, <2>5, RequestStep
  <2> QED BY <2>1, <2>4, <2>5
<1> QED BY <1>1, <1>2, <1>3

\* The data of a route answers the program's own user: no acknowledgement.
LEMMA NothingToAcknowledge ==
    ASSUME AnyInv, RouteShape, [XtNext]_xtVars
    PROVE  ~ack'
<1> SUFFICES ASSUME XtDataIn, Head(bus).request = "MIDI", Rerouted PROVE FALSE
  BY AckStep
<1> DEFINE b == Head(bus).buffer
<1>1. bus # <<>> /\ Head(bus).type = "data" /\ b \in Single /\ reroute[b] # NoRoute
  BY DataTargets DEF XtDataIn, Taking, AnyInv, Rerouted
<1>2. Copied(b) \/ Request(b)
  BY <1>1, BufferSets DEF RouteShape, Single
<1> HIDE DEF b
<1>4. Head(bus).request # "MIDI" \/ Head(bus).type # "data" \/ bus = <<>>
  <2> DEFINE G == Head(bus).request # "MIDI" \/ Head(bus).type # "data" \/ bus = <<>>
  <2>1. ASSUME NEW x, bus = <<x>> \/ \E y : bus = <<x, y>>, x.type # "data" \/ x.request = "UI"
        PROVE  G
    <3>1. Head(bus) = x
      BY <2>1, ShortTuples
    <3> QED BY <2>1, <3>1
  <2>2. /\ \A c, m : /\ StoreEvent(c, "UI").type # "data" /\ LoadEvent(c, "UI").type # "data"
                     /\ MsgOut(m).type # "data" /\ MsgIn(m).type # "data"
        /\ \A o, d, c : XtData(c, o, d, "UI").request = "UI"
    BY DEF StoreEvent, LoadEvent, MsgOut, MsgIn, XtData
  <2> HIDE DEF G
  <2>6. bus = <<>> => G
    BY DEF G
  <2>3. ASSUME Copied(b) PROVE G
    BY <2>1, <2>2, <2>3 DEF Copied, Only
  <2>4. ASSUME Request(b) PROVE G
    BY <2>1, <2>2, <2>4, <2>6 DEF Request, Only
  <2> QED BY <1>2, <2>3, <2>4 DEF G
<1> QED BY <1>1, <1>4

\* What takes a route is always under way.
LEMMA ShapeIsAwaited ==
    ASSUME RouteShape
    PROVE  XtRouteIsAwaited
<1> SUFFICES ASSUME NEW b \in Dumpable, reroute[b] # NoRoute
             PROVE  Awaited(b) \/ ReqMsg(b) \in Range(queue)
  BY DEF XtRouteIsAwaited
<1>1. Copied(b) \/ Request(b)
  BY DEF RouteShape
<1>2. ASSUME NEW s, NEW t, NEW f, Only(s, t, f), NEW e \in Range(s), Produces(e, b)
      PROVE  Awaited(b)
  BY <1>2 DEF Only, Awaited
<1>3. /\ Produces(StoreEvent(b, "UI"), b) /\ Produces(LoadEvent(b, "UI"), b)
      /\ \A o, d : Produces(XtData(b, o, d, "UI"), b)
  BY DEF Produces, StoreEvent, LoadEvent, XtData
<1>4. ASSUME NEW x, NEW y PROVE x \in Range(<<x>>) /\ x \in Range(<<x, y>>)
  <2>1. Range(<<x>>) = {x} /\ Range(<<x, y>>) = {x, y}
    BY ShortTuples
  <2> QED BY <2>1
<1>5. CASE queue = <<ReqMsg(b)>>
  BY <1>4, <1>5
<1>6. CASE Copied(b)
  BY <1>2, <1>3, <1>4, <1>6 DEF Copied
<1>7. CASE Request(b)
  BY <1>2, <1>3, <1>4, <1>5, <1>7 DEF Request
<1> QED BY <1>1, <1>6, <1>7

\* Initially no program is stored or copied.
LEMMA SeqInit ==
    ASSUME XtInit
    PROVE  SeqInv
<1>1. StatusInv
  BY DEF XtInit, StatusInv
<1>2. RouteShape
  BY DEF XtInit, RouteShape, NoRoutes
<1>3. CopyAlone
  <2>1. Range(bus) = {LoadEvent(All, "UI"), Marker("number")}
    BY ShortTuples DEF XtInit
  <2> QED BY <2>1 DEF CopyAlone, LoadEvent, Marker
<1> QED BY <1>1, <1>2, <1>3, AnyInit DEF SeqInv

\* When the user acts only at rest, waits for the device, and no status is
\* lost, no entry of the reroute table, no program that waits for its status
\* and no request is left over at rest: the whole of RestIsComplete.
THEOREM XtRestComplete ==
    ASSUME MaxBacklog = 0, Timely, ~PeerDumps, ~StatusMayBeLost
    PROVE  XtSpec => []RestIsComplete
<1>1. XtInit => SeqInv
  BY SeqInit
<1>2. SeqInv /\ [XtNext]_xtVars => SeqInv'
  <2> SUFFICES ASSUME SeqInv, [XtNext]_xtVars PROVE SeqInv'
    OBVIOUS
  <2>0. AnyInv /\ StatusInv /\ CopyAlone /\ RouteShape
    BY DEF SeqInv
  <2>1. AnyInv'
    <3>1. XtTypeOK'
      BY <2>0, XtTypeStep DEF AnyInv
    <3>2. QueueInv' /\ PeerFree'
      BY <2>0, QueueStep, PeerFreeStep
    <3>3. ~ack'
      BY <2>0, NothingToAcknowledge
    <3> QED BY <3>1, <3>2, <3>3 DEF AnyInv
  <2>2. StatusInv'
    BY <2>0, StatusStep
  <2>3. CopyAlone' /\ RouteShape'
    BY <2>0, CopyStep, RouteStep
  <2> QED BY <2>1, <2>2, <2>3 DEF SeqInv
<1>3. SeqInv => RestIsComplete
  BY AtRest, ShapeIsAwaited DEF SeqInv, RestIsComplete
<1> QED BY <1>1, <1>2, <1>3, PTL DEF XtSpec
=============================================================================
