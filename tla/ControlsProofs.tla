---------------------------- MODULE ControlsProofs ----------------------------
(***************************************************************************)
(* Controls for every set of moves and patches, and any number of them:    *)
(* the controls of a panel come to agree in whatever order the threads     *)
(* run, what comes from the device is not sent back to it, values survive  *)
(* their conversions, and the edit buffer is written.                      *)
(***************************************************************************)
EXTENDS ControlsProps, SequenceTheorems, TLAPS

Origins == {"UI", "MIDI", "NONE"}
AllNames == {"delay_time", "delay_time:msb", "delay_time:lsb",
             "effect_select:raw", "effect_select", "delay_enable",
             "tempo", "tempo:msb", "tempo:lsb", "mod_speed", "mod_speed:msb", "mod_speed:lsb",
             "mod_note_select", "stomp_param2", "stomp_param2_wave", "stomp_param2_octave",
             "pedal_assign", "pedal_assign_select"}

-----------------------------------------------------------------------------
(* Types.                                                                  *)

Signals == [name : AllNames \cup {"none"}, val : Nat, origin : Origins]
Events  == [type : {"cc", "in", "out", "load"}, sig : Signals]
           \cup [type : {"dump"}, regs : Registers(panel)]

Fits(s) == s \in Signals /\ s.name \in Names[panel] /\ s.val \in Values(s.name)

StoreType(st) ==
    /\ st = [ctl |-> st.ctl, queue |-> st.queue]
    /\ st.ctl \in [Names[panel] -> [val : Nat, origin : Origins]]
    /\ \A n \in Names[panel] : st.ctl[n].val \in Values(n)
    /\ st.queue \in Seq(Signals)
    /\ \A i \in DOMAIN st.queue : Fits(st.queue[i])

\* The callbacks of a control that are yet to run.
GtkType(g) ==
    \/ g = Idle
    \/ /\ g = [sig |-> g.sig, left |-> g.left]
       /\ Fits(g.sig)
       /\ \/ g.left = <<>>
          \/ g.left = Callbacks[g.sig.name]
          \/ Len(Callbacks[g.sig.name]) = 2 /\ g.left = Tail(Callbacks[g.sig.name])

FromDevice(s) ==
    /\ s.name \in Sent[panel] /\ s.val \in 0 .. 127
    /\ s.name = "effect_select:raw" => s.val \in Values(s.name)

EventType(e) ==
    \/ e.type = "cc" /\ Fits(e.sig)
    \/ e.type \in {"in", "out"} /\ FromDevice(e.sig)
    \/ e.type \in {"load", "dump"}

EventsType(b) == b \in Seq(Events) /\ \A i \in DOMAIN b : EventType(b[i])

TypeInv ==
    /\ panel \in Panels /\ slow \in BOOLEAN
    /\ StoreType(store) /\ GtkType(gtk)
    /\ EventsType(bus) /\ dev \in Registers(panel)

-----------------------------------------------------------------------------
(* The controls agree.                                                     *)

\* A change of the control is yet to be handled: its signal waits, or its callbacks
\* have not begun.
Queued(st, n) == \E i \in DOMAIN st.queue : st.queue[i].name = n

Waits(st, g, n) ==
    \/ Queued(st, n)
    \/ g.sig.name = n /\ g.left = Callbacks[n]

\* A half is that of the whole, unless the whole changed, or the half was set on its
\* own: then it will be joined.
HalfAgrees(st, g, w, h, x) ==
    \/ Waits(st, g, w)
    \/ Waits(st, g, h) /\ st.ctl[h].origin # "UI"
    \/ st.ctl[h].val = x

WholeAgrees(st, g, w) ==
    /\ HalfAgrees(st, g, w, Msb(w), st.ctl[w].val \div 128)
    /\ HalfAgrees(st, g, w, Lsb(w), st.ctl[w].val % 128)

EffectAgrees(st, g) ==
    \/ Waits(st, g, "effect_select:raw") \/ Waits(st, g, "effect_select")
    \/ st.ctl["effect_select"].val + 1 \in EffectOf(st.ctl["effect_select:raw"].val)

\* A control that shows another one follows it, or the user has set it: then the other
\* one will follow.
Follows(st, g, n, m, x) ==
    \/ Waits(st, g, m)
    \/ Waits(st, g, n) /\ st.ctl[n].origin = "UI"
    \/ st.ctl[n].val = x

VariantAgrees(st, g, n) ==
    Follows(st, g, n, "stomp_param2", FromMidi(Config(n), st.ctl["stomp_param2"].val))

PedalAgrees(st, g) ==
    Follows(st, g, "pedal_assign_select", "pedal_assign", BucketOf(st.ctl["pedal_assign"].val))

Agrees(st, g) ==
    /\ panel = "delay"   => WholeAgrees(st, g, "delay_time")
    /\ panel = "effects" => EffectAgrees(st, g)
    /\ panel = "tempo"   => WholeAgrees(st, g, "tempo") /\ WholeAgrees(st, g, "mod_speed")
    /\ panel = "stomp"   => /\ VariantAgrees(st, g, "stomp_param2_wave")
                            /\ VariantAgrees(st, g, "stomp_param2_octave")
    /\ panel = "pedal"   => PedalAgrees(st, g)

AgreeInv == Agrees(store, gtk)

-----------------------------------------------------------------------------
(* What comes from the device is not sent back.                            *)

Quietly == actors = {"device"} /\ (panel # "effects" \/ slow)

\* Neither a value nor a signal is the user's, and what comes to the application task
\* is not for the device.
QuietStore(st) == /\ \A n \in Names[panel] : st.ctl[n].origin # "UI"
                  /\ \A i \in DOMAIN st.queue : st.queue[i].origin # "UI"

QuietBus(b) == \A i \in DOMAIN b : /\ b[i].type \in {"cc", "in", "dump"}
                                   /\ b[i].type = "cc" => b[i].sig.origin # "UI"

\* What comes from the device comes to a panel at rest.
Alone(st, g, b) ==
    (\E i \in DOMAIN b : b[i].type # "cc") => st.queue = <<>> /\ g = Idle /\ Len(b) = 1

\* The effect is that of the number, and the switch says whether it has a delay: to
\* look up the number of the effect gives the number that is there.
Matches(st) ==
    LET r == st.ctl["effect_select:raw"].val
    IN /\ st.ctl["effect_select"].val + 1 \in EffectOf(r)
       /\ st.ctl["delay_enable"].val = AsInt(Delays(r))

QuietEffects(st, g, b) == Alone(st, g, b) /\ (Waits(st, g, "effect_select") => Matches(st))

Quiet(st, g, b) ==
    /\ QuietStore(st) /\ g.sig.origin # "UI" /\ QuietBus(b)
    /\ panel = "effects" => QuietEffects(st, g, b)

QuietInv == Quietly => Quiet(store, gtk, bus)

ControlsInv == TypeInv /\ AgreeInv /\ QuietInv

-----------------------------------------------------------------------------
(* The panels, control by control.                                         *)

LEMMA NamesAre ==
    /\ DOMAIN Names = {"delay", "effects", "tempo", "stomp", "pedal"}
    /\ Names["delay"] = {"delay_time", "delay_time:msb", "delay_time:lsb"}
    /\ Names["effects"] = {"effect_select:raw", "effect_select", "delay_enable"}
    /\ Names["tempo"] = {"tempo", "tempo:msb", "tempo:lsb", "mod_speed",
                         "mod_speed:msb", "mod_speed:lsb", "mod_note_select"}
    /\ Names["stomp"] = {"stomp_param2", "stomp_param2_wave", "stomp_param2_octave"}
    /\ Names["pedal"] = {"pedal_assign", "pedal_assign_select"}
  BY DEF Names

LEMMA NamedAre ==
    UNION Range(Names) = AllNames /\ \A p \in DOMAIN Names : Names[p] \subseteq AllNames
<1>1. Range(Names) = {Names["delay"], Names["effects"], Names["tempo"], Names["stomp"], Names["pedal"]}
  BY NamesAre DEF Range
<1>2. \A p \in DOMAIN Names : Names[p] \in Range(Names)
  BY DEF Range
<1>3. UNION Range(Names) = AllNames
  BY <1>1, NamesAre DEF AllNames
<1>4. QED
  BY <1>2, <1>3

LEMMA SentAre ==
    /\ Sent["delay"] = {"delay_time:msb", "delay_time:lsb"}
    /\ Sent["effects"] = {"effect_select:raw", "delay_enable"}
    /\ Sent["tempo"] = {"tempo:msb", "tempo:lsb", "mod_speed:msb", "mod_speed:lsb", "mod_note_select"}
    /\ Sent["stomp"] = {"stomp_param2"} /\ Sent["pedal"] = {"pedal_assign"}
<1>1. Sent = [p \in DOMAIN Names |->
                 CASE p = "delay"   -> Names["delay"] \ {"delay_time"}
                   [] p = "effects" -> Names["effects"] \ {"effect_select"}
                   [] p = "tempo"   -> Names["tempo"] \ {"tempo", "mod_speed"}
                   [] p = "stomp"   -> {"stomp_param2"}
                   [] p = "pedal"   -> {"pedal_assign"}]
  BY DEF Sent, Names
<1>2. QED
  BY <1>1, NamesAre

LEMMA AddressedAre ==
    /\ Addressed["delay"] = <<"delay_time">>
    /\ Addressed["effects"] = <<"effect_select:raw", "delay_enable">>
    /\ Addressed["tempo"] = <<"tempo:lsb", "tempo:msb", "mod_speed:lsb",
                              "mod_note_select", "mod_speed:msb">>
    /\ Addressed["stomp"] = <<"stomp_param2">>
    /\ Addressed["pedal"] = <<"pedal_assign">>
  BY DEF Addressed

LEMMA ShownAre ==
    /\ Shown["delay"] = {"delay_time"}
    /\ Shown["effects"] = {"effect_select", "delay_enable"}
    /\ Shown["tempo"] = {"tempo", "mod_speed", "mod_note_select"}
    /\ Shown["stomp"] = {"stomp_param2", "stomp_param2_wave", "stomp_param2_octave"}
    /\ Shown["pedal"] = {"pedal_assign_select"}
  BY DEF Shown

LEMMA EffectsAre ==
    /\ DOMAIN Effects = 1 .. 3
    /\ Numbers(1) = {6, 10} /\ Numbers(2) = {14} /\ Numbers(3) = {2}
    /\ Effects[1].delay = {6} /\ Effects[1].clean = {10}
    /\ Effects[2].delay = {14} /\ Effects[2].clean = {}
    /\ Effects[3].delay = {} /\ Effects[3].clean = {2}
<1>1. DOMAIN Effects = 1 .. 3
  BY DEF Effects
<1>2. /\ Effects[1] = [delay |-> {6},  clean |-> {10}]
      /\ Effects[2] = [delay |-> {14}, clean |-> {}]
      /\ Effects[3] = [delay |-> {},   clean |-> {2}]
  BY DEF Effects
<1>3. QED
  BY <1>1, <1>2 DEF Numbers

\* A whole has 14 bits, a half or another byte 7; a list has its rows.
Bits14 == 0 .. 16383
Wholes == {"delay_time", "tempo", "mod_speed"}
Halves == {"delay_time:msb", "delay_time:lsb", "tempo:msb", "tempo:lsb",
           "mod_speed:msb", "mod_speed:lsb"}
Bytes  == Halves \cup {"mod_note_select", "stomp_param2", "pedal_assign"}

LEMMA BoundsAre ==
    /\ \A v : v \in Bounds(Normal) <=> v \in 0 .. 127
    /\ \A v : v \in Bounds(Switch(FALSE)) <=> v \in 0 .. 1
    /\ \A v : v \in Bounds(Steps(Eight)) <=> v \in 0 .. 7
    /\ \A v : v \in Bounds(Short(0, 8, TRUE)) <=> v \in 0 .. 8
<1>1. \A v : v \in Bounds(Normal) <=> v \in 0 .. 127
  <2>1. Normal.kind = "normal"
    BY DEF Normal
  <2>2. QED
    BY <2>1 DEF Bounds
<1>2. \A v : v \in Bounds(Switch(FALSE)) <=> v \in 0 .. 1
  <2>1. Switch(FALSE).kind = "switch"
    BY DEF Switch
  <2>2. QED
    BY <2>1 DEF Bounds
<1>3. \A v : v \in Bounds(Steps(Eight)) <=> v \in 0 .. 7
  <2>1. Steps(Eight).kind = "steps" /\ Steps(Eight).steps = Eight /\ Len(Eight) = 8
    BY DEF Steps, Eight
  <2>2. QED
    BY <2>1 DEF Bounds
<1>4. \A v : v \in Bounds(Short(0, 8, TRUE)) <=> v \in 0 .. 8
  <2>1. /\ Short(0, 8, TRUE).kind = "short"
        /\ Short(0, 8, TRUE).from = 0 /\ Short(0, 8, TRUE).to = 8
    BY DEF Short
  <2>2. QED
    BY <2>1 DEF Bounds
<1>5. QED
  BY <1>1, <1>2, <1>3, <1>4

LEMMA WholeValues == \A n \in Wholes : Values(n) = Bits14
  BY DEF Wholes, Values, Bits14

LEMMA InBits14 == ASSUME NEW v \in Nat, v < 16384 PROVE v \in Bits14
  BY SMTT(60) DEF Bits14

LEMMA Bits14Are ==
    /\ \A v \in Bits14 : /\ v \in Nat /\ v \div 128 \in 0 .. 127 /\ v % 128 \in 0 .. 127
                         /\ v = (v \div 128) * 128 + (v % 128)
    /\ \A a, b \in 0 .. 127 : /\ a * 128 + b \in Bits14
                              /\ (a * 128 + b) \div 128 = a /\ (a * 128 + b) % 128 = b
<1>2. ASSUME NEW v \in Bits14
      PROVE  /\ v \in Nat /\ v \div 128 \in 0 .. 127 /\ v % 128 \in 0 .. 127
             /\ v = (v \div 128) * 128 + (v % 128)
  <2>1. v \in Nat /\ v < 16384
    BY DEF Bits14
  <2>2. QED
    BY <2>1
<1>3. ASSUME NEW a \in 0 .. 127, NEW b \in 0 .. 127
      PROVE  /\ a * 128 + b \in Bits14
             /\ (a * 128 + b) \div 128 = a /\ (a * 128 + b) % 128 = b
  <2>1. a * 128 + b \in Nat /\ a * 128 + b < 16384
    OBVIOUS
  <2>2. QED
    BY <2>1, InBits14
<1>4. QED
  BY <1>2, <1>3

LEMMA ByteValues == \A n \in Bytes : \A v : v \in Values(n) <=> v \in 0 .. 127
<1>1. SUFFICES ASSUME NEW n \in Bytes PROVE \A v : v \in Values(n) <=> v \in 0 .. 127
  OBVIOUS
<1>2. /\ n \notin {"delay_time", "tempo", "mod_speed"} /\ n # "effect_select:raw"
      /\ n \notin {"effect_select", "pedal_assign_select"}
      /\ n # "delay_time" /\ n # "delay_enable" /\ n # "stomp_param2_wave"
      /\ n # "stomp_param2_octave"
  BY DEF Bytes, Halves
<1>3. \A v : v \in Values(n) <=> v \in Bounds(Config(n))
  BY <1>2 DEF Values
<1>4. Config(n) = Normal
  BY <1>2 DEF Config
<1>5. QED
  BY <1>3, <1>4, BoundsAre

LEMMA RowValues ==
    /\ \A v : v \in Values("effect_select") <=> v \in 0 .. 2
    /\ \A v : v \in Values("pedal_assign_select") <=> v \in 0 .. 2
  BY DEF Values

LEMMA EffectValues == \A v : v \in Values("effect_select:raw") <=> v \in {2, 6, 10, 14}
<1>1. \A v : v \in Values("effect_select:raw") <=> \E e \in 1 .. 3 : v \in Numbers(e)
  BY EffectsAre DEF Values
<1>2. QED
  BY <1>1, EffectsAre

LEMMA OtherValues ==
    /\ \A v : v \in Values("delay_enable") <=> v \in 0 .. 1
    /\ \A v : v \in Values("stomp_param2_wave") <=> v \in 0 .. 7
    /\ \A v : v \in Values("stomp_param2_octave") <=> v \in 0 .. 8
<1>1. \A v : v \in Values("delay_enable") <=> v \in 0 .. 1
  <2>1. \A v : v \in Values("delay_enable") <=> v \in Bounds(Switch(FALSE))
    BY DEF Values, Config
  <2>2. QED
    BY <2>1, BoundsAre
<1>2. \A v : v \in Values("stomp_param2_wave") <=> v \in 0 .. 7
  <2>1. \A v : v \in Values("stomp_param2_wave") <=> v \in Bounds(Steps(Eight))
    BY DEF Values, Config
  <2>2. QED
    BY <2>1, BoundsAre
<1>3. \A v : v \in Values("stomp_param2_octave") <=> v \in 0 .. 8
  <2>1. \A v : v \in Values("stomp_param2_octave") <=> v \in Bounds(Short(0, 8, TRUE))
    BY DEF Values, Config
  <2>2. QED
    BY <2>1, BoundsAre
<1>4. QED
  BY <1>1, <1>2, <1>3

LEMMA ValuesNat == \A n \in AllNames : \A v \in Values(n) : v \in Nat
<1>1. \A n \in AllNames :
          \/ n \in Wholes \/ n \in Bytes \/ n = "effect_select" \/ n = "pedal_assign_select"
          \/ n = "effect_select:raw" \/ n = "delay_enable"
          \/ n = "stomp_param2_wave" \/ n = "stomp_param2_octave"
  BY DEF AllNames, Wholes, Bytes, Halves
<1>2. \A n \in Wholes : \A v \in Values(n) : v \in Nat
  BY WholeValues, Bits14Are
<1>3. \A n \in Bytes : \A v \in Values(n) : v \in Nat
  BY ByteValues
<1>4. /\ \A v \in Values("effect_select") : v \in Nat
      /\ \A v \in Values("pedal_assign_select") : v \in Nat
  BY RowValues
<1>5. /\ \A v \in Values("effect_select:raw") : v \in Nat
      /\ \A v \in Values("delay_enable") : v \in Nat
      /\ \A v \in Values("stomp_param2_wave") : v \in Nat
      /\ \A v \in Values("stomp_param2_octave") : v \in Nat
  BY EffectValues, OtherValues
<1>6. QED
  BY <1>1, <1>2, <1>3, <1>4, <1>5

LEMMA CallbacksAre ==
    /\ Callbacks["delay_time"] = <<"split">>
    /\ \A n \in {"delay_time:msb", "tempo:msb", "mod_speed:msb"} : Callbacks[n] = <<"join_msb">>
    /\ \A n \in {"delay_time:lsb", "tempo:lsb", "mod_speed:lsb"} : Callbacks[n] = <<"join_lsb">>
    /\ Callbacks["tempo"] = <<"split", "tempo_speed">>
    /\ Callbacks["mod_speed"] = <<"split", "reset_note">>
    /\ Callbacks["mod_note_select"] = <<"tempo_speed">>
    /\ Callbacks["effect_select:raw"] = <<"from_raw">>
    /\ Callbacks["effect_select"] = <<"to_raw">>
    /\ Callbacks["delay_enable"] = <<"delay_reset">>
    /\ Callbacks["stomp_param2"] = <<"variants">>
    /\ \A n \in {"stomp_param2_wave", "stomp_param2_octave"} : Callbacks[n] = <<"param">>
    /\ Callbacks["pedal_assign"] = <<"bucket">>
    /\ Callbacks["pedal_assign_select"] = <<"assign">>
  BY NamedAre DEF Callbacks, AllNames

-----------------------------------------------------------------------------
(* The store.                                                              *)

\* Signals of the controls ns, from o as they are themselves, are put behind those that
\* wait; one for each control whose value or origin is new.
Appends(st, st2, ns, o) ==
    /\ \A i \in DOMAIN st.queue : i \in DOMAIN st2.queue /\ st2.queue[i] = st.queue[i]
    /\ \A i \in DOMAIN st2.queue \ DOMAIN st.queue :
          /\ st2.queue[i].name \in ns /\ st2.queue[i].origin = o
          /\ st2.ctl[st2.queue[i].name].origin = o
    /\ \A m \in Names[panel] : st2.ctl[m] # st.ctl[m] =>
          /\ m \in ns /\ st2.ctl[m].origin = o
          /\ \E i \in DOMAIN st2.queue : st2.queue[i].name = m /\ st2.queue[i].origin = o

\* The controls ns have a new value, or the one they had; who is new came from o and
\* has a signal.
Changes(st, st2, ns, o) ==
    /\ StoreType(st2) /\ Appends(st, st2, ns, o)
    /\ \A m \in Names[panel] :
          \/ st2.ctl[m] = st.ctl[m]
          \/ m \in ns /\ st2.ctl[m].origin = o /\ Queued(st2, m)
    /\ \A m : Queued(st, m) => Queued(st2, m)
    /\ \A i \in DOMAIN st2.queue :
          \/ \E j \in DOMAIN st.queue : st2.queue[i] = st.queue[j]
          \/ st2.queue[i].name \in ns /\ st2.queue[i].origin = o

LEMMA PanelNames ==
    ASSUME panel \in DOMAIN Names PROVE Names[panel] \subseteq AllNames
  BY NamedAre

LEMMA ForcedChanges ==
    ASSUME panel \in DOMAIN Names, NEW st, StoreType(st),
           NEW n \in Names[panel], NEW v \in Values(n), NEW o \in Origins
    PROVE  /\ Changes(st, SetForced(st, n, v, o), {n}, o)
           /\ SetForced(st, n, v, o).ctl[n] = [val |-> v, origin |-> o]
<1> DEFINE st2 == SetForced(st, n, v, o)
<1>1. /\ st2.ctl = [st.ctl EXCEPT ![n] = [val |-> v, origin |-> o]]
      /\ st2.queue = Append(st.queue, Signal(n, v, o))
  BY DEF SetForced
<1>2. v \in Nat /\ n \in AllNames
  BY PanelNames, ValuesNat
<1>3. /\ st.ctl \in [Names[panel] -> [val : Nat, origin : Origins]] /\ st.queue \in Seq(Signals)
      /\ \A m \in Names[panel] : st.ctl[m].val \in Values(m)
      /\ \A i \in DOMAIN st.queue : Fits(st.queue[i])
  BY DEF StoreType
<1>4. Signal(n, v, o) \in Signals /\ Fits(Signal(n, v, o))
  BY <1>2 DEF Signal, Signals, Fits
<1>5. /\ st2.queue \in Seq(Signals) /\ Len(st2.queue) = Len(st.queue) + 1
      /\ \A i \in DOMAIN st.queue : i \in DOMAIN st2.queue /\ st2.queue[i] = st.queue[i]
      /\ st2.queue[Len(st.queue) + 1] = Signal(n, v, o)
      /\ \A i \in DOMAIN st2.queue : i \in DOMAIN st.queue \/ i = Len(st.queue) + 1
      /\ Len(st.queue) + 1 \in DOMAIN st2.queue
  BY <1>1, <1>3, <1>4
<1>6. StoreType(st2)
  <2>1. st2.ctl \in [Names[panel] -> [val : Nat, origin : Origins]]
    BY <1>1, <1>2, <1>3
  <2>2. \A m \in Names[panel] : st2.ctl[m].val \in Values(m)
    BY <1>1, <1>3
  <2>3. \A i \in DOMAIN st2.queue : Fits(st2.queue[i])
    BY <1>3, <1>4, <1>5
  <2>4. st2 = [ctl |-> st2.ctl, queue |-> st2.queue]
    BY DEF SetForced
  <2>5. QED
    BY <2>1, <2>2, <2>3, <2>4, <1>5 DEF StoreType
<1>7. Signal(n, v, o).name = n /\ Signal(n, v, o).origin = o
  BY DEF Signal
<1>8. Queued(st2, n) /\ \A m : Queued(st, m) => Queued(st2, m)
  BY <1>5, <1>7 DEF Queued
<1>9. /\ st2.ctl[n] = [val |-> v, origin |-> o]
      /\ \A m \in Names[panel] : m = n \/ st2.ctl[m] = st.ctl[m]
  BY <1>1, <1>3
<1>10. \A i \in DOMAIN st2.queue :
          \/ \E j \in DOMAIN st.queue : st2.queue[i] = st.queue[j]
          \/ st2.queue[i].name \in {n} /\ st2.queue[i].origin = o
  BY <1>5, <1>7
<1>11. Appends(st, st2, {n}, o)
  <2>1. \A i \in DOMAIN st2.queue \ DOMAIN st.queue : st2.queue[i] = Signal(n, v, o)
    BY <1>5
  <2>2. /\ Signal(n, v, o).name = n /\ Signal(n, v, o).origin = o /\ st2.ctl[n].origin = o
        /\ Len(st.queue) + 1 \in DOMAIN st2.queue
        /\ st2.queue[Len(st.queue) + 1] = Signal(n, v, o)
    BY <1>5, <1>7, <1>9
  <2> HIDE DEF st2
  <2>3. QED
    BY <1>5, <1>9, <2>1, <2>2 DEF Appends
<1>12. QED
  BY <1>6, <1>8, <1>9, <1>10, <1>11 DEF Changes

LEMMA SetChanges ==
    ASSUME panel \in DOMAIN Names, NEW st, StoreType(st),
           NEW n \in Names[panel], NEW v \in Values(n), NEW o \in Origins
    PROVE  /\ Changes(st, Set(st, n, v, o), {n}, o)
           /\ Set(st, n, v, o).ctl[n].val = v
<1>1. CASE st.ctl[n].val = v
  <2>1. Set(st, n, v, o) = st
    BY <1>1 DEF Set
  <2>2. QED
    BY <1>1, <2>1 DEF Changes, Appends
<1>2. CASE st.ctl[n].val # v
  <2>1. Set(st, n, v, o) = SetForced(st, n, v, o)
    BY <1>2 DEF Set
  <2>2. /\ Changes(st, SetForced(st, n, v, o), {n}, o)
        /\ SetForced(st, n, v, o).ctl[n] = [val |-> v, origin |-> o]
    BY ForcedChanges
  <2>3. QED
    BY <2>1, <2>2
<1>3. QED
  BY <1>1, <1>2

LEMMA NoChange ==
    ASSUME NEW st, StoreType(st), NEW ns, NEW o PROVE Changes(st, st, ns, o)
  BY DEF Changes, Appends

LEMMA AppendsTwice ==
    ASSUME NEW st, NEW st2, NEW st3, NEW ns, NEW ns2, NEW all, NEW o,
           Changes(st, st2, ns, o), Changes(st2, st3, ns2, o),
           ns \subseteq all, ns2 \subseteq all
    PROVE  Appends(st, st3, all, o)
<1>1. Appends(st, st2, ns, o) /\ Appends(st2, st3, ns2, o) /\ StoreType(st2) /\ StoreType(st3)
  BY DEF Changes
<1>2. \A i \in DOMAIN st.queue : i \in DOMAIN st3.queue /\ st3.queue[i] = st.queue[i]
  BY <1>1 DEF Appends
<1>3. ASSUME NEW i \in DOMAIN st3.queue \ DOMAIN st.queue
      PROVE  /\ st3.queue[i].name \in all /\ st3.queue[i].origin = o
             /\ st3.ctl[st3.queue[i].name].origin = o
  <2>1. CASE i \in DOMAIN st2.queue
    <3>1. /\ st3.queue[i] = st2.queue[i] /\ st2.queue[i].name \in ns /\ st2.queue[i].origin = o
          /\ st2.ctl[st2.queue[i].name].origin = o
      BY <1>1, <1>3, <2>1 DEF Appends
    <3>2. st2.queue[i].name \in Names[panel]
      BY <1>1, <2>1 DEF StoreType, Fits
    <3>3. st3.ctl[st2.queue[i].name].origin = o
      BY <1>1, <3>1, <3>2 DEF Appends
    <3>4. QED
      BY <3>1, <3>3
  <2>2. CASE i \notin DOMAIN st2.queue
    BY <1>1, <1>3, <2>2 DEF Appends
  <2>3. QED
    BY <2>1, <2>2
<1>4. ASSUME NEW m \in Names[panel], st3.ctl[m] # st.ctl[m]
      PROVE  /\ m \in all /\ st3.ctl[m].origin = o
             /\ \E i \in DOMAIN st3.queue : st3.queue[i].name = m /\ st3.queue[i].origin = o
  BY <1>1, <1>4 DEF Appends
<1>5. QED
  BY <1>2, <1>3, <1>4 DEF Appends

LEMMA ChangesTwice ==
    ASSUME NEW st, NEW st2, NEW st3, NEW ns, NEW ns2, NEW all, NEW o,
           Changes(st, st2, ns, o), Changes(st2, st3, ns2, o),
           ns \subseteq all, ns2 \subseteq all
    PROVE  Changes(st, st3, all, o)
<1>1. StoreType(st3) /\ \A m : Queued(st, m) => Queued(st3, m)
  BY DEF Changes
<1>2. ASSUME NEW m \in Names[panel]
      PROVE  \/ st3.ctl[m] = st.ctl[m]
             \/ m \in all /\ st3.ctl[m].origin = o /\ Queued(st3, m)
  BY DEF Changes
<1>3. ASSUME NEW i \in DOMAIN st3.queue
      PROVE  \/ \E j \in DOMAIN st.queue : st3.queue[i] = st.queue[j]
             \/ st3.queue[i].name \in all /\ st3.queue[i].origin = o
  <2>1. \/ \E j \in DOMAIN st2.queue : st3.queue[i] = st2.queue[j]
        \/ st3.queue[i].name \in ns2 /\ st3.queue[i].origin = o
    BY DEF Changes
  <2>2. \A j \in DOMAIN st2.queue :
           \/ \E k \in DOMAIN st.queue : st2.queue[j] = st.queue[k]
           \/ st2.queue[j].name \in ns /\ st2.queue[j].origin = o
    BY DEF Changes
  <2>3. QED
    BY <2>1, <2>2
<1>4. QED
  BY <1>1, <1>2, <1>3, AppendsTwice DEF Changes

-----------------------------------------------------------------------------
(* The values that follow from others.                                     *)

LEMMA SpeedFits == \A tempo \in Tempos : Speed(tempo) \in Bits14
<1>1. SUFFICES ASSUME NEW tempo \in Int PROVE Speed(tempo) \in Bits14
  BY DEF Tempos
<1> DEFINE hz == tempo * 40 - 2400
           x  == AtMost(IF hz < 0 THEN 0 ELSE hz, 357600)
<1>2. x \in Nat /\ x <= 357600
  BY DEF AtMost
<1>3. Speed(tempo) = (x * 5461) \div 119200
  BY DEF Speed
<1> HIDE DEF x
<1>4. x * 5461 \in Nat /\ x * 5461 < 1952972800
  BY <1>2
<1>5. \A y \in Nat : y < 1952972800 => y \div 119200 \in Nat /\ y \div 119200 < 16384
  OBVIOUS
<1>6. QED
  BY <1>3, <1>4, <1>5, InBits14

LEMMA EightAre == /\ DOMAIN Steps(Eight).steps = 1 .. 8 /\ Len(Steps(Eight).steps) = 8
                  /\ \A i \in 1 .. 8 : Steps(Eight).steps[i] = (i - 1) * 16
  BY DEF Steps, Eight

LEMMA WaveOf == \A m \in 0 .. 127 : StepsFromMidi(Steps(Eight), m) = m \div 16
<1>1. SUFFICES ASSUME NEW m \in 0 .. 127
               PROVE  StepsFromMidi(Steps(Eight), m) = m \div 16
  OBVIOUS
<1> DEFINE reached == {i \in DOMAIN Steps(Eight).steps :
                          \A j \in 1 .. i : Steps(Eight).steps[j] <= m}
           last    == m \div 16 + 1
<1>2. last \in 1 .. 8 /\ (last - 1) * 16 <= m /\ m < last * 16 /\ last - 1 = m \div 16
  OBVIOUS
<1> HIDE DEF last
<1>3. \A i : i \in reached <=> i \in 1 .. last
  <2>1. \A i : i \in reached <=> i \in 1 .. 8 /\ \A j \in 1 .. i : (j - 1) * 16 <= m
    BY EightAre
  <2>2. ASSUME NEW i \in 1 .. 8, \A j \in 1 .. i : (j - 1) * 16 <= m PROVE i <= last
    <3>1. (i - 1) * 16 <= m
      BY <2>2
    <3>2. QED
      BY <3>1, <1>2
  <2>3. ASSUME NEW i \in 1 .. last, NEW j \in 1 .. i PROVE (j - 1) * 16 <= m
    BY <1>2
  <2>4. QED
    BY <2>1, <2>2, <2>3, <1>2
<1>4. last \in reached /\ \A j \in reached : j \in 1 .. 8 /\ j <= last
  BY <1>2, <1>3
<1> HIDE DEF reached
<1>5. (CHOOSE i \in reached : \A j \in reached : j <= i) = last
  <2>1. \A i \in reached : (\A j \in reached : j <= i) => i = last
    BY <1>2, <1>3, <1>4
  <2>2. QED
    BY <1>4, <2>1
<1>6. reached # {}
  BY <1>4
<1>7. StepsFromMidi(Steps(Eight), m) = last - 1
  BY <1>5, <1>6 DEF StepsFromMidi, reached
<1>8. QED
  BY <1>7, <1>2

\* A parameter as a wave: what is shown is a wave, what is set is a parameter, and it
\* shows the same wave.
LEMMA WaveFits ==
    LET c == Config("stomp_param2_wave") IN
    /\ \A m \in 0 .. 127 : FromMidi(c, m) \in 0 .. 7
    /\ \A v \in 0 .. 7 : ToMidi(c, v) \in 0 .. 127 /\ FromMidi(c, ToMidi(c, v)) = v
<1>1. Config("stomp_param2_wave") = Steps(Eight) /\ Steps(Eight).kind = "steps"
  BY DEF Config, Steps
<1>2. \A m \in 0 .. 127 : FromMidi(Steps(Eight), m) = m \div 16
  BY <1>1, WaveOf DEF FromMidi
<1>3. \A v \in 0 .. 7 : ToMidi(Steps(Eight), v) = v * 16
  <2>1. SUFFICES ASSUME NEW v \in 0 .. 7 PROVE ToMidi(Steps(Eight), v) = v * 16
    OBVIOUS
  <2>2. ToMidi(Steps(Eight), v) = Steps(Eight).steps[AtMost(v, 7) + 1]
    BY <1>1, EightAre DEF ToMidi, StepsToMidi
  <2>3. AtMost(v, 7) = v /\ v + 1 \in 1 .. 8
    BY DEF AtMost
  <2>4. QED
    BY <2>2, <2>3, EightAre
<1>4. \A v \in 0 .. 7 : v * 16 \in 0 .. 127 /\ (v * 16) \div 16 = v
  OBVIOUS
<1>5. \A m \in 0 .. 127 : m \div 16 \in 0 .. 7
  OBVIOUS
<1>6. QED
  BY <1>1, <1>2, <1>3, <1>4, <1>5

\* ... and as an octave.
LEMMA OctaveFits ==
    LET c == Config("stomp_param2_octave") IN
    /\ \A m \in 0 .. 127 : FromMidi(c, m) \in 0 .. 8
    /\ \A v \in 0 .. 8 : ToMidi(c, v) \in 0 .. 127 /\ FromMidi(c, ToMidi(c, v)) = v
<1> DEFINE c == Short(0, 8, TRUE)
<1>1. /\ Config("stomp_param2_octave") = c
      /\ c.kind = "short" /\ c.from = 0 /\ c.to = 8 /\ c.edge = TRUE
  BY DEF Config, Short
<1> HIDE DEF c
<1>2. Shared(c) = 16
  BY <1>1 DEF Shared
<1>3. \A m \in 0 .. 127 : FromMidi(c, m) = IF m = 127 THEN 8 ELSE m \div 16
  BY <1>1, <1>2 DEF FromMidi, ShortFromMidi
<1>4. \A v \in 0 .. 8 : ToMidi(c, v) = IF v = 8 THEN 127 ELSE v * 16
  BY <1>1, <1>2 DEF ToMidi, ShortToMidi
<1>5. \A v \in 0 .. 7 : v * 16 \in 0 .. 126 /\ (v * 16) \div 16 = v
  OBVIOUS
<1>6. \A m \in 0 .. 127 : m \div 16 \in 0 .. 7
  OBVIOUS
<1>7. QED
  BY <1>1, <1>3, <1>4, <1>5, <1>6

LEMMA BucketFits ==
    /\ \A v \in 0 .. 127 : BucketOf(v) \in 0 .. 2
    /\ \A b \in 0 .. 2 : AssignedTo(b) \in 0 .. 127 /\ BucketOf(AssignedTo(b)) = b
  BY DEF BucketOf, AssignedTo

\* The numbers of an effect are those that name it.
LEMMA EffectFits ==
    /\ \A r \in Values("effect_select:raw") : EffectOf(r) # {}
    /\ \A r : \A e \in EffectOf(r) : e \in 1 .. 3 /\ r \in Numbers(e)
    /\ \A e \in 1 .. 3 : \A r \in Numbers(e) :
          e \in EffectOf(r) /\ r \in Values("effect_select:raw")
    /\ \A e \in 1 .. 3 : /\ Numbers(e) # {}
                         /\ Effects[e].delay \subseteq Numbers(e)
                         /\ Effects[e].clean \subseteq Numbers(e)
<1>1. \A r, e : e \in EffectOf(r) <=> e \in 1 .. 3 /\ r \in Numbers(e)
  BY EffectsAre DEF EffectOf
<1>2. \A r \in Values("effect_select:raw") : \E e \in 1 .. 3 : r \in Numbers(e)
  BY EffectValues, EffectsAre
<1>3. \A e \in 1 .. 3 : \A r \in Numbers(e) : r \in Values("effect_select:raw")
  BY EffectValues, EffectsAre
<1>4. \A e \in 1 .. 3 : /\ Numbers(e) # {}
                        /\ Effects[e].delay \subseteq Numbers(e)
                        /\ Effects[e].clean \subseteq Numbers(e)
  <2>1. Numbers(1) # {} /\ Numbers(2) # {} /\ Numbers(3) # {}
    BY EffectsAre
  <2>2. \A e \in 1 .. 3 : e = 1 \/ e = 2 \/ e = 3
    OBVIOUS
  <2>3. QED
    BY <2>1, <2>2 DEF Numbers
<1>5. QED
  BY <1>1, <1>2, <1>3, <1>4

-----------------------------------------------------------------------------
(* What each callback does.                                                *)

LEMMA HalvesOf ==
    ASSUME panel \in DOMAIN Names
    PROVE  /\ \A w \in Wholes : /\ Msb(w) \in Halves /\ Lsb(w) \in Halves /\ Msb(w) # Lsb(w)
                                /\ Whole(Msb(w)) = w /\ Whole(Lsb(w)) = w
                                /\ w \in Names[panel] =>
                                      Msb(w) \in Names[panel] /\ Lsb(w) \in Names[panel]
           /\ \A h \in Halves : /\ Whole(h) \in Wholes /\ h \in {Msb(Whole(h)), Lsb(Whole(h))}
                                /\ h \in Names[panel] => Whole(h) \in Names[panel]
           /\ Wholes \cap Halves = {}
  BY NamesAre DEF Wholes, Halves, Msb, Lsb, Whole

LEMMA HalfValues == \A h \in Halves : \A v : v \in Values(h) <=> v \in 0 .. 127
  BY ByteValues DEF Bytes

\* The half of a change by the user is always sent.
HalfSet(st, h, x, o) == IF o = "UI" THEN SetForced(st, h, x, o) ELSE Set(st, h, x, o)

LEMMA HalfSetDoes ==
    ASSUME panel \in DOMAIN Names, NEW st, StoreType(st), NEW h \in Names[panel],
           NEW x \in Values(h), NEW o \in Origins
    PROVE  Changes(st, HalfSet(st, h, x, o), {h}, o) /\ HalfSet(st, h, x, o).ctl[h].val = x
<1>1. CASE o = "UI"
  <2>1. /\ Changes(st, SetForced(st, h, x, o), {h}, o)
        /\ SetForced(st, h, x, o).ctl[h] = [val |-> x, origin |-> o]
    BY ForcedChanges
  <2>2. QED
    BY <1>1, <2>1 DEF HalfSet
<1>2. CASE o # "UI"
  <2>1. Changes(st, Set(st, h, x, o), {h}, o) /\ Set(st, h, x, o).ctl[h].val = x
    BY SetChanges
  <2>2. QED
    BY <1>2, <2>1 DEF HalfSet
<1>3. QED
  BY <1>1, <1>2

LEMMA TwoChanges ==
    ASSUME NEW st, NEW s1, NEW s2, NEW a \in Names[panel], NEW b \in Names[panel], NEW o,
           a # b, Changes(st, s1, {a}, o), Changes(s1, s2, {b}, o)
    PROVE  Changes(st, s2, {a, b}, o) /\ s2.ctl[a] = s1.ctl[a]
<1>1. Changes(st, s2, {a, b}, o)
  BY ChangesTwice
<1>2. s2.ctl[a] = s1.ctl[a]
  BY DEF Changes
<1>3. QED
  BY <1>1, <1>2

LEMMA SplitDoes ==
    ASSUME panel \in DOMAIN Names, NEW st, StoreType(st), NEW w \in Wholes, w \in Names[panel],
           NEW v \in Bits14, NEW o \in Origins
    PROVE  /\ Changes(st, Split(st, w, v, o), {Msb(w), Lsb(w)}, o)
           /\ Split(st, w, v, o).ctl[Msb(w)].val = v \div 128
           /\ Split(st, w, v, o).ctl[Lsb(w)].val = v % 128
<1> DEFINE m == Msb(w)
           l == Lsb(w)
           x == v \div 128
           y == v % 128
<1>1. m \in Names[panel] /\ l \in Names[panel] /\ m # l /\ x \in Values(m) /\ y \in Values(l)
  BY HalvesOf, HalfValues, Bits14Are
<1>2. Split(st, w, v, o) = IF BigEndian(w) THEN HalfSet(HalfSet(st, m, x, o), l, y, o)
                                           ELSE HalfSet(HalfSet(st, l, y, o), m, x, o)
  BY Zenon DEF Split, HalfSet
<1> HIDE DEF m, l, x, y
<1>3. CASE BigEndian(w)
  <2> DEFINE s1 == HalfSet(st, m, x, o)
             s2 == HalfSet(s1, l, y, o)
  <2>1. Changes(st, s1, {m}, o) /\ s1.ctl[m].val = x
    BY <1>1, HalfSetDoes
  <2> HIDE DEF s1
  <2>2. StoreType(s1)
    BY <2>1 DEF Changes
  <2>3. Changes(s1, s2, {l}, o) /\ s2.ctl[l].val = y
    BY <1>1, <2>2, HalfSetDoes
  <2> HIDE DEF s2
  <2>4. Changes(st, s2, {m, l}, o) /\ s2.ctl[m] = s1.ctl[m]
    BY <1>1, <2>1, <2>3, TwoChanges
  <2>5. Split(st, w, v, o) = s2
    BY <1>2, <1>3 DEF s1, s2
  <2>6. QED
    BY <2>1, <2>3, <2>4, <2>5 DEF m, l, x, y
<1>4. CASE ~BigEndian(w)
  <2> DEFINE s1 == HalfSet(st, l, y, o)
             s2 == HalfSet(s1, m, x, o)
  <2>1. Changes(st, s1, {l}, o) /\ s1.ctl[l].val = y
    BY <1>1, HalfSetDoes
  <2> HIDE DEF s1
  <2>2. StoreType(s1)
    BY <2>1 DEF Changes
  <2>3. Changes(s1, s2, {m}, o) /\ s2.ctl[m].val = x
    BY <1>1, <2>2, HalfSetDoes
  <2> HIDE DEF s2
  <2>4. Changes(st, s2, {l, m}, o) /\ s2.ctl[l] = s1.ctl[l] /\ {l, m} = {m, l}
    BY <1>1, <2>1, <2>3, TwoChanges
  <2>5. Split(st, w, v, o) = s2
    BY <1>2, <1>4 DEF s1, s2
  <2>6. QED
    BY <2>1, <2>3, <2>4, <2>5 DEF m, l, x, y
<1>5. QED
  BY <1>3, <1>4

\* A half that is joined is then that of the whole.
LEMMA JoinMsbDoes ==
    ASSUME panel \in DOMAIN Names, NEW st, StoreType(st), NEW w \in Wholes, w \in Names[panel],
           NEW v \in Values(Msb(w)), NEW o \in Origins
    PROVE  /\ o = "UI" => JoinMsb(st, Msb(w), v, o) = st
           /\ Changes(st, JoinMsb(st, Msb(w), v, o), {w}, o)
           /\ o # "UI" => JoinMsb(st, Msb(w), v, o).ctl[w].val \div 128 = v
<1>1. CASE o = "UI"
  BY <1>1, NoChange DEF JoinMsb
<1>2. CASE o # "UI"
  <2> DEFINE x == ((v % 128) * 128) + (st.ctl[w].val % 128)
             b == st.ctl[w].val % 128
  <2>1. st.ctl[w].val \in Bits14 /\ v \in 0 .. 127 /\ v % 128 = v
    <3>1. st.ctl[w].val \in Bits14
      BY WholeValues DEF StoreType
    <3>2. v \in 0 .. 127
      BY HalfValues, HalvesOf
    <3>3. v % 128 = v
      BY <3>2
    <3>4. QED
      BY <3>1, <3>2, <3>3
  <2>2. x \in Values(w) /\ x \div 128 = v
    <3>1. b \in 0 .. 127
      BY <2>1, Bits14Are
    <3> HIDE DEF b
    <3>2. v * 128 + b \in Bits14 /\ (v * 128 + b) \div 128 = v
      BY <2>1, <3>1, Bits14Are
    <3>3. QED
      BY <2>1, <3>2, WholeValues DEF b
  <2>3. JoinMsb(st, Msb(w), v, o) = Set(st, w, x, o)
    BY <1>2, HalvesOf DEF JoinMsb, Get
  <2> HIDE DEF x
  <2>4. Changes(st, Set(st, w, x, o), {w}, o) /\ Set(st, w, x, o).ctl[w].val = x
    BY <2>2, SetChanges
  <2>5. QED
    BY <1>2, <2>2, <2>3, <2>4
<1>3. QED
  BY <1>1, <1>2

LEMMA JoinLsbDoes ==
    ASSUME panel \in DOMAIN Names, NEW st, StoreType(st), NEW w \in Wholes, w \in Names[panel],
           NEW v \in Values(Lsb(w)), NEW o \in Origins
    PROVE  /\ o = "UI" => JoinLsb(st, Lsb(w), v, o) = st
           /\ Changes(st, JoinLsb(st, Lsb(w), v, o), {w}, o)
           /\ o # "UI" => JoinLsb(st, Lsb(w), v, o).ctl[w].val % 128 = v
<1>1. CASE o = "UI"
  BY <1>1, NoChange DEF JoinLsb
<1>2. CASE o # "UI"
  <2> DEFINE x == ((st.ctl[w].val \div 128) * 128) + (v % 128)
             a == st.ctl[w].val \div 128
  <2>1. st.ctl[w].val \in Bits14 /\ v \in 0 .. 127 /\ v % 128 = v
    <3>1. st.ctl[w].val \in Bits14
      BY WholeValues DEF StoreType
    <3>2. v \in 0 .. 127
      BY HalfValues, HalvesOf
    <3>3. v % 128 = v
      BY <3>2
    <3>4. QED
      BY <3>1, <3>2, <3>3
  <2>2. x \in Values(w) /\ x % 128 = v
    <3>1. a \in 0 .. 127
      BY <2>1, Bits14Are
    <3> HIDE DEF a
    <3>0. v \in 0 .. 127
      BY <2>1
    <3>2. a * 128 + v \in Bits14 /\ (a * 128 + v) % 128 = v
      BY <3>0, <3>1, Bits14Are
    <3>3. QED
      BY <2>1, <3>2, WholeValues DEF a
  <2>3. JoinLsb(st, Lsb(w), v, o) = Set(st, w, x, o)
    BY <1>2, HalvesOf DEF JoinLsb, Get
  <2> HIDE DEF x
  <2>4. Changes(st, Set(st, w, x, o), {w}, o) /\ Set(st, w, x, o).ctl[w].val = x
    BY <2>2, SetChanges
  <2>5. QED
    BY <1>2, <2>2, <2>3, <2>4
<1>3. QED
  BY <1>1, <1>2

LEMMA TempoSpeedDoes ==
    ASSUME panel \in DOMAIN Names, panel = "tempo", NEW st, StoreType(st)
    PROVE  Changes(st, TempoSpeed(st), {"mod_speed"}, "NONE")
<1> DEFINE tempo == Get(st, "tempo")
           due   == Get(st, "mod_note_select") # 0 /\ tempo \in Tempos
<1>1. CASE due
  <2>1. Speed(tempo) \in Values("mod_speed")
    BY <1>1, SpeedFits, WholeValues, Zenon DEF Wholes
  <2>2. "mod_speed" \in Names[panel] /\ "NONE" \in Origins
    BY NamesAre DEF Origins
  <2>3. TempoSpeed(st) = Set(st, "mod_speed", Speed(tempo), "NONE")
    BY <1>1, Zenon DEF TempoSpeed
  <2> HIDE DEF tempo
  <2>4. QED
    BY <2>1, <2>2, <2>3, SetChanges
<1>2. CASE ~due
  <2>1. TempoSpeed(st) = st
    BY <1>2, Zenon DEF TempoSpeed
  <2>2. QED
    BY <2>1, NoChange
<1>3. QED
  BY <1>1, <1>2

LEMMA ResetNoteDoes ==
    ASSUME panel \in DOMAIN Names, panel = "tempo", NEW st, StoreType(st), NEW o
    PROVE  Changes(st, ResetNote(st, o), {"mod_note_select"}, "MIDI")
<1>1. /\ "mod_note_select" \in Names[panel] /\ "MIDI" \in Origins
      /\ 0 \in Values("mod_note_select")
  BY NamesAre, ByteValues DEF Origins, Bytes
<1>2. QED
  BY <1>1, SetChanges, NoChange DEF ResetNote

LEMMA AsIntIs == \A b \in BOOLEAN : AsInt(b) \in 0 .. 1
  BY DEF AsInt

LEMMA FromRawDoes ==
    ASSUME panel \in DOMAIN Names, panel = "effects", NEW st, StoreType(st),
           NEW v \in Values("effect_select:raw"), NEW o \in Origins
    PROVE  LET s2 == FromRaw(st, v, o) IN
           /\ Changes(st, s2, {"delay_enable", "effect_select"}, o)
           /\ s2.ctl["effect_select"].val + 1 \in EffectOf(v)
           /\ s2.ctl["delay_enable"].val = AsInt(Delays(v))
<1> DEFINE e  == CHOOSE e \in EffectOf(v) : TRUE
           s1 == Set(st, "delay_enable", AsInt(Delays(v)), o)
           s2 == Set(s1, "effect_select", e - 1, o)
<1>1. /\ "delay_enable" \in Names[panel] /\ "effect_select" \in Names[panel]
  BY NamesAre
<1>2. EffectOf(v) # {} /\ e \in EffectOf(v)
  BY EffectFits
<1>3. e \in 1 .. 3
  BY <1>2, EffectFits
<1> HIDE DEF e
<1>4. e - 1 \in Values("effect_select") /\ (e - 1) + 1 = e
  BY <1>3, RowValues
<1>5. AsInt(Delays(v)) \in Values("delay_enable")
  BY AsIntIs, OtherValues DEF Delays
<1>6. Changes(st, s1, {"delay_enable"}, o) /\ s1.ctl["delay_enable"].val = AsInt(Delays(v))
  BY <1>1, <1>5, SetChanges
<1> HIDE DEF s1
<1>7. StoreType(s1)
  BY <1>6 DEF Changes
<1>8. Changes(s1, s2, {"effect_select"}, o) /\ s2.ctl["effect_select"].val = e - 1
  BY <1>1, <1>4, <1>7, SetChanges
<1> HIDE DEF s2
<1>9. /\ Changes(st, s2, {"delay_enable", "effect_select"}, o)
      /\ s2.ctl["delay_enable"] = s1.ctl["delay_enable"]
  <2>1. Changes(st, s2, {"delay_enable", "effect_select"}, o)
    BY <1>6, <1>8, ChangesTwice
  <2>2. s2.ctl["delay_enable"] = s1.ctl["delay_enable"]
    BY <1>1, <1>8 DEF Changes
  <2>3. QED
    BY <2>1, <2>2
<1>10. FromRaw(st, v, o) = s2
  BY <1>2, Zenon DEF FromRaw, e, s1, s2
<1>11. QED
  BY <1>2, <1>4, <1>6, <1>8, <1>9, <1>10

\* The number that is looked up for an effect, with the delay on or off.
Wanted(e, on) == IF on THEN Effects[e].delay ELSE Effects[e].clean
NumberFor(e, on) == CHOOSE r \in (IF Wanted(e, on) # {} THEN Wanted(e, on) ELSE Numbers(e)) : TRUE

LEMMA NumberFits == \A e \in 1 .. 3 : \A on \in BOOLEAN : NumberFor(e, on) \in Numbers(e)
<1>1. SUFFICES ASSUME NEW e \in 1 .. 3, NEW on \in BOOLEAN PROVE NumberFor(e, on) \in Numbers(e)
  OBVIOUS
<1> DEFINE rs == IF Wanted(e, on) # {} THEN Wanted(e, on) ELSE Numbers(e)
<1>2. rs # {} /\ rs \subseteq Numbers(e)
  BY EffectFits DEF Wanted
<1>3. QED
  BY <1>2 DEF NumberFor

LEMMA ToRawDoes ==
    ASSUME panel \in DOMAIN Names, panel = "effects", NEW st, StoreType(st), NEW v \in 0 .. 2
    PROVE  LET s2 == ToRaw(st, v) IN
           /\ Changes(st, s2, {"effect_select:raw"}, "UI")
           /\ v + 1 \in EffectOf(s2.ctl["effect_select:raw"].val)
           /\ st.ctl["effect_select:raw"].val = NumberFor(v + 1, st.ctl["delay_enable"].val # 0)
                  => s2 = st
<1> DEFINE r == NumberFor(v + 1, st.ctl["delay_enable"].val # 0)
<1>1. ToRaw(st, v) = Set(st, "effect_select:raw", r, "UI")
  BY Zenon DEF ToRaw, NumberFor, Wanted, Get
<1>2. v + 1 \in 1 .. 3
  OBVIOUS
<1>3. r \in Numbers(v + 1)
  BY <1>2, NumberFits
<1>4. v + 1 \in EffectOf(r) /\ r \in Values("effect_select:raw")
  BY <1>2, <1>3, EffectFits
<1> HIDE DEF r
<1>5. "effect_select:raw" \in Names[panel] /\ "UI" \in Origins
  BY NamesAre DEF Origins
<1>6. /\ Changes(st, Set(st, "effect_select:raw", r, "UI"), {"effect_select:raw"}, "UI")
      /\ Set(st, "effect_select:raw", r, "UI").ctl["effect_select:raw"].val = r
  BY <1>4, <1>5, SetChanges
<1>7. st.ctl["effect_select:raw"].val = r => Set(st, "effect_select:raw", r, "UI") = st
  BY DEF Set
<1>8. QED
  BY <1>1, <1>4, <1>6, <1>7 DEF r

LEMMA DelayResetDoes ==
    ASSUME panel \in DOMAIN Names, panel = "effects", NEW st, StoreType(st), NEW v, NEW o \in Origins
    PROVE  Changes(st, DelayReset(st, v, o), {"effect_select"}, o)
<1>1. "effect_select" \in Names[panel] /\ 0 \in Values("effect_select")
  BY NamesAre, RowValues
<1>2. DelayReset(st, v, o) = Set(st, "effect_select", 0, o) \/ DelayReset(st, v, o) = st
  BY Zenon DEF DelayReset
<1>3. Changes(st, Set(st, "effect_select", 0, o), {"effect_select"}, o)
  BY <1>1, SetChanges
<1>4. QED
  BY <1>2, <1>3, NoChange

LEMMA VariantsDoes ==
    ASSUME panel \in DOMAIN Names, panel = "stomp", NEW st, StoreType(st),
           NEW v \in Values("stomp_param2"), NEW o
    PROVE  LET s2 == Variants(st, v, o) IN
           /\ Changes(st, s2, {"stomp_param2_wave", "stomp_param2_octave"},
                      IF o = "MIDI" THEN "MIDI" ELSE "NONE")
           /\ \A n \in {"stomp_param2_wave", "stomp_param2_octave"} :
                 s2.ctl[n].val = FromMidi(Config(n), v)
<1> DEFINE a  == "stomp_param2_wave"
           b  == "stomp_param2_octave"
           x  == FromMidi(Config(a), v)
           y  == FromMidi(Config(b), v)
           oo == IF o = "MIDI" THEN "MIDI" ELSE "NONE"
           s1 == Set(st, a, x, oo)
           s2 == Set(s1, b, y, oo)
<1>1. a \in Names[panel] /\ b \in Names[panel] /\ a # b /\ oo \in Origins
  BY NamesAre DEF Origins
<1>2. x \in Values(a) /\ y \in Values(b)
  <2>1. v \in 0 .. 127
    BY ByteValues DEF Bytes
  <2>2. QED
    BY <2>1, WaveFits, OctaveFits, OtherValues
<1>3. Variants(st, v, o) = s2
  BY Zenon DEF Variants
<1> HIDE DEF x, y, oo
<1>4. Changes(st, s1, {a}, oo) /\ s1.ctl[a].val = x
  BY <1>1, <1>2, SetChanges
<1> HIDE DEF s1
<1>5. StoreType(s1)
  BY <1>4 DEF Changes
<1>6. Changes(s1, s2, {b}, oo) /\ s2.ctl[b].val = y
  BY <1>1, <1>2, <1>5, SetChanges
<1> HIDE DEF s2
<1>7. Changes(st, s2, {a, b}, oo) /\ s2.ctl[a] = s1.ctl[a]
  BY <1>1, <1>4, <1>6, TwoChanges
<1>8. QED
  BY <1>3, <1>4, <1>6, <1>7 DEF x, y, oo

LEMMA ParamDoes ==
    ASSUME panel \in DOMAIN Names, panel = "stomp", NEW st, StoreType(st),
           NEW n \in {"stomp_param2_wave", "stomp_param2_octave"}, NEW v \in Values(n),
           NEW o \in Origins
    PROVE  LET s2 == Param(st, n, v, o) IN
           /\ o # "UI" => s2 = st
           /\ Changes(st, s2, {"stomp_param2"}, o)
           /\ o = "UI" => FromMidi(Config(n), s2.ctl["stomp_param2"].val) = v
<1>1. CASE o # "UI"
  BY <1>1, NoChange DEF Param
<1>2. CASE o = "UI"
  <2> DEFINE x == ToMidi(Config(n), v)
  <2>1. x \in 0 .. 127 /\ FromMidi(Config(n), x) = v
    <3>1. CASE n = "stomp_param2_wave"
      BY <3>1, WaveFits, OtherValues
    <3>2. CASE n = "stomp_param2_octave"
      BY <3>2, OctaveFits, OtherValues
    <3>3. QED
      BY <3>1, <3>2
  <2>2. Param(st, n, v, o) = Set(st, "stomp_param2", x, o)
    BY <1>2 DEF Param
  <2> HIDE DEF x
  <2>3. "stomp_param2" \in Names[panel] /\ x \in Values("stomp_param2")
    BY <2>1, NamesAre, ByteValues DEF Bytes
  <2>4. /\ Changes(st, Set(st, "stomp_param2", x, o), {"stomp_param2"}, o)
        /\ Set(st, "stomp_param2", x, o).ctl["stomp_param2"].val = x
    BY <2>3, SetChanges
  <2>5. QED
    BY <1>2, <2>1, <2>2, <2>4
<1>3. QED
  BY <1>1, <1>2

LEMMA BucketDoes ==
    ASSUME panel \in DOMAIN Names, panel = "pedal", NEW st, StoreType(st),
           NEW v \in Values("pedal_assign"), NEW o \in Origins
    PROVE  LET s2 == Set(st, "pedal_assign_select", BucketOf(v), o) IN
           /\ Changes(st, s2, {"pedal_assign_select"}, o)
           /\ s2.ctl["pedal_assign_select"].val = BucketOf(v)
<1>1. "pedal_assign_select" \in Names[panel] /\ BucketOf(v) \in Values("pedal_assign_select")
  <2>1. v \in 0 .. 127
    BY ByteValues DEF Bytes
  <2>2. QED
    BY <2>1, NamesAre, BucketFits, RowValues
<1>2. QED
  BY <1>1, SetChanges

LEMMA AssignDoes ==
    ASSUME panel \in DOMAIN Names, panel = "pedal", NEW st, StoreType(st),
           NEW v \in 0 .. 2, NEW o \in Origins
    PROVE  LET s2 == IF o = "UI" THEN Set(st, "pedal_assign", AssignedTo(v), o) ELSE st IN
           /\ Changes(st, s2, {"pedal_assign"}, o)
           /\ o = "UI" => BucketOf(s2.ctl["pedal_assign"].val) = v
<1>1. CASE o # "UI"
  BY <1>1, NoChange
<1>2. CASE o = "UI"
  <2> DEFINE x == AssignedTo(v)
  <2>1. "pedal_assign" \in Names[panel] /\ x \in Values("pedal_assign") /\ BucketOf(x) = v
    BY NamesAre, BucketFits, ByteValues DEF Bytes
  <2> HIDE DEF x
  <2>2. /\ Changes(st, Set(st, "pedal_assign", x, o), {"pedal_assign"}, o)
        /\ Set(st, "pedal_assign", x, o).ctl["pedal_assign"].val = x
    BY <2>1, SetChanges
  <2>3. QED
    BY <1>2, <2>1, <2>2 DEF x
<1>3. QED
  BY <1>1, <1>2

-----------------------------------------------------------------------------
(* A callback runs.                                                        *)

After(g) == [g EXCEPT !.left = Tail(@)]

\* The callback cb of the control n, which is the first one or the second.
Runs(g, n, cb, first) ==
    /\ n \in Names[panel] /\ g.sig.name = n /\ Head(g.left) = cb
    /\ After(g).sig = g.sig
    /\ first = (g.left = Callbacks[n])

RunsWhole(g)  == \/ \E w \in Wholes : Runs(g, w, "split", TRUE)
                 \/ Runs(g, "tempo", "tempo_speed", FALSE)
                 \/ Runs(g, "mod_speed", "reset_note", FALSE)
RunsHalf(g)   == \E w \in Wholes : \/ Runs(g, Msb(w), "join_msb", TRUE)
                                   \/ Runs(g, Lsb(w), "join_lsb", TRUE)
RunsEffect(g) == \/ Runs(g, "effect_select:raw", "from_raw", TRUE)
                 \/ Runs(g, "effect_select", "to_raw", TRUE)
                 \/ Runs(g, "delay_enable", "delay_reset", TRUE)
RunsStomp(g)  == \/ Runs(g, "stomp_param2", "variants", TRUE)
                 \/ \E n \in {"stomp_param2_wave", "stomp_param2_octave"} :
                       Runs(g, n, "param", TRUE)
RunsPedal(g)  == \/ Runs(g, "pedal_assign", "bucket", TRUE)
                 \/ Runs(g, "pedal_assign_select", "assign", TRUE)

LEMMA TuplesAre ==
    /\ \A a : Len(<<a>>) = 1 /\ Head(<<a>>) = a
    /\ \A a, b : Len(<<a, b>>) = 2 /\ Tail(<<a, b>>) = <<b>>
  OBVIOUS

LEMMA RunsOne ==
    ASSUME panel \in DOMAIN Names, NEW g, GtkType(g), g.left # <<>>
    PROVE  /\ Fits(g.sig) /\ g.sig.name \in Names[panel]
           /\ \/ RunsWhole(g) \/ RunsHalf(g) \/ RunsEffect(g) \/ RunsStomp(g) \/ RunsPedal(g)
              \/ Runs(g, "mod_note_select", "tempo_speed", TRUE)
<1> DEFINE n == g.sig.name
<1>1. /\ g = [sig |-> g.sig, left |-> g.left] /\ Fits(g.sig)
      /\ \/ g.left = Callbacks[n]
         \/ Len(Callbacks[n]) = 2 /\ g.left = Tail(Callbacks[n])
  BY DEF GtkType, Idle
<1>2. n \in Names[panel] /\ n \in AllNames
  BY <1>1, PanelNames DEF Fits
<1>3. After(g).sig = g.sig
  BY <1>1 DEF After
<1>4. \A cb : Head(<<cb>>) = cb
  OBVIOUS
<1>5. CASE Len(Callbacks[n]) # 2
  <2>1. g.left = Callbacks[n]
    BY <1>1, <1>5
  <2>2. n \notin {"tempo", "mod_speed"}
    <3>1. Len(Callbacks["tempo"]) = 2
      BY CallbacksAre, TuplesAre, Zenon
    <3>2. Len(Callbacks["mod_speed"]) = 2
      BY CallbacksAre, TuplesAre, Zenon
    <3>3. QED
      BY <1>5, <3>1, <3>2
  <2>3. \A cb : Callbacks[n] = <<cb>> => Runs(g, n, cb, TRUE)
    BY <1>2, <1>3, <1>4, <2>1 DEF Runs
  <2>4. CASE n = "delay_time"
    <3>1. Runs(g, n, "split", TRUE)
      BY <2>3, <2>4, CallbacksAre
    <3>2. QED
      BY <3>1, <2>4, <1>1, <1>2 DEF RunsWhole, Wholes
  <2>5. CASE n \in Halves
    <3> DEFINE w == Whole(n)
    <3>1. \/ n \in {"delay_time:msb", "tempo:msb", "mod_speed:msb"} /\ n = Msb(w) /\ w \in Wholes
          \/ n \in {"delay_time:lsb", "tempo:lsb", "mod_speed:lsb"} /\ n = Lsb(w) /\ w \in Wholes
      BY <2>5 DEF Halves, Wholes, Whole, Msb, Lsb
    <3>2. \/ Runs(g, Msb(w), "join_msb", TRUE) /\ w \in Wholes
          \/ Runs(g, Lsb(w), "join_lsb", TRUE) /\ w \in Wholes
      BY <3>1, <2>3, CallbacksAre
    <3> HIDE DEF w
    <3>3. QED
      BY <3>2, <1>1, <1>2 DEF RunsHalf
  <2>6. CASE n = "mod_note_select"
    BY <2>6, <2>3, CallbacksAre, <1>1, <1>2
  <2>7. CASE n \in {"effect_select:raw", "effect_select", "delay_enable"}
    <3>1. RunsEffect(g)
      BY <2>7, <2>3, CallbacksAre DEF RunsEffect
    <3>2. QED
      BY <3>1, <1>1, <1>2
  <2>8. CASE n \in {"stomp_param2", "stomp_param2_wave", "stomp_param2_octave"}
    <3>1. RunsStomp(g)
      BY <2>8, <2>3, CallbacksAre DEF RunsStomp
    <3>2. QED
      BY <3>1, <1>1, <1>2
  <2>9. CASE n \in {"pedal_assign", "pedal_assign_select"}
    <3>1. RunsPedal(g)
      BY <2>9, <2>3, CallbacksAre DEF RunsPedal
    <3>2. QED
      BY <3>1, <1>1, <1>2
  <2>10. QED
    BY <1>2, <2>2, <2>4, <2>5, <2>6, <2>7, <2>8, <2>9 DEF AllNames, Halves
<1>6. CASE Len(Callbacks[n]) = 2
  <2>1. \/ n = "tempo" /\ Callbacks[n] = <<"split", "tempo_speed">>
        \/ n = "mod_speed" /\ Callbacks[n] = <<"split", "reset_note">>
    <3>1. \A cb : Len(<<cb>>) = 1
      OBVIOUS
    <3>2. n \notin AllNames \ {"tempo", "mod_speed"}
      BY <1>6, <3>1, CallbacksAre DEF AllNames
    <3>3. QED
      BY <1>2, <3>2, CallbacksAre
  <2>2. CASE g.left = Callbacks[n]
    <3>1. Runs(g, n, "split", TRUE)
      BY <1>2, <1>3, <2>1, <2>2 DEF Runs
    <3>2. QED
      BY <3>1, <2>1, <1>1, <1>2 DEF RunsWhole, Wholes
  <2>3. CASE g.left = Tail(Callbacks[n])
    <3>1. CASE n = "tempo"
      <4>1. g.left = <<"tempo_speed">> /\ Callbacks[n] = <<"split", "tempo_speed">>
        BY <3>1, <2>3, CallbacksAre, TuplesAre, Zenon
      <4>2. Runs(g, "tempo", "tempo_speed", FALSE)
        BY <1>2, <1>3, <3>1, <4>1 DEF Runs
      <4>3. QED
        BY <4>2, <1>1, <1>2 DEF RunsWhole
    <3>2. CASE n = "mod_speed"
      <4>1. g.left = <<"reset_note">> /\ Callbacks[n] = <<"split", "reset_note">>
        BY <3>2, <2>3, CallbacksAre, TuplesAre, Zenon
      <4>2. Runs(g, "mod_speed", "reset_note", FALSE)
        BY <1>2, <1>3, <3>2, <4>1 DEF Runs
      <4>3. QED
        BY <4>2, <1>1, <1>2 DEF RunsWhole
    <3>3. QED
      BY <2>1, <3>1, <3>2
  <2>4. QED
    BY <1>1, <2>2, <2>3
<1>7. QED
  BY <1>5, <1>6

\* What waits goes on to wait, but for the control whose first callback runs.
LEMMA StillWaits ==
    ASSUME NEW st, NEW s2, NEW ns, NEW o, Changes(st, s2, ns, o),
           NEW g, NEW n, NEW cb, NEW first, Runs(g, n, cb, first),
           NEW m, m # n \/ ~first, Waits(st, g, m)
    PROVE  Waits(s2, After(g), m)
  BY DEF Changes, Runs, Waits

LEMMA HalfKept ==
    ASSUME NEW st, NEW g, NEW s2, NEW g2, NEW ns, NEW o, Changes(st, s2, ns, o),
           NEW w \in Names[panel], NEW h \in Names[panel], NEW x, NEW x2,
           HalfAgrees(st, g, w, h, x),
           Waits(st, g, w) => Waits(s2, g2, w),
           Waits(st, g, h) => Waits(s2, g2, h),
           h \in ns => o # "UI",
           s2.ctl[w] = st.ctl[w] => x2 = x
    PROVE  HalfAgrees(s2, g2, w, h, x2)
<1>1. CASE s2.ctl[w] # st.ctl[w]
  BY <1>1 DEF Changes, HalfAgrees, Waits
<1>2. CASE s2.ctl[h] # st.ctl[h]
  BY <1>2 DEF Changes, HalfAgrees, Waits
<1>3. CASE s2.ctl[w] = st.ctl[w] /\ s2.ctl[h] = st.ctl[h]
  BY <1>3 DEF HalfAgrees
<1>4. QED
  BY <1>1, <1>2, <1>3

LEMMA FollowsKept ==
    ASSUME NEW st, NEW g, NEW s2, NEW g2, NEW ns, NEW o, Changes(st, s2, ns, o),
           NEW n \in Names[panel], NEW m \in Names[panel], NEW x, NEW x2,
           Follows(st, g, n, m, x),
           Waits(st, g, n) => Waits(s2, g2, n),
           Waits(st, g, m) => Waits(s2, g2, m),
           n \in ns => o = "UI",
           s2.ctl[m] = st.ctl[m] => x2 = x
    PROVE  Follows(s2, g2, n, m, x2)
<1>1. CASE s2.ctl[m] # st.ctl[m]
  BY <1>1 DEF Changes, Follows, Waits
<1>2. CASE s2.ctl[n] # st.ctl[n]
  BY <1>2 DEF Changes, Follows, Waits
<1>3. CASE s2.ctl[m] = st.ctl[m] /\ s2.ctl[n] = st.ctl[n]
  BY <1>3 DEF Follows
<1>4. QED
  BY <1>1, <1>2, <1>3

\* A change that keeps the halves of a whole.
LEMMA WholeKept ==
    ASSUME panel \in DOMAIN Names,
           NEW st, NEW g, NEW s2, NEW g2, NEW ns, NEW o, Changes(st, s2, ns, o),
           NEW w \in Wholes, w \in Names[panel], WholeAgrees(st, g, w),
           \A m \in {w, Msb(w), Lsb(w)} : Waits(st, g, m) => Waits(s2, g2, m),
           Msb(w) \in ns \/ Lsb(w) \in ns => o # "UI"
    PROVE  WholeAgrees(s2, g2, w)
<1>1. Msb(w) \in Names[panel] /\ Lsb(w) \in Names[panel]
  BY HalvesOf
<1>2. HalfAgrees(s2, g2, w, Msb(w), s2.ctl[w].val \div 128)
  BY <1>1, HalfKept DEF WholeAgrees
<1>3. HalfAgrees(s2, g2, w, Lsb(w), s2.ctl[w].val % 128)
  BY <1>1, HalfKept DEF WholeAgrees
<1>4. QED
  BY <1>2, <1>3 DEF WholeAgrees

\* The control that the callback is of.
LEMMA Current ==
    ASSUME NEW st, StoreType(st), NEW n \in Names[panel]
    PROVE  st.ctl[n].val \in Values(n) /\ st.ctl[n].origin \in Origins
  BY DEF StoreType

\* A change by a callback, which passes the origin on, or is not the user's.
Passes(st, s2, n, quiet) ==
    \E ns, o : Changes(st, s2, ns, o) /\ (quiet /\ st.ctl[n].origin # "UI" => o # "UI")

LEMMA SplitKeeps ==
    ASSUME panel \in DOMAIN Names, NEW st, StoreType(st), NEW g,
           NEW w \in Wholes, Runs(g, w, "split", TRUE)
    PROVE  LET s2 == Callback(st, "split", w) IN
           /\ Passes(st, s2, w, TRUE)
           /\ \A u \in Wholes : u \in Names[panel] /\ WholeAgrees(st, g, u)
                                    => WholeAgrees(s2, After(g), u)
<1> DEFINE v  == st.ctl[w].val
           o  == st.ctl[w].origin
           s2 == Split(st, w, v, o)
<1>1. w \in Names[panel] /\ v \in Bits14 /\ o \in Origins
  BY Current, WholeValues DEF Runs
<1>2. Callback(st, "split", w) = s2
  BY Zenon DEF Callback
<1>3. /\ Changes(st, s2, {Msb(w), Lsb(w)}, o)
      /\ s2.ctl[Msb(w)].val = v \div 128 /\ s2.ctl[Lsb(w)].val = v % 128
  BY <1>1, SplitDoes
<1> HIDE DEF s2
<1>4. s2.ctl[w] = st.ctl[w]
  BY <1>1, <1>3, HalvesOf DEF Changes
<1>5. WholeAgrees(s2, After(g), w)
  BY <1>3, <1>4 DEF WholeAgrees, HalfAgrees
<1>6. ASSUME NEW u \in Wholes, u \in Names[panel], WholeAgrees(st, g, u), u # w
      PROVE  WholeAgrees(s2, After(g), u)
  <2>1. Msb(u) \notin {w, Msb(w), Lsb(w)} /\ Lsb(u) \notin {w, Msb(w), Lsb(w)}
    BY <1>6, HalvesOf
  <2>2. \A m \in {u, Msb(u), Lsb(u)} : Waits(st, g, m) => Waits(s2, After(g), m)
    BY <1>3, <1>6, <2>1, StillWaits
  <2>3. QED
    BY <1>3, <1>6, <2>1, <2>2, WholeKept
<1>7. Passes(st, s2, w, TRUE)
  BY <1>3 DEF Passes
<1>8. QED
  BY <1>2, <1>5, <1>6, <1>7

LEMMA JoinMsbKeeps ==
    ASSUME panel \in DOMAIN Names, NEW st, StoreType(st), NEW g,
           NEW w \in Wholes, Runs(g, Msb(w), "join_msb", TRUE)
    PROVE  LET s2 == Callback(st, "join_msb", Msb(w)) IN
           /\ Passes(st, s2, Msb(w), TRUE)
           /\ \A u \in Wholes : u \in Names[panel] /\ WholeAgrees(st, g, u)
                                    => WholeAgrees(s2, After(g), u)
<1> DEFINE h  == Msb(w)
           v  == st.ctl[h].val
           o  == st.ctl[h].origin
           s2 == JoinMsb(st, h, v, o)
<1>1. /\ h \in Names[panel] /\ w \in Names[panel] /\ Lsb(w) \in Names[panel]
      /\ v \in Values(h) /\ o \in Origins
  BY Current, HalvesOf DEF Runs
<1>2. Callback(st, "join_msb", h) = s2
  BY Zenon DEF Callback
<1>3. /\ o = "UI" => s2 = st
      /\ Changes(st, s2, {w}, o)
      /\ o # "UI" => s2.ctl[w].val \div 128 = v
  BY <1>1, JoinMsbDoes
<1> HIDE DEF s2
<1>4. \A m : m # h /\ Waits(st, g, m) => Waits(s2, After(g), m)
  BY <1>3, StillWaits
<1>5. w # h /\ Lsb(w) # h /\ Lsb(w) # w
  BY HalvesOf
<1>6. s2.ctl[h] = st.ctl[h]
  BY <1>1, <1>3, <1>5 DEF Changes
<1>7. ASSUME WholeAgrees(st, g, w) PROVE WholeAgrees(s2, After(g), w)
  <2>1. HalfAgrees(s2, After(g), w, h, s2.ctl[w].val \div 128)
    <3>1. CASE o # "UI"
      BY <1>3, <1>6, <3>1 DEF HalfAgrees
    <3>2. CASE o = "UI"
      BY <1>3, <1>4, <1>5, <1>7, <3>2 DEF WholeAgrees, HalfAgrees
    <3>3. QED
      BY <3>1, <3>2
  <2>2. HalfAgrees(s2, After(g), w, Lsb(w), s2.ctl[w].val % 128)
    BY <1>1, <1>3, <1>4, <1>5, <1>7, HalfKept DEF WholeAgrees
  <2>3. QED
    BY <2>1, <2>2 DEF WholeAgrees
<1>8. ASSUME NEW u \in Wholes, u \in Names[panel], WholeAgrees(st, g, u), u # w
      PROVE  WholeAgrees(s2, After(g), u)
  <2>1. u # h /\ Msb(u) \notin {w, h} /\ Lsb(u) \notin {w, h}
    BY <1>8, HalvesOf
  <2>2. \A m \in {u, Msb(u), Lsb(u)} : Waits(st, g, m) => Waits(s2, After(g), m)
    BY <1>4, <2>1
  <2>3. QED
    BY <1>3, <1>8, <2>1, <2>2, WholeKept
<1>9. Passes(st, s2, h, TRUE)
  BY <1>3 DEF Passes
<1>10. QED
  BY <1>2, <1>7, <1>8, <1>9

LEMMA JoinLsbKeeps ==
    ASSUME panel \in DOMAIN Names, NEW st, StoreType(st), NEW g,
           NEW w \in Wholes, Runs(g, Lsb(w), "join_lsb", TRUE)
    PROVE  LET s2 == Callback(st, "join_lsb", Lsb(w)) IN
           /\ Passes(st, s2, Lsb(w), TRUE)
           /\ \A u \in Wholes : u \in Names[panel] /\ WholeAgrees(st, g, u)
                                    => WholeAgrees(s2, After(g), u)
<1> DEFINE h  == Lsb(w)
           v  == st.ctl[h].val
           o  == st.ctl[h].origin
           s2 == JoinLsb(st, h, v, o)
<1>1. /\ h \in Names[panel] /\ w \in Names[panel] /\ Msb(w) \in Names[panel]
      /\ v \in Values(h) /\ o \in Origins
  BY Current, HalvesOf DEF Runs
<1>2. Callback(st, "join_lsb", h) = s2
  BY Zenon DEF Callback
<1>3. /\ o = "UI" => s2 = st
      /\ Changes(st, s2, {w}, o)
      /\ o # "UI" => s2.ctl[w].val % 128 = v
  BY <1>1, JoinLsbDoes
<1> HIDE DEF s2
<1>4. \A m : m # h /\ Waits(st, g, m) => Waits(s2, After(g), m)
  BY <1>3, StillWaits
<1>5. w # h /\ Msb(w) # h /\ Msb(w) # w
  BY HalvesOf
<1>6. s2.ctl[h] = st.ctl[h]
  BY <1>1, <1>3, <1>5 DEF Changes
<1>7. ASSUME WholeAgrees(st, g, w) PROVE WholeAgrees(s2, After(g), w)
  <2>1. HalfAgrees(s2, After(g), w, h, s2.ctl[w].val % 128)
    <3>1. CASE o # "UI"
      BY <1>3, <1>6, <3>1 DEF HalfAgrees
    <3>2. CASE o = "UI"
      BY <1>3, <1>4, <1>5, <1>7, <3>2 DEF WholeAgrees, HalfAgrees
    <3>3. QED
      BY <3>1, <3>2
  <2>2. HalfAgrees(s2, After(g), w, Msb(w), s2.ctl[w].val \div 128)
    BY <1>1, <1>3, <1>4, <1>5, <1>7, HalfKept DEF WholeAgrees
  <2>3. QED
    BY <2>1, <2>2 DEF WholeAgrees
<1>8. ASSUME NEW u \in Wholes, u \in Names[panel], WholeAgrees(st, g, u), u # w
      PROVE  WholeAgrees(s2, After(g), u)
  <2>1. u # h /\ Msb(u) \notin {w, h} /\ Lsb(u) \notin {w, h}
    BY <1>8, HalvesOf
  <2>2. \A m \in {u, Msb(u), Lsb(u)} : Waits(st, g, m) => Waits(s2, After(g), m)
    BY <1>4, <2>1
  <2>3. QED
    BY <1>3, <1>8, <2>1, <2>2, WholeKept
<1>9. Passes(st, s2, h, TRUE)
  BY <1>3 DEF Passes
<1>10. QED
  BY <1>2, <1>7, <1>8, <1>9

LEMMA SpeedKeeps ==
    ASSUME panel \in DOMAIN Names, panel = "tempo", NEW st, StoreType(st), NEW g,
           NEW n, NEW first, NEW cb \in {"tempo_speed", "reset_note"},
           Runs(g, n, cb, first), first => n = "mod_note_select"
    PROVE  LET s2 == Callback(st, cb, n) IN
           /\ Passes(st, s2, n, TRUE)
           /\ \A u \in Wholes : u \in Names[panel] /\ WholeAgrees(st, g, u)
                                    => WholeAgrees(s2, After(g), u)
<1> DEFINE s2 == Callback(st, cb, n)
<1>1. PICK ns, o : Changes(st, s2, ns, o) /\ o # "UI" /\ ns \cap Halves = {}
  <2>1. CASE cb = "tempo_speed"
    <3>1. s2 = TempoSpeed(st)
      BY <2>1, Zenon DEF Callback
    <3>2. Changes(st, s2, {"mod_speed"}, "NONE")
      BY <3>1, TempoSpeedDoes
    <3>3. {"mod_speed"} \cap Halves = {}
      BY DEF Halves
    <3>4. QED
      BY <3>2, <3>3
  <2>2. CASE cb = "reset_note"
    <3>1. s2 = ResetNote(st, st.ctl[n].origin)
      BY <2>2 DEF Callback
    <3>2. Changes(st, s2, {"mod_note_select"}, "MIDI")
      BY <3>1, ResetNoteDoes
    <3>3. {"mod_note_select"} \cap Halves = {}
      BY DEF Halves
    <3>4. QED
      BY <3>2, <3>3
  <2>3. QED
    BY <2>1, <2>2
<1> HIDE DEF s2
<1>2. Passes(st, s2, n, TRUE)
  BY <1>1 DEF Passes
<1>3. ASSUME NEW u \in Wholes, u \in Names[panel], WholeAgrees(st, g, u)
      PROVE  WholeAgrees(s2, After(g), u)
  <2>1. Msb(u) \in Halves /\ Lsb(u) \in Halves
    BY HalvesOf
  <2>2. "mod_note_select" \notin Wholes \cup Halves
    BY DEF Wholes, Halves
  <2>3. \A m \in {u, Msb(u), Lsb(u)} : Waits(st, g, m) => Waits(s2, After(g), m)
    BY <1>1, <2>1, <2>2, StillWaits
  <2>4. QED
    BY <1>1, <1>3, <2>1, <2>3, WholeKept
<1>4. QED
  BY <1>2, <1>3 DEF s2

LEMMA EffectKeeps ==
    ASSUME panel \in DOMAIN Names, panel = "effects", NEW st, StoreType(st), NEW g,
           NEW n, NEW cb \in {"from_raw", "to_raw", "delay_reset"}, Runs(g, n, cb, TRUE),
           /\ cb = "from_raw"    => n = "effect_select:raw"
           /\ cb = "to_raw"      => n = "effect_select"
           /\ cb = "delay_reset" => n = "delay_enable"
    PROVE  LET s2 == Callback(st, cb, n) IN
           /\ Passes(st, s2, n, cb # "to_raw")
           /\ EffectAgrees(st, g) => EffectAgrees(s2, After(g))
<1> DEFINE raw0 == "effect_select:raw"
           sel  == "effect_select"
           v    == st.ctl[n].val
           o    == st.ctl[n].origin
           s2   == Callback(st, cb, n)
<1>1. n \in Names[panel] /\ v \in Values(n) /\ o \in Origins
  BY Current DEF Runs
<1>2. raw0 \in Names[panel] /\ sel \in Names[panel]
  BY NamesAre
<1>3. CASE cb = "from_raw"
  <2>1. s2 = FromRaw(st, v, o)
    BY <1>3, Zenon DEF Callback
  <2>2. /\ Changes(st, s2, {"delay_enable", "effect_select"}, o)
        /\ s2.ctl["effect_select"].val + 1 \in EffectOf(v)
    BY <1>1, <1>3, <2>1, FromRawDoes
  <2> HIDE DEF s2
  <2>3. s2.ctl[raw0] = st.ctl[raw0]
    BY <1>2, <2>2 DEF Changes
  <2>4. EffectAgrees(s2, After(g))
    BY <1>3, <2>2, <2>3 DEF EffectAgrees
  <2>5. Passes(st, s2, n, cb # "to_raw")
    BY <2>2 DEF Passes
  <2>6. QED
    BY <2>4, <2>5 DEF s2
<1>4. CASE cb = "to_raw"
  <2>1. s2 = ToRaw(st, v)
    BY <1>4, Zenon DEF Callback
  <2>2. v \in 0 .. 2
    BY <1>1, <1>4, RowValues
  <2>3. /\ Changes(st, s2, {"effect_select:raw"}, "UI")
        /\ v + 1 \in EffectOf(s2.ctl["effect_select:raw"].val)
    BY <2>1, <2>2, ToRawDoes
  <2> HIDE DEF s2
  <2>4. s2.ctl[sel] = st.ctl[sel]
    BY <1>2, <2>3 DEF Changes
  <2>5. EffectAgrees(s2, After(g))
    BY <1>4, <2>3, <2>4 DEF EffectAgrees
  <2>6. Passes(st, s2, n, cb # "to_raw")
    BY <1>4, <2>3 DEF Passes
  <2>7. QED
    BY <2>5, <2>6 DEF s2
<1>5. CASE cb = "delay_reset"
  <2>1. s2 = DelayReset(st, v, o)
    BY <1>5, Zenon DEF Callback
  <2>2. Changes(st, s2, {"effect_select"}, o)
    BY <1>1, <2>1, DelayResetDoes
  <2> HIDE DEF s2
  <2>3. n # raw0 /\ n # sel
    BY <1>5
  <2>4. \A m \in {raw0, sel} : Waits(st, g, m) => Waits(s2, After(g), m)
    BY <2>2, <2>3, StillWaits
  <2>5. EffectAgrees(st, g) => EffectAgrees(s2, After(g))
    <3>1. CASE s2.ctl[sel] = st.ctl[sel]
      BY <1>2, <2>2, <2>4, <3>1 DEF EffectAgrees, Changes
    <3>2. CASE s2.ctl[sel] # st.ctl[sel]
      BY <1>2, <2>2, <3>2 DEF EffectAgrees, Changes, Waits
    <3>3. QED
      BY <3>1, <3>2
  <2>6. Passes(st, s2, n, cb # "to_raw")
    BY <2>2 DEF Passes
  <2>7. QED
    BY <2>5, <2>6 DEF s2
<1>6. QED
  BY <1>3, <1>4, <1>5

Shows == {"stomp_param2_wave", "stomp_param2_octave"}

LEMMA VariantKept ==
    ASSUME NEW st, NEW g, NEW s2, NEW g2, NEW ns, NEW o, Changes(st, s2, ns, o),
           NEW n \in Shows, n \in Names[panel], "stomp_param2" \in Names[panel],
           VariantAgrees(st, g, n),
           Waits(st, g, n) => Waits(s2, g2, n),
           Waits(st, g, "stomp_param2") => Waits(s2, g2, "stomp_param2"),
           n \in ns => o = "UI"
    PROVE  VariantAgrees(s2, g2, n)
<1> DEFINE x(s) == FromMidi(Config(n), s.ctl["stomp_param2"].val)
<1>1. s2.ctl["stomp_param2"] = st.ctl["stomp_param2"] => x(s2) = x(st)
  OBVIOUS
<1>2. Follows(st, g, n, "stomp_param2", x(st))
  BY DEF VariantAgrees
<1> HIDE DEF x
<1>3. Follows(s2, g2, n, "stomp_param2", x(s2))
  BY <1>1, <1>2, FollowsKept
<1>4. QED
  BY <1>3 DEF VariantAgrees, x

LEMMA VariantsKeeps ==
    ASSUME panel \in DOMAIN Names, panel = "stomp", NEW st, StoreType(st), NEW g,
           Runs(g, "stomp_param2", "variants", TRUE)
    PROVE  LET s2 == Callback(st, "variants", "stomp_param2") IN
           /\ Passes(st, s2, "stomp_param2", TRUE)
           /\ \A n \in Shows : VariantAgrees(s2, After(g), n)
<1> DEFINE p  == "stomp_param2"
           v  == st.ctl[p].val
           o  == st.ctl[p].origin
           s2 == Callback(st, "variants", p)
<1>1. p \in Names[panel] /\ v \in Values(p)
  BY NamesAre, Current
<1>2. s2 = Variants(st, v, o)
  BY Zenon DEF Callback
<1>3. /\ Changes(st, s2, Shows, IF o = "MIDI" THEN "MIDI" ELSE "NONE")
      /\ \A n \in Shows : s2.ctl[n].val = FromMidi(Config(n), v)
  BY <1>1, <1>2, VariantsDoes DEF Shows
<1> HIDE DEF s2
<1>4. s2.ctl[p] = st.ctl[p]
  BY <1>1, <1>3 DEF Changes, Shows
<1>5. \A n \in Shows : VariantAgrees(s2, After(g), n)
  BY <1>3, <1>4 DEF VariantAgrees, Follows
<1>6. Passes(st, s2, p, TRUE)
  BY <1>3 DEF Passes
<1>7. QED
  BY <1>5, <1>6 DEF s2

LEMMA ParamKeeps ==
    ASSUME panel \in DOMAIN Names, panel = "stomp", NEW st, StoreType(st), NEW g,
           NEW n \in Shows, Runs(g, n, "param", TRUE)
    PROVE  LET s2 == Callback(st, "param", n) IN
           /\ Passes(st, s2, n, TRUE)
           /\ \A m \in Shows : VariantAgrees(st, g, m) => VariantAgrees(s2, After(g), m)
<1> DEFINE p  == "stomp_param2"
           v  == st.ctl[n].val
           o  == st.ctl[n].origin
           s2 == Callback(st, "param", n)
<1>1. /\ n \in Names[panel] /\ v \in Values(n) /\ o \in Origins
      /\ p \in Names[panel] /\ p \notin Shows
  BY Current, NamesAre DEF Runs, Shows
<1>2. s2 = Param(st, n, v, o)
  BY Zenon DEF Callback
<1>3. /\ o # "UI" => s2 = st
      /\ Changes(st, s2, {p}, o)
      /\ o = "UI" => FromMidi(Config(n), s2.ctl[p].val) = v
  BY <1>1, <1>2, ParamDoes DEF Shows
<1> HIDE DEF s2
<1>4. \A m : m # n /\ Waits(st, g, m) => Waits(s2, After(g), m)
  BY <1>3, StillWaits
<1>5. s2.ctl[n] = st.ctl[n]
  BY <1>1, <1>3 DEF Changes
<1>6. ASSUME VariantAgrees(st, g, n) PROVE VariantAgrees(s2, After(g), n)
  <2>1. CASE o = "UI"
    BY <1>3, <1>5, <2>1 DEF VariantAgrees, Follows
  <2>2. CASE o # "UI"
    <3>1. Waits(st, g, p) => Waits(s2, After(g), p)
      BY <1>1, <1>4
    <3>2. QED
      BY <1>3, <1>6, <2>2, <3>1 DEF VariantAgrees, Follows
  <2>3. QED
    BY <2>1, <2>2
<1>7. ASSUME NEW m \in Shows, m # n, VariantAgrees(st, g, m)
      PROVE  VariantAgrees(s2, After(g), m)
  <2>1. m \in Names[panel]
    BY NamesAre DEF Shows
  <2>2. Waits(st, g, p) => Waits(s2, After(g), p)
    BY <1>1, <1>4
  <2>3. Waits(st, g, m) => Waits(s2, After(g), m)
    BY <1>4, <1>7
  <2>4. m \notin {p} /\ "stomp_param2" \in Names[panel]
    BY <1>1, <1>7
  <2>5. QED
    BY <1>3, <1>7, <2>1, <2>2, <2>3, <2>4, VariantKept
<1>8. Passes(st, s2, n, TRUE)
  BY <1>3 DEF Passes
<1>9. QED
  BY <1>6, <1>7, <1>8 DEF s2

LEMMA PedalKeeps ==
    ASSUME panel \in DOMAIN Names, panel = "pedal", NEW st, StoreType(st), NEW g,
           NEW n, NEW cb \in {"bucket", "assign"}, Runs(g, n, cb, TRUE),
           cb = "bucket" => n = "pedal_assign", cb = "assign" => n = "pedal_assign_select"
    PROVE  LET s2 == Callback(st, cb, n) IN
           /\ Passes(st, s2, n, TRUE)
           /\ PedalAgrees(st, g) => PedalAgrees(s2, After(g))
<1> DEFINE a  == "pedal_assign"
           b  == "pedal_assign_select"
           v  == st.ctl[n].val
           o  == st.ctl[n].origin
           s2 == Callback(st, cb, n)
<1>1. n \in Names[panel] /\ v \in Values(n) /\ o \in Origins
  BY Current DEF Runs
<1>2. a \in Names[panel] /\ b \in Names[panel]
  BY NamesAre
<1>3. CASE cb = "bucket"
  <2>1. s2 = Set(st, b, BucketOf(v), o)
    BY <1>3, Zenon DEF Callback
  <2>2. v \in Values("pedal_assign")
    BY <1>1, <1>3
  <2>3. Changes(st, s2, {b}, o) /\ s2.ctl[b].val = BucketOf(v)
    BY <1>1, <2>1, <2>2, BucketDoes
  <2> HIDE DEF s2
  <2>4. s2.ctl[a] = st.ctl[a]
    BY <1>2, <2>3 DEF Changes
  <2>5. PedalAgrees(s2, After(g))
    BY <1>3, <2>3, <2>4 DEF PedalAgrees, Follows
  <2>6. Passes(st, s2, n, TRUE)
    BY <2>3 DEF Passes
  <2>7. QED
    BY <2>5, <2>6 DEF s2
<1>4. CASE cb = "assign"
  <2>1. s2 = IF o = "UI" THEN Set(st, a, AssignedTo(v), o) ELSE st
    BY <1>4, Zenon DEF Callback
  <2>2. v \in 0 .. 2
    BY <1>1, <1>4, RowValues
  <2>3. Changes(st, s2, {a}, o) /\ (o = "UI" => BucketOf(s2.ctl[a].val) = v)
    BY <1>1, <2>1, <2>2, AssignDoes
  <2>4. o # "UI" => s2 = st
    BY <2>1
  <2> HIDE DEF s2
  <2>5. s2.ctl[b] = st.ctl[b]
    BY <1>2, <2>3 DEF Changes
  <2>6. Waits(st, g, a) => Waits(s2, After(g), a)
    BY <1>4, <2>3, StillWaits
  <2>7. PedalAgrees(st, g) => PedalAgrees(s2, After(g))
    <3>1. CASE o = "UI"
      BY <1>4, <2>3, <2>5, <3>1 DEF PedalAgrees, Follows
    <3>2. CASE o # "UI"
      BY <1>4, <2>4, <2>6, <3>2 DEF PedalAgrees, Follows
    <3>3. QED
      BY <3>1, <3>2
  <2>8. Passes(st, s2, n, TRUE)
    BY <2>3 DEF Passes
  <2>9. QED
    BY <2>7, <2>8 DEF s2
<1>5. QED
  BY <1>3, <1>4

\* Whatever callback runs, the controls go on to agree.
LEMMA CallbackKeeps ==
    ASSUME panel \in DOMAIN Names, NEW st, StoreType(st),
           NEW g, GtkType(g), g.left # <<>>, Agrees(st, g)
    PROVE  LET s2 == Callback(st, Head(g.left), g.sig.name) IN
           /\ Passes(st, s2, g.sig.name, Head(g.left) # "to_raw")
           /\ Agrees(s2, After(g))
<1> DEFINE n  == g.sig.name
           cb == Head(g.left)
           s2 == Callback(st, cb, n)
<1>1. Fits(g.sig) /\ n \in Names[panel]
  BY RunsOne
<1>2. CASE panel \in {"delay", "tempo"}
  <2>1. /\ Passes(st, s2, n, TRUE)
        /\ \A u \in Wholes : u \in Names[panel] /\ WholeAgrees(st, g, u)
                                 => WholeAgrees(s2, After(g), u)
    <3>1. n \in Wholes \cup Halves \cup {"mod_note_select"}
      BY <1>1, <1>2, NamesAre DEF Wholes, Halves
    <3>2. ~RunsEffect(g) /\ ~RunsStomp(g) /\ ~RunsPedal(g)
      BY <3>1 DEF RunsEffect, RunsStomp, RunsPedal, Runs, Wholes, Halves
    <3>3. CASE \E w \in Wholes : Runs(g, w, "split", TRUE)
      <4>1. PICK w \in Wholes : Runs(g, w, "split", TRUE)
        BY <3>3
      <4>2. n = w /\ cb = "split"
        BY <4>1 DEF Runs
      <4>3. QED
        BY <4>1, <4>2, SplitKeeps
    <3>4. CASE RunsHalf(g)
      <4>1. PICK w \in Wholes : \/ Runs(g, Msb(w), "join_msb", TRUE)
                                \/ Runs(g, Lsb(w), "join_lsb", TRUE)
        BY <3>4 DEF RunsHalf
      <4>2. CASE Runs(g, Msb(w), "join_msb", TRUE)
        <5>1. n = Msb(w) /\ cb = "join_msb"
          BY <4>2 DEF Runs
        <5>2. QED
          BY <4>2, <5>1, JoinMsbKeeps
      <4>3. CASE Runs(g, Lsb(w), "join_lsb", TRUE)
        <5>1. n = Lsb(w) /\ cb = "join_lsb"
          BY <4>3 DEF Runs
        <5>2. QED
          BY <4>3, <5>1, JoinLsbKeeps
      <4>4. QED
        BY <4>1, <4>2, <4>3
    <3>5. CASE Runs(g, "mod_note_select", "tempo_speed", TRUE)
      <4>1. n = "mod_note_select" /\ cb = "tempo_speed"
        BY <3>5 DEF Runs
      <4>2. panel = "tempo"
        BY <1>1, <1>2, <4>1, NamesAre
      <4>3. QED
        BY <3>5, <4>1, <4>2, SpeedKeeps
    <3>6. CASE Runs(g, "tempo", "tempo_speed", FALSE)
      <4>1. n = "tempo" /\ cb = "tempo_speed"
        BY <3>6 DEF Runs
      <4>2. panel = "tempo"
        BY <1>1, <1>2, <4>1, NamesAre
      <4>3. QED
        BY <3>6, <4>1, <4>2, SpeedKeeps
    <3>7. CASE Runs(g, "mod_speed", "reset_note", FALSE)
      <4>1. n = "mod_speed" /\ cb = "reset_note"
        BY <3>7 DEF Runs
      <4>2. panel = "tempo"
        BY <1>1, <1>2, <4>1, NamesAre
      <4>3. QED
        BY <3>7, <4>1, <4>2, SpeedKeeps
    <3>8. QED
      BY RunsOne, <3>2, <3>3, <3>4, <3>5, <3>6, <3>7 DEF RunsWhole
  <2>2. Passes(st, s2, n, cb # "to_raw")
    BY <2>1 DEF Passes
  <2>3. Agrees(s2, After(g))
    <3>1. /\ panel = "delay" => "delay_time" \in Names[panel]
          /\ panel = "tempo" => "tempo" \in Names[panel] /\ "mod_speed" \in Names[panel]
          /\ "delay_time" \in Wholes /\ "tempo" \in Wholes /\ "mod_speed" \in Wholes
      BY NamesAre DEF Wholes
    <3> HIDE DEF s2
    <3>2. QED
      BY <1>2, <2>1, <3>1 DEF Agrees
  <2>4. QED
    BY <2>2, <2>3
<1>3. CASE panel = "effects"
  <2>1. n \in {"effect_select:raw", "effect_select", "delay_enable"}
    BY <1>1, <1>3, NamesAre
  <2>2. RunsEffect(g)
    BY <2>1, RunsOne DEF RunsWhole, RunsHalf, RunsStomp, RunsPedal, Runs, Wholes, Msb, Lsb
  <2>3. /\ Passes(st, s2, n, cb # "to_raw")
        /\ EffectAgrees(st, g) => EffectAgrees(s2, After(g))
    <3>1. CASE Runs(g, "effect_select:raw", "from_raw", TRUE)
      <4>1. n = "effect_select:raw" /\ cb = "from_raw"
        BY <3>1 DEF Runs
      <4>2. QED
        BY <1>3, <3>1, <4>1, EffectKeeps
    <3>2. CASE Runs(g, "effect_select", "to_raw", TRUE)
      <4>1. n = "effect_select" /\ cb = "to_raw"
        BY <3>2 DEF Runs
      <4>2. QED
        BY <1>3, <3>2, <4>1, EffectKeeps
    <3>3. CASE Runs(g, "delay_enable", "delay_reset", TRUE)
      <4>1. n = "delay_enable" /\ cb = "delay_reset"
        BY <3>3 DEF Runs
      <4>2. QED
        BY <1>3, <3>3, <4>1, EffectKeeps
    <3>4. QED
      BY <2>2, <3>1, <3>2, <3>3 DEF RunsEffect
  <2> HIDE DEF s2
  <2>4. QED
    BY <1>3, <2>3 DEF Agrees, s2
<1>4. CASE panel = "stomp"
  <2>1. n \in Shows \cup {"stomp_param2"}
    BY <1>1, <1>4, NamesAre DEF Shows
  <2>2. RunsStomp(g)
    BY <2>1, RunsOne DEF RunsWhole, RunsHalf, RunsEffect, RunsPedal, Runs, Wholes, Msb, Lsb, Shows
  <2>3. /\ Passes(st, s2, n, TRUE)
        /\ (\A m \in Shows : VariantAgrees(st, g, m)) => \A m \in Shows : VariantAgrees(s2, After(g), m)
    <3>1. CASE Runs(g, "stomp_param2", "variants", TRUE)
      BY <1>4, <3>1, VariantsKeeps DEF Runs
    <3>2. CASE \E m \in Shows : Runs(g, m, "param", TRUE)
      BY <1>4, <3>2, ParamKeeps DEF Runs
    <3>3. QED
      BY <2>2, <3>1, <3>2 DEF RunsStomp, Shows
  <2>4. Passes(st, s2, n, cb # "to_raw")
    BY <2>3 DEF Passes
  <2> HIDE DEF s2
  <2>5. QED
    BY <1>4, <2>3, <2>4 DEF Agrees, Shows, s2
<1>5. CASE panel = "pedal"
  <2>1. n \in {"pedal_assign", "pedal_assign_select"}
    BY <1>1, <1>5, NamesAre
  <2>2. RunsPedal(g)
    BY <2>1, RunsOne DEF RunsWhole, RunsHalf, RunsEffect, RunsStomp, Runs, Wholes, Msb, Lsb
  <2>3. Passes(st, s2, n, TRUE) /\ (PedalAgrees(st, g) => PedalAgrees(s2, After(g)))
    <3>1. CASE Runs(g, "pedal_assign", "bucket", TRUE)
      <4>1. n = "pedal_assign" /\ cb = "bucket"
        BY <3>1 DEF Runs
      <4>2. QED
        BY <1>5, <3>1, <4>1, PedalKeeps
    <3>2. CASE Runs(g, "pedal_assign_select", "assign", TRUE)
      <4>1. n = "pedal_assign_select" /\ cb = "assign"
        BY <3>2 DEF Runs
      <4>2. QED
        BY <1>5, <3>2, <4>1, PedalKeeps
    <3>3. QED
      BY <2>2, <3>1, <3>2 DEF RunsPedal
  <2>4. Passes(st, s2, n, cb # "to_raw")
    BY <2>3 DEF Passes
  <2> HIDE DEF s2
  <2>5. QED
    BY <1>5, <2>3, <2>4 DEF Agrees, s2
<1>6. QED
  BY <1>2, <1>3, <1>4, <1>5, NamesAre

-----------------------------------------------------------------------------
(* What is sent, and loaded.                                               *)

LEMMA SentAll ==
    ASSUME panel \in DOMAIN Names
    PROVE  /\ Sent[panel] \subseteq Names[panel]
           /\ \A n \in Sent[panel] : n \in Bytes \/ n = "effect_select:raw" \/ n = "delay_enable"
<1>1. \/ panel = "delay" \/ panel = "effects" \/ panel = "tempo" \/ panel = "stomp" \/ panel = "pedal"
  BY NamesAre
<1>2. QED
  BY <1>1, NamesAre, SentAre DEF Bytes, Halves

LEMMA NotFalse == \A b \in BOOLEAN : (b # FALSE) = b
  BY Zenon

LEMMA ConfigIs ==
    /\ \A n \in Bytes : Config(n) = Normal
    /\ Config("effect_select:raw") = Normal /\ Config("delay_enable") = Switch(FALSE)
    /\ \A m : FromMidi(Normal, m) = m /\ ToMidi(Normal, m) = m % 256
    /\ \A m \in Int : FromMidi(Switch(FALSE), m) = AsInt(m > 63)
    /\ \A v \in Int : ToMidi(Switch(FALSE), v) = IF v > 0 THEN 127 ELSE 0
<1>1. ASSUME NEW n \in Bytes PROVE Config(n) = Normal
  <2>1. /\ n # "delay_time" /\ n # "delay_enable" /\ n # "stomp_param2_wave"
        /\ n # "stomp_param2_octave"
    BY DEF Bytes, Halves
  <2>2. QED
    BY <2>1 DEF Config
<1>2. Config("effect_select:raw") = Normal /\ Config("delay_enable") = Switch(FALSE)
  BY DEF Config
<1>3. Normal.kind = "normal"
  BY DEF Normal
<1>4. \A m : FromMidi(Normal, m) = m /\ ToMidi(Normal, m) = m % 256
  BY <1>3 DEF FromMidi, ToMidi
<1>5. Switch(FALSE).kind = "switch" /\ Switch(FALSE).inverted = FALSE
  BY DEF Switch
<1>6. ASSUME NEW m \in Int PROVE FromMidi(Switch(FALSE), m) = AsInt(m > 63)
  <2>1. FromMidi(Switch(FALSE), m) = AsInt((m > 63) # FALSE)
    BY <1>5 DEF FromMidi
  <2>2. (m > 63) \in BOOLEAN
    OBVIOUS
  <2>3. QED
    BY <2>1, <2>2, NotFalse, Zenon
<1>7. ASSUME NEW v \in Int PROVE ToMidi(Switch(FALSE), v) = IF v > 0 THEN 127 ELSE 0
  <2>1. ToMidi(Switch(FALSE), v) = IF (v > 0) # FALSE THEN 127 ELSE 0
    BY <1>5 DEF ToMidi
  <2>2. (v > 0) \in BOOLEAN
    OBVIOUS
  <2>3. QED
    BY <2>1, <2>2, NotFalse, Zenon
<1>8. QED
  BY <1>1, <1>2, <1>4, <1>6, <1>7

\* What a register holds.
Register(n, m) == m \in 0 .. 127 /\ (n = "effect_select:raw" => m \in Values(n))

LEMMA RegisterIn ==
    ASSUME panel \in DOMAIN Names, NEW n \in Sent[panel], NEW m, Register(n, m)
    PROVE  n \in Names[panel] /\ FromMidi(Config(n), m) \in Values(n)
<1>1. CASE n \in Bytes
  BY <1>1, SentAll, ConfigIs, ByteValues DEF Register
<1>2. CASE n = "effect_select:raw"
  BY <1>2, SentAll, ConfigIs DEF Register
<1>3. CASE n = "delay_enable"
  <2>1. (m > 63) \in BOOLEAN
    BY DEF Register
  <2>2. AsInt(m > 63) \in Values(n)
    BY <1>3, <2>1, AsIntIs, OtherValues
  <2>3. m \in Int
    BY DEF Register
  <2>4. FromMidi(Config(n), m) = AsInt(m > 63)
    BY <1>3, <2>3, ConfigIs
  <2>5. QED
    BY <2>2, <2>4, SentAll
<1>4. QED
  BY <1>1, <1>2, <1>3, SentAll

LEMMA RegisterOut ==
    ASSUME panel \in DOMAIN Names, NEW n \in Sent[panel], NEW v \in Values(n)
    PROVE  Register(n, ToMidi(Config(n), v))
<1>1. \A x \in 0 .. 127 : x % 256 = x
  OBVIOUS
<1>2. CASE n \in Bytes
  <2>1. v \in 0 .. 127 /\ n # "effect_select:raw"
    BY <1>2, ByteValues DEF Bytes, Halves
  <2>2. ToMidi(Config(n), v) = v
    BY <1>1, <1>2, <2>1, ConfigIs
  <2>3. QED
    BY <2>1, <2>2 DEF Register
<1>3. CASE n = "effect_select:raw"
  <2>1. v \in {2, 6, 10, 14}
    BY <1>3, EffectValues
  <2>2. ToMidi(Config(n), v) = v /\ v \in 0 .. 127
    BY <1>1, <1>3, <2>1, ConfigIs
  <2>3. QED
    BY <2>2 DEF Register
<1>4. CASE n = "delay_enable"
  <2>0. v \in Int
    BY <1>4, OtherValues
  <2>1. ToMidi(Config(n), v) = IF v > 0 THEN 127 ELSE 0
    BY <1>4, <2>0, ConfigIs
  <2>2. n # "effect_select:raw"
    BY <1>4
  <2>3. QED
    BY <2>1, <2>2 DEF Register
<1>5. QED
  BY <1>2, <1>3, <1>4, SentAll

LEMMA RegistersAre ==
    ASSUME panel \in DOMAIN Names, NEW r
    PROVE  r \in Registers(panel) <=>
               r \in [Sent[panel] -> 0 .. 127] /\ \A n \in Sent[panel] : Register(n, r[n])
<1>1. "effect_select:raw" \in Sent[panel] <=> panel = "effects"
  <2>1. \/ panel = "delay" \/ panel = "effects" \/ panel = "tempo" \/ panel = "stomp"
        \/ panel = "pedal"
    BY NamesAre
  <2>2. QED
    BY <2>1, SentAre
<1>2. QED
  BY <1>1 DEF Registers, Register

\* The registers that the device keeps.
LEMMA RegisterSet ==
    ASSUME panel \in DOMAIN Names, NEW r \in Registers(panel),
           NEW n \in Sent[panel], NEW m, Register(n, m)
    PROVE  [r EXCEPT ![n] = m] \in Registers(panel)
<1> DEFINE r2 == [r EXCEPT ![n] = m]
<1>1. r \in [Sent[panel] -> 0 .. 127] /\ \A k \in Sent[panel] : Register(k, r[k])
  BY RegistersAre
<1>2. m \in 0 .. 127
  BY DEF Register
<1>3. r2 \in [Sent[panel] -> 0 .. 127]
  BY <1>1, <1>2
<1>4. \A k \in Sent[panel] : Register(k, r2[k])
  BY <1>1
<1>5. QED
  BY <1>3, <1>4, RegistersAre

LEMMA SpeedSet ==
    ASSUME panel \in DOMAIN Names, panel = "tempo", NEW r \in Registers(panel)
    PROVE  DevSpeed(r) \in Registers(panel)
<1> DEFINE tempo == r["tempo:msb"] * 128 + r["tempo:lsb"]
           due   == r["mod_note_select"] # 0 /\ tempo \in Tempos
           x     == Speed(tempo) \div 128
           y     == Speed(tempo) % 128
<1>1. CASE due
  <2>1. Speed(tempo) \in Bits14
    BY <1>1, SpeedFits
  <2>2. x \in 0 .. 127 /\ y \in 0 .. 127
    BY <2>1, Bits14Are
  <2>3. /\ "mod_speed:msb" \in Sent[panel] /\ "mod_speed:lsb" \in Sent[panel]
        /\ Register("mod_speed:msb", x) /\ Register("mod_speed:lsb", y)
    BY <2>2, SentAre DEF Register
  <2>4. DevSpeed(r) = [r EXCEPT !["mod_speed:msb"] = x, !["mod_speed:lsb"] = y]
    BY <1>1, Zenon DEF DevSpeed
  <2> HIDE DEF x, y
  <2>5. [r EXCEPT !["mod_speed:msb"] = x] \in Registers(panel)
    BY <2>3, RegisterSet
  <2>6. [[r EXCEPT !["mod_speed:msb"] = x] EXCEPT !["mod_speed:lsb"] = y] \in Registers(panel)
    BY <2>3, <2>5, RegisterSet
  <2>7. QED
    BY <2>4, <2>6
<1>2. CASE ~due
  <2>1. DevSpeed(r) = r
    BY <1>2, Zenon DEF DevSpeed
  <2>2. QED
    BY <2>1
<1>3. QED
  BY <1>1, <1>2

LEMMA DevSetKeeps ==
    ASSUME panel \in DOMAIN Names, dev \in Registers(panel),
           NEW n \in Sent[panel], NEW m, Register(n, m)
    PROVE  DevSet(n, m) \in Registers(panel)
<1> DEFINE r == [dev EXCEPT ![n] = m]
<1>1. r \in Registers(panel)
  BY RegisterSet
<1> HIDE DEF r
<1>2. \/ panel = "delay" \/ panel = "effects" \/ panel = "tempo" \/ panel = "stomp"
      \/ panel = "pedal"
  BY NamesAre
<1>3. CASE n \in {"mod_speed:msb", "mod_speed:lsb"}
  <2>1. panel = "tempo"
    BY <1>2, <1>3, SentAre
  <2>2. "mod_note_select" \in Sent[panel] /\ Register("mod_note_select", 0)
    BY <2>1, SentAre DEF Register
  <2>3. DevSet(n, m) = [r EXCEPT !["mod_note_select"] = 0]
    BY <1>3 DEF DevSet, r
  <2>4. [r EXCEPT !["mod_note_select"] = 0] \in Registers(panel)
    BY <1>1, <2>2, RegisterSet
  <2>5. QED
    BY <2>3, <2>4, Zenon
<1>4. CASE n \in {"tempo:msb", "tempo:lsb", "mod_note_select"}
  <2>1. panel = "tempo"
    BY <1>2, <1>4, SentAre
  <2>2. DevSet(n, m) = DevSpeed(r)
    BY <1>4, Zenon DEF DevSet, r
  <2>3. QED
    BY <1>1, <2>1, <2>2, SpeedSet
<1>5. CASE n = "effect_select:raw"
  <2>1. panel = "effects"
    BY <1>2, <1>5, SentAre
  <2> DEFINE x == IF Delays(m) THEN 127 ELSE 0
  <2>2. "delay_enable" \in Sent[panel] /\ Register("delay_enable", x)
    BY <2>1, SentAre DEF Register
  <2>3. DevSet(n, m) = [r EXCEPT !["delay_enable"] = x]
    BY <1>5 DEF DevSet, r
  <2> HIDE DEF x
  <2>4. [r EXCEPT !["delay_enable"] = x] \in Registers(panel)
    BY <1>1, <2>2, RegisterSet
  <2>5. QED
    BY <2>3, <2>4, Zenon
<1>6. CASE n \notin {"mod_speed:msb", "mod_speed:lsb", "tempo:msb", "tempo:lsb",
                     "mod_note_select", "effect_select:raw"}
  <2>1. DevSet(n, m) = r
    BY <1>6 DEF DevSet, r
  <2>2. QED
    BY <1>1, <2>1
<1>7. QED
  BY <1>3, <1>4, <1>5, <1>6

LEMMA AddressedIn ==
    /\ \A i \in 1 .. Len(Addressed["delay"]) : Addressed["delay"][i] = "delay_time"
    /\ \A i \in 1 .. Len(Addressed["effects"]) :
          Addressed["effects"][i] \in {"effect_select:raw", "delay_enable"}
    /\ \A i \in 1 .. Len(Addressed["tempo"]) :
          Addressed["tempo"][i] \in {"tempo:lsb", "tempo:msb", "mod_speed:lsb",
                                     "mod_note_select", "mod_speed:msb"}
    /\ \A i \in 1 .. Len(Addressed["stomp"]) : Addressed["stomp"][i] = "stomp_param2"
    /\ \A i \in 1 .. Len(Addressed["pedal"]) : Addressed["pedal"][i] = "pedal_assign"
<1>1. \A i \in 1 .. Len(Addressed["delay"]) : Addressed["delay"][i] = "delay_time"
  BY DEF Addressed
<1>2. \A i \in 1 .. Len(Addressed["effects"]) :
         Addressed["effects"][i] \in {"effect_select:raw", "delay_enable"}
  BY DEF Addressed
<1>3. \A i \in 1 .. Len(Addressed["tempo"]) :
         Addressed["tempo"][i] \in {"tempo:lsb", "tempo:msb", "mod_speed:lsb",
                                    "mod_note_select", "mod_speed:msb"}
  BY DEF Addressed
<1>4. \A i \in 1 .. Len(Addressed["stomp"]) : Addressed["stomp"][i] = "stomp_param2"
  BY DEF Addressed
<1>5. \A i \in 1 .. Len(Addressed["pedal"]) : Addressed["pedal"][i] = "pedal_assign"
  BY DEF Addressed
<1>6. QED
  BY <1>1, <1>2, <1>3, <1>4, <1>5

\* A control of the edit buffer is one of the panel, and gets a value it can have.
LEMMA PatchFits ==
    ASSUME panel \in DOMAIN Names, NEW regs \in Registers(panel), NEW i \in 1 .. Len(Addressed[panel])
    PROVE  LET n == Addressed[panel][i] IN
           n \in Names[panel] /\ PatchValue(regs, n) \in Values(n) /\ n \notin Shows
           /\ n # "pedal_assign_select" /\ n # "effect_select"
<1> DEFINE n == Addressed[panel][i]
<1>1. \/ panel = "delay" \/ panel = "effects" \/ panel = "tempo" \/ panel = "stomp"
      \/ panel = "pedal"
  BY NamesAre
<1>2. n \in Sent[panel] \/ (panel = "delay" /\ n = "delay_time")
  <2>1. CASE panel = "delay"
    <3>1. i \in 1 .. Len(Addressed["delay"]) /\ n = Addressed["delay"][i]
      BY <2>1, Zenon
    <3>2. QED
      BY <2>1, <3>1, AddressedIn
  <2>2. CASE panel = "effects"
    <3>1. i \in 1 .. Len(Addressed["effects"]) /\ n = Addressed["effects"][i]
          /\ Sent[panel] = Sent["effects"]
      BY <2>2, Zenon
    <3>2. n \in Sent["effects"]
      BY <3>1, AddressedIn, SentAre
    <3>3. QED
      BY <3>1, <3>2
  <2>3. CASE panel = "tempo"
    <3>1. i \in 1 .. Len(Addressed["tempo"]) /\ n = Addressed["tempo"][i]
          /\ Sent[panel] = Sent["tempo"]
      BY <2>3, Zenon
    <3>2. n \in Sent["tempo"]
      BY <3>1, AddressedIn, SentAre
    <3>3. QED
      BY <3>1, <3>2
  <2>4. CASE panel = "stomp"
    <3>1. i \in 1 .. Len(Addressed["stomp"]) /\ n = Addressed["stomp"][i]
          /\ Sent[panel] = Sent["stomp"]
      BY <2>4, Zenon
    <3>2. n \in Sent["stomp"]
      BY <3>1, AddressedIn, SentAre
    <3>3. QED
      BY <3>1, <3>2
  <2>5. CASE panel = "pedal"
    <3>1. i \in 1 .. Len(Addressed["pedal"]) /\ n = Addressed["pedal"][i]
          /\ Sent[panel] = Sent["pedal"]
      BY <2>5, Zenon
    <3>2. n \in Sent["pedal"]
      BY <3>1, AddressedIn, SentAre
    <3>3. QED
      BY <3>1, <3>2
  <2>6. QED
    BY <1>1, <2>1, <2>2, <2>3, <2>4, <2>5
<1> HIDE DEF n
<1>3. \A k \in Sent[panel] : Register(k, regs[k])
  BY RegistersAre
<1>4. CASE n \in Sent[panel]
  <2>1. n # "delay_time" /\ n \notin Shows /\ n # "pedal_assign_select" /\ n # "effect_select"
    BY <1>1, <1>4, SentAre DEF Shows
  <2>2. PatchValue(regs, n) = FromMidi(Config(n), regs[n])
    BY <2>1 DEF PatchValue
  <2>3. QED
    BY <1>3, <1>4, <2>1, <2>2, RegisterIn DEF n
<1>5. CASE panel = "delay" /\ n = "delay_time"
  <2>1. "delay_time:msb" \in Sent[panel] /\ "delay_time:lsb" \in Sent[panel]
    BY <1>5, SentAre
  <2>2. regs["delay_time:msb"] \in 0 .. 127 /\ regs["delay_time:lsb"] \in 0 .. 127
    BY <1>3, <2>1 DEF Register
  <2>3. PatchValue(regs, n) = regs["delay_time:msb"] * 128 + regs["delay_time:lsb"]
    <3>1. Msb("delay_time") = "delay_time:msb" /\ Lsb("delay_time") = "delay_time:lsb"
      BY DEF Msb, Lsb
    <3>2. PatchValue(regs, n) = regs[Msb(n)] * 128 + regs[Lsb(n)]
      BY <1>5 DEF PatchValue
    <3>3. QED
      BY <1>5, <3>1, <3>2, Zenon
  <2>4. PatchValue(regs, n) \in Bits14
    <3> DEFINE a == regs["delay_time:msb"]
               b == regs["delay_time:lsb"]
    <3>1. a \in 0 .. 127 /\ b \in 0 .. 127
      BY <2>2
    <3> HIDE DEF a, b
    <3>2. a * 128 + b \in Bits14
      BY <3>1, Bits14Are
    <3>3. QED
      BY <2>3, <3>2, Zenon DEF a, b
  <2>5. n \in Names[panel] /\ n \in Wholes /\ n \notin Shows
    BY <1>5, NamesAre DEF Wholes, Shows
  <2>6. QED
    BY <1>5, <2>4, <2>5, WholeValues DEF n
<1>6. QED
  BY <1>2, <1>4, <1>5

-----------------------------------------------------------------------------
(* The steps.                                                              *)

\* The controls that a patch sets.
Loaded == Names[panel] \ (Shows \cup {"pedal_assign_select", "effect_select"})

LEMMA LoadOneDoes ==
    ASSUME panel \in DOMAIN Names, NEW st, StoreType(st), NEW regs \in Registers(panel),
           NEW i \in 1 .. 5
    PROVE  Changes(st, LoadOne(st, regs, i), Loaded, "NONE")
<1>1. CASE i > Len(Addressed[panel])
  <2>1. LoadOne(st, regs, i) = st
    BY <1>1 DEF LoadOne
  <2>2. QED
    BY <2>1, NoChange
<1>2. CASE ~(i > Len(Addressed[panel]))
  <2> DEFINE n == Addressed[panel][i]
  <2>1. Len(Addressed[panel]) \in Nat
    BY NamesAre, AddressedAre
  <2>2. i \in 1 .. Len(Addressed[panel])
    BY <1>2, <2>1
  <2>3. n \in Loaded /\ n \in Names[panel] /\ PatchValue(regs, n) \in Values(n)
    BY <2>2, PatchFits DEF Loaded
  <2>4. LoadOne(st, regs, i) = Set(st, n, PatchValue(regs, n), "NONE")
    BY <1>2 DEF LoadOne
  <2> HIDE DEF n
  <2>5. Changes(st, Set(st, n, PatchValue(regs, n), "NONE"), {n}, "NONE")
    BY <2>3, SetChanges DEF Origins
  <2>6. Changes(st, Set(st, n, PatchValue(regs, n), "NONE"), Loaded, "NONE")
    BY <2>3, <2>5 DEF Changes, Appends
  <2>7. QED
    BY <2>4, <2>6
<1>3. QED
  BY <1>1, <1>2

LEMMA LoadDoes ==
    ASSUME panel \in DOMAIN Names, StoreType(store), NEW regs \in Registers(panel), Load(regs)
    PROVE  \E s2 : Becomes(s2) /\ Changes(store, s2, Loaded, "NONE")
<1> DEFINE To(st, i) == LoadOne(st, regs, i)
           s1 == To(store, 1)
           s2 == To(s1, 2)
           s3 == To(s2, 3)
           s4 == To(s3, 4)
           s5 == To(s4, 5)
<1>1. Becomes(s5)
  BY Zenon DEF Load
<1>2. Changes(store, s1, Loaded, "NONE")
  BY LoadOneDoes
<1> HIDE DEF s1
<1>12. StoreType(s1)
  BY <1>2 DEF Changes
<1>3. Changes(s1, s2, Loaded, "NONE")
  BY <1>12, LoadOneDoes
<1> HIDE DEF s2
<1>13. StoreType(s2)
  BY <1>3 DEF Changes
<1>4. Changes(s2, s3, Loaded, "NONE")
  BY <1>13, LoadOneDoes
<1> HIDE DEF s3
<1>14. StoreType(s3)
  BY <1>4 DEF Changes
<1>5. Changes(s3, s4, Loaded, "NONE")
  BY <1>14, LoadOneDoes
<1> HIDE DEF s4
<1>15. StoreType(s4)
  BY <1>5 DEF Changes
<1>6. Changes(s4, s5, Loaded, "NONE")
  BY <1>15, LoadOneDoes
<1> HIDE DEF s5
<1>7. Changes(store, s2, Loaded, "NONE")
  BY <1>2, <1>3, ChangesTwice
<1>8. Changes(store, s3, Loaded, "NONE")
  BY <1>4, <1>7, ChangesTwice
<1>9. Changes(store, s4, Loaded, "NONE")
  BY <1>5, <1>8, ChangesTwice
<1>10. Changes(store, s5, Loaded, "NONE")
  BY <1>6, <1>9, ChangesTwice
<1>11. QED
  BY <1>1, <1>10

\* A change by whom it may come from: who shows another control is set by the user
\* alone, and a half is not.
Proper(ns, o) ==
    /\ ns \cap Halves # {} => o # "UI"
    /\ ns \cap (Shows \cup {"pedal_assign_select"}) # {} => o = "UI"

LEMMA ProperKeeps ==
    ASSUME panel \in DOMAIN Names, NEW st, NEW g, NEW s2, NEW ns, NEW o,
           Changes(st, s2, ns, o), Proper(ns, o), Agrees(st, g)
    PROVE  Agrees(s2, g)
<1>1. \A n : Waits(st, g, n) => Waits(s2, g, n)
  BY DEF Changes, Waits
<1>2. \A w \in Wholes : w \in Names[panel] /\ WholeAgrees(st, g, w) => WholeAgrees(s2, g, w)
  <2>1. \A w \in Wholes : Msb(w) \in ns \/ Lsb(w) \in ns => o # "UI"
    BY HalvesOf DEF Proper
  <2>2. QED
    BY <1>1, <2>1, WholeKept
<1>3. \/ panel = "delay" \/ panel = "effects" \/ panel = "tempo" \/ panel = "stomp"
      \/ panel = "pedal"
  BY NamesAre
<1>4. CASE panel \in {"delay", "tempo"}
  <2>1. /\ panel = "delay" => "delay_time" \in Names[panel]
        /\ panel = "tempo" => "tempo" \in Names[panel] /\ "mod_speed" \in Names[panel]
        /\ "delay_time" \in Wholes /\ "tempo" \in Wholes /\ "mod_speed" \in Wholes
    BY NamesAre DEF Wholes
  <2>2. QED
    BY <1>2, <1>4, <2>1 DEF Agrees
<1>5. CASE panel = "effects"
  <2>1. "effect_select:raw" \in Names[panel] /\ "effect_select" \in Names[panel]
    BY <1>5, NamesAre
  <2>2. EffectAgrees(st, g)
    BY <1>5 DEF Agrees
  <2>3. ASSUME /\ s2.ctl["effect_select:raw"] = st.ctl["effect_select:raw"]
               /\ s2.ctl["effect_select"] = st.ctl["effect_select"]
        PROVE  EffectAgrees(s2, g)
    BY <1>1, <2>2, <2>3 DEF EffectAgrees
  <2>4. ASSUME \/ s2.ctl["effect_select:raw"] # st.ctl["effect_select:raw"]
               \/ s2.ctl["effect_select"] # st.ctl["effect_select"]
        PROVE  EffectAgrees(s2, g)
    <3>1. Queued(s2, "effect_select:raw") \/ Queued(s2, "effect_select")
      BY <2>1, <2>4 DEF Changes
    <3>2. QED
      BY <3>1 DEF EffectAgrees, Waits
  <2>5. EffectAgrees(s2, g)
    BY <2>3, <2>4
  <2>6. QED
    BY <1>5, <2>5 DEF Agrees
<1>6. CASE panel = "stomp"
  <2>1. "stomp_param2" \in Names[panel] /\ \A n \in Shows : n \in Names[panel]
    BY <1>6, NamesAre DEF Shows
  <2>2. \A n \in Shows : n \in ns => o = "UI"
    BY DEF Proper
  <2>3. \A n \in Shows : VariantAgrees(st, g, n) => VariantAgrees(s2, g, n)
    BY <1>1, <2>1, <2>2, VariantKept
  <2>4. QED
    BY <1>6, <2>3 DEF Agrees, Shows
<1>7. CASE panel = "pedal"
  <2> DEFINE a == "pedal_assign"
             b == "pedal_assign_select"
             x(s) == BucketOf(s.ctl["pedal_assign"].val)
  <2>1. a \in Names[panel] /\ b \in Names[panel] /\ Follows(st, g, b, a, x(st))
    BY <1>7, NamesAre DEF Agrees, PedalAgrees
  <2>2. b \in ns => o = "UI"
    BY DEF Proper
  <2>3. s2.ctl[a] = st.ctl[a] => x(s2) = x(st)
    OBVIOUS
  <2> HIDE DEF x
  <2>4. Follows(s2, g, b, a, x(s2))
    BY <1>1, <2>1, <2>2, <2>3, FollowsKept
  <2>5. QED
    BY <1>7, <2>4 DEF Agrees, PedalAgrees, x
<1>8. QED
  BY <1>3, <1>4, <1>5, <1>6, <1>7

\* Nothing is set, and what waits goes on to wait.
LEMMA StillAgrees ==
    ASSUME panel \in DOMAIN Names, NEW st, NEW g, NEW s2, NEW g2, s2.ctl = st.ctl,
           \A n \in Names[panel] : Waits(st, g, n) => Waits(s2, g2, n), Agrees(st, g)
    PROVE  Agrees(s2, g2)
<1>1. \A w \in Wholes : w \in Names[panel] /\ WholeAgrees(st, g, w) => WholeAgrees(s2, g2, w)
  <2>1. SUFFICES ASSUME NEW w \in Wholes, w \in Names[panel], WholeAgrees(st, g, w)
                 PROVE  WholeAgrees(s2, g2, w)
    OBVIOUS
  <2>2. Msb(w) \in Names[panel] /\ Lsb(w) \in Names[panel]
    BY <2>1, HalvesOf
  <2>3. QED
    BY <2>1, <2>2 DEF WholeAgrees, HalfAgrees
<1>2. \/ panel = "delay" \/ panel = "effects" \/ panel = "tempo" \/ panel = "stomp"
      \/ panel = "pedal"
  BY NamesAre
<1>3. CASE panel \in {"delay", "tempo"}
  <2>1. /\ panel = "delay" => "delay_time" \in Names[panel]
        /\ panel = "tempo" => "tempo" \in Names[panel] /\ "mod_speed" \in Names[panel]
        /\ "delay_time" \in Wholes /\ "tempo" \in Wholes /\ "mod_speed" \in Wholes
    BY NamesAre DEF Wholes
  <2>2. QED
    BY <1>1, <1>3, <2>1 DEF Agrees
<1>4. CASE panel = "effects"
  <2>1. "effect_select:raw" \in Names[panel] /\ "effect_select" \in Names[panel]
    BY <1>4, NamesAre
  <2>2. QED
    BY <1>4, <2>1 DEF Agrees, EffectAgrees
<1>5. CASE panel = "stomp"
  <2>1. /\ "stomp_param2" \in Names[panel] /\ "stomp_param2_wave" \in Names[panel]
        /\ "stomp_param2_octave" \in Names[panel]
    BY <1>5, NamesAre
  <2>2. QED
    BY <1>5, <2>1 DEF Agrees, VariantAgrees, Follows
<1>6. CASE panel = "pedal"
  <2>1. "pedal_assign" \in Names[panel] /\ "pedal_assign_select" \in Names[panel]
    BY <1>6, NamesAre
  <2>2. QED
    BY <1>6, <2>1 DEF Agrees, PedalAgrees, Follows
<1>7. QED
  BY <1>2, <1>3, <1>4, <1>5, <1>6

\* The store of the next state.
LEMMA Primed ==
    ASSUME panel' = panel, NEW s2, StoreType(s2), Becomes(s2), NEW g2, gtk' = g2
    PROVE  /\ store' = s2 /\ StoreType(store)'
           /\ Agrees(s2, g2) => AgreeInv'
<1>1. store' = s2
  BY DEF StoreType, Becomes, store
<1>2. StoreType(store)'
  BY <1>1 DEF StoreType, Fits
<1>3. Agrees(s2, g2) => AgreeInv'
  BY <1>1 DEF Agrees, AgreeInv
<1>4. QED
  BY <1>1, <1>2, <1>3

\* What a step has to show.
LEMMA Kept ==
    ASSUME TypeInv, panel' = panel, slow' = slow, NEW s2, StoreType(s2), Becomes(s2),
           NEW g2, GtkType(g2), gtk' = g2, NEW b2, EventsType(b2), bus' = b2,
           NEW d2 \in Registers(panel), dev' = d2, Agrees(s2, g2)
    PROVE  TypeInv' /\ AgreeInv'
<1>1. StoreType(store)' /\ AgreeInv'
  BY Primed
<1>2. GtkType(gtk)'
  BY DEF GtkType, Fits
<1>3. EventsType(bus)'
  BY DEF EventsType, Events, EventType, Fits, FromDevice
<1>4. dev' \in Registers(panel)'
  OBVIOUS
<1>5. QED
  BY <1>1, <1>2, <1>3, <1>4 DEF TypeInv

LEMMA InPanel ==
    ASSUME TypeInv
    PROVE  /\ panel \in DOMAIN Names /\ panel \in Panels /\ store.ctl = ctl /\ store.queue = queue
           /\ Becomes(store) <=> ctl' = ctl /\ queue' = queue
  BY ControlsAssumption DEF TypeInv, store, Becomes

LEMMA Added ==
    ASSUME NEW b, EventsType(b), NEW e \in Events, EventType(e)
    PROVE  EventsType(Append(b, e)) /\ EventsType(<<e>>)
<1>1. EventsType(Append(b, e))
  <2>1. b \in Seq(Events)
    BY DEF EventsType
  <2>2. /\ Append(b, e) \in Seq(Events) /\ DOMAIN Append(b, e) = 1 .. Len(b) + 1
        /\ Append(b, e)[Len(b) + 1] = e /\ DOMAIN b = 1 .. Len(b) /\ Len(b) \in Nat
        /\ \A i \in 1 .. Len(b) : Append(b, e)[i] = b[i]
    BY <2>1
  <2>3. QED
    BY <2>2 DEF EventsType
<1>2. EventsType(<<e>>)
  BY DEF EventsType
<1>3. QED
  BY <1>1, <1>2

LEMMA Rested ==
    ASSUME NEW b, EventsType(b), b # <<>>, NEW more, EventsType(more)
    PROVE  EventsType(Tail(b) \o more)
<1> DEFINE c == Tail(b) \o more
<1>1. b \in Seq(Events) /\ more \in Seq(Events)
  BY DEF EventsType
<1>2. /\ Tail(b) \in Seq(Events) /\ Len(Tail(b)) = Len(b) - 1 /\ Len(b) \in Nat /\ Len(b) > 0
      /\ \A i \in 1 .. Len(Tail(b)) : Tail(b)[i] = b[i + 1]
  BY <1>1
<1>3. /\ c \in Seq(Events) /\ Len(c) = Len(Tail(b)) + Len(more) /\ Len(more) \in Nat
      /\ \A i \in 1 .. Len(c) :
            c[i] = IF i <= Len(Tail(b)) THEN Tail(b)[i] ELSE more[i - Len(Tail(b))]
  BY <1>1, <1>2
<1>4. ASSUME NEW i \in DOMAIN c PROVE EventType(c[i])
  <2>1. i \in 1 .. Len(c)
    BY <1>3
  <2>2. CASE i <= Len(Tail(b))
    <3>1. c[i] = b[i + 1] /\ i + 1 \in DOMAIN b
      BY <1>1, <1>2, <1>3, <2>1, <2>2
    <3>2. QED
      BY <3>1 DEF EventsType
  <2>3. CASE ~(i <= Len(Tail(b)))
    <3>1. c[i] = more[i - Len(Tail(b))] /\ i - Len(Tail(b)) \in DOMAIN more
      BY <1>1, <1>2, <1>3, <2>1, <2>3
    <3>2. QED
      BY <3>1 DEF EventsType
  <2>4. QED
    BY <2>2, <2>3
<1>5. QED
  BY <1>3, <1>4 DEF EventsType

LEMMA CallbacksLen ==
    \A n \in AllNames :
        /\ Callbacks[n] # <<>> /\ (Len(Callbacks[n]) = 1 \/ Len(Callbacks[n]) = 2)
        /\ Len(Callbacks[n]) = 1 => Tail(Callbacks[n]) = <<>>
        /\ Len(Callbacks[n]) = 2 => Tail(Tail(Callbacks[n])) = <<>>
<1>1. /\ \A a : Len(<<a>>) = 1 /\ Tail(<<a>>) = <<>> /\ <<a>> # <<>>
      /\ \A a, b : Len(<<a, b>>) = 2 /\ Tail(Tail(<<a, b>>)) = <<>> /\ <<a, b>> # <<>>
  OBVIOUS
<1>2. SUFFICES ASSUME NEW n \in AllNames
               PROVE  (\E a : Callbacks[n] = <<a>>) \/ (\E a, b : Callbacks[n] = <<a, b>>)
  <2>1. ASSUME NEW q, (\E a : q = <<a>>) \/ (\E a, b : q = <<a, b>>)
        PROVE  /\ q # <<>> /\ (Len(q) = 1 \/ Len(q) = 2)
               /\ Len(q) = 1 => Tail(q) = <<>>
               /\ Len(q) = 2 => Tail(Tail(q)) = <<>>
    <3>1. CASE \E a : q = <<a>>
      BY <1>1, <3>1
    <3>2. CASE \E a, b : q = <<a, b>>
      BY <1>1, <3>2
    <3>3. QED
      BY <2>1, <3>1, <3>2
  <2>2. QED
    BY <2>1, Zenon
<1>3. CASE n \in {"tempo", "mod_speed"}
  BY <1>3, CallbacksAre, Zenon
<1>4. CASE n \in {"delay_time:msb", "tempo:msb", "mod_speed:msb", "delay_time:lsb", "tempo:lsb",
                  "mod_speed:lsb", "stomp_param2_wave", "stomp_param2_octave"}
  BY <1>4, CallbacksAre, Zenon
<1>5. CASE n \in {"delay_time", "mod_note_select", "effect_select:raw", "effect_select",
                  "delay_enable", "stomp_param2", "pedal_assign", "pedal_assign_select"}
  BY <1>5, CallbacksAre, Zenon
<1>6. QED
  BY <1>3, <1>4, <1>5 DEF AllNames

LEMMA IdleIs == Idle.left = <<>> /\ Idle.sig.name = "none" /\ "none" \notin AllNames
                /\ Idle.sig.origin = "NONE"
  BY DEF Idle, Signal, AllNames

-----------------------------------------------------------------------------
(* One step of each kind.                                                  *)

LEMMA ReceiveKeeps ==
    ASSUME TypeInv, AgreeInv, GtkReceive
    PROVE  /\ TypeInv' /\ AgreeInv'
           /\ Quiet(store, gtk, bus) => Quiet(store', gtk', bus')
<1> DEFINE s2 == [ctl |-> ctl, queue |-> Tail(queue)]
           g2 == [sig |-> Head(queue), left |-> Callbacks[Head(queue).name]]
<1>1. panel \in DOMAIN Names /\ store.ctl = ctl /\ store.queue = queue
  BY InPanel
<1>2. /\ gtk = Idle /\ queue # <<>> /\ gtk' = g2 /\ queue' = Tail(queue) /\ ctl' = ctl
      /\ panel' = panel /\ slow' = slow /\ bus' = bus /\ dev' = dev
  BY DEF GtkReceive
<1>3. StoreType(store)
  BY DEF TypeInv
<1>4. /\ queue \in Seq(Signals) /\ \A i \in 1 .. Len(queue) : Fits(queue[i])
      /\ Head(queue) = queue[1] /\ Len(queue) \in Nat /\ Len(queue) > 0
      /\ Tail(queue) \in Seq(Signals) /\ Len(Tail(queue)) = Len(queue) - 1
      /\ \A i \in 1 .. Len(queue) - 1 : Tail(queue)[i] = queue[i + 1]
  BY <1>1, <1>2, <1>3 DEF StoreType
<1>5. s2 = [ctl |-> s2.ctl, queue |-> s2.queue] /\ s2.ctl = ctl /\ s2.queue = Tail(queue)
  OBVIOUS
<1>6. StoreType(s2)
  <2>1. \A i \in DOMAIN s2.queue : Fits(s2.queue[i])
    BY <1>4, <1>5
  <2>2. QED
    BY <1>1, <1>3, <1>4, <1>5, <2>1 DEF StoreType
<1>7. GtkType(g2)
  <2>1. Fits(g2.sig) /\ g2.left = Callbacks[g2.sig.name] /\ g2 = [sig |-> g2.sig, left |-> g2.left]
    BY <1>4
  <2>2. QED
    BY <2>1 DEF GtkType
<1>8. ASSUME NEW n \in Names[panel], Waits(store, gtk, n) PROVE Waits(s2, g2, n)
  <2>1. Queued(store, n)
    BY <1>1, <1>2, <1>8, IdleIs, PanelNames DEF Waits
  <2>2. PICK i \in 1 .. Len(queue) : queue[i].name = n
    BY <1>1, <1>4, <2>1 DEF Queued
  <2>3. CASE i = 1
    <3>1. g2.sig.name = n /\ g2.left = Callbacks[n]
      BY <1>4, <2>2, <2>3
    <3>2. QED
      BY <3>1 DEF Waits
  <2>4. CASE i # 1
    <3>1. i - 1 \in DOMAIN Tail(queue) /\ Tail(queue)[i - 1].name = n
      BY <1>4, <2>2, <2>4
    <3>2. QED
      BY <3>1 DEF Waits, Queued
  <2>5. QED
    BY <2>3, <2>4
<1>9. Becomes(s2)
  BY <1>2 DEF Becomes
<1> HIDE DEF s2, g2
<1>10. Agrees(s2, g2)
  BY <1>1, <1>5, <1>8, StillAgrees DEF AgreeInv
<1>11. TypeInv' /\ AgreeInv'
  BY <1>2, <1>6, <1>7, <1>9, <1>10, Kept DEF TypeInv
<1>12. store' = s2
  BY <1>2, <1>6, <1>9, Primed
<1>13. ASSUME Quiet(store, gtk, bus) PROVE Quiet(s2, g2, bus)
  <2>1. QuietStore(s2) /\ g2.sig.origin # "UI"
    BY <1>1, <1>4, <1>5, <1>13 DEF Quiet, QuietStore, g2
  <2>2. Alone(s2, g2, bus) \/ panel # "effects"
    BY <1>1, <1>2, <1>13 DEF Quiet, QuietEffects, Alone
  <2>3. Waits(s2, g2, "effect_select") => Queued(store, "effect_select")
    BY <1>1, <1>4, <1>5 DEF Waits, Queued, g2
  <2>4. Matches(store) => Matches(s2)
    BY <1>1, <1>5 DEF Matches
  <2>5. QED
    BY <1>13, <2>1, <2>2, <2>3, <2>4 DEF Quiet, QuietEffects, Waits
<1>14. QED
  BY <1>2, <1>11, <1>12, <1>13

LEMMA CallbackStep ==
    ASSUME TypeInv, AgreeInv, GtkCallback
    PROVE  TypeInv' /\ AgreeInv'
<1> DEFINE s2 == Callback(store, Head(gtk.left), gtk.sig.name)
<1>1. panel \in DOMAIN Names /\ StoreType(store) /\ GtkType(gtk) /\ Agrees(store, gtk)
  BY InPanel DEF TypeInv, AgreeInv
<1>2. /\ gtk.left # <<>> /\ Becomes(s2) /\ gtk' = After(gtk)
      /\ panel' = panel /\ slow' = slow /\ bus' = bus /\ dev' = dev
  BY DEF GtkCallback, After
<1>3. Passes(store, s2, gtk.sig.name, Head(gtk.left) # "to_raw") /\ Agrees(s2, After(gtk))
  BY <1>1, <1>2, CallbackKeeps
<1> HIDE DEF s2
<1>4. StoreType(s2)
  BY <1>3 DEF Passes, Changes
<1>5. GtkType(After(gtk))
  <2>1. gtk = [sig |-> gtk.sig, left |-> gtk.left] /\ Fits(gtk.sig)
    BY <1>1, <1>2, IdleIs DEF GtkType
  <2>2. gtk.sig.name \in AllNames
    BY <1>1, <2>1, PanelNames DEF Fits
  <2>3. After(gtk) = [sig |-> gtk.sig, left |-> Tail(gtk.left)]
    <3>1. ASSUME NEW a, NEW b, NEW c, NEW g, g = [[sig |-> a, left |-> b] EXCEPT !.left = c]
          PROVE  g = [sig |-> a, left |-> c]
      BY <3>1
    <3>2. QED
      BY <2>1, <3>1, Zenon DEF After
  <2>4. \/ Tail(gtk.left) = <<>>
        \/ Len(Callbacks[gtk.sig.name]) = 2 /\ Tail(gtk.left) = Tail(Callbacks[gtk.sig.name])
    <3>1. \/ gtk.left = Callbacks[gtk.sig.name]
          \/ Len(Callbacks[gtk.sig.name]) = 2 /\ gtk.left = Tail(Callbacks[gtk.sig.name])
      BY <1>1, <1>2, IdleIs DEF GtkType
    <3>2. QED
      BY <2>2, <3>1, CallbacksLen
  <2>5. QED
    BY <2>1, <2>3, <2>4 DEF GtkType
<1>6. QED
  BY <1>2, <1>3, <1>4, <1>5, Kept DEF TypeInv

LEMMA PassKeeps ==
    ASSUME TypeInv, AgreeInv, GtkPass
    PROVE  /\ TypeInv' /\ AgreeInv'
           /\ Quiet(store, gtk, bus) => Quiet(store', gtk', bus')
<1> DEFINE e == [type |-> "cc", sig |-> gtk.sig]
<1>1. panel \in DOMAIN Names /\ StoreType(store) /\ GtkType(gtk) /\ EventsType(bus)
  BY InPanel DEF TypeInv
<1>2. /\ gtk # Idle /\ gtk.left = <<>> /\ gtk' = Idle /\ bus' = Append(bus, e)
      /\ panel' = panel /\ slow' = slow /\ ctl' = ctl /\ queue' = queue /\ dev' = dev
  BY DEF GtkPass
<1>3. Fits(gtk.sig)
  BY <1>1, <1>2 DEF GtkType
<1>4. e \in Events /\ EventType(e)
  BY <1>3 DEF Events, EventType, Fits
<1> HIDE DEF e
<1>5. EventsType(Append(bus, e))
  BY <1>1, <1>4, Added
<1>6. \A n \in Names[panel] : Waits(store, gtk, n) => Waits(store, Idle, n)
  BY <1>1, <1>2, CallbacksLen, PanelNames DEF Waits
<1>7. Agrees(store, Idle)
  BY <1>1, <1>6, StillAgrees DEF AgreeInv
<1>8. GtkType(Idle) /\ Becomes(store)
  BY <1>2 DEF GtkType, Becomes, store
<1>9. TypeInv' /\ AgreeInv'
  BY <1>1, <1>2, <1>5, <1>7, <1>8, Kept DEF TypeInv
<1>10. ASSUME Quiet(store, gtk, bus) PROVE Quiet(store, Idle, Append(bus, e))
  <2>1. e.type = "cc" /\ e.sig = gtk.sig
    BY DEF e
  <2>2. \A i \in DOMAIN Append(bus, e) :
            Append(bus, e)[i] = e \/ (i \in DOMAIN bus /\ Append(bus, e)[i] = bus[i])
    <3>1. bus \in Seq(Events)
      BY <1>1 DEF EventsType
    <3>2. /\ DOMAIN Append(bus, e) = 1 .. Len(bus) + 1 /\ DOMAIN bus = 1 .. Len(bus)
          /\ Append(bus, e)[Len(bus) + 1] = e /\ Len(bus) \in Nat
          /\ \A i \in 1 .. Len(bus) : Append(bus, e)[i] = bus[i]
      BY <1>4, <3>1
    <3>3. QED
      BY <3>2
  <2>3. QuietBus(Append(bus, e))
    BY <1>10, <2>1, <2>2 DEF Quiet, QuietBus
  <2>4. panel = "effects" => Alone(store, Idle, Append(bus, e))
    BY <1>2, <1>10, <2>1, <2>2 DEF Quiet, QuietEffects, Alone
  <2>5. Waits(store, Idle, "effect_select") => Waits(store, gtk, "effect_select")
    BY IdleIs DEF Waits
  <2>6. QED
    BY <1>10, <2>3, <2>4, <2>5, IdleIs DEF Quiet, QuietEffects
<1>11. store' = store
  BY <1>2 DEF store
<1>12. QED
  BY <1>2, <1>9, <1>10, <1>11

-----------------------------------------------------------------------------
(* The application task.                                                   *)

\* What the handler of an event does to the controls.
Handles(s2) ==
    /\ Becomes(s2)
    /\ \E ns, o : /\ Changes(store, s2, ns, o) /\ Proper(ns, o)
                  /\ o # "UI" /\ "effect_select" \notin ns

\* The event does not lead to another one.
Final(e) == e.type \in {"in", "dump"} \/ (e.type = "cc" /\ e.sig.origin # "UI")

LEMMA NotHandled ==
    ASSUME TypeInv, ctl' = ctl, queue' = queue
    PROVE  Handles(store)
<1>1. StoreType(store) /\ Becomes(store)
  BY InPanel DEF TypeInv
<1>2. Changes(store, store, {}, "NONE") /\ Proper({}, "NONE")
  BY <1>1, NoChange DEF Proper
<1>3. QED
  BY <1>1, <1>2 DEF Handles

LEMMA HeadIs ==
    ASSUME TypeInv, bus # <<>>
    PROVE  /\ Head(bus) \in Events /\ EventType(Head(bus)) /\ Head(bus) = bus[1] /\ 1 \in DOMAIN bus
           /\ Tail(bus) \o <<>> = Tail(bus) /\ EventsType(Tail(bus)) /\ EventsType(<<>>)
<1>1. EventsType(bus) /\ EventsType(<<>>)
  BY DEF TypeInv, EventsType
<1>2. /\ Head(bus) = bus[1] /\ 1 \in DOMAIN bus /\ Head(bus) \in Events
      /\ Tail(bus) \o <<>> = Tail(bus)
  BY <1>1 DEF EventsType
<1>3. EventsType(Tail(bus) \o <<>>)
  BY <1>1, Rested
<1>4. QED
  BY <1>1, <1>2, <1>3 DEF EventsType

LEMMA CcHandlerDoes ==
    ASSUME TypeInv, bus # <<>>, Head(bus).type = "cc", CcHandler(Head(bus).sig)
    PROVE  /\ \E s2 : Handles(s2)
           /\ EventsType(bus') /\ dev' \in Registers(panel)
           /\ Final(Head(bus)) => bus' = Tail(bus)
           /\ store' = store
<1> DEFINE e == Head(bus)
           c == Out(e.sig.name, ToMidi(Config(e.sig.name), e.sig.val))
           more == IF e.sig.origin = "UI" /\ e.sig.name \in Sent[panel] THEN <<c>> ELSE <<>>
<1>1. bus' = Tail(bus) \o more /\ ctl' = ctl /\ queue' = queue /\ dev' = dev
  BY DEF CcHandler, Rest
<1>2. Fits(e.sig)
  BY HeadIs DEF EventType
<1>3. ASSUME e.sig.name \in Sent[panel] PROVE c \in Events /\ EventType(c)
  <2> DEFINE m == ToMidi(Config(e.sig.name), e.sig.val)
  <2>1. Register(e.sig.name, m)
    BY <1>2, <1>3, RegisterOut, InPanel DEF Fits
  <2>2. e.sig.name \in AllNames
    BY <1>2, InPanel, PanelNames DEF Fits
  <2> HIDE DEF m
  <2>3. c = [type |-> "out", sig |-> [name |-> e.sig.name, val |-> m, origin |-> "UI"]]
    BY DEF Out, Signal, m
  <2>4. m \in 0 .. 127 /\ (e.sig.name = "effect_select:raw" => m \in Values(e.sig.name))
    BY <2>1 DEF Register
  <2>5. c \in Events
    BY <2>2, <2>3, <2>4 DEF Events, Signals, Origins
  <2>6. c.type = "out" /\ c.sig.name = e.sig.name /\ c.sig.val = m
    BY <2>3
  <2> HIDE DEF c
  <2>7. FromDevice(c.sig)
    BY <1>3, <2>4, <2>6 DEF FromDevice
  <2>8. QED
    BY <2>5, <2>6, <2>7 DEF EventType
<1>4. EventsType(more)
  <2>1. CASE e.sig.origin = "UI" /\ e.sig.name \in Sent[panel]
    BY <1>3, <2>1, Added, HeadIs DEF TypeInv
  <2>2. CASE ~(e.sig.origin = "UI" /\ e.sig.name \in Sent[panel])
    BY <2>2, HeadIs
  <2>3. QED
    BY <2>1, <2>2
<1>5. Final(e) => more = <<>>
  BY DEF Final
<1> HIDE DEF more
<1>6. EventsType(bus')
  BY <1>1, <1>4, Rested DEF TypeInv
<1>7. Handles(store)
  BY <1>1, NotHandled
<1>8. QED
  BY <1>1, <1>5, <1>6, <1>7, HeadIs DEF TypeInv, store

LEMMA CcInDoes ==
    ASSUME TypeInv, bus # <<>>, Head(bus).type = "in", CcIn(Head(bus).sig)
    PROVE  /\ \E s2 : Handles(s2)
           /\ EventsType(bus') /\ dev' \in Registers(panel) /\ bus' = Tail(bus)
<1> DEFINE n  == Head(bus).sig.name
           v  == FromMidi(Config(n), Head(bus).sig.val)
           s2 == Set(store, n, v, "MIDI")
<1>1. Becomes(s2) /\ bus' = Tail(bus) /\ dev' = dev
  BY HeadIs DEF CcIn, Rest
<1>2. n \in Sent[panel] /\ Register(n, Head(bus).sig.val)
  BY HeadIs DEF EventType, FromDevice, Register
<1>3. n \in Names[panel] /\ v \in Values(n)
  BY <1>2, RegisterIn, InPanel
<1>4. n \notin Shows /\ n # "pedal_assign_select" /\ n # "effect_select"
  BY <1>2, SentAll, InPanel DEF Bytes, Halves, Shows
<1> HIDE DEF n, v
<1>5. Changes(store, s2, {n}, "MIDI")
  BY <1>3, SetChanges, InPanel DEF TypeInv, Origins
<1>6. Proper({n}, "MIDI")
  BY <1>4 DEF Proper
<1> HIDE DEF s2
<1>7. Handles(s2)
  BY <1>1, <1>4, <1>5, <1>6 DEF Handles
<1>8. QED
  BY <1>1, <1>7, HeadIs DEF TypeInv

LEMMA CcOutDoes ==
    ASSUME TypeInv, bus # <<>>, Head(bus).type = "out", CcOut(Head(bus).sig)
    PROVE  /\ \E s2 : Handles(s2)
           /\ EventsType(bus') /\ dev' \in Registers(panel)
<1> DEFINE n == Head(bus).sig.name
           m == Head(bus).sig.val
           more == IF n = "effect_select:raw" THEN <<LoadEvent>> ELSE <<>>
<1>1. dev' = DevSet(n, m) /\ bus' = Tail(bus) \o more /\ ctl' = ctl /\ queue' = queue
  BY DEF CcOut, Rest
<1>2. n \in Sent[panel] /\ Register(n, m)
  BY HeadIs DEF EventType, FromDevice, Register
<1>3. LoadEvent \in Events /\ EventType(LoadEvent)
  BY DEF LoadEvent, Events, EventType, Signal, Signals, Origins
<1>4. EventsType(more)
  BY <1>3, Added, HeadIs DEF TypeInv
<1> HIDE DEF n, m, more
<1>5. EventsType(bus')
  BY <1>1, <1>4, Rested DEF TypeInv
<1>6. DevSet(n, m) \in Registers(panel)
  BY <1>2, DevSetKeeps, InPanel DEF TypeInv
<1>7. QED
  BY <1>1, <1>5, <1>6, NotHandled

LEMMA LoadEventDoes ==
    ASSUME TypeInv, bus # <<>>, Rest(<<Dump(dev)>>), UNCHANGED <<ctl, queue, raw, dev>>
    PROVE  /\ \E s2 : Handles(s2)
           /\ EventsType(bus') /\ dev' \in Registers(panel)
<1>1. Dump(dev) \in Events /\ EventType(Dump(dev))
  BY DEF TypeInv, Dump, Events, EventType
<1>2. EventsType(<<Dump(dev)>>)
  BY <1>1, Added DEF TypeInv
<1>3. EventsType(Tail(bus) \o <<Dump(dev)>>)
  BY <1>2, Rested DEF TypeInv
<1>4. QED
  BY <1>3, NotHandled DEF Rest, TypeInv

LEMMA DumpDoes ==
    ASSUME TypeInv, bus # <<>>, Head(bus).type = "dump", Load(Head(bus).regs)
    PROVE  /\ \E s2 : Handles(s2)
           /\ EventsType(bus') /\ dev' \in Registers(panel) /\ bus' = Tail(bus)
<1>1. bus' = Tail(bus) /\ dev' = dev
  BY HeadIs DEF Load, Rest
<1>2. Head(bus).regs \in Registers(panel)
  BY HeadIs DEF Events
<1>3. PICK s2 : Becomes(s2) /\ Changes(store, s2, Loaded, "NONE")
  BY <1>2, LoadDoes, InPanel DEF TypeInv
<1>4. Proper(Loaded, "NONE") /\ "effect_select" \notin Loaded
  BY DEF Proper, Loaded
<1>5. Handles(s2)
  BY <1>3, <1>4 DEF Handles
<1>6. QED
  BY <1>1, <1>5, HeadIs DEF TypeInv

LEMMA AppTaskDoes ==
    ASSUME TypeInv, AppTask
    PROVE  /\ bus # <<>> /\ panel' = panel /\ slow' = slow /\ actors' = actors /\ gtk' = gtk
           /\ \E s2 : Handles(s2)
           /\ EventsType(bus') /\ dev' \in Registers(panel)
           /\ Final(Head(bus)) => bus' = Tail(bus)
           /\ Head(bus).type = "cc" => store' = store
<1> DEFINE e == Head(bus)
<1>1. /\ bus # <<>> /\ panel' = panel /\ slow' = slow /\ actors' = actors /\ gtk' = gtk
      /\ \/ e.type = "cc"   /\ CcHandler(e.sig)
         \/ e.type = "in"   /\ CcIn(e.sig)
         \/ e.type = "out"  /\ CcOut(e.sig)
         \/ e.type = "load" /\ Rest(<<Dump(dev)>>) /\ UNCHANGED <<ctl, queue, raw, dev>>
         \/ e.type = "dump" /\ Load(e.regs)
  BY DEF AppTask
<1>2. CASE e.type = "cc"   /\ CcHandler(e.sig)
  BY <1>1, <1>2, CcHandlerDoes
<1>3. CASE e.type = "in"   /\ CcIn(e.sig)
  BY <1>1, <1>3, CcInDoes
<1>4. CASE e.type = "out"  /\ CcOut(e.sig)
  BY <1>1, <1>4, CcOutDoes DEF Final
<1>5. CASE e.type = "load" /\ Rest(<<Dump(dev)>>) /\ UNCHANGED <<ctl, queue, raw, dev>>
  BY <1>1, <1>5, LoadEventDoes DEF Final
<1>6. CASE e.type = "dump" /\ Load(e.regs)
  BY <1>1, <1>6, DumpDoes
<1>7. QED
  BY <1>1, <1>2, <1>3, <1>4, <1>5, <1>6

LEMMA AppTaskKeeps ==
    ASSUME TypeInv, AgreeInv, AppTask
    PROVE  TypeInv' /\ AgreeInv'
<1>1. /\ panel' = panel /\ slow' = slow /\ gtk' = gtk
      /\ EventsType(bus') /\ dev' \in Registers(panel)
  BY AppTaskDoes
<1>2. PICK s2 : Handles(s2)
  BY AppTaskDoes
<1>3. PICK ns, o : Changes(store, s2, ns, o) /\ Proper(ns, o)
  BY <1>2 DEF Handles
<1>4. StoreType(s2) /\ Becomes(s2)
  BY <1>2, <1>3 DEF Handles, Changes
<1>5. Agrees(s2, gtk)
  BY <1>3, InPanel, ProperKeeps DEF AgreeInv
<1>6. GtkType(gtk)
  BY DEF TypeInv
<1>7. QED
  BY <1>1, <1>4, <1>5, <1>6, Kept

\* What nobody does as the user stays quiet.
LEMMA QuietChanges ==
    ASSUME NEW st, NEW s2, NEW ns, NEW o, Changes(st, s2, ns, o), o # "UI", QuietStore(st)
    PROVE  QuietStore(s2)
  BY DEF Changes, QuietStore

LEMMA AppTaskQuiet ==
    ASSUME TypeInv, AppTask, Quiet(store, gtk, bus)
    PROVE  Quiet(store', gtk', bus')
<1>1. bus # <<>> /\ panel' = panel /\ gtk' = gtk
  BY AppTaskDoes
<1>2. PICK s2 : Handles(s2)
  BY AppTaskDoes
<1>3. PICK ns, o : /\ Changes(store, s2, ns, o) /\ o # "UI" /\ "effect_select" \notin ns
  BY <1>2 DEF Handles
<1>4. store' = s2
  BY <1>1, <1>2, <1>3, Primed DEF Handles, Changes
<1>5. QuietBus(bus) /\ QuietStore(store) /\ gtk.sig.origin # "UI"
  BY DEF Quiet
<1>6. bus \in Seq(Events)
  BY DEF TypeInv, EventsType
<1>7. Final(Head(bus))
  BY <1>5, HeadIs, <1>1 DEF QuietBus, Final
<1>8. bus' = Tail(bus)
  BY <1>7, AppTaskDoes
<1>9. /\ Len(Tail(bus)) = Len(bus) - 1 /\ Len(bus) \in Nat /\ Len(bus) > 0
      /\ DOMAIN Tail(bus) = 1 .. Len(bus) - 1 /\ DOMAIN bus = 1 .. Len(bus)
      /\ \A i \in 1 .. Len(bus) - 1 : Tail(bus)[i] = bus[i + 1]
  BY <1>1, <1>6
<1>10. QuietBus(Tail(bus))
  <2>1. \A i \in DOMAIN Tail(bus) : i + 1 \in DOMAIN bus /\ Tail(bus)[i] = bus[i + 1]
    BY <1>9
  <2>2. QED
    BY <1>5, <2>1 DEF QuietBus
<1>11. QuietStore(s2)
  BY <1>3, <1>5, QuietChanges
<1>12. ASSUME panel = "effects" PROVE QuietEffects(s2, gtk, Tail(bus))
  <2>1. Alone(store, gtk, bus) /\ (Waits(store, gtk, "effect_select") => Matches(store))
    BY <1>12 DEF Quiet, QuietEffects
  <2>2. CASE Head(bus).type = "cc"
    <3>1. s2 = store
      BY <1>4, <2>2, AppTaskDoes
    <3>2. ASSUME NEW i \in DOMAIN Tail(bus), Tail(bus)[i].type # "cc" PROVE FALSE
      <4>1. i + 1 \in DOMAIN bus /\ bus[i + 1].type # "cc" /\ Len(bus) # 1
        BY <1>9, <3>2
      <4>2. QED
        BY <2>1, <4>1 DEF Alone
    <3>3. Alone(store, gtk, Tail(bus))
      BY <3>2 DEF Alone
    <3>4. QED
      BY <2>1, <3>1, <3>3 DEF QuietEffects
  <2>3. CASE Head(bus).type # "cc"
    <3>1. store.queue = <<>> /\ gtk = Idle /\ Len(bus) = 1
      BY <1>1, <2>1, <2>3, HeadIs DEF Alone
    <3>2. Alone(s2, gtk, Tail(bus))
      BY <1>9, <3>1 DEF Alone
    <3>3. ~Queued(s2, "effect_select")
      BY <1>3, <3>1 DEF Changes, Queued
    <3>4. gtk.sig.name # "effect_select"
      BY <3>1, IdleIs DEF AllNames
    <3>5. QED
      BY <3>2, <3>3, <3>4 DEF QuietEffects, Waits
  <2>4. QED
    BY <2>2, <2>3
<1>13. QED
  BY <1>1, <1>4, <1>5, <1>8, <1>10, <1>11, <1>12 DEF Quiet

-----------------------------------------------------------------------------
(* Callbacks, when nobody is the user.                                     *)

\* To look up the number of the effect gives the number that is there.
LEMMA MatchesNumber ==
    ASSUME NEW st, Matches(st), st.ctl["effect_select"].val \in 0 .. 2,
           st.ctl["effect_select:raw"].val \in {2, 6, 10, 14}
    PROVE  st.ctl["effect_select:raw"].val
               = NumberFor(st.ctl["effect_select"].val + 1, st.ctl["delay_enable"].val # 0)
<1> DEFINE r == st.ctl["effect_select:raw"].val
           e == st.ctl["effect_select"].val + 1
           d == st.ctl["delay_enable"].val
<1>1. e \in EffectOf(r) /\ d = AsInt(Delays(r)) /\ r \in {2, 6, 10, 14}
  BY DEF Matches
<1>2. e \in 1 .. 3 /\ r \in Numbers(e)
  BY <1>1, EffectFits
<1> HIDE DEF r, e, d
<1>3. /\ \A x : Delays(x) <=> x \in {6, 14}
      /\ AsInt(TRUE) = 1 /\ AsInt(FALSE) = 0
  BY EffectsAre DEF Delays, AsInt
<1>4. (d # 0) = Delays(r) /\ Delays(r) \in BOOLEAN
  <2>1. Delays(r) \in BOOLEAN
    BY Zenon DEF Delays
  <2>2. CASE Delays(r)
    <3>1. Delays(r) = TRUE
      BY <2>2, <2>1
    <3>2. d = 1
      BY <1>1, <1>3, <3>1, Zenon
    <3>3. (d # 0) = TRUE
      BY <3>2
    <3>4. QED
      BY <2>1, <3>1, <3>3, Zenon
  <2>3. CASE ~Delays(r)
    <3>1. Delays(r) = FALSE
      BY <2>3, <2>1
    <3>2. d = 0
      BY <1>1, <1>3, <3>1, Zenon
    <3>3. (d # 0) = FALSE
      BY <3>2
    <3>4. QED
      BY <2>1, <3>1, <3>3, Zenon
  <2>4. QED
    BY <2>2, <2>3
<1>5. \A x : (CHOOSE y \in {x} : TRUE) = x
  OBVIOUS
<1>6. NumberFor(1, TRUE) = 6 /\ NumberFor(1, FALSE) = 10
      /\ NumberFor(2, TRUE) = 14 /\ NumberFor(3, FALSE) = 2
  BY <1>5, EffectsAre DEF NumberFor, Wanted
<1>7. (e = 1 /\ r = 6) \/ (e = 1 /\ r = 10) \/ (e = 2 /\ r = 14) \/ (e = 3 /\ r = 2)
  BY <1>2, EffectsAre
<1>10. r = NumberFor(e, Delays(r))
  <2>1. CASE r \in {6, 14}
    <3>1. Delays(r) = TRUE
      BY <1>3, <1>4, <2>1
    <3>2. (e = 1 /\ r = 6) \/ (e = 2 /\ r = 14)
      BY <1>7, <2>1
    <3>3. QED
      BY <1>6, <3>1, <3>2, Zenon
  <2>2. CASE r \in {2, 10}
    <3>1. Delays(r) = FALSE
      BY <1>3, <1>4, <2>2
    <3>2. (e = 1 /\ r = 10) \/ (e = 3 /\ r = 2)
      BY <1>7, <2>2
    <3>3. QED
      BY <1>6, <3>1, <3>2, Zenon
  <2>3. QED
    BY <1>7, <2>1, <2>2
<1>8. r = NumberFor(e, d # 0)
  BY <1>4, <1>10, Zenon
<1>9. QED
  BY <1>8 DEF r, e, d

LEMMA EffectsQuiet ==
    ASSUME panel = "effects", panel \in DOMAIN Names, NEW st, StoreType(st),
           NEW g, GtkType(g), g.left # <<>>, QuietStore(st),
           Waits(st, g, "effect_select") => Matches(st)
    PROVE  LET s2 == Callback(st, Head(g.left), g.sig.name) IN
           /\ QuietStore(s2)
           /\ Waits(s2, After(g), "effect_select") => Matches(s2)
<1> DEFINE s2 == Callback(st, Head(g.left), g.sig.name)
<1>1. /\ "effect_select:raw" \in Names[panel] /\ "effect_select" \in Names[panel]
      /\ "delay_enable" \in Names[panel]
  BY NamesAre
<1>2. RunsEffect(g)
  <2>1. \A w \in Wholes : w \notin Names[panel] /\ Msb(w) \notin Names[panel]
                                               /\ Lsb(w) \notin Names[panel]
    BY NamesAre, HalvesOf DEF Wholes, Halves
  <2>2. /\ "tempo" \notin Names[panel] /\ "mod_speed" \notin Names[panel]
        /\ "mod_note_select" \notin Names[panel] /\ "stomp_param2" \notin Names[panel]
        /\ "stomp_param2_wave" \notin Names[panel] /\ "stomp_param2_octave" \notin Names[panel]
        /\ "pedal_assign" \notin Names[panel] /\ "pedal_assign_select" \notin Names[panel]
    BY NamesAre
  <2>3. ~RunsWhole(g) /\ ~RunsHalf(g)
    BY <2>1, <2>2 DEF RunsWhole, RunsHalf, Runs
  <2>4. ~RunsStomp(g) /\ ~RunsPedal(g) /\ ~Runs(g, "mod_note_select", "tempo_speed", TRUE)
    BY <2>2 DEF RunsStomp, RunsPedal, Runs
  <2>5. QED
    BY <2>3, <2>4, RunsOne
<1>3. CASE Runs(g, "effect_select:raw", "from_raw", TRUE)
  <2> DEFINE v == st.ctl["effect_select:raw"].val
             o == st.ctl["effect_select:raw"].origin
             t == FromRaw(st, v, o)
  <2>1. s2 = t
    <3>1. Head(g.left) = "from_raw" /\ g.sig.name = "effect_select:raw"
      BY <1>3 DEF Runs
    <3>2. QED
      BY <3>1, Zenon DEF Callback
  <2>2. v \in Values("effect_select:raw") /\ o \in Origins /\ o # "UI"
    BY <1>1, Current DEF QuietStore
  <2> HIDE DEF v, o
  <2>3. /\ Changes(st, t, {"delay_enable", "effect_select"}, o)
        /\ t.ctl["effect_select"].val + 1 \in EffectOf(v)
        /\ t.ctl["delay_enable"].val = AsInt(Delays(v))
    BY <2>2, FromRawDoes
  <2> HIDE DEF t
  <2>4. t.ctl["effect_select:raw"].val = v
    BY <1>1, <2>3 DEF Changes, v
  <2>5. Matches(t)
    BY <2>3, <2>4 DEF Matches
  <2>6. QuietStore(t)
    BY <2>2, <2>3, QuietChanges
  <2>7. QED
    BY <2>1, <2>5, <2>6
<1>4. CASE Runs(g, "effect_select", "to_raw", TRUE)
  <2> DEFINE v == st.ctl["effect_select"].val
  <2>1. s2 = ToRaw(st, v)
    <3>1. Head(g.left) = "to_raw" /\ g.sig.name = "effect_select"
      BY <1>4 DEF Runs
    <3>2. QED
      BY <3>1, Zenon DEF Callback
  <2>2. Matches(st)
    BY <1>4 DEF Runs, Waits
  <2>3. v \in 0 .. 2
    BY <1>1, Current, RowValues
  <2>4. st.ctl["effect_select:raw"].val \in {2, 6, 10, 14}
    BY <1>1, Current, EffectValues
  <2>5. st.ctl["effect_select:raw"].val = NumberFor(v + 1, st.ctl["delay_enable"].val # 0)
    BY <2>2, <2>3, <2>4, MatchesNumber
  <2> HIDE DEF v
  <2>6. ToRaw(st, v) = st
    BY <2>3, <2>5, ToRawDoes
  <2>7. QED
    BY <2>1, <2>2, <2>6
<1>5. CASE Runs(g, "delay_enable", "delay_reset", TRUE)
  <2> DEFINE v == st.ctl["delay_enable"].val
             o == st.ctl["delay_enable"].origin
  <2>1. s2 = DelayReset(st, v, o)
    <3>1. Head(g.left) = "delay_reset" /\ g.sig.name = "delay_enable"
      BY <1>5 DEF Runs
    <3>2. QED
      BY <3>1, Zenon DEF Callback
  <2>2. o # "UI"
    BY <1>1 DEF QuietStore
  <2>3. s2 = st
    BY <2>1, <2>2 DEF DelayReset
  <2>4. Waits(st, After(g), "effect_select") => Waits(st, g, "effect_select")
    BY <1>5 DEF Runs, Waits
  <2>5. QED
    BY <2>3, <2>4
<1>6. QED
  BY <1>2, <1>3, <1>4, <1>5 DEF RunsEffect

LEMMA CallbackQuiet ==
    ASSUME TypeInv, AgreeInv, GtkCallback, Quiet(store, gtk, bus)
    PROVE  Quiet(store', gtk', bus')
<1> DEFINE s2 == Callback(store, Head(gtk.left), gtk.sig.name)
<1>1. panel \in DOMAIN Names /\ StoreType(store) /\ GtkType(gtk) /\ Agrees(store, gtk)
  BY InPanel DEF TypeInv, AgreeInv
<1>2. gtk.left # <<>> /\ Becomes(s2) /\ gtk' = After(gtk) /\ panel' = panel /\ bus' = bus
  BY DEF GtkCallback, After
<1>3. Passes(store, s2, gtk.sig.name, Head(gtk.left) # "to_raw")
  BY <1>1, <1>2, CallbackKeeps
<1>4. QuietStore(store) /\ gtk.sig.origin # "UI" /\ QuietBus(bus)
  BY DEF Quiet
<1>5. gtk.sig.name \in Names[panel] /\ After(gtk).sig = gtk.sig
  <2>1. gtk.sig.name \in Names[panel] /\ \E n, cb, first : Runs(gtk, n, cb, first)
    BY <1>1, <1>2, RunsOne DEF RunsWhole, RunsHalf, RunsEffect, RunsStomp, RunsPedal
  <2>2. QED
    BY <2>1 DEF Runs
<1>6. gtk # Idle
  BY <1>2, IdleIs
<1>7. QuietStore(s2) /\ (panel = "effects" => QuietEffects(s2, After(gtk), bus))
  <2>1. CASE panel = "effects"
    <3>1. Alone(store, gtk, bus) /\ (Waits(store, gtk, "effect_select") => Matches(store))
      BY <2>1 DEF Quiet, QuietEffects
    <3>2. QuietStore(s2) /\ (Waits(s2, After(gtk), "effect_select") => Matches(s2))
      BY <1>1, <1>2, <1>4, <2>1, <3>1, EffectsQuiet
    <3> HIDE DEF s2
    <3>3. Alone(s2, After(gtk), bus)
      BY <1>6, <3>1 DEF Alone
    <3>4. QED
      BY <3>2, <3>3 DEF QuietEffects
  <2>2. CASE panel # "effects"
    <3>1. Head(gtk.left) # "to_raw"
      <4>1. "effect_select" \notin Names[panel] /\ "effect_select" \notin Wholes
            /\ \A w \in Wholes : Msb(w) # "effect_select" /\ Lsb(w) # "effect_select"
        BY <1>1, <2>2, NamesAre, HalvesOf DEF Wholes, Halves
      <4>2. ~Runs(gtk, "effect_select", "to_raw", TRUE)
        BY <4>1 DEF Runs
      <4>3. QED
        BY <1>1, <1>2, <4>2, RunsOne
            DEF RunsWhole, RunsHalf, RunsEffect, RunsStomp, RunsPedal, Runs
    <3>2. store.ctl[gtk.sig.name].origin # "UI"
      BY <1>4, <1>5 DEF QuietStore
    <3> HIDE DEF s2
    <3>3. PICK ns, o : Changes(store, s2, ns, o) /\ o # "UI"
      BY <1>3, <3>1, <3>2 DEF Passes
    <3>4. QuietStore(s2)
      BY <1>4, <3>3, QuietChanges
    <3>5. QED
      BY <2>2, <3>4
  <2>3. QED
    BY <2>1, <2>2
<1> HIDE DEF s2
<1>8. store' = s2
  BY <1>2, <1>3, Primed DEF Passes, Changes
<1>9. QED
  BY <1>2, <1>4, <1>5, <1>7, <1>8 DEF Quiet

-----------------------------------------------------------------------------
(* The user and the device.                                                *)

LEMMA UserKeeps ==
    ASSUME TypeInv, AgreeInv, User
    PROVE  TypeInv' /\ AgreeInv' /\ "user" \in actors
<1>1. /\ panel' = panel /\ slow' = slow /\ gtk' = gtk /\ bus' = bus /\ dev' = dev
      /\ "user" \in actors
  BY DEF User, Acts
<1>2. PICK move \in UserMoves[panel] : Becomes(Set(store, move[1], move[2], "UI"))
  BY DEF User
<1> DEFINE n  == move[1]
           s2 == Set(store, n, move[2], "UI")
<1>3. n \in Shown[panel] /\ move[2] \in Values(n)
  BY <1>2, ControlsAssumption, InPanel
<1>4. n \in Names[panel] /\ n \notin Halves
  <2>1. \/ panel = "delay" \/ panel = "effects" \/ panel = "tempo" \/ panel = "stomp"
        \/ panel = "pedal"
    BY NamesAre, InPanel
  <2>2. QED
    BY <1>3, <2>1, ShownAre, NamesAre DEF Halves
<1> HIDE DEF n
<1>5. Changes(store, s2, {n}, "UI")
  BY <1>3, <1>4, SetChanges, InPanel DEF TypeInv, Origins
<1>6. Becomes(s2)
  BY <1>2 DEF n
<1> HIDE DEF s2
<1>7. Proper({n}, "UI")
  BY <1>4 DEF Proper
<1>8. Agrees(s2, gtk)
  BY <1>5, <1>7, InPanel, ProperKeeps DEF AgreeInv
<1>9. StoreType(s2)
  BY <1>5 DEF Changes
<1>10. QED
  BY <1>1, <1>6, <1>8, <1>9, Kept DEF TypeInv

\* What the device does: its registers change, and it says so.
Tells(e) ==
    /\ e.type \in {"in", "dump"} /\ e \in Events /\ EventType(e)
    /\ bus' = Append(bus, e) /\ dev' \in Registers(panel)
    /\ panel' = panel /\ slow' = slow /\ gtk' = gtk /\ ctl' = ctl /\ queue' = queue
    /\ slow => AtRest

LEMMA DeviceTells ==
    ASSUME TypeInv, DevMove \/ DevProgram
    PROVE  \E e : Tells(e)
<1>1. panel \in DOMAIN Names /\ panel \in Panels
  BY InPanel
<1>2. ASSUME DevMove PROVE \E e : Tells(e)
  <2>1. PICK move \in DevMoves[panel] :
            dev' = DevSet(move[1], move[2]) /\ bus' = Append(bus, In(move[1], move[2]))
    BY <1>2 DEF DevMove
  <2> DEFINE n == move[1]
             m == move[2]
             e == In(n, m)
  <2>2. n \in Sent[panel] /\ m \in 0 .. 127 /\ (n = "effect_select:raw" => m \in Values(n))
    BY <1>1, <2>1, ControlsAssumption
  <2>3. n \in AllNames
    BY <1>1, <2>2, SentAll, PanelNames
  <2>4. dev' = DevSet(n, m) /\ bus' = Append(bus, e)
    BY <2>1
  <2> HIDE DEF n, m
  <2>5. e = [type |-> "in", sig |-> [name |-> n, val |-> m, origin |-> "MIDI"]]
    BY DEF In, Signal
  <2>6. e \in Events /\ e.type = "in" /\ e.sig.name = n /\ e.sig.val = m
    BY <2>2, <2>3, <2>5 DEF Events, Signals, Origins
  <2> HIDE DEF e
  <2>7. EventType(e)
    BY <2>2, <2>6 DEF EventType, FromDevice
  <2>8. DevSet(n, m) \in Registers(panel)
    BY <1>1, <2>2, DevSetKeeps DEF TypeInv, Register
  <2>9. QED
    BY <1>2, <2>4, <2>6, <2>7, <2>8 DEF DevMove, Acts, Tells
<1>3. ASSUME DevProgram PROVE \E e : Tells(e)
  <2>1. PICK p \in Range(Patches[panel]) : dev' = p /\ bus' = Append(bus, Dump(p))
    BY <1>3 DEF DevProgram
  <2>2. p \in Registers(panel)
    BY <1>1, <2>1, ControlsAssumption DEF Range
  <2>3. Dump(p) \in Events /\ Dump(p).type = "dump"
    BY <2>2 DEF Dump, Events
  <2>4. EventType(Dump(p))
    BY <2>3 DEF EventType
  <2>5. QED
    BY <1>3, <2>1, <2>2, <2>3, <2>4 DEF DevProgram, Acts, Tells
<1>4. QED
  BY <1>2, <1>3

LEMMA DeviceKeeps ==
    ASSUME TypeInv, AgreeInv, DevMove \/ DevProgram
    PROVE  TypeInv' /\ AgreeInv'
<1>1. PICK e : Tells(e)
  BY DeviceTells
<1>2. EventsType(Append(bus, e))
  BY <1>1, Added DEF TypeInv, Tells
<1>3. Becomes(store)
  BY <1>1, InPanel DEF Tells
<1>4. QED
  BY <1>1, <1>2, <1>3, Kept DEF TypeInv, AgreeInv, Tells

LEMMA DeviceQuiet ==
    ASSUME TypeInv, DevMove \/ DevProgram, Quiet(store, gtk, bus), panel # "effects" \/ slow
    PROVE  Quiet(store', gtk', bus')
<1>1. PICK e : Tells(e)
  BY DeviceTells
<1>2. store' = store /\ gtk' = gtk /\ panel' = panel /\ bus' = Append(bus, e) /\ e \in Events
      /\ e.type \in {"in", "dump"} /\ (slow => AtRest)
  BY <1>1 DEF Tells, store
<1>3. bus \in Seq(Events)
  BY DEF TypeInv, EventsType
<1>4. /\ DOMAIN Append(bus, e) = 1 .. Len(bus) + 1 /\ DOMAIN bus = 1 .. Len(bus)
      /\ Append(bus, e)[Len(bus) + 1] = e /\ Len(bus) \in Nat
      /\ \A i \in 1 .. Len(bus) : Append(bus, e)[i] = bus[i]
      /\ Len(Append(bus, e)) = Len(bus) + 1
  BY <1>2, <1>3
<1>5. QuietBus(Append(bus, e))
  <2>1. \A i \in DOMAIN Append(bus, e) :
            Append(bus, e)[i] = e \/ (i \in DOMAIN bus /\ Append(bus, e)[i] = bus[i])
    BY <1>4
  <2>2. QED
    BY <1>2, <2>1 DEF Quiet, QuietBus
<1>6. ASSUME panel = "effects" PROVE QuietEffects(store, gtk, Append(bus, e))
  <2>1. store.queue = <<>> /\ gtk = Idle /\ Len(bus) = 0
    BY <1>2, <1>6, InPanel DEF AtRest
  <2>2. Alone(store, gtk, Append(bus, e))
    BY <1>4, <2>1 DEF Alone
  <2>3. QED
    BY <1>6, <2>2 DEF Quiet, QuietEffects
<1>7. QED
  BY <1>2, <1>5, <1>6 DEF Quiet

-----------------------------------------------------------------------------
(* The patch that is loaded at the start.                                  *)

LEMMA FollowingIs ==
    ASSUME NEW regs
    PROVE  /\ \A w \in Wholes : Following(regs, w) = regs[Msb(w)] * 128 + regs[Lsb(w)]
           /\ Following(regs, "effect_select")
                  = (CHOOSE e \in EffectOf(regs["effect_select:raw"]) : TRUE) - 1
           /\ Following(regs, "pedal_assign_select") = BucketOf(regs["pedal_assign"])
           /\ \A n \in Shows : Following(regs, n) = FromMidi(Config(n), regs["stomp_param2"])
           /\ \A n \in Bytes \cup {"effect_select:raw", "delay_enable"} :
                 Following(regs, n) = FromMidi(Config(n), regs[n])
<1>1. ASSUME NEW w \in Wholes PROVE Following(regs, w) = regs[Msb(w)] * 128 + regs[Lsb(w)]
  BY Zenon DEF Following, Wholes
<1>2. Following(regs, "effect_select")
          = (CHOOSE e \in EffectOf(regs["effect_select:raw"]) : TRUE) - 1
  BY Zenon DEF Following
<1>3. Following(regs, "pedal_assign_select") = BucketOf(regs["pedal_assign"])
  BY Zenon DEF Following
<1>4. ASSUME NEW n \in Shows PROVE Following(regs, n) = FromMidi(Config(n), regs["stomp_param2"])
  <2>1. /\ n \notin {"delay_time", "tempo", "mod_speed"} /\ n # "effect_select"
        /\ n # "pedal_assign_select" /\ n \in {"stomp_param2_wave", "stomp_param2_octave"}
    BY DEF Shows
  <2>2. QED
    BY <2>1, Zenon DEF Following
<1>5. ASSUME NEW n \in Bytes \cup {"effect_select:raw", "delay_enable"}
      PROVE  Following(regs, n) = FromMidi(Config(n), regs[n])
  <2>1. /\ n \notin {"delay_time", "tempo", "mod_speed"} /\ n # "effect_select"
        /\ n # "pedal_assign_select" /\ n \notin {"stomp_param2_wave", "stomp_param2_octave"}
    BY DEF Bytes, Halves
  <2>2. QED
    BY <2>1, Zenon DEF Following
<1>6. QED
  BY <1>1, <1>2, <1>3, <1>4, <1>5

\* A register of one byte is the value of its control.
LEMMA ByteFollows ==
    ASSUME panel \in DOMAIN Names, NEW regs \in Registers(panel), NEW n \in Sent[panel],
           n \in Bytes \/ n = "effect_select:raw"
    PROVE  /\ Following(regs, n) = regs[n] /\ regs[n] \in 0 .. 127
           /\ n = "effect_select:raw" => regs[n] \in Values(n)
<1>1. Following(regs, n) = FromMidi(Config(n), regs[n])
  BY FollowingIs
<1>2. Register(n, regs[n])
  BY RegistersAre
<1>3. QED
  BY <1>1, <1>2, ConfigIs DEF Register

LEMMA WholeFollows ==
    ASSUME panel \in DOMAIN Names, NEW regs \in Registers(panel),
           NEW w \in Wholes, w \in Names[panel]
    PROVE  /\ Following(regs, w) \in Values(w)
           /\ Following(regs, Msb(w)) = Following(regs, w) \div 128
           /\ Following(regs, Lsb(w)) = Following(regs, w) % 128
<1>1. Msb(w) \in Sent[panel] /\ Lsb(w) \in Sent[panel]
  <2>1. \/ panel = "delay" \/ panel = "effects" \/ panel = "tempo" \/ panel = "stomp"
        \/ panel = "pedal"
    BY NamesAre
  <2>2. /\ Msb("delay_time") = "delay_time:msb" /\ Lsb("delay_time") = "delay_time:lsb"
        /\ Msb("tempo") = "tempo:msb" /\ Lsb("tempo") = "tempo:lsb"
        /\ Msb("mod_speed") = "mod_speed:msb" /\ Lsb("mod_speed") = "mod_speed:lsb"
    BY DEF Msb, Lsb
  <2>3. (panel = "delay" /\ w = "delay_time") \/ (panel = "tempo" /\ w \in {"tempo", "mod_speed"})
    BY <2>1, NamesAre DEF Wholes
  <2>4. QED
    BY <2>2, <2>3, SentAre
<1> DEFINE a == regs[Msb(w)]
           b == regs[Lsb(w)]
<1>2. Msb(w) \in Bytes /\ Lsb(w) \in Bytes
  BY HalvesOf DEF Bytes
<1>3. /\ Following(regs, Msb(w)) = a /\ a \in 0 .. 127
      /\ Following(regs, Lsb(w)) = b /\ b \in 0 .. 127
  BY <1>1, <1>2, ByteFollows
<1>4. Following(regs, w) = a * 128 + b
  BY FollowingIs
<1> HIDE DEF a, b
<1>5. a * 128 + b \in Bits14 /\ (a * 128 + b) \div 128 = a /\ (a * 128 + b) % 128 = b
  BY <1>3, Bits14Are
<1>6. Values(w) = Bits14
  BY WholeValues
<1>7. QED
  BY <1>3, <1>4, <1>5, <1>6, Zenon

LEMMA FollowingFits ==
    ASSUME panel \in DOMAIN Names, NEW regs \in Registers(panel), NEW n \in Names[panel]
    PROVE  Following(regs, n) \in Values(n)
<1>1. \/ panel = "delay" \/ panel = "effects" \/ panel = "tempo" \/ panel = "stomp"
      \/ panel = "pedal"
  BY NamesAre
<1>2. CASE n \in Wholes
  BY <1>2, WholeFollows
<1>3. CASE n \in Sent[panel]
  <2>1. Following(regs, n) = FromMidi(Config(n), regs[n])
    BY <1>3, SentAll, FollowingIs
  <2>2. Register(n, regs[n])
    BY <1>3, RegistersAre
  <2>3. QED
    BY <1>3, <2>1, <2>2, RegisterIn
<1>4. CASE n = "effect_select"
  <2> DEFINE r == regs["effect_select:raw"]
             e == CHOOSE x \in EffectOf(r) : TRUE
  <2>1. "effect_select:raw" \in Sent[panel]
    BY <1>1, <1>4, NamesAre, SentAre
  <2>2. r \in Values("effect_select:raw")
    BY <2>1, ByteFollows
  <2>3. e \in EffectOf(r)
    BY <2>2, EffectFits
  <2>4. e \in 1 .. 3
    BY <2>3, EffectFits
  <2>5. Following(regs, n) = e - 1
    BY <1>4, FollowingIs
  <2> HIDE DEF e
  <2>6. e - 1 \in 0 .. 2
    BY <2>4
  <2>7. QED
    BY <1>4, <2>5, <2>6, RowValues
<1>5. CASE n = "pedal_assign_select"
  <2>1. "pedal_assign" \in Sent[panel] /\ "pedal_assign" \in Bytes
    BY <1>1, <1>5, NamesAre, SentAre DEF Bytes
  <2>2. BucketOf(regs["pedal_assign"]) \in 0 .. 2
    BY <2>1, ByteFollows, BucketFits
  <2>3. QED
    BY <1>5, <2>2, FollowingIs, RowValues
<1>6. CASE n \in Shows
  <2>1. "stomp_param2" \in Sent[panel] /\ "stomp_param2" \in Bytes
    BY <1>1, <1>6, NamesAre, SentAre DEF Bytes, Shows
  <2>2. regs["stomp_param2"] \in 0 .. 127
    BY <2>1, ByteFollows
  <2>3. Following(regs, n) = FromMidi(Config(n), regs["stomp_param2"])
    BY <1>6, FollowingIs
  <2>4. n = "stomp_param2_wave" \/ n = "stomp_param2_octave"
    BY <1>6 DEF Shows
  <2>5. QED
    BY <2>2, <2>3, <2>4, WaveFits, OctaveFits, OtherValues
<1>7. QED
  BY <1>1, <1>2, <1>3, <1>4, <1>5, <1>6, NamesAre, SentAre DEF Wholes, Shows

\* A store whose controls follow from the registers.
LEMMA FollowingAgrees ==
    ASSUME panel \in DOMAIN Names, NEW regs \in Registers(panel), NEW st, NEW g,
           \A n \in Names[panel] : st.ctl[n].val = Following(regs, n)
    PROVE  Agrees(st, g)
<1>1. \/ panel = "delay" \/ panel = "effects" \/ panel = "tempo" \/ panel = "stomp"
      \/ panel = "pedal"
  BY NamesAre
<1>2. ASSUME NEW w \in Wholes, w \in Names[panel] PROVE WholeAgrees(st, g, w)
  <2>1. Msb(w) \in Names[panel] /\ Lsb(w) \in Names[panel]
    BY <1>2, HalvesOf
  <2>2. QED
    BY <1>2, <2>1, WholeFollows DEF WholeAgrees, HalfAgrees
<1>3. CASE panel \in {"delay", "tempo"}
  <2>1. /\ panel = "delay" => "delay_time" \in Names[panel]
        /\ panel = "tempo" => "tempo" \in Names[panel] /\ "mod_speed" \in Names[panel]
        /\ "delay_time" \in Wholes /\ "tempo" \in Wholes /\ "mod_speed" \in Wholes
    BY NamesAre DEF Wholes
  <2>2. QED
    BY <1>2, <1>3, <2>1 DEF Agrees
<1>4. CASE panel = "effects"
  <2> DEFINE r == regs["effect_select:raw"]
             e == CHOOSE x \in EffectOf(r) : TRUE
  <2>1. /\ "effect_select:raw" \in Sent[panel]
        /\ "effect_select:raw" \in Names[panel] /\ "effect_select" \in Names[panel]
    BY <1>4, NamesAre, SentAre
  <2>2. Following(regs, "effect_select:raw") = r /\ r \in Values("effect_select:raw")
    BY <2>1, ByteFollows
  <2>3. e \in EffectOf(r)
    BY <2>2, EffectFits
  <2>4. e \in 1 .. 3 /\ Following(regs, "effect_select") = e - 1
    BY <2>3, EffectFits, FollowingIs
  <2> HIDE DEF r, e
  <2>5. e - 1 + 1 = e
    BY <2>4
  <2>6. EffectAgrees(st, g)
    BY <2>1, <2>2, <2>3, <2>4, <2>5 DEF EffectAgrees
  <2>7. QED
    BY <1>4, <2>6 DEF Agrees
<1>5. CASE panel = "stomp"
  <2>1. /\ "stomp_param2" \in Sent[panel] /\ "stomp_param2" \in Bytes
        /\ "stomp_param2" \in Names[panel] /\ \A n \in Shows : n \in Names[panel]
    BY <1>5, NamesAre, SentAre DEF Bytes, Shows
  <2>2. st.ctl["stomp_param2"].val = regs["stomp_param2"]
    BY <2>1, ByteFollows
  <2>3. \A n \in Shows : VariantAgrees(st, g, n)
    BY <2>1, <2>2, FollowingIs DEF VariantAgrees, Follows
  <2>4. QED
    BY <1>5, <2>3 DEF Agrees, Shows
<1>6. CASE panel = "pedal"
  <2>1. /\ "pedal_assign" \in Sent[panel] /\ "pedal_assign" \in Bytes
        /\ "pedal_assign" \in Names[panel] /\ "pedal_assign_select" \in Names[panel]
    BY <1>6, NamesAre, SentAre DEF Bytes
  <2>2. st.ctl["pedal_assign"].val = regs["pedal_assign"]
    BY <2>1, ByteFollows
  <2>3. PedalAgrees(st, g)
    BY <2>1, <2>2, FollowingIs DEF PedalAgrees, Follows
  <2>4. QED
    BY <1>6, <2>3 DEF Agrees
<1>7. QED
  BY <1>1, <1>3, <1>4, <1>5, <1>6

LEMMA InitInv == Init => ControlsInv
<1> SUFFICES ASSUME Init PROVE ControlsInv
  OBVIOUS
<1>1. /\ panel \in Panels /\ slow \in BOOLEAN /\ dev = Patches[panel][1]
      /\ ctl = [n \in Names[panel] |-> [val |-> Following(dev, n), origin |-> "NONE"]]
      /\ queue = <<>> /\ gtk = Idle /\ bus = <<>>
  BY DEF Init
<1>2. panel \in DOMAIN Names /\ dev \in Registers(panel)
  BY <1>1, ControlsAssumption
<1>3. \A n \in Names[panel] : /\ ctl[n].val = Following(dev, n) /\ ctl[n].origin = "NONE"
                              /\ ctl[n].val \in Values(n)
  BY <1>1, <1>2, FollowingFits
<1>4. store = [ctl |-> store.ctl, queue |-> store.queue] /\ store.ctl = ctl /\ store.queue = <<>>
  BY <1>1 DEF store
<1>5. StoreType(store)
  <2>1. ctl \in [Names[panel] -> [val : Nat, origin : Origins]]
    <3>1. \A n \in Names[panel] : Following(dev, n) \in Nat
      BY <1>2, FollowingFits, ValuesNat, PanelNames
    <3>2. QED
      BY <1>1, <3>1 DEF Origins
  <2>2. QED
    BY <1>3, <1>4, <2>1 DEF StoreType
<1>6. TypeInv
  BY <1>1, <1>2, <1>5 DEF TypeInv, GtkType, EventsType
<1>7. AgreeInv
  BY <1>2, <1>3, <1>4, FollowingAgrees DEF AgreeInv
<1>8. Quiet(store, gtk, bus)
  <2>1. QuietStore(store)
    BY <1>3, <1>4 DEF QuietStore
  <2>2. QuietBus(bus) /\ Alone(store, gtk, bus)
    BY <1>1 DEF QuietBus, Alone
  <2>3. ~Waits(store, gtk, "effect_select")
    BY <1>1, <1>4, IdleIs DEF Waits, Queued, AllNames
  <2>4. QED
    BY <1>1, <2>1, <2>2, <2>3, IdleIs DEF Quiet, QuietEffects
<1>9. QED
  BY <1>6, <1>7, <1>8 DEF ControlsInv, QuietInv

-----------------------------------------------------------------------------
(* The theorems.                                                           *)

LEMMA QuietStep ==
    ASSUME QuietInv, panel' = panel, slow' = slow, actors' = actors,
           Quiet(store, gtk, bus) /\ (panel # "effects" \/ slow) => Quiet(store', gtk', bus')
    PROVE  QuietInv'
<1>1. SUFFICES ASSUME Quietly' PROVE Quiet(store, gtk, bus)'
  BY DEF QuietInv
<1>2. Quietly
  BY <1>1 DEF Quietly
<1>3. Quiet(store', gtk', bus')
  BY <1>2 DEF QuietInv, Quietly
<1>4. QED
  BY <1>3 DEF Quiet, QuietStore, QuietBus, QuietEffects, Alone, Matches, Waits, Queued

LEMMA NextInv == ControlsInv /\ [Next]_controlsVars => ControlsInv'
<1> SUFFICES ASSUME ControlsInv, [Next]_controlsVars PROVE ControlsInv'
  OBVIOUS
<1>1. TypeInv /\ AgreeInv /\ QuietInv
  BY DEF ControlsInv
<1>2. CASE GtkReceive
  <2>1. panel' = panel /\ slow' = slow /\ actors' = actors
    BY <1>2 DEF GtkReceive
  <2>2. QED
    BY <1>1, <1>2, <2>1, ReceiveKeeps, QuietStep DEF ControlsInv
<1>3. CASE GtkCallback
  <2>1. panel' = panel /\ slow' = slow /\ actors' = actors
    BY <1>3 DEF GtkCallback
  <2>2. QED
    BY <1>1, <1>3, <2>1, CallbackStep, CallbackQuiet, QuietStep DEF ControlsInv
<1>4. CASE GtkPass
  <2>1. panel' = panel /\ slow' = slow /\ actors' = actors
    BY <1>4 DEF GtkPass
  <2>2. QED
    BY <1>1, <1>4, <2>1, PassKeeps, QuietStep DEF ControlsInv
<1>5. CASE AppTask
  <2>1. panel' = panel /\ slow' = slow /\ actors' = actors
    BY <1>5 DEF AppTask
  <2>2. QED
    BY <1>1, <1>5, <2>1, AppTaskKeeps, AppTaskQuiet, QuietStep DEF ControlsInv
<1>6. CASE User
  <2>1. actors' = actors
    BY <1>6 DEF User
  <2>2. TypeInv' /\ AgreeInv' /\ "user" \in actors
    BY <1>1, <1>6, UserKeeps
  <2>3. ~Quietly'
    BY <2>1, <2>2 DEF Quietly
  <2>4. QED
    BY <2>2, <2>3 DEF ControlsInv, QuietInv
<1>7. CASE DevMove \/ DevProgram
  <2>1. panel' = panel /\ slow' = slow /\ actors' = actors
    BY <1>7 DEF DevMove, DevProgram
  <2>2. QED
    BY <1>1, <1>7, <2>1, DeviceKeeps, DeviceQuiet, QuietStep DEF ControlsInv
<1>8. CASE UNCHANGED controlsVars
  <2>1. /\ panel' = panel /\ slow' = slow /\ actors' = actors /\ ctl' = ctl /\ queue' = queue
        /\ gtk' = gtk /\ bus' = bus /\ dev' = dev
    BY <1>8 DEF controlsVars
  <2>2. store' = store /\ Becomes(store)
    BY <2>1, InPanel, <1>1 DEF store
  <2>3. TypeInv' /\ AgreeInv'
    BY <1>1, <2>1, <2>2, Kept DEF TypeInv, AgreeInv
  <2>4. Quiet(store, gtk, bus) => Quiet(store', gtk', bus')
    BY <2>1, <2>2
  <2>5. QED
    BY <1>1, <2>1, <2>3, <2>4, QuietStep DEF ControlsInv
<1>9. QED
  BY <1>2, <1>3, <1>4, <1>5, <1>6, <1>7, <1>8 DEF Next, Tasks

\* The controls have values of their kind, and whatever does not agree with another
\* control is yet to be handled, in every order of the signals, callbacks and events.
THEOREM ControlsSound == Spec => []ControlsInv
<1>1. QED
  BY InitInv, NextInv, PTL DEF Spec

\* When everything is handled, the controls of a panel agree with each other.
THEOREM Agreement == Spec => []ControlsAgree
<1>1. ControlsInv => ControlsAgree
  <2>1. SUFFICES ASSUME TypeInv, AgreeInv, AtRest PROVE ControlsAgree
    BY DEF ControlsInv, ControlsAgree
  <2>2. panel \in DOMAIN Names /\ store.ctl = ctl
    BY <2>1, InPanel
  <2>3. \A n \in Names[panel] : ~Waits(store, gtk, n)
    BY <2>1, <2>2, InPanel, IdleIs, PanelNames DEF AtRest, Waits, Queued
  <2>4. ASSUME NEW w \in Wholes, w \in Names[panel], WholeAgrees(store, gtk, w) PROVE Joined(w)
    <3>1. Msb(w) \in Names[panel] /\ Lsb(w) \in Names[panel]
      BY <2>2, <2>4, HalvesOf
    <3>2. Val(Msb(w)) = Val(w) \div 128 /\ Val(Lsb(w)) = Val(w) % 128
      BY <2>2, <2>3, <2>4, <3>1 DEF WholeAgrees, HalfAgrees, Val
    <3>3. Val(w) \in Bits14
      BY <2>1, <2>2, <2>4, Current, WholeValues DEF TypeInv, Val
    <3>4. QED
      BY <3>2, <3>3, Bits14Are, Zenon DEF Joined
  <2>5. Agrees(store, gtk)
    BY <2>1 DEF AgreeInv
  <2>6. panel = "delay" => Joined("delay_time")
    BY <2>4, <2>5, NamesAre DEF Agrees, Wholes
  <2>7. panel = "tempo" => Joined("tempo") /\ Joined("mod_speed")
    BY <2>4, <2>5, NamesAre DEF Agrees, Wholes
  <2>8. panel = "effects" => Val("effect_select") + 1 \in EffectOf(Val("effect_select:raw"))
    BY <2>2, <2>3, <2>5, NamesAre DEF Agrees, EffectAgrees, Val
  <2>9. panel = "stomp" => \A n \in {"stomp_param2_wave", "stomp_param2_octave"} :
                               Val(n) = FromMidi(Config(n), Val("stomp_param2"))
    BY <2>2, <2>3, <2>5, NamesAre DEF Agrees, VariantAgrees, Follows, Val
  <2>10. panel = "pedal" => Val("pedal_assign_select") = BucketOf(Val("pedal_assign"))
    BY <2>2, <2>3, <2>5, NamesAre DEF Agrees, PedalAgrees, Follows, Val
  <2>11. QED
    BY <2>6, <2>7, <2>8, <2>9, <2>10 DEF ControlsAgree
<1>2. QED
  BY <1>1, ControlsSound, PTL

\* What comes from the device alone is not sent back to it: no callback, on no panel,
\* turns it into a change by the user.
THEOREM NoEcho == Spec => []OnlyUserSends
<1>1. ControlsInv => OnlyUserSends
  <2>1. SUFFICES ASSUME QuietInv, Quietly PROVE ~Sending
    BY DEF ControlsInv, OnlyUserSends, Quietly
  <2>2. \A i \in DOMAIN bus : bus[i].type # "out"
    BY <2>1 DEF QuietInv, Quiet, QuietBus
  <2>3. QED
    BY <2>2 DEF Sending, Range
<1>2. QED
  BY <1>1, ControlsSound, PTL

-----------------------------------------------------------------------------
(* The kinds of controls: what survives the way to a byte and back.        *)

\* What ValuesSurvive says of a control.
Survives(c) == \A v \in Bounds(c) :
    LET m == ToMidi(c, v) IN
    /\ c.kind \notin {"long", "multibyte"} => (m \in 0 .. 127 /\ FromMidi(c, m) = v)
    /\ c.kind = "long" => /\ m \in 0 .. 127
                         /\ v - FromMidi(c, m) \in 0 .. (c.to - c.from) \div 127 + 1
    /\ FromBuffer(c, ToBuffer(c, v)) = v

LEMMA DivIs ==
    ASSUME NEW a \in Nat, NEW d \in Nat \ {0}
    PROVE  a \div d \in Nat /\ (a \div d) * d <= a /\ a < (a \div d) * d + d
OBVIOUS

LEMMA DivOf ==
    ASSUME NEW a \in Nat, NEW d \in Nat \ {0}, NEW q \in Nat, q * d <= a, a < q * d + d
    PROVE  a \div d = q
OBVIOUS

LEMMA ModSmall == ASSUME NEW a \in Nat, NEW d \in Nat \ {0}, a < d PROVE a % d = a
OBVIOUS

LEMMA TimesMonotone ==
    ASSUME NEW a \in Nat, NEW b \in Nat, NEW d \in Nat, a <= b
    PROVE  a * d \in Nat /\ a * d <= b * d
OBVIOUS

\* One byte of the buffer.
LEMMA ByteSurvives ==
    ASSUME NEW v \in Nat, v < 256
    PROVE  BytesOf(v, 1) = <<v>> /\ NumberOf(<<v>>) = v
<1>1. v % 256 = v
  BY ModSmall
<1>2. QED
  BY <1>1 DEF BytesOf, NumberOf

LEMMA WordSurvives ==
    ASSUME NEW v \in Nat, v < 65536
    PROVE  NumberOf(BytesOf(v, 2)) = v
<1> DEFINE a == (v \div 256) % 256  b == v % 256
<1>1. BytesOf(v, 2) = <<a, b>>
  BY DEF BytesOf
<1>2. NumberOf(<<a, b>>) = a * 256 + b
  BY DEF NumberOf
<1>3. a * 256 + b = v
  OBVIOUS
<1>4. QED
  BY <1>1, <1>2, <1>3

LEMMA LongWordSurvives ==
    ASSUME NEW v \in Nat, v < 16777216
    PROVE  NumberOf(BytesOf(v, 4)) = v
<1> DEFINE a == (v \div 16777216) % 256  b == (v \div 65536) % 256
           c == (v \div 256) % 256  d == v % 256
<1>1. BytesOf(v, 4) = <<a, b, c, d>>
  BY DEF BytesOf
<1>2. NumberOf(<<a, b, c, d>>) = a * 16777216 + b * 65536 + c * 256 + d
  BY DEF NumberOf
<1>3. a = 0
  OBVIOUS
<1>4. b * 65536 + c * 256 + d = v
  OBVIOUS
<1>5. QED
  BY <1>1, <1>2, <1>3, <1>4

\* A control of one byte whose value is less than 256 is kept in the buffer as it is.
LEMMA PlainBuffer ==
    ASSUME NEW c, c.kind \in {"normal", "select", "short", "steps", "function"},
           NEW v \in Nat, v < 256
    PROVE  FromBuffer(c, ToBuffer(c, v)) = v
<1>1. Size(c) = 1 /\ ToBuffer(c, v) = BytesOf(v, 1)
  BY DEF Size, ToBuffer
<1>2. FromBuffer(c, <<v>>) = NumberOf(<<v>>)
  BY DEF FromBuffer
<1>3. QED
  BY <1>1, <1>2, ByteSurvives

LEMMA PlainSurvives == ASSUME NEW c, c.kind \in {"normal", "select"} PROVE Survives(c)
<1>1. Bounds(c) = 0 .. 127
  BY DEF Bounds
<1>2. ASSUME NEW v \in 0 .. 127
      PROVE  ToMidi(c, v) = v /\ FromMidi(c, v) = v /\ FromBuffer(c, ToBuffer(c, v)) = v
  <2>1. v % 256 = v
    BY ModSmall
  <2>2. QED
    BY <2>1, PlainBuffer DEF ToMidi, FromMidi
<1>3. QED
  BY <1>1, <1>2 DEF Survives

LEMMA SwitchSurvives ==
    ASSUME NEW c, c.kind = "switch", c.inverted \in BOOLEAN PROVE Survives(c)
<1>1. Bounds(c) = 0 .. 1
  BY DEF Bounds
<1>2. ASSUME NEW v \in 0 .. 1
      PROVE  ToMidi(c, v) \in 0 .. 127 /\ FromMidi(c, ToMidi(c, v)) = v
  BY DEF ToMidi, FromMidi, AsInt
<1>3. ASSUME NEW v \in 0 .. 1 PROVE FromBuffer(c, ToBuffer(c, v)) = v
  <2> DEFINE b == AsInt((v # 0) # c.inverted)
  <2>1. b \in 0 .. 1 /\ AsInt((b # 0) # c.inverted) = v
    BY DEF AsInt
  <2>2. Size(c) = 1 /\ ToBuffer(c, v) = BytesOf(b, 1)
    BY DEF Size, ToBuffer
  <2>3. BytesOf(b, 1) = <<b>> /\ NumberOf(<<b>>) = b
    BY <2>1, ByteSurvives
  <2>4. FromBuffer(c, <<b>>) = AsInt((NumberOf(<<b>>) # 0) # c.inverted)
    BY DEF FromBuffer
  <2>5. QED
    BY <2>1, <2>2, <2>3, <2>4
<1>4. QED
  BY <1>1, <1>2, <1>3 DEF Survives

\* The values of a range share 128 MIDI values.
LEMMA Sharing ==
    ASSUME NEW n \in 1 .. 128, NEW x \in 0 .. n - 1
    PROVE  LET s == 128 \div n IN
           /\ s \in 1 .. 128 /\ x * s \in 0 .. 127 /\ (x * s) \div s = x
           /\ x * s = 127 => n = 128
<1> DEFINE s == 128 \div n
<1>1. s \in Nat /\ s * n <= 128 /\ 128 < s * n + n
  BY DivIs
<1>2. s # 0
  BY <1>1
<1>3. s \in 1 .. 128
  BY <1>1, <1>2
<1> HIDE DEF s
<1>4. x * s \in Nat /\ (x + 1) * s <= n * s
  BY <1>3, TimesMonotone
<1>5. (x + 1) * s = x * s + s /\ n * s = s * n
  BY <1>3
<1>6. x * s + s <= 128
  BY <1>1, <1>4, <1>5
<1>7. x * s \in 0 .. 127
  BY <1>3, <1>4, <1>6
<1>8. (x * s) \div s = x
  BY <1>3, <1>4, DivOf
<1>9. ASSUME x * s = 127 PROVE n = 128
  <2>1. s = 1
    BY <1>3, <1>6, <1>9
  <2>2. QED
    BY <1>1, <1>9, <2>1
<1>10. QED
  BY <1>3, <1>7, <1>8, <1>9 DEF s

\* There are no more values than MIDI values, and an edge has one of its own.
IsShort(c) ==
    /\ c.from \in Nat /\ c.to \in Nat /\ c.to < 256 /\ (c.edge = TRUE \/ c.edge = FALSE)
    /\ c.edge => c.to - c.from \in 1 .. 127
    /\ ~c.edge => c.to - c.from \in 0 .. 127

LEMMA ShortSurvives == ASSUME NEW c, c.kind = "short", IsShort(c) PROVE Survives(c)
<1> DEFINE from == c.from  to == c.to  edge == c.edge
           n == IF edge THEN to - from ELSE to - from + 1
           s == 128 \div n
<1>1. c.kind = "short" /\ c.from = from /\ c.to = to /\ c.edge = edge
  OBVIOUS
<1>2. /\ from \in Nat /\ to \in Nat /\ to < 256 /\ edge \in BOOLEAN
      /\ edge => to - from \in 1 .. 127
      /\ ~edge => to - from \in 0 .. 127
  BY DEF IsShort
<1> HIDE DEF from, to, edge
<1>3. Bounds(c) = from .. to /\ n \in 1 .. 128
  BY <1>1, <1>2 DEF Bounds
<1>4. Shared(c) = s
  BY <1>1, <1>2 DEF Shared
<1> HIDE DEF n
<1>5. ASSUME NEW v \in from .. to, edge, v = to
      PROVE  ToMidi(c, v) = 127 /\ FromMidi(c, 127) = v
  BY <1>1, <1>2, <1>5 DEF ToMidi, FromMidi, ShortToMidi, ShortFromMidi
<1>6. ASSUME NEW v \in from .. to, edge => v # to
      PROVE  ToMidi(c, v) \in 0 .. 127 /\ FromMidi(c, ToMidi(c, v)) = v
  <2>1. PICK x \in 0 .. n - 1 : x = v - from
    BY <1>2, <1>6 DEF n
  <2>2. /\ s \in 1 .. 128 /\ x * s \in 0 .. 127 /\ (x * s) \div s = x
        /\ x * s = 127 => n = 128
    BY <1>2, <1>3, Sharing
  <2>3. (x * s) % 256 = x * s
    BY <2>2, ModSmall
  <2>4. ToMidi(c, v) = x * s
    <3>1. ToMidi(c, v) = ShortToMidi(c, v) /\ ~(edge /\ v >= to)
      BY <1>1, <1>2, <1>6 DEF ToMidi
    <3>2. ShortToMidi(c, v) = ((v - from) * s) % 256
      BY <1>1, <1>2, <1>4, <3>1 DEF ShortToMidi
    <3>3. QED
      BY <2>1, <2>3, <3>1, <3>2
  <2>5. ~(edge /\ x * s = 127)
    BY <1>2, <2>2 DEF n
  <2>6. FromMidi(c, x * s) = (x * s) \div s + from
    BY <1>1, <1>2, <1>4, <2>5 DEF FromMidi, ShortFromMidi
  <2>7. QED
    BY <1>2, <2>1, <2>2, <2>4, <2>6
<1>7. \A v \in from .. to : FromBuffer(c, ToBuffer(c, v)) = v
  BY <1>1, <1>2, PlainBuffer
<1>8. QED
  BY <1>1, <1>3, <1>5, <1>6, <1>7 DEF Survives

\* Two bytes of the buffer.
IsLong(c) == c.from \in Nat /\ c.to \in Nat /\ c.from < c.to /\ c.to < 65536

LEMMA LongSurvives == ASSUME NEW c, c.kind = "long", IsLong(c) PROVE Survives(c)
<1> DEFINE d == c.to - c.from
<1>1. PICK from \in Nat, to \in Nat : from = c.from /\ to = c.to /\ from < to /\ to < 65536
  BY DEF IsLong
<1>2. c.kind = "long" /\ c.from = from /\ c.to = to /\ d = to - from
  BY <1>1
<1>3. Bounds(c) = from .. to /\ d \in Nat \ {0}
  BY <1>1, <1>2 DEF Bounds
<1>4. ASSUME NEW v \in from .. to
      PROVE  ToMidi(c, v) \in 0 .. 127 /\ v - FromMidi(c, ToMidi(c, v)) \in 0 .. d \div 127 + 1
  <2>1. PICK x \in 0 .. d : x = v - from
    BY <1>2, <1>4
  <2> DEFINE m == (x * 127) \div d
             y == (m * d) \div 127
  <2>2. ToMidi(c, v) = m
    BY <1>2, <2>1 DEF ToMidi
  <2>3. FromMidi(c, m) = y + from
    BY <1>2 DEF FromMidi
  <2> HIDE DEF d
  <2>4. m \in Nat /\ m * d <= x * 127 /\ x * 127 < m * d + d
    BY <1>3, <2>1, DivIs
  <2> HIDE DEF m
  <2>5. m * d \in Nat
    BY <1>3, <2>4, TimesMonotone
  <2>6. m <= 127
    <3>1. SUFFICES ASSUME m >= 128 PROVE FALSE
      BY <2>4
    <3>2. 128 * d <= m * d
      BY <1>3, <2>4, <3>1, TimesMonotone
    <3>3. QED
      BY <1>3, <2>1, <2>4, <2>5, <3>2
  <2>7. y \in Nat /\ y * 127 <= m * d /\ m * d < y * 127 + 127
    BY <2>5, DivIs
  <2>8. d \div 127 \in Nat /\ d < (d \div 127) * 127 + 127
    BY <1>3, DivIs
  <2> HIDE DEF y
  <2>9. x - y \in 0 .. d \div 127 + 1
    BY <1>3, <2>1, <2>4, <2>5, <2>7, <2>8
  <2>10. v - (y + from) = x - y
    BY <2>1, <2>7
  <2>11. QED
    BY <2>2, <2>3, <2>4, <2>6, <2>9, <2>10
<1>5. ASSUME NEW v \in from .. to PROVE FromBuffer(c, ToBuffer(c, v)) = v
  <2>1. ToBuffer(c, v) = BytesOf(v, 2)
    BY <1>2 DEF ToBuffer, Size
  <2>2. \A b : FromBuffer(c, b) = NumberOf(b)
    BY <1>2 DEF FromBuffer
  <2>3. NumberOf(BytesOf(v, 2)) = v
    BY <1>1, WordSurvives
  <2>4. QED
    BY <2>1, <2>2, <2>3
<1>6. QED
  BY <1>2, <1>3, <1>4, <1>5 DEF Survives

IsMultibyte(c) == c.from \in Nat /\ c.to \in Nat /\ c.to < 65536

LEMMA MultibyteSurvives == ASSUME NEW c, c.kind = "multibyte", IsMultibyte(c) PROVE Survives(c)
<1>1. PICK from \in Nat, to \in Nat : from = c.from /\ to = c.to /\ to < 65536
  BY DEF IsMultibyte
<1>2. Bounds(c) = from .. to
  BY <1>1 DEF Bounds
<1>3. ASSUME NEW v \in from .. to PROVE FromBuffer(c, ToBuffer(c, v)) = v
  <2>1. ToBuffer(c, v) = BytesOf(v * 6, 4)
    BY <1>1 DEF ToBuffer, Size
  <2>2. NumberOf(BytesOf(v * 6, 4)) = v * 6
    BY <1>1, LongWordSurvives
  <2>3. FromBuffer(c, BytesOf(v * 6, 4)) = AtMost((v * 6) \div 6, 65535)
    BY <1>1, <2>2 DEF FromBuffer
  <2>4. (v * 6) \div 6 = v
    OBVIOUS
  <2>5. QED
    BY <1>1, <2>1, <2>3, <2>4 DEF AtMost
<1>4. QED
  BY <1>1, <1>2, <1>3 DEF Survives

\* Steps go up: what is reached by a step ends with it.
IsSteps(steps) ==
    /\ steps \in Seq(Nat) /\ Len(steps) < 256
    /\ \A i \in DOMAIN steps : steps[i] < 128
    /\ \A i, j \in DOMAIN steps : i < j => steps[i] < steps[j]

LEMMA StepsSurvive == ASSUME NEW c, c.kind = "steps", IsSteps(c.steps) PROVE Survives(c)
<1> DEFINE steps == c.steps
<1>1. c.kind = "steps" /\ c.steps = steps /\ IsSteps(steps)
  OBVIOUS
<1> HIDE DEF steps
<1> USE <1>1 DEF IsSteps
<1>2. PICK n \in Nat : n = Len(steps)
  OBVIOUS
<1>3. Bounds(c) = 0 .. n - 1 /\ DOMAIN steps = 1 .. n
  BY <1>1, <1>2 DEF Bounds
<1>4. \A i \in 1 .. n : steps[i] \in Nat /\ steps[i] < 128
  BY <1>3 DEF IsSteps
<1>5. ASSUME NEW v \in 0 .. n - 1
      PROVE  ToMidi(c, v) \in 0 .. 127 /\ FromMidi(c, ToMidi(c, v)) = v
  <2>1. PICK w \in 1 .. n : w = v + 1
    BY <1>2
  <2>2. PICK m \in Nat : m = steps[w] /\ m < 128
    BY <1>4
  <2> DEFINE reached == {i \in DOMAIN steps : \A j \in 1 .. i : steps[j] <= m}
  <2>3. ToMidi(c, v) = m
    <3>1. ToMidi(c, v) = steps[AtMost(v, Len(steps) - 1) + 1]
      BY <1>1 DEF ToMidi, StepsToMidi
    <3>2. AtMost(v, n - 1) = v
      BY DEF AtMost
    <3>3. QED
      BY <1>2, <2>1, <2>2, <3>1, <3>2
  <2>4. \A j \in 1 .. w : steps[j] <= m
    <3>1. SUFFICES ASSUME NEW j \in 1 .. w, j # w PROVE steps[j] <= m
      BY <2>2
    <3>2. PICK a \in Nat : a = steps[j]
      BY <1>4
    <3>3. j \in DOMAIN steps /\ w \in DOMAIN steps /\ j < w
      BY <1>2, <1>3, <3>1
    <3>4. a < m
      BY <2>2, <3>2, <3>3
    <3>5. QED
      BY <3>2, <3>4
  <2>5. \A i \in 1 .. n : i > w => ~(steps[i] <= m)
    <3>1. SUFFICES ASSUME NEW i \in 1 .. n, i > w PROVE ~(steps[i] <= m)
      OBVIOUS
    <3>2. PICK a \in Nat : a = steps[i]
      BY <1>4
    <3>3. i \in DOMAIN steps /\ w \in DOMAIN steps /\ w < i
      BY <1>2, <1>3, <3>1
    <3>4. m < a
      BY <2>2, <3>2, <3>3
    <3>5. QED
      BY <3>2, <3>4
  <2>6. \A i : i \in reached <=> i \in 1 .. w
    <3>1. ASSUME NEW i \in 1 .. w PROVE i \in reached
      BY <1>2, <1>3, <2>4
    <3>2. ASSUME NEW i \in reached PROVE i \in 1 .. n /\ ~(i > w)
      BY <1>2, <1>3, <2>5
    <3> HIDE DEF reached
    <3>3. QED
      BY <1>2, <3>1, <3>2
  <2>7. FromMidi(c, m) =
            IF reached = {} THEN 0 ELSE (CHOOSE i \in reached : \A j \in reached : j <= i) - 1
    BY <1>1 DEF FromMidi, StepsFromMidi
  <2> HIDE DEF reached
  <2>8. /\ w \in reached /\ \A j \in reached : j <= w
        /\ \A i \in reached : (\A j \in reached : j <= i) => i = w
    BY <1>2, <2>6
  <2>9. (CHOOSE i \in reached : \A j \in reached : j <= i) = w
    BY <2>8
  <2>10. FromMidi(c, m) = w - 1
    BY <2>7, <2>8, <2>9
  <2>11. m < 128 /\ w - 1 = v
    BY <2>1, <2>2
  <2>12. m \in 0 .. 127
    BY <2>11
  <2>13. QED
    BY <2>3, <2>10, <2>11, <2>12
<1>6. ASSUME NEW v \in 0 .. n - 1 PROVE FromBuffer(c, ToBuffer(c, v)) = v
  <2>1. Len(steps) < 256
    BY <1>1 DEF IsSteps
  <2>2. v \in Nat /\ v < 256
    BY <1>2, <2>1
  <2>3. QED
    BY <2>2, PlainBuffer
<1>7. QED
  BY <1>3, <1>5, <1>6 DEF Survives

LEMMA FunctionsSurvive ==
    ASSUME NEW c, c.kind = "function", c.name \in {"gate_pod2", "gate_xt", "heel_toe"}
    PROVE  Survives(c)
<1> DEFINE name == c.name
           to == IF name = "heel_toe" THEN 48 ELSE 96
<1>1. name \in {"gate_pod2", "gate_xt", "heel_toe"}
  OBVIOUS
<1>2. c.kind = "function" /\ c.name = name
  OBVIOUS
<1> HIDE DEF name
<1>3. \A v : v \in Bounds(c) <=> v \in 0 .. to
  <2>1. FunctionFromMidi("gate_pod2", 0) = 96 /\ FunctionFromMidi("gate_pod2", 127) = 0
    BY DEF FunctionFromMidi
  <2>2. FunctionFromMidi("gate_xt", 0) = 96 /\ FunctionFromMidi("gate_xt", 127) = 0
    BY DEF FunctionFromMidi, AtMost
  <2>3. FunctionFromMidi("heel_toe", 0) = 0 /\ FunctionFromMidi("heel_toe", 127) = 48
    BY DEF FunctionFromMidi
  <2>4. Bounds(c) = LET a == FunctionFromMidi(name, 0)
                        b == FunctionFromMidi(name, 127)
                    IN AtMost(a, b) .. (a + b - AtMost(a, b))
    BY <1>2 DEF Bounds
  <2>5. QED
    BY <1>1, <2>1, <2>2, <2>3, <2>4 DEF AtMost
<1>4. ASSUME NEW v \in 0 .. to PROVE ToMidi(c, v) \in 0 .. 127 /\ FromMidi(c, ToMidi(c, v)) = v
  <2>1. ToMidi(c, v) = FunctionToMidi(name, v)
    BY <1>2 DEF ToMidi
  <2>2. \A m : FromMidi(c, m) = FunctionFromMidi(name, m)
    BY <1>2 DEF FromMidi
  <2>3. CASE name = "gate_pod2"
    BY <2>1, <2>2, <2>3 DEF FunctionToMidi, FunctionFromMidi
  <2>4. CASE name = "gate_xt"
    BY <2>1, <2>2, <2>4 DEF FunctionToMidi, FunctionFromMidi, AtMost
  <2>5. CASE name = "heel_toe"
    BY <2>1, <2>2, <2>5 DEF FunctionToMidi, FunctionFromMidi
  <2>6. QED
    BY <1>1, <2>3, <2>4, <2>5
<1>5. \A v \in 0 .. to : FromBuffer(c, ToBuffer(c, v)) = v
  BY <1>2, PlainBuffer
<1>6. QED
  BY <1>2, <1>3, <1>4, <1>5 DEF Survives

\* How the devices declare their controls.
Declared(c) ==
    /\ c.kind \in {"normal", "switch", "select", "short", "long", "steps", "function", "multibyte"}
    /\ c.kind = "switch"    => c.inverted = TRUE \/ c.inverted = FALSE
    /\ c.kind = "short"     => IsShort(c)
    /\ c.kind = "long"      => IsLong(c)
    /\ c.kind = "steps"     => IsSteps(c.steps)
    /\ c.kind = "function"  => c.name \in {"gate_pod2", "gate_xt", "heel_toe"}
    /\ c.kind = "multibyte" => IsMultibyte(c)

LEMMA DeclaredSurvives == ASSUME NEW c, Declared(c) PROVE Survives(c)
<1>1. c.kind = "switch" => c.inverted \in BOOLEAN
  <2>1. \A b : b = TRUE \/ b = FALSE => b \in BOOLEAN
    OBVIOUS
  <2>2. QED
    BY <2>1, Zenon DEF Declared
<1>2. CASE c.kind \in {"normal", "select"}
  BY <1>2, PlainSurvives
<1>3. CASE c.kind = "switch"
  BY <1>1, <1>3, SwitchSurvives
<1>4. CASE c.kind \in {"short", "long"}
  BY <1>4, ShortSurvives, LongSurvives DEF Declared
<1>5. CASE c.kind \in {"steps", "multibyte"}
  BY <1>5, StepsSurvive, MultibyteSurvives DEF Declared
<1>6. CASE c.kind = "function"
  BY <1>6, FunctionsSurvive DEF Declared
<1>7. QED
  BY <1>2, <1>3, <1>4, <1>5, <1>6 DEF Declared

LEMMA AllDeclared == \A c \in Pod2Controls \cup XtControls \cup BassControls : Declared(c)
<1>1. IsSteps(Eight) /\ IsSteps(<<0, 32, 64>>)
  <2>1. IsSteps(Eight)
    BY DEF IsSteps, Eight
  <2>2. IsSteps(<<0, 32, 64>>)
    BY DEF IsSteps
  <2>3. QED
    BY <2>1, <2>2
<1> USE DEF Declared, IsShort, IsLong, IsMultibyte, Normal, Switch, Select, Short, Long,
            Steps, Function, Multibyte
<1>2. \A c \in Pod2Controls : Declared(c)
  BY SMTT(20) DEF Pod2Controls
<1>3. \A c \in XtControls : Declared(c)
  BY <1>1, SMTT(20) DEF XtControls
<1>4. \A c \in BassControls : Declared(c)
  BY <1>1, SMTT(20) DEF BassControls
<1> HIDE DEF Declared
<1>5. QED
  BY <1>2, <1>3, <1>4

\* Every control that a device is declared with keeps its values on the way to the
\* device or to the edit buffer and back, or as much of them as 128 MIDI values can tell.
THEOREM AllValuesSurvive == Spec => []ValuesSurvive
<1>1. ValuesSurvive
  BY AllDeclared, DeclaredSurvives DEF ValuesSurvive, Survives
<1>2. QED
  BY <1>1, PTL

-----------------------------------------------------------------------------
(* The edit buffer.                                                        *)

\* The controls whose bytes follow them.
Stored == Range(Addressed[panel]) \ Derived

\* A change that the application task is to write: one with an origin.
Loud(s, n) == s.name = n /\ s.origin # "NONE"

Pending(st, g, b, n) ==
    \/ \E i \in DOMAIN st.queue : Loud(st.queue[i], n)
    \/ Loud(g.sig, n)
    \/ \E i \in DOMAIN b : b[i].type = "cc" /\ Loud(b[i].sig, n)

Written(st, g, b, r) == \A n \in Stored : r[n] = st.ctl[n].val \/ Pending(st, g, b, n)

\* On a panel with halves, who acts waits until the last act is handled: what is under
\* way comes from one act.
Splits == slow /\ panel \in {"delay", "tempo"}

Big    == IF panel = "delay" THEN "delay_time" ELSE "tempo"
Family == {Big, Msb(Big), Lsb(Big)}

Busy(st, g, n)  == Queued(st, n) \/ g.sig.name = n
From(st, g, o)  == \A n \in Family : Busy(st, g, n) => st.ctl[n].origin = o

\* A patch sets a whole, which is split, or the halves, which are all joined before the
\* whole is split: no change without an origin changes what is stored once more.
Part(st, h) == IF h = Msb(Big) THEN st.ctl[Big].val \div 128 ELSE st.ctl[Big].val % 128

Splitting(g) == g.sig.name = "tempo" /\ g.left = Callbacks["tempo"]

Unjoined(st, g, h) ==
    \/ g.sig.name = h /\ g.left = Callbacks[h]
    \/ /\ ~Splitting(g)
       /\ \E i \in DOMAIN st.queue :
             st.queue[i].name = h /\ \A j \in 1 .. i : st.queue[j].name # "tempo"

PartInOrder(st, g, h) ==
    \/ st.ctl[h].val = Part(st, h)
    \/ panel = "delay" /\ ~Waits(st, g, h)
    \/ panel = "tempo" /\ Unjoined(st, g, h)

InOrder(st, g) == \A h \in {Msb(Big), Lsb(Big)} : PartInOrder(st, g, h)

OneOrigin(st, g) == \E o \in Origins : From(st, g, o) /\ (o = "NONE" => InOrder(st, g))

\* What the device sends comes alone.
ComesAlone(st, g, b) ==
    \A i \in DOMAIN b :
        /\ b[i].type # "load"
        /\ b[i].type \in {"in", "dump"} => st.queue = <<>> /\ g = Idle /\ Len(b) = 1

Buffered(st, g, b, r) ==
    /\ DOMAIN r = Range(Addressed[panel])
    /\ slow \/ panel \notin {"delay", "tempo"} => Written(st, g, b, r)
    /\ Splits => OneOrigin(st, g) /\ ComesAlone(st, g, b)

BufferInv == Buffered(store, gtk, bus, raw)

LEMMA RangeIs ==
    /\ Range(Addressed["delay"]) = {"delay_time"}
    /\ Range(Addressed["effects"]) = {"effect_select:raw", "delay_enable"}
    /\ Range(Addressed["tempo"]) = {"tempo:lsb", "tempo:msb", "mod_speed:lsb",
                                    "mod_note_select", "mod_speed:msb"}
    /\ Range(Addressed["stomp"]) = {"stomp_param2"}
    /\ Range(Addressed["pedal"]) = {"pedal_assign"}
<1>1. \A a : Range(<<a>>) = {a}
  BY DEF Range
<1>2. \A a, b : Range(<<a, b>>) = {a, b}
  BY DEF Range
<1>3. \A a, b, c, d, e : Range(<<a, b, c, d, e>>) = {a, b, c, d, e}
  BY DEF Range
<1>4. QED
  BY <1>1, <1>2, <1>3, AddressedAre

LEMMA StoredAre ==
    ASSUME panel \in DOMAIN Names
    PROVE  /\ Stored \subseteq Names[panel]
           /\ panel = "delay"   => Stored = {"delay_time"}
           /\ panel = "effects" => Stored = {"effect_select:raw"}
           /\ panel = "tempo"   => Stored = {"tempo:lsb", "tempo:msb", "mod_note_select"}
           /\ panel = "stomp"   => Stored = {"stomp_param2"}
           /\ panel = "pedal"   => Stored = {"pedal_assign"}
           /\ \A n \in Stored : n = "delay_time" \/ n \in Bytes \/ n = "effect_select:raw"
           /\ \A n \in Range(Addressed[panel]) : n \in Names[panel]
<1>1. \/ panel = "delay" \/ panel = "effects" \/ panel = "tempo" \/ panel = "stomp"
      \/ panel = "pedal"
  BY NamesAre
<1>2. QED
  BY <1>1, RangeIs, NamesAre DEF Stored, Derived, Bytes, Halves

LEMMA FamilyIs ==
    ASSUME panel \in DOMAIN Names, Splits
    PROVE  /\ Big \in Wholes /\ Big \in Names[panel] /\ Msb(Big) # Lsb(Big)
           /\ Msb(Big) \in Names[panel] /\ Lsb(Big) \in Names[panel]
           /\ Msb(Big) # Big /\ Lsb(Big) # Big
           /\ panel = "delay" => /\ Big = "delay_time" /\ Msb(Big) = "delay_time:msb"
                                 /\ Lsb(Big) = "delay_time:lsb"
           /\ panel = "tempo" => /\ Big = "tempo" /\ Msb(Big) = "tempo:msb"
                                 /\ Lsb(Big) = "tempo:lsb"
<1>1. panel = "delay" \/ panel = "tempo"
  BY DEF Splits
<1>2. Big \in Wholes /\ Big \in Names[panel]
  BY <1>1, NamesAre DEF Big, Wholes
<1>3. QED
  BY <1>1, <1>2, HalvesOf DEF Big, Msb, Lsb

\* What is written for a control is its value.
LEMMA BufferValueIs ==
    ASSUME TypeInv, NEW n \in Stored
    PROVE  BufferValue(n) = ctl[n].val
<1> DEFINE v == ctl[n].val
           c == Config(n)
<1>1. panel \in DOMAIN Names /\ store.ctl = ctl /\ StoreType(store)
  BY InPanel DEF TypeInv
<1>2. n \in Names[panel] /\ v \in Values(n) /\ (n = "delay_time" \/ n \in Bytes \/ n = "effect_select:raw")
  BY <1>1, StoredAre, Current
<1>3. BufferValue(n) = IF panel \in {"delay", "effects"} THEN FromBuffer(c, ToBuffer(c, v))
                                                         ELSE FromMidi(c, ToMidi(c, v))
  BY <1>1 DEF BufferValue, Get
<1> SUFFICES BufferValue(n) = v
  OBVIOUS
<1> HIDE DEF v
<1>4. CASE n = "delay_time"
  <2>1. panel = "delay"
    BY <1>1, <1>4, StoredAre, NamesAre DEF Bytes, Halves
  <2>2. c = Multibyte(0, 16383)
    BY <1>4 DEF Config
  <2>3. c.kind = "multibyte" /\ c.from = 0 /\ c.to = 16383
    BY <2>2 DEF Multibyte
  <2>4. IsMultibyte(c)
    BY <2>3, SMTT(20) DEF IsMultibyte
  <2>5. v \in Bounds(c)
    <3>1. Bounds(c) = 0 .. 16383
      BY <2>3, SMTT(20) DEF Bounds
    <3>2. v \in Bits14
      BY <1>2, <1>4, WholeValues DEF Wholes
    <3>3. QED
      BY <3>1, <3>2, SMTT(20) DEF Bits14
  <2> HIDE DEF c
  <2>6. Survives(c)
    BY <2>3, <2>4, MultibyteSurvives
  <2>7. FromBuffer(c, ToBuffer(c, v)) = v
    BY <2>5, <2>6 DEF Survives
  <2>8. QED
    BY <1>3, <2>1, <2>7
<1>5. CASE n \in Bytes \/ n = "effect_select:raw"
  <2>1. c = Normal
    BY <1>5, ConfigIs
  <2>2. v \in 0 .. 127
    BY <1>2, <1>5, ByteValues, EffectValues
  <2>3. Normal.kind = "normal"
    BY DEF Normal
  <2>4. FromBuffer(Normal, ToBuffer(Normal, v)) = v
    BY <2>2, <2>3, PlainBuffer
  <2>5. FromMidi(Normal, ToMidi(Normal, v)) = v
    <3>1. v % 256 = v
      BY <2>2, ModSmall
    <3>2. QED
      BY <3>1, ConfigIs
  <2> HIDE DEF c
  <2>6. QED
    BY <1>3, <2>1, <2>4, <2>5
<1>6. QED
  BY <1>2, <1>4, <1>5

-----------------------------------------------------------------------------
(* What a change does to the edit buffer's part.                           *)

\* A change that has an origin, or is of other controls.
Speaks(st, s2, ns, o) ==
    /\ Changes(st, s2, ns, o)
    /\ \A n \in Stored : o # "NONE" \/ s2.ctl[n] = st.ctl[n]

LEMMA SpeaksOf ==
    ASSUME NEW st, NEW s2, NEW ns, NEW o, panel \in DOMAIN Names,
           Changes(st, s2, ns, o), o # "NONE" \/ Stored \cap ns = {}
    PROVE  Speaks(st, s2, ns, o)
<1>1. ASSUME NEW n \in Stored PROVE o # "NONE" \/ s2.ctl[n] = st.ctl[n]
  BY StoredAre DEF Changes
<1>2. QED
  BY <1>1 DEF Speaks

LEMMA WrittenKept ==
    ASSUME panel \in DOMAIN Names, NEW st, NEW s2, NEW ns, NEW o, Speaks(st, s2, ns, o),
           NEW g, NEW g2, g2.sig = g.sig, NEW b, NEW r, Written(st, g, b, r)
    PROVE  Written(s2, g2, b, r)
<1>1. SUFFICES ASSUME NEW n \in Stored PROVE r[n] = s2.ctl[n].val \/ Pending(s2, g2, b, n)
  BY DEF Written
<1>2. Appends(st, s2, ns, o) /\ n \in Names[panel]
  BY StoredAre DEF Speaks, Changes
<1>3. CASE s2.ctl[n] = st.ctl[n]
  <2>1. r[n] = st.ctl[n].val \/ Pending(st, g, b, n)
    BY DEF Written
  <2>2. Pending(st, g, b, n) => Pending(s2, g2, b, n)
    BY <1>2 DEF Pending, Appends
  <2>3. QED
    BY <1>3, <2>1, <2>2
<1>4. CASE s2.ctl[n] # st.ctl[n]
  <2>1. o # "NONE"
    BY <1>4 DEF Speaks
  <2>2. PICK i \in DOMAIN s2.queue : s2.queue[i].name = n /\ s2.queue[i].origin = o
    BY <1>2, <1>4 DEF Appends
  <2>3. QED
    BY <2>1, <2>2 DEF Pending, Loud
<1>5. QED
  BY <1>3, <1>4

LEMMA FromKept ==
    ASSUME panel \in DOMAIN Names, Splits, NEW st, NEW s2, NEW ns, NEW o, Changes(st, s2, ns, o),
           NEW g, NEW g2, g2.sig = g.sig, NEW p, From(st, g, p),
           o = p \/ Family \cap ns = {}
    PROVE  From(s2, g2, p)
<1>1. SUFFICES ASSUME NEW n \in Family, Busy(s2, g2, n) PROVE s2.ctl[n].origin = p
  BY DEF From
<1>2. Appends(st, s2, ns, o) /\ n \in Names[panel]
  BY FamilyIs DEF Changes, Family
<1>3. CASE Busy(st, g, n)
  <2>1. st.ctl[n].origin = p
    BY <1>3 DEF From
  <2>2. QED
    BY <1>2, <2>1 DEF Appends
<1>4. CASE ~Busy(st, g, n)
  <2>1. PICK i \in DOMAIN s2.queue : s2.queue[i].name = n
    BY <1>1, <1>4 DEF Busy, Queued
  <2>2. i \notin DOMAIN st.queue
    BY <1>2, <1>4, <2>1 DEF Busy, Queued, Appends
  <2>3. QED
    BY <1>2, <2>1, <2>2 DEF Appends
<1>5. QED
  BY <1>3, <1>4

\* At the start of an act nothing waits.
LEMMA FromRest ==
    ASSUME panel \in DOMAIN Names, Splits, NEW st, NEW s2, NEW ns, NEW o, Changes(st, s2, ns, o),
           st.queue = <<>>
    PROVE  From(s2, Idle, o)
<1>1. SUFFICES ASSUME NEW n \in Family, Busy(s2, Idle, n) PROVE s2.ctl[n].origin = o
  BY DEF From
<1>2. Appends(st, s2, ns, o) /\ n \in Names[panel]
  BY FamilyIs DEF Changes, Family
<1>3. n # Idle.sig.name
  BY <1>2, IdleIs, PanelNames
<1>4. PICK i \in DOMAIN s2.queue : s2.queue[i].name = n
  BY <1>1, <1>3 DEF Busy, Queued
<1>5. i \notin DOMAIN st.queue
  OBVIOUS
<1>6. QED
  BY <1>2, <1>4, <1>5 DEF Appends

\* A callback that runs is no longer the first one.
LEMMA AfterBegun ==
    ASSUME panel \in DOMAIN Names, NEW g, GtkType(g), g.left # <<>>
    PROVE  /\ After(g).sig = g.sig /\ g.sig.name \in Names[panel]
           /\ \A n \in Names[panel] : ~(After(g).sig.name = n /\ After(g).left = Callbacks[n])
           /\ ~Splitting(After(g))
<1>1. /\ g = [sig |-> g.sig, left |-> g.left] /\ Fits(g.sig)
      /\ \/ g.left = Callbacks[g.sig.name]
         \/ Len(Callbacks[g.sig.name]) = 2 /\ g.left = Tail(Callbacks[g.sig.name])
  BY DEF GtkType, Idle
<1>2. g.sig.name \in AllNames /\ g.sig.name \in Names[panel]
  BY <1>1, PanelNames DEF Fits
<1>3. After(g).sig = g.sig /\ After(g).left = Tail(g.left)
  BY <1>1 DEF After
<1>4. Tail(g.left) # Callbacks[g.sig.name]
  <2> DEFINE c == Callbacks[g.sig.name]
  <2>1. /\ c # <<>> /\ (Len(c) = 1 \/ Len(c) = 2)
        /\ Len(c) = 1 => Tail(c) = <<>>
        /\ Len(c) = 2 => Tail(Tail(c)) = <<>>
    BY <1>2, CallbacksLen
  <2>2. (g.left = c \/ (Len(c) = 2 /\ g.left = Tail(c))) /\ Tail(<<>>) = <<>>
    BY <1>1
  <2> HIDE DEF c
  <2>3. Tail(g.left) # c
    BY <2>1, <2>2
  <2>4. QED
    BY <2>3 DEF c
<1>5. QED
  BY <1>2, <1>3, <1>4 DEF Splitting

-----------------------------------------------------------------------------
(* Callbacks on panels with halves.                                        *)

LEMMA PartIs ==
    ASSUME panel \in DOMAIN Names, Splits, NEW st
    PROVE  /\ Part(st, Msb(Big)) = st.ctl[Big].val \div 128
           /\ Part(st, Lsb(Big)) = st.ctl[Big].val % 128
           /\ InOrder(st, Idle) <=> (PartInOrder(st, Idle, Msb(Big)) /\ PartInOrder(st, Idle, Lsb(Big)))
  BY FamilyIs DEF Part, InOrder

\* Both halves are those of the whole.
Even(st) == /\ st.ctl[Msb(Big)].val = st.ctl[Big].val \div 128
            /\ st.ctl[Lsb(Big)].val = st.ctl[Big].val % 128

LEMMA EvenInOrder ==
    ASSUME panel \in DOMAIN Names, Splits, NEW st, Even(st), NEW g
    PROVE  InOrder(st, g)
  BY PartIs DEF Even, InOrder, PartInOrder

\* What a callback does to a panel that splits.
Orderly(st, s2, g) ==
    \E ns, o : /\ Speaks(st, s2, ns, o)
               /\ OneOrigin(s2, After(g))

LEMMA SplitOrderly ==
    ASSUME panel \in DOMAIN Names, Splits, NEW st, StoreType(st), NEW g, GtkType(g), g.left # <<>>,
           Runs(g, Big, "split", TRUE), OneOrigin(st, g)
    PROVE  Orderly(st, Callback(st, "split", Big), g)
<1> DEFINE v  == st.ctl[Big].val
           o  == st.ctl[Big].origin
           s2 == Split(st, Big, v, o)
<1>1. Big \in Wholes /\ Big \in Names[panel] /\ v \in Bits14 /\ o \in Origins
  BY FamilyIs, Current, WholeValues
<1>2. Callback(st, "split", Big) = s2
  BY Zenon DEF Callback
<1> HIDE DEF v, o
<1>3. /\ Changes(st, s2, {Msb(Big), Lsb(Big)}, o)
      /\ s2.ctl[Msb(Big)].val = v \div 128 /\ s2.ctl[Lsb(Big)].val = v % 128
  BY <1>1, SplitDoes
<1>4. PICK p \in Origins : From(st, g, p) /\ (p = "NONE" => InOrder(st, g))
  BY DEF OneOrigin
<1>5. p = o
  BY <1>4 DEF From, Family, Busy, Runs, o
<1>6. ASSUME o = "NONE", panel = "tempo" PROVE s2 = st
  <2>1. /\ Big = "tempo" /\ Msb(Big) = "tempo:msb" /\ Lsb(Big) = "tempo:lsb"
        /\ g.sig.name = "tempo" /\ g.left = Callbacks["tempo"]
    BY <1>6, FamilyIs DEF Runs
  <2>2. \A h \in {Msb(Big), Lsb(Big)} : ~Unjoined(st, g, h)
    BY <2>1 DEF Unjoined, Splitting
  <2>3. st.ctl[Msb(Big)].val = v \div 128 /\ st.ctl[Lsb(Big)].val = v % 128
    BY <1>4, <1>5, <1>6, <2>2, PartIs DEF InOrder, PartInOrder, v
  <2>4. BigEndian(Big)
    BY <2>1 DEF BigEndian
  <2>5. s2 = Set(Set(st, Msb(Big), v \div 128, o), Lsb(Big), v % 128, o)
    BY <1>6, <2>4, Zenon DEF Split
  <2> HIDE DEF s2
  <2>6. QED
    BY <2>3, <2>5 DEF Set
<1> HIDE DEF s2
<1>7. s2.ctl[Big] = st.ctl[Big]
  BY <1>1, <1>3, FamilyIs DEF Changes
<1>8. Even(s2)
  BY <1>3, <1>7 DEF Even, v
<1>9. Speaks(st, s2, {Msb(Big), Lsb(Big)}, o)
  <2>1. CASE panel = "delay"
    BY <1>3, <2>1, SpeaksOf, StoredAre, FamilyIs
  <2>2. CASE panel = "tempo"
    BY <1>3, <1>6, <2>2 DEF Speaks
  <2>3. QED
    BY <2>1, <2>2 DEF Splits
<1>10. From(s2, After(g), o)
  BY <1>3, <1>4, <1>5, FromKept, AfterBegun
<1>11. InOrder(s2, After(g))
  BY <1>8, EvenInOrder
<1>12. QED
  BY <1>1, <1>2, <1>9, <1>10, <1>11 DEF Orderly, OneOrigin

\* A join keeps the other half of the whole, and all of it when there is nothing new.
LEMMA JoinMsbRest ==
    ASSUME panel \in DOMAIN Names, NEW st, StoreType(st), NEW w \in Wholes, w \in Names[panel],
           NEW v \in Values(Msb(w)), NEW o \in Origins
    PROVE  LET s2 == JoinMsb(st, Msb(w), v, o) IN
           /\ s2.ctl[w].val % 128 = st.ctl[w].val % 128
           /\ st.ctl[w].val \div 128 = v => s2 = st
<1>1. CASE o = "UI"
  BY <1>1 DEF JoinMsb
<1>2. CASE o # "UI"
  <2> DEFINE x == st.ctl[w].val
             a == x \div 128
             b == x % 128
             y == v * 128 + b
  <2>1. x \in Bits14 /\ v \in 0 .. 127 /\ y \in Values(w)
    <3>1. x \in Bits14
      BY WholeValues DEF StoreType
    <3>2. v \in 0 .. 127
      BY HalfValues, HalvesOf
    <3>3. b \in 0 .. 127
      BY <3>1, Bits14Are
    <3> HIDE DEF b
    <3>4. QED
      BY <3>1, <3>2, <3>3, Bits14Are, WholeValues
  <2>2. b \in 0 .. 127 /\ x = a * 128 + b
    BY <2>1, Bits14Are
  <2>3. JoinMsb(st, Msb(w), v, o) = Set(st, w, y, o)
    <3>1. v % 128 = v
      BY <2>1
    <3>2. QED
      BY <1>2, <3>1, HalvesOf DEF JoinMsb, Get
  <2> HIDE DEF a, b
  <2>4. y % 128 = b
    BY <2>1, <2>2, Bits14Are
  <2>5. a = v => y = x
    BY <2>2
  <2> HIDE DEF y
  <2>6. Set(st, w, y, o).ctl[w].val = y
    BY <2>1, SetChanges
  <2>7. y = x => Set(st, w, y, o) = st
    BY DEF Set
  <2>8. QED
    BY <2>3, <2>4, <2>5, <2>6, <2>7 DEF a, b
<1>3. QED
  BY <1>1, <1>2

LEMMA JoinLsbRest ==
    ASSUME panel \in DOMAIN Names, NEW st, StoreType(st), NEW w \in Wholes, w \in Names[panel],
           NEW v \in Values(Lsb(w)), NEW o \in Origins
    PROVE  LET s2 == JoinLsb(st, Lsb(w), v, o) IN
           /\ s2.ctl[w].val \div 128 = st.ctl[w].val \div 128
           /\ st.ctl[w].val % 128 = v => s2 = st
<1>1. CASE o = "UI"
  BY <1>1 DEF JoinLsb
<1>2. CASE o # "UI"
  <2> DEFINE x == st.ctl[w].val
             a == x \div 128
             b == x % 128
             y == a * 128 + v
  <2>1. x \in Bits14 /\ v \in 0 .. 127 /\ y \in Values(w)
    <3>1. x \in Bits14
      BY WholeValues DEF StoreType
    <3>2. v \in 0 .. 127
      BY HalfValues, HalvesOf
    <3>3. a \in 0 .. 127
      BY <3>1, Bits14Are
    <3> HIDE DEF a
    <3>4. QED
      BY <3>1, <3>2, <3>3, Bits14Are, WholeValues
  <2>2. a \in 0 .. 127 /\ x = a * 128 + b
    BY <2>1, Bits14Are
  <2>3. JoinLsb(st, Lsb(w), v, o) = Set(st, w, y, o)
    <3>1. v % 128 = v
      BY <2>1
    <3>2. QED
      BY <1>2, <3>1, HalvesOf DEF JoinLsb, Get
  <2> HIDE DEF a, b
  <2>4. y \div 128 = a
    BY <2>1, <2>2, Bits14Are
  <2>5. b = v => y = x
    BY <2>2
  <2> HIDE DEF y
  <2>6. Set(st, w, y, o).ctl[w].val = y
    BY <2>1, SetChanges
  <2>7. y = x => Set(st, w, y, o) = st
    BY DEF Set
  <2>8. QED
    BY <2>3, <2>4, <2>5, <2>6, <2>7 DEF a, b
<1>3. QED
  BY <1>1, <1>2

\* A half that is not the one that is joined stays in order.
LEMMA OtherInOrder ==
    ASSUME panel \in DOMAIN Names, Splits, NEW st, StoreType(st), NEW s2, NEW ns, NEW o,
           Changes(st, s2, ns, o), NEW g, GtkType(g), g.left # <<>>,
           NEW h \in {Msb(Big), Lsb(Big)}, h \notin ns, g.sig.name # h,
           PartInOrder(st, g, h), Part(s2, h) = Part(st, h), panel = "tempo"
    PROVE  PartInOrder(s2, After(g), h)
<1>1. h \in Names[panel] /\ s2.ctl[h] = st.ctl[h]
  BY FamilyIs DEF Changes
<1>2. CASE st.ctl[h].val = Part(st, h)
  BY <1>1, <1>2 DEF PartInOrder
<1>3. CASE st.ctl[h].val # Part(st, h)
  <2>1. Unjoined(st, g, h)
    BY <1>3 DEF PartInOrder
  <2>2. PICK i \in DOMAIN st.queue : st.queue[i].name = h /\ \A j \in 1 .. i : st.queue[j].name # "tempo"
    BY <2>1 DEF Unjoined
  <2>3. st.queue \in Seq(Signals)
    BY DEF StoreType
  <2>4. DOMAIN st.queue = 1 .. Len(st.queue) /\ Len(st.queue) \in Nat
    BY <2>3
  <2>5. 1 .. i \subseteq DOMAIN st.queue
    BY <2>2, <2>4
  <2>6. \A j \in DOMAIN st.queue : j \in DOMAIN s2.queue /\ s2.queue[j] = st.queue[j]
    BY DEF Changes, Appends
  <2>7. i \in DOMAIN s2.queue /\ s2.queue[i].name = h /\ \A j \in 1 .. i : s2.queue[j].name # "tempo"
    BY <2>2, <2>5, <2>6
  <2>8. Unjoined(s2, After(g), h)
    BY <2>7, AfterBegun DEF Unjoined
  <2>9. QED
    BY <2>8 DEF PartInOrder
<1>4. QED
  BY <1>2, <1>3

\* What a join does, whichever half it is.
LEMMA JoinOrderly ==
    ASSUME panel \in DOMAIN Names, Splits, NEW st, StoreType(st), NEW g, GtkType(g), g.left # <<>>,
           NEW h, NEW k, {h, k} = {Msb(Big), Lsb(Big)}, h # k,
           g.sig.name = h, g.left = Callbacks[h], OneOrigin(st, g),
           NEW s2, Changes(st, s2, {Big}, st.ctl[h].origin),
           st.ctl[h].origin = "NONE" =>
              /\ Part(s2, h) = st.ctl[h].val /\ Part(s2, k) = Part(st, k)
              /\ st.ctl[h].val = Part(st, h) => s2 = st
    PROVE  Orderly(st, s2, g)
<1> DEFINE o == st.ctl[h].origin
<1>1. /\ h \in Names[panel] /\ k \in Names[panel] /\ Big \in Names[panel]
      /\ h \in Family /\ h # Big /\ k # Big /\ o \in Origins
  BY FamilyIs, Current DEF Family
<1>2. PICK p \in Origins : From(st, g, p) /\ (p = "NONE" => InOrder(st, g))
  BY DEF OneOrigin
<1>3. p = o
  BY <1>1, <1>2 DEF From, Busy
<1>4. From(s2, After(g), o)
  BY <1>2, <1>3, FromKept, AfterBegun
<1>5. ASSUME o = "NONE", panel = "delay" PROVE s2 = st /\ InOrder(s2, After(g))
  <2>1. \A m \in {h, k} : PartInOrder(st, g, m)
    BY <1>2, <1>3, <1>5 DEF InOrder
  <2>2. s2 = st
    BY <1>5, <2>1 DEF PartInOrder, Waits
  <2>3. \A m \in {h, k} : Waits(st, After(g), m) => Waits(st, g, m)
    BY <1>1, AfterBegun DEF Waits
  <2>4. \A m \in {h, k} : PartInOrder(st, After(g), m)
    BY <1>5, <2>1, <2>3 DEF PartInOrder
  <2>5. QED
    BY <2>2, <2>4 DEF InOrder
<1>6. ASSUME o = "NONE", panel = "tempo" PROVE InOrder(s2, After(g))
  <2>1. s2.ctl[h] = st.ctl[h]
    BY <1>1 DEF Changes
  <2>2. PartInOrder(s2, After(g), h)
    BY <1>6, <2>1 DEF PartInOrder
  <2>3. PartInOrder(st, g, k)
    BY <1>2, <1>3, <1>6 DEF InOrder
  <2>4. PartInOrder(s2, After(g), k)
    BY <1>1, <1>6, <2>3, OtherInOrder
  <2>5. QED
    BY <2>2, <2>4 DEF InOrder
<1>7. Speaks(st, s2, {Big}, o)
  <2>1. CASE panel = "delay"
    BY <1>5, <2>1 DEF Speaks
  <2>2. CASE panel = "tempo"
    BY <2>2, SpeaksOf, StoredAre, FamilyIs
  <2>3. QED
    BY <2>1, <2>2 DEF Splits
<1>8. o = "NONE" => InOrder(s2, After(g))
  BY <1>5, <1>6 DEF Splits
<1> HIDE DEF o
<1>9. QED
  BY <1>1, <1>4, <1>7, <1>8 DEF Orderly, OneOrigin

\* The half h is joined, by the join of its kind.
LEMMA HalfOrderly ==
    ASSUME panel \in DOMAIN Names, Splits, NEW st, StoreType(st), NEW g, GtkType(g), g.left # <<>>,
           OneOrigin(st, g)
    PROVE  /\ Runs(g, Msb(Big), "join_msb", TRUE)
                  => Orderly(st, Callback(st, "join_msb", Msb(Big)), g)
           /\ Runs(g, Lsb(Big), "join_lsb", TRUE)
                  => Orderly(st, Callback(st, "join_lsb", Lsb(Big)), g)
<1>1. ASSUME Runs(g, Msb(Big), "join_msb", TRUE)
      PROVE  Orderly(st, Callback(st, "join_msb", Msb(Big)), g)
  <2> DEFINE h  == Msb(Big)
             v  == st.ctl[h].val
             o  == st.ctl[h].origin
             s2 == JoinMsb(st, h, v, o)
  <2>1. Big \in Wholes /\ Big \in Names[panel] /\ v \in Values(h) /\ o \in Origins
    BY FamilyIs, Current
  <2>2. Callback(st, "join_msb", h) = s2
    BY Zenon DEF Callback
  <2>3. g.sig.name = h /\ g.left = Callbacks[h]
    BY <1>1 DEF Runs
  <2> HIDE DEF v, o
  <2>4. /\ Changes(st, s2, {Big}, o)
        /\ o # "UI" => s2.ctl[Big].val \div 128 = v
        /\ s2.ctl[Big].val % 128 = st.ctl[Big].val % 128
        /\ st.ctl[Big].val \div 128 = v => s2 = st
    BY <2>1, JoinMsbDoes, JoinMsbRest
  <2> HIDE DEF s2
  <2>5. o = "NONE" =>
            /\ Part(s2, h) = v /\ Part(s2, Lsb(Big)) = Part(st, Lsb(Big))
            /\ v = Part(st, h) => s2 = st
    BY <2>4, PartIs
  <2>6. h # Lsb(Big)
    BY FamilyIs
  <2> HIDE DEF h
  <2>7. Orderly(st, s2, g)
    BY <2>3, <2>4, <2>5, <2>6, JoinOrderly DEF v, o, h
  <2>8. QED
    BY <2>2, <2>7 DEF h
<1>2. ASSUME Runs(g, Lsb(Big), "join_lsb", TRUE)
      PROVE  Orderly(st, Callback(st, "join_lsb", Lsb(Big)), g)
  <2> DEFINE h  == Lsb(Big)
             v  == st.ctl[h].val
             o  == st.ctl[h].origin
             s2 == JoinLsb(st, h, v, o)
  <2>1. Big \in Wholes /\ Big \in Names[panel] /\ v \in Values(h) /\ o \in Origins
    BY FamilyIs, Current
  <2>2. Callback(st, "join_lsb", h) = s2
    BY Zenon DEF Callback
  <2>3. g.sig.name = h /\ g.left = Callbacks[h]
    BY <1>2 DEF Runs
  <2> HIDE DEF v, o
  <2>4. /\ Changes(st, s2, {Big}, o)
        /\ o # "UI" => s2.ctl[Big].val % 128 = v
        /\ s2.ctl[Big].val \div 128 = st.ctl[Big].val \div 128
        /\ st.ctl[Big].val % 128 = v => s2 = st
    BY <2>1, JoinLsbDoes, JoinLsbRest
  <2> HIDE DEF s2
  <2>5. o = "NONE" =>
            /\ Part(s2, h) = v /\ Part(s2, Msb(Big)) = Part(st, Msb(Big))
            /\ v = Part(st, h) => s2 = st
    BY <2>4, PartIs
  <2>6. h # Msb(Big)
    BY FamilyIs
  <2> HIDE DEF h
  <2>7. Orderly(st, s2, g)
    BY <2>3, <2>4, <2>5, <2>6, JoinOrderly DEF v, o, h
  <2>8. QED
    BY <2>2, <2>7 DEF h
<1>3. QED
  BY <1>1, <1>2

\* The speed and the note leave the tempo alone.
LEMMA OtherOrderly ==
    ASSUME panel \in DOMAIN Names, Splits, panel = "tempo", NEW st, StoreType(st),
           NEW g, GtkType(g), g.left # <<>>, g.sig.name \notin {Msb(Big), Lsb(Big)},
           OneOrigin(st, g), NEW s2, NEW ns, NEW o, Changes(st, s2, ns, o),
           Family \cap ns = {}, o # "NONE" \/ Stored \cap ns = {}
    PROVE  Orderly(st, s2, g)
<1>1. Speaks(st, s2, ns, o)
  BY SpeaksOf
<1>2. PICK p \in Origins : From(st, g, p) /\ (p = "NONE" => InOrder(st, g))
  BY DEF OneOrigin
<1>3. From(s2, After(g), p)
  BY <1>2, FromKept, AfterBegun
<1>4. s2.ctl[Big] = st.ctl[Big]
  BY FamilyIs DEF Changes, Family
<1>5. ASSUME NEW h \in {Msb(Big), Lsb(Big)}, p = "NONE" PROVE PartInOrder(s2, After(g), h)
  <2>1. PartInOrder(st, g, h) /\ Part(s2, h) = Part(st, h)
    BY <1>2, <1>4, <1>5 DEF InOrder, Part
  <2>2. h \notin ns
    BY DEF Family
  <2>3. QED
    BY <2>1, <2>2, OtherInOrder
<1>6. QED
  BY <1>1, <1>2, <1>3, <1>5 DEF Orderly, OneOrigin, InOrder

LEMMA TempoSpeedIs == \A st, n : Callback(st, "tempo_speed", n) = TempoSpeed(st)
  BY Zenon DEF Callback

LEMMA ResetNoteIs == \A st, n : Callback(st, "reset_note", n) = ResetNote(st, st.ctl[n].origin)
  BY Zenon DEF Callback

LEMMA CallbackOrderly ==
    ASSUME panel \in DOMAIN Names, Splits, NEW st, StoreType(st), NEW g, GtkType(g), g.left # <<>>,
           OneOrigin(st, g)
    PROVE  Orderly(st, Callback(st, Head(g.left), g.sig.name), g)
<1> DEFINE n  == g.sig.name
           cb == Head(g.left)
<1>1. Fits(g.sig) /\ n \in Names[panel]
  BY RunsOne
<1>2. n \in Wholes \cup Halves \cup {"mod_note_select"}
  BY <1>1, NamesAre DEF Splits, Wholes, Halves
<1>3. ~RunsEffect(g) /\ ~RunsStomp(g) /\ ~RunsPedal(g)
  BY <1>2 DEF RunsEffect, RunsStomp, RunsPedal, Runs, Wholes, Halves
<1>4. n \in Family \/ (panel = "tempo" /\ n \in {"mod_speed", "mod_speed:msb", "mod_speed:lsb", "mod_note_select"})
  BY <1>1, FamilyIs, NamesAre DEF Family, Splits
<1>5. panel = "tempo" => /\ Family = {"tempo", "tempo:msb", "tempo:lsb"}
                         /\ Stored = {"tempo:lsb", "tempo:msb", "mod_note_select"}
                         /\ Msb(Big) = "tempo:msb" /\ Lsb(Big) = "tempo:lsb"
  BY FamilyIs, StoredAre DEF Family
<1>6. CASE \E w \in Wholes : Runs(g, w, "split", TRUE)
  <2>1. PICK w \in Wholes : Runs(g, w, "split", TRUE)
    BY <1>6
  <2>2. n = w /\ cb = "split"
    BY <2>1 DEF Runs
  <2>3. CASE w = Big
    BY <2>1, <2>2, <2>3, SplitOrderly
  <2>4. CASE w # Big
    <3>1. w = "mod_speed" /\ panel = "tempo"
      BY <1>4, <2>2, <2>4, FamilyIs DEF Family, Wholes, Splits
    <3>2. Msb(w) = "mod_speed:msb" /\ Lsb(w) = "mod_speed:lsb"
      BY <3>1 DEF Msb, Lsb
    <3> DEFINE v  == st.ctl[w].val
               o  == st.ctl[w].origin
               s2 == Split(st, w, v, o)
    <3>3. v \in Bits14 /\ o \in Origins
      BY <1>1, <2>2, Current, WholeValues
    <3>4. Callback(st, "split", w) = s2
      BY Zenon DEF Callback
    <3> HIDE DEF v, o
    <3>5. Changes(st, s2, {Msb(w), Lsb(w)}, o)
      BY <1>1, <2>2, <3>3, SplitDoes
    <3> HIDE DEF s2
    <3>6. Family \cap {Msb(w), Lsb(w)} = {} /\ Stored \cap {Msb(w), Lsb(w)} = {}
          /\ n \notin {Msb(Big), Lsb(Big)}
      BY <1>5, <2>2, <3>1, <3>2
    <3>7. Orderly(st, s2, g)
      BY <3>1, <3>5, <3>6, OtherOrderly
    <3>8. QED
      BY <2>2, <3>4, <3>7
  <2>5. QED
    BY <2>3, <2>4
<1>7. CASE RunsHalf(g)
  <2>1. PICK w \in Wholes : \/ Runs(g, Msb(w), "join_msb", TRUE)
                            \/ Runs(g, Lsb(w), "join_lsb", TRUE)
    BY <1>7 DEF RunsHalf
  <2>2. w \in Names[panel] /\ (w = Big \/ (w = "mod_speed" /\ panel = "tempo"))
    BY <1>1, <1>4, <2>1, HalvesOf, FamilyIs, NamesAre DEF Runs, Wholes, Msb, Lsb, Splits
  <2>3. CASE w = Big
    BY <2>1, <2>3, HalfOrderly DEF Runs
  <2>4. CASE w = "mod_speed" /\ panel = "tempo"
    <3>1. Family \cap {w} = {} /\ Stored \cap {w} = {}
      BY <1>5, <2>4
    <3>2. n \notin {Msb(Big), Lsb(Big)}
      BY <1>5, <2>1, <2>4 DEF Runs, Msb, Lsb
    <3> DEFINE v == st.ctl[n].val
               o == st.ctl[n].origin
    <3>3. v \in Values(n) /\ o \in Origins
      BY <1>1, Current
    <3>4. CASE Runs(g, Msb(w), "join_msb", TRUE)
      <4>1. n = Msb(w) /\ cb = "join_msb"
        BY <3>4 DEF Runs
      <4> DEFINE s2 == JoinMsb(st, Msb(w), v, o)
      <4>2. Callback(st, cb, n) = s2
        BY <4>1, Zenon DEF Callback
      <4> HIDE DEF v, o
      <4>3. Changes(st, s2, {w}, o)
        BY <2>2, <3>3, <4>1, JoinMsbDoes
      <4> HIDE DEF s2
      <4>4. Orderly(st, s2, g)
        BY <2>4, <3>1, <3>2, <4>3, OtherOrderly
      <4>5. QED
        BY <4>2, <4>4
    <3>5. CASE Runs(g, Lsb(w), "join_lsb", TRUE)
      <4>1. n = Lsb(w) /\ cb = "join_lsb"
        BY <3>5 DEF Runs
      <4> DEFINE s2 == JoinLsb(st, Lsb(w), v, o)
      <4>2. Callback(st, cb, n) = s2
        BY <4>1, Zenon DEF Callback
      <4> HIDE DEF v, o
      <4>3. Changes(st, s2, {w}, o)
        BY <2>2, <3>3, <4>1, JoinLsbDoes
      <4> HIDE DEF s2
      <4>4. Orderly(st, s2, g)
        BY <2>4, <3>1, <3>2, <4>3, OtherOrderly
      <4>5. QED
        BY <4>2, <4>4
    <3>6. QED
      BY <2>1, <3>4, <3>5
  <2>5. QED
    BY <2>2, <2>3, <2>4
<1>8. CASE Runs(g, "mod_note_select", "tempo_speed", TRUE) \/ Runs(g, "tempo", "tempo_speed", FALSE)
  <2>1. n \in {"mod_note_select", "tempo"} /\ cb = "tempo_speed"
    BY <1>8 DEF Runs
  <2>2. panel = "tempo"
    BY <1>1, <2>1, NamesAre DEF Splits
  <2>3. Changes(st, TempoSpeed(st), {"mod_speed"}, "NONE")
    BY <2>2, TempoSpeedDoes
  <2>4. Orderly(st, TempoSpeed(st), g)
    BY <1>5, <2>1, <2>2, <2>3, OtherOrderly
  <2>5. QED
    BY <2>1, <2>4, TempoSpeedIs
<1>9. CASE Runs(g, "mod_speed", "reset_note", FALSE)
  <2>1. n = "mod_speed" /\ cb = "reset_note"
    BY <1>9 DEF Runs
  <2>2. panel = "tempo"
    BY <1>1, <2>1, NamesAre DEF Splits
  <2> DEFINE o == st.ctl[n].origin
  <2>3. Changes(st, ResetNote(st, o), {"mod_note_select"}, "MIDI")
    BY <2>2, ResetNoteDoes
  <2>4. Orderly(st, ResetNote(st, o), g)
    BY <1>5, <2>1, <2>2, <2>3, OtherOrderly
  <2>5. QED
    BY <2>1, <2>4, ResetNoteIs
<1>10. QED
  BY RunsOne, <1>3, <1>6, <1>7, <1>8, <1>9 DEF RunsWhole

\* The other panels: the effect's number, the parameter and the assignment are set with
\* an origin, whatever the others are set with.
LEMMA EffectSpeaks ==
    ASSUME panel \in DOMAIN Names, panel = "effects", NEW st, StoreType(st),
           NEW g, GtkType(g), g.left # <<>>, RunsEffect(g)
    PROVE  \E ns, o : Speaks(st, Callback(st, Head(g.left), g.sig.name), ns, o)
<1> DEFINE n == g.sig.name
           v == st.ctl[n].val
           o == st.ctl[n].origin
<1>1. n \in Names[panel] /\ v \in Values(n) /\ o \in Origins
  BY RunsOne, Current
<1>2. Stored = {"effect_select:raw"}
  BY StoredAre
<1>3. CASE Runs(g, "effect_select:raw", "from_raw", TRUE)
  <2>1. n = "effect_select:raw" /\ Head(g.left) = "from_raw"
    BY <1>3 DEF Runs
  <2> DEFINE s2 == FromRaw(st, v, o)
  <2>2. Callback(st, "from_raw", n) = s2
    BY Zenon DEF Callback
  <2> HIDE DEF v, o
  <2>3. Changes(st, s2, {"delay_enable", "effect_select"}, o)
    BY <1>1, <2>1, FromRawDoes
  <2> HIDE DEF s2
  <2>4. Speaks(st, s2, {"delay_enable", "effect_select"}, o)
    BY <1>2, <2>3, SpeaksOf
  <2>5. QED
    BY <2>1, <2>2, <2>4
<1>4. CASE Runs(g, "effect_select", "to_raw", TRUE)
  <2>1. n = "effect_select" /\ Head(g.left) = "to_raw"
    BY <1>4 DEF Runs
  <2> DEFINE s2 == ToRaw(st, v)
  <2>2. Callback(st, "to_raw", n) = s2
    BY Zenon DEF Callback
  <2> HIDE DEF v, o
  <2>3. v \in 0 .. 2
    BY <1>1, <2>1, RowValues
  <2>4. Changes(st, s2, {"effect_select:raw"}, "UI")
    BY <2>3, ToRawDoes
  <2> HIDE DEF s2
  <2>5. Speaks(st, s2, {"effect_select:raw"}, "UI")
    BY <2>4, SpeaksOf
  <2>6. QED
    BY <2>1, <2>2, <2>5
<1>5. CASE Runs(g, "delay_enable", "delay_reset", TRUE)
  <2>1. n = "delay_enable" /\ Head(g.left) = "delay_reset"
    BY <1>5 DEF Runs
  <2> DEFINE s2 == DelayReset(st, v, o)
  <2>2. Callback(st, "delay_reset", n) = s2
    BY Zenon DEF Callback
  <2> HIDE DEF v, o
  <2>3. Changes(st, s2, {"effect_select"}, o)
    BY <1>1, DelayResetDoes
  <2> HIDE DEF s2
  <2>4. Speaks(st, s2, {"effect_select"}, o)
    BY <1>2, <2>3, SpeaksOf
  <2>5. QED
    BY <2>1, <2>2, <2>4
<1>6. QED
  BY <1>3, <1>4, <1>5 DEF RunsEffect

LEMMA StompSpeaks ==
    ASSUME panel \in DOMAIN Names, panel = "stomp", NEW st, StoreType(st),
           NEW g, GtkType(g), g.left # <<>>, RunsStomp(g)
    PROVE  \E ns, o : Speaks(st, Callback(st, Head(g.left), g.sig.name), ns, o)
<1> DEFINE n == g.sig.name
           v == st.ctl[n].val
           o == st.ctl[n].origin
<1>1. n \in Names[panel] /\ v \in Values(n) /\ o \in Origins
  BY RunsOne, Current
<1>2. Stored = {"stomp_param2"}
  BY StoredAre
<1>3. CASE Runs(g, "stomp_param2", "variants", TRUE)
  <2>1. n = "stomp_param2" /\ Head(g.left) = "variants"
    BY <1>3 DEF Runs
  <2> DEFINE s2 == Variants(st, v, o)
             ns == {"stomp_param2_wave", "stomp_param2_octave"}
             p  == IF o = "MIDI" THEN "MIDI" ELSE "NONE"
  <2>2. Callback(st, "variants", n) = s2
    BY Zenon DEF Callback
  <2> HIDE DEF v, o
  <2>3. Changes(st, s2, ns, p)
    BY <1>1, <2>1, VariantsDoes
  <2> HIDE DEF s2, p
  <2>4. Speaks(st, s2, ns, p)
    BY <1>2, <2>3, SpeaksOf
  <2>5. QED
    BY <2>1, <2>2, <2>4
<1>4. CASE \E m \in Shows : Runs(g, m, "param", TRUE)
  <2>1. n \in Shows /\ Head(g.left) = "param"
    BY <1>4 DEF Runs
  <2> DEFINE s2 == Param(st, n, v, o)
  <2>2. Callback(st, "param", n) = s2
    BY Zenon DEF Callback
  <2> HIDE DEF v, o
  <2>3. Changes(st, s2, {"stomp_param2"}, o) /\ (o # "UI" => s2 = st)
    BY <1>1, <2>1, ParamDoes DEF Shows
  <2> HIDE DEF s2
  <2>4. Speaks(st, s2, {"stomp_param2"}, o)
    BY <2>3 DEF Speaks
  <2>5. QED
    BY <2>1, <2>2, <2>4
<1>5. QED
  BY <1>3, <1>4 DEF RunsStomp, Shows

LEMMA PedalSpeaks ==
    ASSUME panel \in DOMAIN Names, panel = "pedal", NEW st, StoreType(st),
           NEW g, GtkType(g), g.left # <<>>, RunsPedal(g)
    PROVE  \E ns, o : Speaks(st, Callback(st, Head(g.left), g.sig.name), ns, o)
<1> DEFINE n == g.sig.name
           v == st.ctl[n].val
           o == st.ctl[n].origin
<1>1. n \in Names[panel] /\ v \in Values(n) /\ o \in Origins
  BY RunsOne, Current
<1>2. Stored = {"pedal_assign"}
  BY StoredAre
<1>3. CASE Runs(g, "pedal_assign", "bucket", TRUE)
  <2>1. n = "pedal_assign" /\ Head(g.left) = "bucket"
    BY <1>3 DEF Runs
  <2> DEFINE s2 == Set(st, "pedal_assign_select", BucketOf(v), o)
  <2>2. Callback(st, "bucket", n) = s2
    BY Zenon DEF Callback
  <2> HIDE DEF v, o
  <2>3. Changes(st, s2, {"pedal_assign_select"}, o)
    BY <1>1, <2>1, BucketDoes
  <2> HIDE DEF s2
  <2>4. Speaks(st, s2, {"pedal_assign_select"}, o)
    BY <1>2, <2>3, SpeaksOf
  <2>5. QED
    BY <2>1, <2>2, <2>4
<1>4. CASE Runs(g, "pedal_assign_select", "assign", TRUE)
  <2>1. n = "pedal_assign_select" /\ Head(g.left) = "assign"
    BY <1>4 DEF Runs
  <2> DEFINE s2 == IF o = "UI" THEN Set(st, "pedal_assign", AssignedTo(v), o) ELSE st
  <2>2. Callback(st, "assign", n) = s2
    BY Zenon DEF Callback
  <2> HIDE DEF v, o
  <2>3. v \in 0 .. 2
    BY <1>1, <2>1, RowValues
  <2>4. Changes(st, s2, {"pedal_assign"}, o)
    BY <1>1, <2>3, AssignDoes
  <2>5. o # "UI" => s2 = st
    OBVIOUS
  <2> HIDE DEF s2
  <2>6. Speaks(st, s2, {"pedal_assign"}, o)
    BY <2>4, <2>5 DEF Speaks
  <2>7. QED
    BY <2>1, <2>2, <2>6
<1>5. QED
  BY <1>3, <1>4 DEF RunsPedal

LEMMA CallbackSpeaks ==
    ASSUME panel \in DOMAIN Names, panel \notin {"delay", "tempo"}, NEW st, StoreType(st),
           NEW g, GtkType(g), g.left # <<>>
    PROVE  \E ns, o : Speaks(st, Callback(st, Head(g.left), g.sig.name), ns, o)
<1> DEFINE n == g.sig.name
<1>1. n \in Names[panel]
  BY RunsOne
<1>2. CASE panel = "effects"
  <2>1. n \in {"effect_select:raw", "effect_select", "delay_enable"}
    BY <1>1, <1>2, NamesAre
  <2>2. RunsEffect(g)
    BY <2>1, RunsOne DEF RunsWhole, RunsHalf, RunsStomp, RunsPedal, Runs, Wholes, Msb, Lsb
  <2>3. QED
    BY <1>2, <2>2, EffectSpeaks
<1>3. CASE panel = "stomp"
  <2>1. n \in Shows \cup {"stomp_param2"}
    BY <1>1, <1>3, NamesAre DEF Shows
  <2>2. RunsStomp(g)
    BY <2>1, RunsOne DEF RunsWhole, RunsHalf, RunsEffect, RunsPedal, Runs, Wholes, Msb, Lsb, Shows
  <2>3. QED
    BY <1>3, <2>2, StompSpeaks
<1>4. CASE panel = "pedal"
  <2>1. n \in {"pedal_assign", "pedal_assign_select"}
    BY <1>1, <1>4, NamesAre
  <2>2. RunsPedal(g)
    BY <2>1, RunsOne DEF RunsWhole, RunsHalf, RunsEffect, RunsStomp, Runs, Wholes, Msb, Lsb
  <2>3. QED
    BY <1>4, <2>2, PedalSpeaks
<1>5. QED
  BY <1>2, <1>3, <1>4, NamesAre

-----------------------------------------------------------------------------
(* What a patch sets.                                                      *)

\* The first k controls of the edit buffer have the values of the patch.
Holds(st, regs, k) ==
    \A j \in 1 .. k : j \in 1 .. Len(Addressed[panel]) =>
        LET n == Addressed[panel][j] IN st.ctl[n].val = PatchValue(regs, n)

Patched == Range(Addressed[panel])

LEMMA PatchedIs ==
    ASSUME panel \in DOMAIN Names
    PROVE  /\ Len(Addressed[panel]) \in 1 .. 5
           /\ \A i \in 1 .. Len(Addressed[panel]) : Addressed[panel][i] \in Patched
           /\ \A n \in Patched : \E i \in 1 .. Len(Addressed[panel]) : n = Addressed[panel][i]
<1>1. \/ panel = "delay" \/ panel = "effects" \/ panel = "tempo" \/ panel = "stomp"
      \/ panel = "pedal"
  BY NamesAre
<1>2. /\ \A a : Len(<<a>>) = 1 /\ DOMAIN <<a>> = 1 .. 1
      /\ \A a, b : Len(<<a, b>>) = 2 /\ DOMAIN <<a, b>> = 1 .. 2
      /\ \A a, b, c, d, e : Len(<<a, b, c, d, e>>) = 5 /\ DOMAIN <<a, b, c, d, e>> = 1 .. 5
  OBVIOUS
<1>3. \E k \in {1, 2, 5} : Len(Addressed[panel]) = k /\ DOMAIN Addressed[panel] = 1 .. k
  <2>1. CASE panel \in {"delay", "stomp", "pedal"}
    BY <1>2, <2>1, AddressedAre, Zenon
  <2>2. CASE panel = "effects"
    BY <1>2, <2>2, AddressedAre, Zenon
  <2>3. CASE panel = "tempo"
    BY <1>2, <2>3, AddressedAre, Zenon
  <2>4. QED
    BY <1>1, <2>1, <2>2, <2>3
<1>4. Len(Addressed[panel]) \in 1 .. 5 /\ DOMAIN Addressed[panel] = 1 .. Len(Addressed[panel])
  BY <1>3
<1>5. QED
  BY <1>4 DEF Patched, Range

LEMMA LoadOneSets ==
    ASSUME panel \in DOMAIN Names, NEW st, StoreType(st), NEW regs \in Registers(panel),
           NEW i \in 1 .. 5, NEW k \in 0 .. 4, i = k + 1, Holds(st, regs, k)
    PROVE  /\ Changes(st, LoadOne(st, regs, i), Patched, "NONE")
           /\ Holds(LoadOne(st, regs, i), regs, i)
<1>1. Len(Addressed[panel]) \in 1 .. 5
  BY PatchedIs
<1>2. \A j \in 1 .. i : j \in 1 .. k \/ j = i
  OBVIOUS
<1>3. CASE i > Len(Addressed[panel])
  <2>1. LoadOne(st, regs, i) = st
    BY <1>3 DEF LoadOne
  <2>2. i \notin 1 .. Len(Addressed[panel])
    BY <1>1, <1>3
  <2>3. Holds(st, regs, i)
    BY <1>2, <2>2 DEF Holds
  <2>4. QED
    BY <2>1, <2>3, NoChange
<1>4. CASE ~(i > Len(Addressed[panel]))
  <2> DEFINE n == Addressed[panel][i]
             x == PatchValue(regs, n)
             s2 == Set(st, n, x, "NONE")
  <2>1. i \in 1 .. Len(Addressed[panel])
    BY <1>1, <1>4
  <2>2. n \in Patched /\ n \in Names[panel] /\ x \in Values(n)
    BY <2>1, PatchFits, PatchedIs
  <2>3. LoadOne(st, regs, i) = s2
    BY <1>4 DEF LoadOne
  <2> HIDE DEF x
  <2>4. Changes(st, s2, {n}, "NONE") /\ s2.ctl[n].val = x
    BY <2>2, SetChanges DEF Origins
  <2> HIDE DEF s2
  <2>5. Changes(st, s2, Patched, "NONE")
    BY <2>2, <2>4 DEF Changes, Appends
  <2>6. ASSUME NEW j \in 1 .. i, j \in 1 .. Len(Addressed[panel])
        PROVE  s2.ctl[Addressed[panel][j]].val = PatchValue(regs, Addressed[panel][j])
    <3>1. CASE Addressed[panel][j] = n
      BY <2>4, <3>1 DEF x
    <3>2. CASE Addressed[panel][j] # n
      <4>1. j \in 1 .. k
        BY <1>2, <3>2
      <4>2. Addressed[panel][j] \in Names[panel]
        BY <2>6, PatchFits
      <4>3. s2.ctl[Addressed[panel][j]] = st.ctl[Addressed[panel][j]]
        BY <2>4, <3>2, <4>2 DEF Changes
      <4>4. QED
        BY <2>6, <4>1, <4>3 DEF Holds
    <3>3. QED
      BY <3>1, <3>2
  <2>7. Holds(s2, regs, i)
    BY <2>6 DEF Holds
  <2>8. QED
    BY <2>3, <2>5, <2>7
<1>5. QED
  BY <1>3, <1>4

LEMMA LoadSets ==
    ASSUME panel \in DOMAIN Names, StoreType(store), NEW regs \in Registers(panel), Load(regs)
    PROVE  \E s2 : /\ Becomes(s2) /\ Changes(store, s2, Patched, "NONE")
                   /\ \A n \in Patched : s2.ctl[n].val = PatchValue(regs, n)
<1> DEFINE To(st, i) == LoadOne(st, regs, i)
           s1 == To(store, 1)
           s2 == To(s1, 2)
           s3 == To(s2, 3)
           s4 == To(s3, 4)
           s5 == To(s4, 5)
<1>1. Becomes(s5)
  BY Zenon DEF Load
<1>2. Holds(store, regs, 0)
  BY DEF Holds
<1>3. Changes(store, s1, Patched, "NONE") /\ Holds(s1, regs, 1)
  BY <1>2, LoadOneSets
<1> HIDE DEF s1
<1>4. StoreType(s1)
  BY <1>3 DEF Changes
<1>5. Changes(s1, s2, Patched, "NONE") /\ Holds(s2, regs, 2)
  BY <1>3, <1>4, LoadOneSets
<1> HIDE DEF s2
<1>6. StoreType(s2)
  BY <1>5 DEF Changes
<1>7. Changes(s2, s3, Patched, "NONE") /\ Holds(s3, regs, 3)
  BY <1>5, <1>6, LoadOneSets
<1> HIDE DEF s3
<1>8. StoreType(s3)
  BY <1>7 DEF Changes
<1>9. Changes(s3, s4, Patched, "NONE") /\ Holds(s4, regs, 4)
  BY <1>7, <1>8, LoadOneSets
<1> HIDE DEF s4
<1>10. StoreType(s4)
  BY <1>9 DEF Changes
<1>11. Changes(s4, s5, Patched, "NONE") /\ Holds(s5, regs, 5)
  BY <1>9, <1>10, LoadOneSets
<1> HIDE DEF s5
<1>12. Changes(store, s2, Patched, "NONE")
  BY <1>3, <1>5, ChangesTwice
<1>13. Changes(store, s3, Patched, "NONE")
  BY <1>7, <1>12, ChangesTwice
<1>14. Changes(store, s4, Patched, "NONE")
  BY <1>9, <1>13, ChangesTwice
<1>15. Changes(store, s5, Patched, "NONE")
  BY <1>11, <1>14, ChangesTwice
<1>16. ASSUME NEW n \in Patched PROVE s5.ctl[n].val = PatchValue(regs, n)
  <2>1. PICK i \in 1 .. Len(Addressed[panel]) : n = Addressed[panel][i]
    BY PatchedIs
  <2>2. i \in 1 .. 5
    BY <2>1, PatchedIs
  <2>3. QED
    BY <1>11, <2>1, <2>2 DEF Holds
<1>17. QED
  BY <1>1, <1>15, <1>16

-----------------------------------------------------------------------------
(* One step of each kind.                                                  *)

LEMMA BufferPrimed ==
    ASSUME panel' = panel, slow' = slow, Buffered(store', gtk', bus', raw')
    PROVE  BufferInv'
  BY DEF BufferInv, Buffered, Written, Stored, Pending, Loud, Splits, OneOrigin, From, Busy, Queued,
         Family, Big, InOrder, PartInOrder, Part, Unjoined, Splitting, Waits, ComesAlone

LEMMA ReceiveBuffers ==
    ASSUME TypeInv, BufferInv, GtkReceive
    PROVE  BufferInv'
<1> DEFINE q  == Tail(queue)
           s2 == [ctl |-> ctl, queue |-> q]
           g2 == [sig |-> Head(queue), left |-> Callbacks[Head(queue).name]]
<1>1. panel \in DOMAIN Names /\ store.ctl = ctl /\ store.queue = queue /\ StoreType(store)
  BY InPanel DEF TypeInv
<1>2. /\ gtk = Idle /\ queue # <<>> /\ gtk' = g2 /\ queue' = q /\ ctl' = ctl
      /\ panel' = panel /\ slow' = slow /\ bus' = bus /\ raw' = raw /\ store' = s2
  BY DEF GtkReceive, store
<1>3. /\ queue \in Seq(Signals)
      /\ Head(queue) = queue[1] /\ Len(queue) \in Nat /\ Len(queue) > 0
      /\ DOMAIN queue = 1 .. Len(queue) /\ DOMAIN q = 1 .. Len(queue) - 1
      /\ \A i \in 1 .. Len(queue) - 1 : q[i] = queue[i + 1]
  BY <1>1, <1>2 DEF StoreType
<1>4. s2.ctl = ctl /\ s2.queue = q /\ g2.sig = queue[1] /\ g2.left = Callbacks[queue[1].name]
  BY <1>3
<1> HIDE DEF s2, g2, q
<1>5. \A i \in DOMAIN queue : i = 1 \/ (i - 1 \in DOMAIN q /\ q[i - 1] = queue[i])
  BY <1>3
<1>6. \A i \in DOMAIN q : i + 1 \in DOMAIN queue /\ q[i] = queue[i + 1]
  BY <1>3
<1>7. Written(store, gtk, bus, raw) => Written(s2, g2, bus, raw)
  <2>1. SUFFICES ASSUME Written(store, gtk, bus, raw), NEW n \in Stored
                 PROVE  raw[n] = s2.ctl[n].val \/ Pending(s2, g2, bus, n)
    BY DEF Written
  <2>2. raw[n] = ctl[n].val \/ Pending(store, gtk, bus, n)
    BY <1>1, <2>1 DEF Written
  <2>3. ASSUME NEW i \in DOMAIN queue, Loud(queue[i], n) PROVE Pending(s2, g2, bus, n)
    <3>1. CASE i = 1
      BY <1>4, <2>3, <3>1 DEF Pending
    <3>2. CASE i # 1
      BY <1>4, <1>5, <2>3, <3>2 DEF Pending
    <3>3. QED
      BY <3>1, <3>2
  <2>4. ~Loud(gtk.sig, n)
    BY <1>2, IdleIs DEF Loud
  <2>5. QED
    BY <1>1, <1>4, <2>2, <2>3, <2>4 DEF Pending
<1>8. ASSUME Splits, OneOrigin(store, gtk) PROVE OneOrigin(s2, g2)
  <2>1. PICK o \in Origins : From(store, gtk, o) /\ (o = "NONE" => InOrder(store, gtk))
    BY <1>8 DEF OneOrigin
  <2>2. \A n : Busy(s2, g2, n) => Queued(store, n)
    BY <1>1, <1>3, <1>4, <1>6 DEF Busy, Queued
  <2>3. From(s2, g2, o)
    BY <1>1, <1>4, <2>1, <2>2 DEF From, Busy
  <2>4. ASSUME NEW h \in {Msb(Big), Lsb(Big)}, PartInOrder(store, gtk, h)
        PROVE  PartInOrder(s2, g2, h)
    <3>1. Part(s2, h) = Part(store, h)
      BY <1>1, <1>4 DEF Part
    <3>2. CASE store.ctl[h].val = Part(store, h)
      BY <1>1, <1>4, <3>1, <3>2 DEF PartInOrder
    <3>3. CASE panel = "delay" /\ ~Waits(store, gtk, h)
      <4>1. ~Queued(store, h)
        BY <3>3 DEF Waits
      <4>2. ~Waits(s2, g2, h)
        BY <2>2, <4>1 DEF Waits, Busy
      <4>3. QED
        BY <3>3, <4>2 DEF PartInOrder
    <3>4. CASE panel = "tempo" /\ Unjoined(store, gtk, h)
      <4>1. h \in Names[panel] /\ h # gtk.sig.name
        BY <1>1, <1>2, <1>8, FamilyIs, IdleIs, PanelNames
      <4>2. PICK i \in DOMAIN queue : queue[i].name = h /\ \A j \in 1 .. i : queue[j].name # "tempo"
        BY <1>1, <3>4, <4>1 DEF Unjoined
      <4>3. CASE i = 1
        BY <1>4, <3>4, <4>2, <4>3 DEF PartInOrder, Unjoined
      <4>4. CASE i # 1
        <5>1. i \in 1 .. Len(queue) /\ 1 \in 1 .. i
          BY <1>3, <4>2
        <5>2. ~Splitting(g2)
          BY <1>4, <4>2, <5>1 DEF Splitting
        <5>3. i - 1 \in DOMAIN q /\ q[i - 1].name = h
          BY <1>5, <4>2, <4>4
        <5>4. \A j \in 1 .. i - 1 : q[j].name # "tempo"
          <6>1. \A j \in 1 .. i - 1 : j + 1 \in 1 .. i /\ q[j] = queue[j + 1]
            BY <1>3, <5>1
          <6>2. QED
            BY <4>2, <6>1
        <5>5. QED
          BY <1>4, <3>4, <5>2, <5>3, <5>4 DEF PartInOrder, Unjoined
      <4>5. QED
        BY <4>3, <4>4
    <3>5. QED
      BY <2>4, <3>2, <3>3, <3>4 DEF PartInOrder
  <2>5. QED
    BY <2>1, <2>3, <2>4 DEF OneOrigin, InOrder
<1>9. ComesAlone(store, gtk, bus) => ComesAlone(s2, g2, bus)
  BY <1>1, <1>2 DEF ComesAlone
<1>10. Buffered(s2, g2, bus, raw)
  BY <1>7, <1>8, <1>9 DEF BufferInv, Buffered
<1>11. QED
  BY <1>2, <1>10, BufferPrimed

LEMMA CallbackBuffers ==
    ASSUME TypeInv, AgreeInv, BufferInv, GtkCallback
    PROVE  BufferInv'
<1> DEFINE s2 == Callback(store, Head(gtk.left), gtk.sig.name)
           g2 == After(gtk)
<1>1. panel \in DOMAIN Names /\ StoreType(store) /\ GtkType(gtk) /\ Agrees(store, gtk)
  BY InPanel DEF TypeInv, AgreeInv
<1>2. /\ gtk.left # <<>> /\ gtk' = g2 /\ Becomes(s2)
      /\ panel' = panel /\ slow' = slow /\ bus' = bus /\ raw' = raw
  BY DEF GtkCallback, After
<1>3. g2.sig = gtk.sig
  BY <1>1, <1>2, AfterBegun
<1>4. ASSUME Splits, OneOrigin(store, gtk) PROVE Orderly(store, s2, gtk)
  BY <1>1, <1>2, <1>4, CallbackOrderly
<1>5. ASSUME panel \notin {"delay", "tempo"} PROVE \E ns, o : Speaks(store, s2, ns, o)
  BY <1>1, <1>2, <1>5, CallbackSpeaks
<1>6. StoreType(s2)
  <2>1. Passes(store, s2, gtk.sig.name, Head(gtk.left) # "to_raw")
    BY <1>1, <1>2, CallbackKeeps
  <2> HIDE DEF s2
  <2>2. QED
    BY <2>1 DEF Passes, Changes
<1> HIDE DEF s2
<1>7. store' = s2
  BY <1>1, <1>2, <1>6, Primed
<1>8. ASSUME slow \/ panel \notin {"delay", "tempo"} PROVE Written(s2, g2, bus, raw)
  <2>1. Written(store, gtk, bus, raw) /\ (Splits => OneOrigin(store, gtk))
    BY <1>8 DEF BufferInv, Buffered
  <2>2. PICK ns, o : Speaks(store, s2, ns, o)
    BY <1>4, <1>5, <1>8, <2>1 DEF Splits, Orderly
  <2> HIDE DEF g2
  <2>3. QED
    BY <1>1, <1>3, <2>1, <2>2, WrittenKept
<1>9. ASSUME Splits PROVE OneOrigin(s2, g2) /\ ComesAlone(s2, g2, bus)
  <2>1. OneOrigin(store, gtk) /\ ComesAlone(store, gtk, bus)
    BY <1>9 DEF BufferInv, Buffered
  <2>2. gtk # Idle
    BY <1>2, IdleIs
  <2>3. QED
    BY <1>4, <1>9, <2>1, <2>2 DEF Orderly, ComesAlone
<1>10. Buffered(s2, g2, bus, raw)
  BY <1>8, <1>9 DEF BufferInv, Buffered
<1>11. QED
  BY <1>2, <1>7, <1>10, BufferPrimed

LEMMA PassBuffers ==
    ASSUME TypeInv, BufferInv, GtkPass
    PROVE  BufferInv'
<1> DEFINE e == [type |-> "cc", sig |-> gtk.sig]
           b == Append(bus, e)
<1>1. panel \in DOMAIN Names /\ GtkType(gtk) /\ bus \in Seq(Events)
  BY InPanel DEF TypeInv, EventsType
<1>2. /\ gtk # Idle /\ gtk.left = <<>> /\ gtk' = Idle /\ bus' = b /\ store' = store
      /\ panel' = panel /\ slow' = slow /\ raw' = raw
  BY DEF GtkPass, store
<1>3. e.type = "cc" /\ e.sig = gtk.sig
  OBVIOUS
<1>4. Fits(gtk.sig)
  BY <1>1, <1>2 DEF GtkType
<1>5. e \in Events
  BY <1>4 DEF Events, Fits
<1> HIDE DEF e
<1>6. /\ DOMAIN bus = 1 .. Len(bus) /\ Len(bus) \in Nat /\ DOMAIN b = 1 .. Len(bus) + 1
      /\ b[Len(bus) + 1] = e /\ \A i \in 1 .. Len(bus) : b[i] = bus[i]
  BY <1>1, <1>5
<1> HIDE DEF b
<1>7. Len(bus) + 1 \in DOMAIN b /\ \A i \in DOMAIN bus : i \in DOMAIN b /\ b[i] = bus[i]
  BY <1>6
<1>8. \A i \in DOMAIN b : b[i] = e \/ (i \in DOMAIN bus /\ b[i] = bus[i])
  BY <1>6
<1>9. Written(store, gtk, bus, raw) => Written(store, Idle, b, raw)
  <2>1. ASSUME NEW n, Pending(store, gtk, bus, n) PROVE Pending(store, Idle, b, n)
    <3>1. Loud(gtk.sig, n) => Pending(store, Idle, b, n)
      BY <1>3, <1>6, <1>7 DEF Pending
    <3>2. QED
      BY <1>7, <2>1, <3>1 DEF Pending
  <2>2. QED
    BY <2>1 DEF Written
<1>10. ASSUME Splits, OneOrigin(store, gtk), ComesAlone(store, gtk, bus)
       PROVE  OneOrigin(store, Idle) /\ ComesAlone(store, Idle, b)
  <2>1. PICK o \in Origins : From(store, gtk, o) /\ (o = "NONE" => InOrder(store, gtk))
    BY <1>10 DEF OneOrigin
  <2>2. /\ Family \subseteq Names[panel] /\ Msb(Big) \in Family /\ Lsb(Big) \in Family
        /\ \A h \in Family : h \in AllNames
    BY <1>1, <1>10, FamilyIs, PanelNames DEF Family
  <2>3. From(store, Idle, o)
    BY <2>1, <2>2, IdleIs DEF From, Busy
  <2>4. ~Splitting(Idle)
    BY IdleIs DEF Splitting, AllNames
  <2>5. ASSUME NEW h \in {Msb(Big), Lsb(Big)}, PartInOrder(store, gtk, h)
        PROVE  PartInOrder(store, Idle, h)
    <3>1. Callbacks[h] # <<>> /\ h # Idle.sig.name
      BY <2>2, CallbacksLen, IdleIs
    <3>2. Waits(store, Idle, h) => Waits(store, gtk, h)
      BY <3>1 DEF Waits
    <3>3. Unjoined(store, gtk, h) => Unjoined(store, Idle, h)
      BY <1>2, <2>4, <3>1 DEF Unjoined
    <3>4. QED
      BY <2>5, <3>2, <3>3 DEF PartInOrder
  <2>6. ComesAlone(store, Idle, b)
    BY <1>2, <1>3, <1>8, <1>10 DEF ComesAlone
  <2>7. QED
    BY <2>1, <2>3, <2>5, <2>6 DEF OneOrigin, InOrder
<1>11. Buffered(store, Idle, b, raw)
  BY <1>9, <1>10 DEF BufferInv, Buffered
<1>12. QED
  BY <1>2, <1>11, BufferPrimed

\* At rest the halves are those of the whole.
LEMMA EvenAtRest ==
    ASSUME TypeInv, AgreeInv, Splits, queue = <<>>, gtk = Idle
    PROVE  Even(store)
<1>1. panel \in DOMAIN Names /\ store.queue = queue
  BY InPanel
<1>2. \A n \in Names[panel] : ~Waits(store, gtk, n)
  BY <1>1, IdleIs, PanelNames DEF Waits, Queued
<1>3. WholeAgrees(store, gtk, Big)
  BY <1>1, FamilyIs DEF AgreeInv, Agrees, Splits
<1>4. QED
  BY <1>1, <1>2, <1>3, FamilyIs DEF WholeAgrees, HalfAgrees, Even

-----------------------------------------------------------------------------
(* What the application task does to the edit buffer.                      *)

\* The bus after an event, which may lead to others.
LEMMA RestIs ==
    ASSUME TypeInv, bus # <<>>, NEW more \in Seq(Events), bus' = Tail(bus) \o more
    PROVE  /\ \A j \in DOMAIN bus : j = 1 \/ \E i \in DOMAIN bus' : bus'[i] = bus[j]
           /\ \A i \in DOMAIN bus' : \/ \E k \in DOMAIN more : bus'[i] = more[k]
                                     \/ \E j \in DOMAIN bus : j # 1 /\ bus'[i] = bus[j]
           /\ DOMAIN bus = 1 .. Len(bus)
<1>1. bus \in Seq(Events)
  BY DEF TypeInv, EventsType
<1>2. PICK c : c = Tail(bus) \o more
  OBVIOUS
<1>3. /\ Tail(bus) \in Seq(Events) /\ Len(Tail(bus)) = Len(bus) - 1 /\ Len(bus) \in Nat /\ Len(bus) > 0
      /\ \A i \in 1 .. Len(bus) - 1 : Tail(bus)[i] = bus[i + 1]
      /\ DOMAIN bus = 1 .. Len(bus)
  BY <1>1
<1>4. /\ DOMAIN c = 1 .. Len(bus) - 1 + Len(more) /\ Len(more) \in Nat
      /\ DOMAIN more = 1 .. Len(more)
      /\ \A i \in 1 .. Len(bus) - 1 : c[i] = Tail(bus)[i]
      /\ \A i \in DOMAIN c : i \notin 1 .. Len(bus) - 1 => c[i] = more[i - (Len(bus) - 1)]
  BY <1>2, <1>3
<1>5. ASSUME NEW j \in DOMAIN bus, j # 1 PROVE \E i \in DOMAIN c : c[i] = bus[j]
  <2>1. j - 1 \in 1 .. Len(bus) - 1 /\ (j - 1) + 1 = j
    BY <1>3, <1>5
  <2>2. j - 1 \in DOMAIN c /\ c[j - 1] = bus[j]
    BY <1>3, <1>4, <2>1
  <2>3. QED
    BY <2>2
<1>6. ASSUME NEW i \in DOMAIN c
      PROVE  \/ \E k \in DOMAIN more : c[i] = more[k]
             \/ \E j \in DOMAIN bus : j # 1 /\ c[i] = bus[j]
  <2>1. CASE i \in 1 .. Len(bus) - 1
    <3>1. i + 1 \in DOMAIN bus /\ i + 1 # 1 /\ c[i] = bus[i + 1]
      BY <1>3, <1>4, <2>1
    <3>2. QED
      BY <3>1
  <2>2. CASE i \notin 1 .. Len(bus) - 1
    <3>1. i - (Len(bus) - 1) \in DOMAIN more /\ c[i] = more[i - (Len(bus) - 1)]
      BY <1>3, <1>4, <2>2
    <3>2. QED
      BY <3>1
  <2>3. QED
    BY <2>1, <2>2
<1>7. QED
  BY <1>2, <1>3, <1>5, <1>6

LEMMA StillPending ==
    ASSUME TypeInv, bus # <<>>, NEW more \in Seq(Events), bus' = Tail(bus) \o more,
           NEW st, NEW g, NEW n, Pending(st, g, bus, n),
           ~(Head(bus).type = "cc" /\ Loud(Head(bus).sig, n))
    PROVE  Pending(st, g, bus', n)
<1>1. Head(bus) = bus[1]
  BY HeadIs
<1>2. ASSUME NEW j \in DOMAIN bus, bus[j].type = "cc", Loud(bus[j].sig, n)
      PROVE  Pending(st, g, bus', n)
  <2>1. PICK i \in DOMAIN bus' : bus'[i] = bus[j]
    BY <1>1, <1>2, RestIs
  <2>2. QED
    BY <1>2, <2>1 DEF Pending
<1>3. QED
  BY <1>2 DEF Pending

\* What comes alone is handled alone, and leads to nothing but messages to the device.
LEMMA StillAlone ==
    ASSUME TypeInv, bus # <<>>, NEW more \in Seq(Events), bus' = Tail(bus) \o more,
           \A k \in DOMAIN more : more[k].type = "out",
           ComesAlone(store, gtk, bus), NEW st, NEW g
    PROVE  ComesAlone(st, g, bus')
<1>1. SUFFICES ASSUME NEW i \in DOMAIN bus' PROVE bus'[i].type \notin {"load", "in", "dump"}
  BY DEF ComesAlone
<1>2. CASE \E k \in DOMAIN more : bus'[i] = more[k]
  BY <1>2
<1>3. CASE \E j \in DOMAIN bus : j # 1 /\ bus'[i] = bus[j]
  <2>1. PICK j \in DOMAIN bus : j # 1 /\ bus'[i] = bus[j]
    BY <1>3
  <2>2. Len(bus) # 1
    BY <2>1, RestIs
  <2>3. QED
    BY <2>1, <2>2 DEF ComesAlone
<1>4. QED
  BY <1>2, <1>3, RestIs

\* An event that leaves the controls alone.
LEMMA EventBuffers ==
    ASSUME TypeInv, BufferInv, bus # <<>>, NEW more \in Seq(Events), bus' = Tail(bus) \o more,
           panel' = panel, slow' = slow, gtk' = gtk, ctl' = ctl, queue' = queue,
           DOMAIN raw' = DOMAIN raw,
           \A n \in Stored : raw'[n] = ctl[n].val
                             \/ (raw'[n] = raw[n] /\ ~(Head(bus).type = "cc" /\ Loud(Head(bus).sig, n))),
           Splits => \A k \in DOMAIN more : more[k].type = "out"
    PROVE  BufferInv'
<1>1. store' = store /\ store.ctl = ctl
  BY DEF store
<1>2. ASSUME Written(store, gtk, bus, raw) PROVE Written(store, gtk, bus', raw')
  <2>1. SUFFICES ASSUME NEW n \in Stored
                 PROVE  raw'[n] = store.ctl[n].val \/ Pending(store, gtk, bus', n)
    BY DEF Written
  <2>2. CASE raw'[n] = ctl[n].val
    BY <1>1, <2>2
  <2>3. CASE raw'[n] = raw[n] /\ ~(Head(bus).type = "cc" /\ Loud(Head(bus).sig, n))
    <3>1. raw[n] = store.ctl[n].val \/ Pending(store, gtk, bus, n)
      BY <1>2 DEF Written
    <3>2. Pending(store, gtk, bus, n) => Pending(store, gtk, bus', n)
      BY <2>3, StillPending
    <3>3. QED
      BY <2>3, <3>1, <3>2
  <2>4. QED
    BY <2>2, <2>3
<1>3. ASSUME Splits, ComesAlone(store, gtk, bus) PROVE ComesAlone(store, gtk, bus')
  BY <1>3, StillAlone
<1>4. Buffered(store, gtk, bus', raw')
  BY <1>2, <1>3 DEF BufferInv, Buffered
<1>5. QED
  BY <1>1, <1>4, BufferPrimed

LEMMA CcBuffers ==
    ASSUME TypeInv, BufferInv, AppTask, Head(bus).type = "cc", CcHandler(Head(bus).sig)
    PROVE  BufferInv'
<1> DEFINE s == Head(bus).sig
           c == Out(s.name, ToMidi(Config(s.name), s.val))
           more == IF s.origin = "UI" /\ s.name \in Sent[panel] THEN <<c>> ELSE <<>>
<1>1. bus # <<>> /\ panel' = panel /\ slow' = slow /\ gtk' = gtk
  BY DEF AppTask
<1>2. /\ bus' = Tail(bus) \o more /\ ctl' = ctl /\ queue' = queue
      /\ raw' = IF s.origin # "NONE" /\ IsAddressed(s.name)
                THEN [raw EXCEPT ![s.name] = BufferValue(s.name)] ELSE raw
  BY DEF CcHandler, Rest
<1>3. Fits(s) /\ panel \in DOMAIN Names
  BY <1>1, HeadIs, InPanel DEF EventType
<1>4. ASSUME s.name \in Sent[panel] PROVE c \in Events /\ c.type = "out"
  <2> DEFINE m == ToMidi(Config(s.name), s.val)
  <2>1. Register(s.name, m)
    BY <1>3, <1>4, RegisterOut DEF Fits
  <2>2. s.name \in AllNames
    BY <1>3, PanelNames DEF Fits
  <2> HIDE DEF m
  <2>3. c = [type |-> "out", sig |-> [name |-> s.name, val |-> m, origin |-> "UI"]]
    BY DEF Out, Signal, m
  <2>4. m \in 0 .. 127
    BY <2>1 DEF Register
  <2>5. QED
    BY <2>2, <2>3, <2>4 DEF Events, Signals, Origins
<1> HIDE DEF c
<1>5. more \in Seq(Events) /\ \A k \in DOMAIN more : more[k].type = "out"
  BY <1>4
<1> HIDE DEF more
<1>6. DOMAIN raw' = DOMAIN raw
  BY <1>2
<1>7. ASSUME NEW n \in Stored
      PROVE  raw'[n] = ctl[n].val \/ (raw'[n] = raw[n] /\ ~Loud(s, n))
  <2>1. n \in DOMAIN raw /\ IsAddressed(n)
    BY DEF BufferInv, Buffered, Stored, IsAddressed
  <2>2. CASE Loud(s, n)
    <3>1. raw'[n] = BufferValue(n)
      BY <1>2, <2>1, <2>2 DEF Loud
    <3>2. QED
      BY <3>1, BufferValueIs
  <2>3. CASE ~Loud(s, n)
    BY <1>2, <2>3 DEF Loud
  <2>4. QED
    BY <2>2, <2>3
<1>8. QED
  BY <1>1, <1>2, <1>5, <1>6, <1>7, EventBuffers

LEMMA OutBuffers ==
    ASSUME TypeInv, BufferInv, AppTask, Head(bus).type = "out", CcOut(Head(bus).sig)
    PROVE  BufferInv'
<1> DEFINE n == Head(bus).sig.name
           more == IF n = "effect_select:raw" THEN <<LoadEvent>> ELSE <<>>
<1>1. bus # <<>> /\ panel' = panel /\ slow' = slow /\ gtk' = gtk /\ panel \in DOMAIN Names
  BY InPanel DEF AppTask
<1>2. bus' = Tail(bus) \o more /\ ctl' = ctl /\ queue' = queue /\ raw' = raw
  BY DEF CcOut, Rest
<1>3. n \in Sent[panel]
  BY <1>1, HeadIs DEF EventType, FromDevice
<1>4. LoadEvent \in Events
  BY DEF LoadEvent, Events, Signal, Signals, Origins
<1>5. Splits => n # "effect_select:raw"
  BY <1>1, <1>3, SentAll, NamesAre DEF Splits
<1> HIDE DEF n
<1>6. more \in Seq(Events) /\ (Splits => more = <<>>)
  BY <1>4, <1>5
<1> HIDE DEF more
<1>7. QED
  BY <1>1, <1>2, <1>6, EventBuffers

LEMMA LoadEventBuffers ==
    ASSUME TypeInv, BufferInv, AppTask, Head(bus).type = "load",
           Rest(<<Dump(dev)>>), UNCHANGED <<ctl, queue, raw, dev>>
    PROVE  BufferInv'
<1> DEFINE more == <<Dump(dev)>>
<1>1. bus # <<>> /\ panel' = panel /\ slow' = slow /\ gtk' = gtk
  BY DEF AppTask
<1>2. bus' = Tail(bus) \o more /\ ctl' = ctl /\ queue' = queue /\ raw' = raw
  BY DEF Rest
<1>3. Dump(dev) \in Events
  BY DEF TypeInv, Dump, Events
<1>4. more \in Seq(Events)
  BY <1>3
<1> HIDE DEF more
<1>5. ~Splits
  BY <1>1, HeadIs DEF BufferInv, Buffered, ComesAlone
<1>6. QED
  BY <1>1, <1>2, <1>4, <1>5, EventBuffers

\* What came alone is handled at rest.
LEMMA HandledAlone ==
    ASSUME TypeInv, bus # <<>>, Splits, ComesAlone(store, gtk, bus),
           Head(bus).type \in {"in", "dump"}
    PROVE  store.queue = <<>> /\ gtk = Idle
  BY HeadIs DEF ComesAlone

\* An act from o sets nothing of a panel at rest twice.
LEMMA ActOrderly ==
    ASSUME panel \in DOMAIN Names, Splits, NEW st, NEW s2, NEW ns, NEW o \in {"UI", "MIDI"},
           Changes(st, s2, ns, o), st.queue = <<>>
    PROVE  OneOrigin(s2, Idle)
<1>1. From(s2, Idle, o)
  BY FromRest
<1>2. QED
  BY <1>1 DEF OneOrigin, Origins

LEMMA InBuffers ==
    ASSUME TypeInv, BufferInv, AppTask, Head(bus).type = "in", CcIn(Head(bus).sig)
    PROVE  BufferInv'
<1> DEFINE n  == Head(bus).sig.name
           v  == FromMidi(Config(n), Head(bus).sig.val)
           s2 == Set(store, n, v, "MIDI")
           more == <<>>
<1>1. bus # <<>> /\ panel' = panel /\ slow' = slow /\ gtk' = gtk /\ panel \in DOMAIN Names
  BY InPanel DEF AppTask
<1>2. Becomes(s2) /\ bus' = Tail(bus) \o more /\ raw' = raw
  BY DEF CcIn, Rest
<1>3. n \in Sent[panel] /\ Register(n, Head(bus).sig.val)
  BY <1>1, HeadIs DEF EventType, FromDevice, Register
<1>4. n \in Names[panel] /\ v \in Values(n)
  BY <1>1, <1>3, RegisterIn
<1> HIDE DEF n, v
<1>5. Changes(store, s2, {n}, "MIDI")
  BY <1>1, <1>4, SetChanges DEF TypeInv, Origins
<1> HIDE DEF s2
<1>6. Speaks(store, s2, {n}, "MIDI")
  BY <1>1, <1>5, SpeaksOf
<1>7. StoreType(s2)
  BY <1>5 DEF Changes
<1>8. store' = s2
  BY <1>1, <1>2, <1>7, Primed
<1>9. more \in Seq(Events) /\ \A k \in DOMAIN more : more[k].type = "out"
  OBVIOUS
<1> HIDE DEF more
<1>10. ASSUME Written(store, gtk, bus, raw) PROVE Written(s2, gtk, bus', raw)
  <2>1. Written(s2, gtk, bus, raw)
    BY <1>1, <1>6, <1>10, WrittenKept
  <2>2. \A m : Pending(s2, gtk, bus, m) => Pending(s2, gtk, bus', m)
    BY <1>1, <1>2, <1>9, StillPending
  <2>3. QED
    BY <2>1, <2>2 DEF Written
<1>11. ASSUME Splits, ComesAlone(store, gtk, bus)
       PROVE  OneOrigin(s2, gtk) /\ ComesAlone(s2, gtk, bus')
  <2>1. store.queue = <<>> /\ gtk = Idle
    BY <1>1, <1>11, HandledAlone
  <2>2. OneOrigin(s2, gtk)
    BY <1>1, <1>5, <1>11, <2>1, ActOrderly
  <2>3. ComesAlone(s2, gtk, bus')
    BY <1>1, <1>2, <1>9, <1>11, StillAlone
  <2>4. QED
    BY <2>2, <2>3
<1>12. Buffered(s2, gtk, bus', raw)
  BY <1>10, <1>11 DEF BufferInv, Buffered
<1>13. QED
  BY <1>1, <1>2, <1>8, <1>12, BufferPrimed

\* A patch that is loaded at rest: what of the whole it changes waits for the other.
LEMMA LoadOrderly ==
    ASSUME TypeInv, AgreeInv, Splits, queue = <<>>, gtk = Idle,
           NEW s2, Changes(store, s2, Patched, "NONE")
    PROVE  OneOrigin(s2, Idle)
<1>1. panel \in DOMAIN Names /\ store.queue = <<>>
  BY InPanel
<1>2. /\ panel = "delay" \/ panel = "tempo"
      /\ Msb(Big) \in Names[panel] /\ Lsb(Big) \in Names[panel] /\ Big \in Names[panel]
  BY <1>1, FamilyIs DEF Splits
<1>3. /\ From(s2, Idle, "NONE") /\ Appends(store, s2, Patched, "NONE")
  BY <1>1, FromRest DEF Changes
<1>4. \A i \in DOMAIN s2.queue : s2.queue[i].name \in Patched
  BY <1>1, <1>3 DEF Appends
<1>5. ASSUME NEW h \in {Msb(Big), Lsb(Big)} PROVE PartInOrder(s2, Idle, h)
  <2>1. h \in Names[panel] /\ h # Idle.sig.name
    BY <1>1, <1>2, IdleIs, PanelNames
  <2>2. CASE panel = "delay"
    <3>1. h \notin Patched
      BY <1>1, <2>2, FamilyIs, RangeIs DEF Patched
    <3>2. ~Waits(s2, Idle, h)
      BY <1>4, <2>1, <3>1 DEF Waits, Queued
    <3>3. QED
      BY <2>2, <3>2 DEF PartInOrder
  <2>3. CASE panel = "tempo"
    <3>1. Big = "tempo" /\ "tempo" \notin Patched
      BY <1>1, <2>3, FamilyIs, RangeIs DEF Patched
    <3>2. s2.ctl[Big] = store.ctl[Big]
      BY <1>2, <1>3, <3>1 DEF Appends
    <3>3. CASE s2.ctl[h] = store.ctl[h]
      <4>1. store.ctl[h].val = Part(store, h)
        BY <1>1, EvenAtRest, PartIs DEF Even
      <4>2. QED
        BY <3>2, <3>3, <4>1 DEF Part, PartInOrder
    <3>4. CASE s2.ctl[h] # store.ctl[h]
      <4>1. PICK i \in DOMAIN s2.queue : s2.queue[i].name = h
        BY <1>3, <2>1, <3>4 DEF Appends
      <4>2. DOMAIN s2.queue = 1 .. Len(s2.queue) /\ Len(s2.queue) \in Nat
        <5>1. s2.queue \in Seq(Signals)
          BY DEF Changes, StoreType
        <5>2. QED
          BY <5>1
      <4>3. \A j \in 1 .. i : j \in DOMAIN s2.queue
        BY <4>2
      <4>4. \A j \in 1 .. i : s2.queue[j].name # "tempo"
        BY <1>4, <3>1, <4>3
      <4>5. ~Splitting(Idle)
        BY IdleIs DEF Splitting, AllNames
      <4>6. QED
        BY <2>3, <4>1, <4>4, <4>5 DEF PartInOrder, Unjoined
    <3>5. QED
      BY <3>3, <3>4
  <2>4. QED
    BY <1>2, <2>2, <2>3
<1>6. QED
  BY <1>3, <1>5 DEF OneOrigin, InOrder, Origins

LEMMA DumpBuffers ==
    ASSUME TypeInv, AgreeInv, BufferInv, AppTask, Head(bus).type = "dump", Load(Head(bus).regs)
    PROVE  BufferInv'
<1> DEFINE regs == Head(bus).regs
           more == <<>>
<1>1. bus # <<>> /\ panel' = panel /\ slow' = slow /\ gtk' = gtk /\ panel \in DOMAIN Names
  BY InPanel DEF AppTask
<1>2. regs \in Registers(panel)
  BY <1>1, HeadIs DEF Events
<1>3. bus' = Tail(bus) \o more /\ raw' = [n \in DOMAIN raw |-> PatchValue(regs, n)]
  BY DEF Load, Rest
<1>4. PICK s2 : /\ Becomes(s2) /\ Changes(store, s2, Patched, "NONE")
                /\ \A n \in Patched : s2.ctl[n].val = PatchValue(regs, n)
  BY <1>1, <1>2, LoadSets DEF TypeInv
<1> HIDE DEF regs
<1>5. StoreType(s2)
  BY <1>4 DEF Changes
<1>6. store' = s2
  BY <1>1, <1>4, <1>5, Primed
<1>7. more \in Seq(Events) /\ \A k \in DOMAIN more : more[k].type = "out"
  OBVIOUS
<1> HIDE DEF more
<1>8. DOMAIN raw = Patched /\ DOMAIN raw' = Patched
  BY <1>3 DEF BufferInv, Buffered, Patched
<1>9. Written(s2, gtk, bus', raw')
  BY <1>3, <1>4, <1>8 DEF Written, Stored, Patched
<1>10. ASSUME Splits, ComesAlone(store, gtk, bus)
       PROVE  OneOrigin(s2, gtk) /\ ComesAlone(s2, gtk, bus')
  <2>1. queue = <<>> /\ gtk = Idle
    BY <1>1, <1>10, HandledAlone, InPanel
  <2>2. OneOrigin(s2, gtk)
    BY <1>4, <1>10, <2>1, LoadOrderly
  <2>3. ComesAlone(s2, gtk, bus')
    BY <1>1, <1>3, <1>7, <1>10, StillAlone
  <2>4. QED
    BY <2>2, <2>3
<1>11. Buffered(s2, gtk, bus', raw')
  BY <1>8, <1>9, <1>10 DEF BufferInv, Buffered, Patched
<1>12. QED
  BY <1>1, <1>6, <1>11, BufferPrimed

LEMMA AppTaskBuffers ==
    ASSUME TypeInv, AgreeInv, BufferInv, AppTask
    PROVE  BufferInv'
<1> DEFINE e == Head(bus)
<1>1. \/ e.type = "cc"   /\ CcHandler(e.sig)
      \/ e.type = "in"   /\ CcIn(e.sig)
      \/ e.type = "out"  /\ CcOut(e.sig)
      \/ e.type = "load" /\ Rest(<<Dump(dev)>>) /\ UNCHANGED <<ctl, queue, raw, dev>>
      \/ e.type = "dump" /\ Load(e.regs)
  BY DEF AppTask
<1>2. QED
  BY <1>1, CcBuffers, InBuffers, OutBuffers, LoadEventBuffers, DumpBuffers

-----------------------------------------------------------------------------
(* What the user and the device do to the edit buffer.                     *)

LEMMA UserBuffers ==
    ASSUME TypeInv, BufferInv, User
    PROVE  BufferInv'
<1>1. /\ panel' = panel /\ slow' = slow /\ gtk' = gtk /\ bus' = bus /\ raw' = raw
      /\ gtk = Idle /\ queue = <<>> /\ (slow => bus = <<>>) /\ panel \in DOMAIN Names
      /\ store.queue = queue
  BY InPanel DEF User, Acts, AtRest
<1>2. PICK move \in UserMoves[panel] : Becomes(Set(store, move[1], move[2], "UI"))
  BY DEF User
<1> DEFINE n  == move[1]
           s2 == Set(store, n, move[2], "UI")
<1>3. n \in Names[panel] /\ move[2] \in Values(n)
  <2>1. n \in Shown[panel] /\ move[2] \in Values(n)
    BY <1>2, ControlsAssumption, InPanel
  <2>2. \/ panel = "delay" \/ panel = "effects" \/ panel = "tempo" \/ panel = "stomp"
        \/ panel = "pedal"
    BY <1>1, NamesAre
  <2>3. QED
    BY <2>1, <2>2, ShownAre, NamesAre
<1> HIDE DEF n
<1>4. Changes(store, s2, {n}, "UI")
  BY <1>1, <1>3, SetChanges DEF TypeInv, Origins
<1>5. Becomes(s2)
  BY <1>2 DEF n
<1> HIDE DEF s2
<1>6. Speaks(store, s2, {n}, "UI") /\ StoreType(s2)
  BY <1>1, <1>4, SpeaksOf DEF Changes
<1>7. store' = s2
  BY <1>1, <1>5, <1>6, Primed
<1>8. Written(store, gtk, bus, raw) => Written(s2, gtk, bus, raw)
  BY <1>1, <1>6, WrittenKept
<1>9. ASSUME Splits PROVE OneOrigin(s2, gtk) /\ ComesAlone(s2, gtk, bus)
  <2>1. OneOrigin(s2, gtk)
    BY <1>1, <1>4, <1>9, ActOrderly
  <2>2. bus = <<>>
    BY <1>1, <1>9 DEF Splits
  <2>3. QED
    BY <2>1, <2>2 DEF ComesAlone
<1>10. Buffered(s2, gtk, bus, raw)
  BY <1>8, <1>9 DEF BufferInv, Buffered
<1>11. QED
  BY <1>1, <1>7, <1>10, BufferPrimed

LEMMA DeviceBuffers ==
    ASSUME TypeInv, BufferInv, DevMove \/ DevProgram
    PROVE  BufferInv'
<1>1. PICK e : Tells(e)
  BY DeviceTells
<1> DEFINE b == Append(bus, e)
<1>2. /\ store' = store /\ gtk' = gtk /\ panel' = panel /\ slow' = slow /\ bus' = b
      /\ e \in Events /\ e.type \in {"in", "dump"} /\ (slow => AtRest)
  BY <1>1 DEF Tells, store
<1>3. raw' = raw /\ bus \in Seq(Events) /\ store.queue = queue
  BY InPanel DEF DevMove, DevProgram, TypeInv, EventsType
<1>4. /\ Len(b) = Len(bus) + 1
      /\ \A i \in DOMAIN bus : i \in DOMAIN b /\ b[i] = bus[i]
      /\ \A i \in DOMAIN b : b[i] = e \/ (i \in DOMAIN bus /\ b[i] = bus[i])
  BY <1>2, <1>3
<1> HIDE DEF b
<1>5. ASSUME Written(store, gtk, bus, raw) PROVE Written(store, gtk, b, raw)
  <2>1. \A n : Pending(store, gtk, bus, n) => Pending(store, gtk, b, n)
    BY <1>4 DEF Pending
  <2>2. QED
    BY <1>5, <2>1 DEF Written
<1>6. ASSUME Splits PROVE ComesAlone(store, gtk, b)
  <2>1. queue = <<>> /\ gtk = Idle /\ bus = <<>>
    BY <1>2, <1>6 DEF Splits, AtRest
  <2>2. Len(b) = 1 /\ \A i \in DOMAIN b : b[i] = e
    BY <1>4, <2>1
  <2>3. QED
    BY <1>2, <1>3, <2>1, <2>2 DEF ComesAlone
<1>7. Buffered(store, gtk, b, raw)
  BY <1>5, <1>6 DEF BufferInv, Buffered
<1>8. QED
  BY <1>2, <1>3, <1>7, BufferPrimed

-----------------------------------------------------------------------------
(* The edit buffer is written.                                             *)

LEMMA InitBuffers == Init => BufferInv
<1> SUFFICES ASSUME Init PROVE BufferInv
  OBVIOUS
<1>1. /\ ctl = [n \in Names[panel] |-> [val |-> Following(dev, n), origin |-> "NONE"]]
      /\ raw = [n \in Range(Addressed[panel]) |-> PatchValue(dev, n)]
      /\ queue = <<>> /\ gtk = Idle /\ bus = <<>>
  BY DEF Init
<1>2. panel \in DOMAIN Names /\ store.ctl = ctl /\ store.queue = queue
  BY InitInv, InPanel DEF ControlsInv
<1>3. ASSUME NEW n \in Stored PROVE raw[n] = store.ctl[n].val
  <2>1. n \in Names[panel] /\ n \in Range(Addressed[panel])
    BY <1>2, StoredAre DEF Stored
  <2>2. store.ctl[n].val = Following(dev, n) /\ raw[n] = PatchValue(dev, n)
    BY <1>1, <1>2, <2>1
  <2>3. CASE n = "delay_time"
    <3>1. PatchValue(dev, n) = dev[Msb(n)] * 128 + dev[Lsb(n)]
      BY <2>3 DEF PatchValue
    <3>2. Following(dev, n) = dev[Msb(n)] * 128 + dev[Lsb(n)]
      BY <2>3, FollowingIs DEF Wholes
    <3>3. QED
      BY <2>2, <3>1, <3>2
  <2>4. CASE n # "delay_time"
    <3>1. n \in Bytes \cup {"effect_select:raw", "delay_enable"}
      BY <1>2, <2>4, StoredAre
    <3>2. Following(dev, n) = FromMidi(Config(n), dev[n])
      BY <3>1, FollowingIs
    <3>3. PatchValue(dev, n) = FromMidi(Config(n), dev[n])
      BY <2>4 DEF PatchValue
    <3>4. QED
      BY <2>2, <3>2, <3>3
  <2>5. QED
    BY <2>3, <2>4
<1>4. Written(store, gtk, bus, raw)
  BY <1>3 DEF Written
<1>5. ASSUME Splits PROVE OneOrigin(store, gtk)
  <2>1. \A n \in Family : n # gtk.sig.name
    BY <1>1, <1>2, <1>5, FamilyIs, IdleIs, PanelNames DEF Family
  <2>2. From(store, gtk, "UI")
    BY <1>1, <1>2, <2>1 DEF From, Busy, Queued
  <2>3. QED
    BY <2>2 DEF OneOrigin, Origins
<1>6. ComesAlone(store, gtk, bus)
  BY <1>1 DEF ComesAlone
<1>7. QED
  BY <1>1, <1>4, <1>5, <1>6 DEF BufferInv, Buffered

LEMMA NextBuffers == ControlsInv /\ BufferInv /\ [Next]_controlsVars => BufferInv'
<1> SUFFICES ASSUME ControlsInv, BufferInv, [Next]_controlsVars PROVE BufferInv'
  OBVIOUS
<1>1. TypeInv /\ AgreeInv
  BY DEF ControlsInv
<1>2. CASE GtkReceive
  BY <1>1, <1>2, ReceiveBuffers
<1>3. CASE GtkCallback
  BY <1>1, <1>3, CallbackBuffers
<1>4. CASE GtkPass
  BY <1>1, <1>4, PassBuffers
<1>5. CASE AppTask
  BY <1>1, <1>5, AppTaskBuffers
<1>6. CASE User
  BY <1>1, <1>6, UserBuffers
<1>7. CASE DevMove \/ DevProgram
  BY <1>1, <1>7, DeviceBuffers
<1>8. CASE UNCHANGED controlsVars
  <2>1. /\ panel' = panel /\ slow' = slow /\ store' = store /\ gtk' = gtk /\ bus' = bus
        /\ raw' = raw
    BY <1>8 DEF controlsVars, store
  <2>2. QED
    BY <2>1, BufferPrimed DEF BufferInv
<1>9. QED
  BY <1>2, <1>3, <1>4, <1>5, <1>6, <1>7, <1>8 DEF Next, Tasks

\* When everything is handled, the bytes of the edit buffer that are stored with the
\* patch are those of the controls; on a panel with halves, if the user and the device
\* wait for each other.
THEOREM BufferCorrect == Spec => []BufferMatches
<1>1. ControlsInv /\ BufferInv => BufferMatches
  <2>1. SUFFICES ASSUME TypeInv, BufferInv, AtRest, slow \/ panel \notin {"delay", "tempo"},
                        NEW n \in DOMAIN raw \ Derived
                 PROVE  raw[n] = Val(n)
    BY DEF ControlsInv, BufferMatches
  <2>2. /\ panel \in DOMAIN Names /\ store.ctl = ctl /\ store.queue = <<>> /\ gtk = Idle
        /\ bus = <<>>
    BY <2>1, InPanel DEF AtRest
  <2>3. n \in Stored /\ Written(store, gtk, bus, raw)
    BY <2>1 DEF BufferInv, Buffered, Stored
  <2>4. ~Pending(store, gtk, bus, n)
    BY <2>2, IdleIs DEF Pending, Loud
  <2>5. QED
    BY <2>2, <2>3, <2>4 DEF Written, Val
<1>2. Init => ControlsInv /\ BufferInv
  BY InitInv, InitBuffers
<1>3. ControlsInv /\ BufferInv /\ [Next]_controlsVars => (ControlsInv /\ BufferInv)'
  BY NextInv, NextBuffers
<1>4. QED
  BY <1>1, <1>2, <1>3, PTL DEF Spec
=============================================================================
