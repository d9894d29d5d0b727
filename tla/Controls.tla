------------------------------ MODULE Controls ------------------------------
(***************************************************************************)
(* Controls that set each other.  The controller keeps a value and an      *)
(* origin for each; a signal of a change goes to the GTK thread, which     *)
(* runs the callbacks of the control one by one, each under the lock and   *)
(* on the value and origin of the moment, and passes the change on to the  *)
(* application task, which writes the edit buffer and, for a change by the *)
(* user, sends a MIDI message.  One panel of dependent controls at a time: *)
(*   delay    a 14-bit value and its halves (POD 2.0)                      *)
(*   effects  the effect, the raw number that also says whether it has a   *)
(*            delay, and the switch of the delay (POD 2.0)                 *)
(*   tempo    tempo and modulation speed, in halves, and the note value    *)
(*            that ties them (PODxt)                                       *)
(*   stomp    a parameter and two ways to show it (PODxt)                  *)
(*   pedal    the pedal assignment as a range and as a choice (PODxt)      *)
(***************************************************************************)
EXTENDS ControlValues, FiniteSets, Functions, SequencesExt

CONSTANTS
    Panels,    \* the panels
    UserMoves, \* panel -> the <<control, value>> the user may set
    DevMoves,  \* panel -> the <<control, MIDI value>> the device may send
    Patches,   \* panel -> the patches of the device, the first one is loaded
    MaxActs    \* bound: how often the user and the device act

VARIABLES
    panel, actors, slow, \* what is on the screen, who acts, and when
    acts,
    ctl,    \* Controller.values: name -> value and origin
    queue,  \* signals of the controller
    gtk,    \* the signal at the GTK thread, and the callbacks yet to run
    bus,    \* events to the application task
    raw,    \* EditBuffer.raw: name -> value
    dev     \* the device: name -> MIDI value

controlsVars == <<panel, actors, slow, acts, ctl, queue, gtk, bus, raw, dev>>
-----------------------------------------------------------------------------
(* The panels.                                                             *)

Names == [delay   |-> {"delay_time", "delay_time:msb", "delay_time:lsb"},
          effects |-> {"effect_select:raw", "effect_select", "delay_enable"},
          tempo   |-> {"tempo", "tempo:msb", "tempo:lsb", "mod_speed",
                       "mod_speed:msb", "mod_speed:lsb", "mod_note_select"},
          stomp   |-> {"stomp_param2", "stomp_param2_wave", "stomp_param2_octave"},
          pedal   |-> {"pedal_assign", "pedal_assign_select"}]

\* The controls with an address in the edit buffer, the highest one first.
Addressed == [delay   |-> <<"delay_time">>,
              effects |-> <<"effect_select:raw", "delay_enable">>,
              tempo   |-> <<"tempo:lsb", "tempo:msb", "mod_speed:lsb",
                            "mod_note_select", "mod_speed:msb">>,
              stomp   |-> <<"stomp_param2">>,
              pedal   |-> <<"pedal_assign">>]

\* Those with a control change number: the registers of the device.
Sent == [Names EXCEPT !.delay = @ \ {"delay_time"}, !.effects = @ \ {"effect_select"},
                      !.tempo = @ \ {"tempo", "mod_speed"},
                      !.stomp = {"stomp_param2"}, !.pedal = {"pedal_assign"}]

Config(n) == CASE n = "delay_time"          -> Multibyte(0, 16383)
               [] n = "delay_enable"        -> Switch(FALSE)
               [] n = "stomp_param2_wave"   -> Steps(Eight)
               [] n = "stomp_param2_octave" -> Short(0, 8, TRUE)
               [] OTHER                     -> Normal

\* Config.effects: the number of an effect with the delay and without.
Effects == <<[delay |-> {6},  clean |-> {10}],   \* Bypass
             [delay |-> {14}, clean |-> {}],     \* Auto Swell
             [delay |-> {},   clean |-> {2}]>>   \* Rotary

Callbacks ==
    [n \in UNION Range(Names) |->
        CASE n \in {"delay_time"}                       -> <<"split">>
          [] n \in {"delay_time:msb", "tempo:msb", "mod_speed:msb"} -> <<"join_msb">>
          [] n \in {"delay_time:lsb", "tempo:lsb", "mod_speed:lsb"} -> <<"join_lsb">>
          [] n = "tempo"                                -> <<"split", "tempo_speed">>
          [] n = "mod_speed"                            -> <<"split", "reset_note">>
          [] n = "mod_note_select"                      -> <<"tempo_speed">>
          [] n = "effect_select:raw"                    -> <<"from_raw">>
          [] n = "effect_select"                        -> <<"to_raw">>
          [] n = "delay_enable"                         -> <<"delay_reset">>
          [] n = "stomp_param2"                         -> <<"variants">>
          [] n \in {"stomp_param2_wave", "stomp_param2_octave"} -> <<"param">>
          [] n = "pedal_assign"                         -> <<"bucket">>
          [] n = "pedal_assign_select"                  -> <<"assign">>]

Whole(n) == CASE n \in {"delay_time:msb", "delay_time:lsb"} -> "delay_time"
              [] n \in {"tempo:msb", "tempo:lsb"}           -> "tempo"
              [] n \in {"mod_speed:msb", "mod_speed:lsb"}   -> "mod_speed"
Msb(n)   == CASE n = "delay_time" -> "delay_time:msb" [] n = "tempo" -> "tempo:msb"
              [] n = "mod_speed"  -> "mod_speed:msb"
Lsb(n)   == CASE n = "delay_time" -> "delay_time:lsb" [] n = "tempo" -> "tempo:lsb"
              [] n = "mod_speed"  -> "mod_speed:lsb"
BigEndian(n) == n # "delay_time"
-----------------------------------------------------------------------------
(* The controller.  A store is its values and its signals.                 *)

Signal(n, v, o) == [name |-> n, val |-> v, origin |-> o]

\* set_full with Signal::Force, and set.
SetForced(st, n, v, o) ==
    [ctl |-> [st.ctl EXCEPT ![n] = [val |-> v, origin |-> o]],
     queue |-> Append(st.queue, Signal(n, v, o))]

Set(st, n, v, o) == IF st.ctl[n].val = v THEN st ELSE SetForced(st, n, v, o)

Get(st, n) == st.ctl[n].val

-----------------------------------------------------------------------------
(* The callbacks of GTK thread: control n has value v and origin o.        *)

\* wire_14bit.  A change by the user always sends both halves.
Split(st, n, v, o) ==
    LET Half(s, h, x) == IF o = "UI" THEN SetForced(s, h, x, o) ELSE Set(s, h, x, o)
        msb(s) == Half(s, Msb(n), v \div 128)
        lsb(s) == Half(s, Lsb(n), v % 128)
    IN IF BigEndian(n) THEN lsb(msb(st)) ELSE msb(lsb(st))

\* Mutant: the other half is lost.
JoinMsbAlone(st, n, v, o) ==
    IF o = "UI" THEN st ELSE Set(st, Whole(n), (v % 128) * 128, o)

JoinMsb(st, n, v, o) ==
    IF o = "UI" THEN st
    ELSE Set(st, Whole(n), ((v % 128) * 128) + (Get(st, Whole(n)) % 128), o)

JoinLsb(st, n, v, o) ==
    IF o = "UI" THEN st
    ELSE Set(st, Whole(n), ((Get(st, Whole(n)) \div 128) * 128) + (v % 128), o)

\* wire_tempo: the modulation speed that the quarter note (6) has in a tempo, which is
\* in tenths of a beat per minute.
Tempos == 300 .. 2400

Speed(tempo) == LET hz24000 == tempo * 40 - 2400
                IN (AtMost(IF hz24000 < 0 THEN 0 ELSE hz24000, 357600) * 5461) \div 119200

TempoSpeed(st) ==
    IF Get(st, "mod_note_select") # 0 /\ Get(st, "tempo") \in Tempos
    THEN Set(st, "mod_speed", Speed(Get(st, "tempo")), "NONE") ELSE st

\* Mutant: the note is taken back as if by the user.
ResetNoteLoud(st, o) == IF o = "NONE" THEN st ELSE Set(st, "mod_note_select", 0, "UI")

ResetNote(st, o) == IF o = "NONE" THEN st ELSE Set(st, "mod_note_select", 0, "MIDI")

\* wire_effect_select.
Numbers(e)  == Effects[e].delay \cup Effects[e].clean
EffectOf(r) == {e \in DOMAIN Effects : r \in Numbers(e)}
Delays(r)   == \E e \in DOMAIN Effects : r \in Effects[e].delay

FromRaw(st, v, o) ==
    IF EffectOf(v) = {} THEN st
    ELSE Set(Set(st, "delay_enable", AsInt(Delays(v)), o),
             "effect_select", (CHOOSE e \in EffectOf(v) : TRUE) - 1, o)

ToRaw(st, v) ==
    LET e       == Effects[v + 1]
        wanted  == IF Get(st, "delay_enable") # 0 THEN e.delay ELSE e.clean
        numbers == IF wanted # {} THEN wanted ELSE Numbers(v + 1)
    IN Set(st, "effect_select:raw", CHOOSE r \in numbers : TRUE, "UI")

DelayReset(st, v, o) ==
    LET r == Get(st, "effect_select:raw")
        needed == \E e \in EffectOf(r) : Effects[e].delay = {}
    IN IF o = "UI" /\ v # 0 /\ ~Delays(r) /\ needed
       THEN Set(st, "effect_select", 0, o) ELSE st

\* Mutant: the ways to show a parameter do not follow the device.
VariantsOfUser(st, v, o) ==
    LET To(s, n) == Set(s, n, FromMidi(Config(n), v), "NONE")
    IN IF o = "UI" THEN To(To(st, "stomp_param2_wave"), "stomp_param2_octave") ELSE st

\* wire_dynamic_params.
Variants(st, v, o) ==
    LET origin == IF o = "MIDI" THEN "MIDI" ELSE "NONE"
        To(s, n) == Set(s, n, FromMidi(Config(n), v), origin)
    IN To(To(st, "stomp_param2_wave"), "stomp_param2_octave")

\* Mutant: the parameter is set as if nobody had to be told.
ParamQuiet(st, n, v, o) ==
    IF o # "UI" THEN st ELSE Set(st, "stomp_param2", ToMidi(Config(n), v), "NONE")

Param(st, n, v, o) ==
    IF o # "UI" THEN st ELSE Set(st, "stomp_param2", ToMidi(Config(n), v), o)

\* wire_pedal_assign.
BucketOf(v)   == IF v <= 41 THEN 0 ELSE IF v <= 85 THEN 1 ELSE 2
AssignedTo(b) == CASE b = 0 -> 0 [] b = 1 -> 64 [] OTHER -> 127

\* A callback, on the value and the origin of the moment.
Callback(st, callback, n) ==
    LET v == st.ctl[n].val
        o == st.ctl[n].origin
    IN CASE callback = "split"       -> Split(st, n, v, o)
         [] callback = "join_msb"    -> JoinMsb(st, n, v, o)
         [] callback = "join_lsb"    -> JoinLsb(st, n, v, o)
         [] callback = "tempo_speed" -> TempoSpeed(st)
         [] callback = "reset_note"  -> ResetNote(st, o)
         [] callback = "from_raw"    -> FromRaw(st, v, o)
         [] callback = "to_raw"      -> ToRaw(st, v)
         [] callback = "delay_reset" -> DelayReset(st, v, o)
         [] callback = "variants"    -> Variants(st, v, o)
         [] callback = "param"       -> Param(st, n, v, o)
         [] callback = "bucket"      -> Set(st, "pedal_assign_select", BucketOf(v), o)
         [] callback = "assign"      ->
                IF o = "UI" THEN Set(st, "pedal_assign", AssignedTo(v), o) ELSE st
-----------------------------------------------------------------------------
(* The GTK thread.                                                         *)

Idle  == [sig |-> Signal("none", 0, "NONE"), left |-> <<>>]
store == [ctl |-> ctl, queue |-> queue]

Becomes(st) == ctl' = st.ctl /\ queue' = st.queue

\* controller_rx_handler: a signal is received, ...
GtkReceive ==
    /\ gtk = Idle /\ queue # <<>>
    /\ gtk' = [sig |-> Head(queue), left |-> Callbacks[Head(queue).name]]
    /\ queue' = Tail(queue)
    /\ UNCHANGED <<panel, actors, slow, acts, ctl, bus, raw, dev>>

\* ... each callback takes the lock on its own, ...
GtkCallback ==
    /\ gtk.left # <<>>
    /\ Becomes(Callback(store, Head(gtk.left), gtk.sig.name))
    /\ gtk' = [gtk EXCEPT !.left = Tail(@)]
    /\ UNCHANGED <<panel, actors, slow, acts, bus, raw, dev>>

\* ... and the value it came with is passed on.
GtkPass ==
    /\ gtk # Idle /\ gtk.left = <<>>
    /\ bus' = Append(bus, [type |-> "cc", sig |-> gtk.sig]) /\ gtk' = Idle
    /\ UNCHANGED <<panel, actors, slow, acts, ctl, queue, raw, dev>>
-----------------------------------------------------------------------------
(* The application task.                                                   *)

IsAddressed(n) == n \in Range(Addressed[panel])
In(n, m)       == [type |-> "in", sig |-> Signal(n, m, "MIDI")]
Out(n, m)      == [type |-> "out", sig |-> Signal(n, m, "UI")]
LoadEvent      == [type |-> "load", sig |-> Signal("none", 0, "UI")]
Dump(regs)     == [type |-> "dump", regs |-> regs]

Rest(more) == bus' = Tail(bus) \o more

\* What a control's buffer bytes hold on a POD 2.0, or a PODxt.
BufferValue(n) == LET c == Config(n) IN
    IF panel \in {"delay", "effects"} THEN FromBuffer(c, ToBuffer(c, Get(store, n)))
                                      ELSE FromMidi(c, ToMidi(c, Get(store, n)))

\* cc_handler.
CcHandler(s) ==
    /\ raw' = IF s.origin # "NONE" /\ IsAddressed(s.name)
              THEN [raw EXCEPT ![s.name] = BufferValue(s.name)] ELSE raw
    /\ Rest(IF s.origin = "UI" /\ s.name \in Sent[panel]
            THEN <<Out(s.name, ToMidi(Config(s.name), s.val))>> ELSE <<>>)
    /\ UNCHANGED <<ctl, queue, dev>>

\* midi_cc_in_handler.
CcIn(s) ==
    /\ Becomes(Set(store, s.name, FromMidi(Config(s.name), s.val), "MIDI"))
    /\ Rest(<<>>) /\ UNCHANGED <<raw, dev>>

\* The registers of the device after one of them was set: it keeps the rules
\* between them itself.
DevSpeed(r) == LET tempo == r["tempo:msb"] * 128 + r["tempo:lsb"] IN
    IF r["mod_note_select"] # 0 /\ tempo \in Tempos
    THEN [r EXCEPT !["mod_speed:msb"] = Speed(tempo) \div 128,
                   !["mod_speed:lsb"] = Speed(tempo) % 128] ELSE r

DevSet(n, m) == LET r == [dev EXCEPT ![n] = m] IN
    CASE n \in {"mod_speed:msb", "mod_speed:lsb"} -> [r EXCEPT !["mod_note_select"] = 0]
      [] n \in {"tempo:msb", "tempo:lsb", "mod_note_select"} -> DevSpeed(r)
      [] n = "effect_select:raw" -> [r EXCEPT !["delay_enable"] = IF Delays(m) THEN 127 ELSE 0]
      [] OTHER -> r

\* midi_cc_out_handler: after a change of the effect, a POD 2.0 is asked for
\* its edit buffer.
CcOut(s) ==
    /\ dev' = DevSet(s.name, s.val)
    /\ Rest(IF s.name = "effect_select:raw" THEN <<LoadEvent>> ELSE <<>>)
    /\ UNCHANGED <<ctl, queue, raw>>

\* The values of the patch in the registers.
PatchValue(regs, n) ==
    IF n = "delay_time" THEN regs[Msb(n)] * 128 + regs[Lsb(n)] ELSE FromMidi(Config(n), regs[n])

\* load_from_raw: all the controls under one lock, one after the other; no panel has
\* more than five.
LoadOne(st, regs, i) ==
    IF i > Len(Addressed[panel]) THEN st
    ELSE Set(st, Addressed[panel][i], PatchValue(regs, Addressed[panel][i]), "NONE")

Load(regs) ==
    /\ LET To(st, i) == LoadOne(st, regs, i)
       IN Becomes(To(To(To(To(To(store, 1), 2), 3), 4), 5))
    /\ raw' = [n \in DOMAIN raw |-> PatchValue(regs, n)]
    /\ Rest(<<>>) /\ UNCHANGED dev

AppTask ==
    /\ bus # <<>>
    /\ LET e == Head(bus) IN
       \/ e.type = "cc"   /\ CcHandler(e.sig)
       \/ e.type = "in"   /\ CcIn(e.sig)
       \/ e.type = "out"  /\ CcOut(e.sig)
       \/ e.type = "load" /\ Rest(<<Dump(dev)>>) /\ UNCHANGED <<ctl, queue, raw, dev>>
       \/ e.type = "dump" /\ Load(e.regs)
    /\ UNCHANGED <<panel, actors, slow, acts, gtk>>
-----------------------------------------------------------------------------
(* The user and the device.                                                *)

AtRest == queue = <<>> /\ gtk = Idle /\ bus = <<>>

Acts(actor) == /\ acts < MaxActs /\ actor \in actors /\ (slow => AtRest)
               /\ acts' = acts + 1

\* The receiver goes before the widgets: glib::Priority::HIGH.
User ==
    /\ Acts("user") /\ queue = <<>> /\ gtk = Idle
    /\ \E move \in UserMoves[panel] : Becomes(Set(store, move[1], move[2], "UI"))
    /\ UNCHANGED <<panel, actors, slow, gtk, bus, raw, dev>>

DevMove ==
    /\ Acts("device")
    /\ \E move \in DevMoves[panel] :
          /\ dev' = DevSet(move[1], move[2]) /\ bus' = Append(bus, In(move[1], move[2]))
    /\ UNCHANGED <<panel, actors, slow, ctl, queue, gtk, raw>>

\* Another program is selected on the device; its patch is loaded.
DevProgram ==
    /\ Acts("device")
    /\ \E p \in Range(Patches[panel]) : dev' = p /\ bus' = Append(bus, Dump(p))
    /\ UNCHANGED <<panel, actors, slow, ctl, queue, gtk, raw>>
-----------------------------------------------------------------------------
(* What there is to set.                                                   *)

\* The controls with a widget.
Shown == [delay   |-> {"delay_time"},
          effects |-> {"effect_select", "delay_enable"},
          tempo   |-> {"tempo", "mod_speed", "mod_note_select"},
          stomp   |-> {"stomp_param2", "stomp_param2_wave", "stomp_param2_octave"},
          pedal   |-> {"pedal_assign_select"}]

\* The values a control can have: 14 bits, a row of a list, a number of an effect.
Values(n) == CASE n \in {"delay_time", "tempo", "mod_speed"}   -> 0 .. 16383
               [] n \in {"effect_select", "pedal_assign_select"} -> 0 .. 2
               [] n = "effect_select:raw" -> UNION {Numbers(e) : e \in DOMAIN Effects}
               [] OTHER -> Bounds(Config(n))

\* The registers of a device whose effects are those of the table.
Registers(p) == {r \in [Sent[p] -> 0 .. 127] :
                     p = "effects" => r["effect_select:raw"] \in Values("effect_select:raw")}

ASSUME ControlsAssumption ==
    \A p \in Panels :
        /\ p \in DOMAIN Names
        /\ \A move \in UserMoves[p] : move[1] \in Shown[p] /\ move[2] \in Values(move[1])
        /\ \A move \in DevMoves[p] :
              /\ move[1] \in Sent[p] /\ move[2] \in 0 .. 127
              /\ move[1] = "effect_select:raw" => move[2] \in Values(move[1])
        /\ \A i \in DOMAIN Patches[p] : Patches[p][i] \in Registers(p)
        /\ 1 \in DOMAIN Patches[p]

\* The values that follow from a patch.
Following(regs, n) ==
    CASE n \in {"delay_time", "tempo", "mod_speed"} -> regs[Msb(n)] * 128 + regs[Lsb(n)]
      [] n = "effect_select"       -> (CHOOSE e \in EffectOf(regs["effect_select:raw"]) : TRUE) - 1
      [] n = "pedal_assign_select" -> BucketOf(regs["pedal_assign"])
      [] n \in {"stomp_param2_wave", "stomp_param2_octave"} ->
             FromMidi(Config(n), regs["stomp_param2"])
      [] OTHER -> FromMidi(Config(n), regs[n])

Init ==
    /\ panel \in Panels /\ slow \in BOOLEAN
    /\ actors \in (SUBSET {"user", "device"}) \ {{}} /\ acts = 0
    /\ dev = Patches[panel][1]
    /\ ctl = [n \in Names[panel] |-> [val |-> Following(dev, n), origin |-> "NONE"]]
    /\ raw = [n \in Range(Addressed[panel]) |-> PatchValue(dev, n)]
    /\ queue = <<>> /\ gtk = Idle /\ bus = <<>>

Tasks == GtkReceive \/ GtkCallback \/ GtkPass \/ AppTask
Next  == Tasks \/ User \/ DevMove \/ DevProgram

Spec == Init /\ [][Next]_controlsVars

\* Both threads run on; nobody has to touch the controls.
FairSpec == Spec /\ WF_controlsVars(GtkReceive \/ GtkCallback \/ GtkPass)
                 /\ WF_controlsVars(AppTask)
=============================================================================
