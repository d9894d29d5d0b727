--------------------------- MODULE ControlsProps ---------------------------
(***************************************************************************)
(* What controls that set each other promise.                              *)
(***************************************************************************)
EXTENDS Controls

Val(n) == ctl[n].val

Joined(n) == Val(n) = Val(Msb(n)) * 128 + Val(Lsb(n))

\* When everything is handled, the controls of a panel agree with each other: a
\* 14-bit value with its halves, the effect with its raw number, a parameter with the
\* ways it is shown.
ControlsAgree ==
    AtRest =>
        /\ panel = "delay"   => Joined("delay_time")
        /\ panel = "effects" => Val("effect_select") + 1 \in EffectOf(Val("effect_select:raw"))
        /\ panel = "tempo"   => Joined("tempo") /\ Joined("mod_speed")
        /\ panel = "stomp"   => \A n \in {"stomp_param2_wave", "stomp_param2_octave"} :
                                   Val(n) = FromMidi(Config(n), Val("stomp_param2"))
        /\ panel = "pedal"   => Val("pedal_assign_select") = BucketOf(Val("pedal_assign"))

\* Controls that follow from others: the speed from a note, which is not written to
\* the edit buffer, and the switch of the delay from the effect.
Derived == {"mod_speed:msb", "mod_speed:lsb", "delay_enable"}

\* The controls agree with the bytes of the edit buffer that are stored with the patch:
\* always, but for controls with halves after two quick changes.
BufferMatches ==
    AtRest /\ (slow \/ panel \notin {"delay", "tempo"}) =>
        \A n \in DOMAIN raw \ Derived : raw[n] = Val(n)

SpeedFollows ==
    panel = "tempo" /\ Val("mod_note_select") # 0 => Val("mod_speed") = Speed(Val("tempo"))

\* ... and with the device, when it and the user wait for each other: each control has
\* the value of its register, and the speed is that of the note in the tempo.
AgreesWithDevice ==
    AtRest /\ slow =>
        /\ \A n \in Sent[panel] \ {"delay_enable"} : dev[n] = ToMidi(Config(n), Val(n))
        /\ SpeedFollows

\* What comes from the device is not sent back to it.
Sending == \E e \in Range(bus) : e.type = "out"

OnlyUserSends ==
    actors = {"device"} /\ (panel # "effects" \/ slow) => ~Sending

\* "In case of program change, always send a signal that the data change is
\* coming from MIDI so that the GUI gets updated, but the MIDI does not."
LoadsSendNothing == actors = {"device"} => ~Sending

\* Controls that set each other come to rest.
ControlsSettle == []<>AtRest

\* A value survives the way to the device, and to the buffer, and back; one of a
\* wide range keeps all that 128 MIDI values can tell.
ValuesSurvive ==
    acts = 0 /\ AtRest =>
        \A c \in Pod2Controls \cup XtControls \cup BassControls : \A v \in Bounds(c) :
            LET m == ToMidi(c, v) IN
            /\ c.kind \notin {"long", "multibyte"} => (m \in 0 .. 127 /\ FromMidi(c, m) = v)
            /\ c.kind = "long" => /\ m \in 0 .. 127
                                 /\ v - FromMidi(c, m) \in 0 .. (c.to - c.from) \div 127 + 1
            /\ FromBuffer(c, ToBuffer(c, v)) = v
=============================================================================
