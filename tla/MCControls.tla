---------------------------- MODULE MCControls ----------------------------
EXTENDS ControlsProps, TLC

MCPanels == {"delay", "effects", "tempo", "stomp", "pedal"}

\* 14-bit values that share a half, and differ in both.
MCUserMoves ==
    [delay   |-> {<<"delay_time", 128>>, <<"delay_time", 129>>, <<"delay_time", 259>>},
     effects |-> {<<"effect_select", 0>>, <<"effect_select", 1>>, <<"effect_select", 2>>,
                  <<"delay_enable", 0>>, <<"delay_enable", 1>>},
     tempo   |-> {<<"tempo", 600>>, <<"tempo", 1200>>, <<"mod_speed", 129>>,
                  <<"mod_note_select", 0>>, <<"mod_note_select", 6>>},
     stomp   |-> {<<"stomp_param2", 20>>, <<"stomp_param2", 127>>,
                  <<"stomp_param2_wave", 7>>, <<"stomp_param2_octave", 8>>},
     pedal   |-> {<<"pedal_assign_select", 0>>, <<"pedal_assign_select", 1>>,
                  <<"pedal_assign_select", 2>>}]

MCDevMoves ==
    [delay   |-> {<<"delay_time:msb", 1>>, <<"delay_time:msb", 2>>, <<"delay_time:lsb", 1>>},
     effects |-> {<<"effect_select:raw", 2>>, <<"effect_select:raw", 6>>,
                  <<"effect_select:raw", 10>>, <<"delay_enable", 0>>},
     tempo   |-> {<<"tempo:msb", 9>>, <<"tempo:lsb", 48>>, <<"mod_speed:msb", 1>>,
                  <<"mod_note_select", 6>>},
     stomp   |-> {<<"stomp_param2", 0>>, <<"stomp_param2", 100>>},
     pedal   |-> {<<"pedal_assign", 41>>, <<"pedal_assign", 85>>, <<"pedal_assign", 127>>}]

\* A device that only sends patches.
MCPatchesOnly == [p \in MCPanels |-> {}]

Delay(h, l) == "delay_time:msb" :> h @@ "delay_time:lsb" :> l
Tempo(t, s, n) == "tempo:msb" :> t \div 128 @@ "tempo:lsb" :> t % 128
                  @@ "mod_speed:msb" :> s \div 128 @@ "mod_speed:lsb" :> s % 128
                  @@ "mod_note_select" :> n
Effect(r) == "effect_select:raw" :> r @@ "delay_enable" :> (IF Delays(r) THEN 127 ELSE 0)

MCPatches ==
    [delay   |-> <<Delay(0, 0), Delay(2, 3)>>,
     effects |-> <<Effect(10), Effect(14)>>,
     tempo   |-> <<Tempo(600, 0, 0), Tempo(1200, Speed(1200), 6)>>,
     stomp   |-> <<"stomp_param2" :> 0, "stomp_param2" :> 127>>,
     pedal   |-> <<"pedal_assign" :> 0, "pedal_assign" :> 64>>]
=============================================================================
