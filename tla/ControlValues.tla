--------------------------- MODULE ControlValues ---------------------------
(***************************************************************************)
(* The kinds of controls and their values: on the screen, as MIDI bytes,   *)
(* and in the edit buffer.                                                 *)
(***************************************************************************)
EXTENDS Integers, Sequences

Normal                == [kind |-> "normal"]
Switch(inverted)      == [kind |-> "switch", inverted |-> inverted]
Select                == [kind |-> "select"]
Short(from, to, edge) == [kind |-> "short", from |-> from, to |-> to, edge |-> edge]
Long(from, to)        == [kind |-> "long", from |-> from, to |-> to]
Steps(steps)          == [kind |-> "steps", steps |-> steps]
Function(name)        == [kind |-> "function", name |-> name]
Multibyte(from, to)   == [kind |-> "multibyte", from |-> from, to |-> to]

Eight == <<0, 16, 32, 48, 64, 80, 96, 112>>

\* What the controls of the devices are declared with.
Pod2Controls == {Normal, Switch(FALSE), Select, Short(0, 63, FALSE), Short(0, 5, FALSE),
                 Short(0, 1, FALSE), Long(0, 6250), Long(0, 312), Long(1, 780),
                 Function("gate_pod2"), Multibyte(0, 16383)}
XtControls   == {Normal, Switch(FALSE), Switch(TRUE), Select, Short(0, 8, TRUE),
                 Steps(Eight), Long(0, 16383), Long(300, 2400),
                 Function("gate_xt"), Function("heel_toe")}
BassControls == {Normal, Switch(FALSE), Switch(TRUE), Select, Short(0, 8, TRUE),
                 Steps(Eight), Steps(<<0, 32, 64>>), Long(0, 16383), Long(300, 2400),
                 Function("gate_xt")}
-----------------------------------------------------------------------------
AtMost(a, b)  == IF a < b THEN a ELSE b
AsInt(b)      == IF b THEN 1 ELSE 0

\* The last value of an "edge" range is on 127 alone, the others share the rest.
Shared(c) == 128 \div ((IF c.edge THEN c.to - 1 ELSE c.to) - c.from + 1)

ShortFromMidi(c, m) ==
    IF c.edge /\ m = 127 THEN c.to ELSE (m \div Shared(c)) + c.from

\* Mutant: the last value of an "edge" range is no exception.
ShortToMidiEven(c, v) == ((v - c.from) * Shared(c)) % 256

ShortToMidi(c, v) ==
    IF c.edge /\ v >= c.to THEN 127 ELSE ((v - c.from) * Shared(c)) % 256

\* The last step that is not above the value.
StepsFromMidi(c, m) ==
    LET reached == {i \in DOMAIN c.steps : \A j \in 1 .. i : c.steps[j] <= m}
    IN IF reached = {} THEN 0 ELSE (CHOOSE i \in reached : \A j \in reached : j <= i) - 1

StepsToMidi(c, v) == c.steps[AtMost(v, Len(c.steps) - 1) + 1]

FunctionFromMidi(name, m) ==
    CASE name = "gate_pod2" -> ((127 - m) * 194) \div 256
      [] name = "gate_xt"   -> 96 - AtMost(m, 96)
      [] name = "heel_toe"  -> IF m <= 17 THEN 0
                               ELSE IF m >= 112 THEN 48 ELSE (m - 18) \div 2 + 1

FunctionToMidi(name, v) ==
    CASE name = "gate_pod2" -> (127 * 194 - v * 256) \div 194
      [] name = "gate_xt"   -> 96 - AtMost(v, 96)
      [] name = "heel_toe"  -> IF v = 0 THEN 0
                               ELSE IF v = 48 THEN 127 ELSE (v - 1) * 2 + 18

FromMidi(c, m) ==
    CASE c.kind = "short"    -> ShortFromMidi(c, m)
      [] c.kind = "steps"    -> StepsFromMidi(c, m)
      [] c.kind = "long"     -> (m * (c.to - c.from)) \div 127 + c.from
      [] c.kind = "function" -> FunctionFromMidi(c.name, m)
      [] c.kind = "switch"   -> AsInt((m > 63) # c.inverted)
      [] OTHER               -> m

ToMidi(c, v) ==
    CASE c.kind = "short"    -> ShortToMidi(c, v)
      [] c.kind = "steps"    -> StepsToMidi(c, v)
      [] c.kind = "long"     -> ((v - c.from) * 127) \div (c.to - c.from)
      [] c.kind = "function" -> FunctionToMidi(c.name, v)
      [] c.kind = "switch"   -> IF (v > 0) # c.inverted THEN 127 ELSE 0
      [] OTHER               -> v % 256

\* RangeConfig::bounds.
Bounds(c) ==
    CASE c.kind \in {"short", "long", "multibyte"} -> c.from .. c.to
      [] c.kind = "steps"    -> 0 .. Len(c.steps) - 1
      [] c.kind = "function" ->
             LET a == FunctionFromMidi(c.name, 0)
                 b == FunctionFromMidi(c.name, 127)
             IN AtMost(a, b) .. (a + b - AtMost(a, b))
      [] c.kind = "switch"   -> 0 .. 1
      [] OTHER               -> 0 .. 127
-----------------------------------------------------------------------------
(* In the buffer of a POD 2.0; a PODxt keeps the MIDI value.               *)

Size(c) == CASE c.kind = "multibyte" -> 4 [] c.kind = "long" -> 2 [] OTHER -> 1

BytesOf(n, size) ==
    CASE size = 4 -> <<(n \div 16777216) % 256, (n \div 65536) % 256,
                       (n \div 256) % 256, n % 256>>
      [] size = 2 -> <<(n \div 256) % 256, n % 256>>
      [] OTHER    -> <<n % 256>>

NumberOf(b) ==
    CASE Len(b) = 4 -> b[1] * 16777216 + b[2] * 65536 + b[3] * 256 + b[4]
      [] Len(b) = 2 -> b[1] * 256 + b[2]
      [] OTHER      -> b[1]

ToBuffer(c, v) ==
    BytesOf(CASE c.kind = "multibyte" -> v * 6
              [] c.kind = "switch"    -> AsInt((v # 0) # c.inverted)
              [] OTHER                -> v,
            Size(c))

FromBuffer(c, b) ==
    CASE c.kind = "multibyte" -> AtMost(NumberOf(b) \div 6, 65535)
      [] c.kind = "switch"    -> AsInt((NumberOf(b) # 0) # c.inverted)
      [] OTHER                -> NumberOf(b)
=============================================================================
