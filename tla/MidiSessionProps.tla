-------------------------- MODULE MidiSessionProps --------------------------
(***************************************************************************)
(* What the connection, the settings dialog, the context and the shutdown  *)
(* promise each other.                                                     *)
(***************************************************************************)
EXTENDS MidiSession

\* A user who waits for the program never makes it panic: the context is there
\* when it is taken over, the configuration when the dialog is cancelled.
PatientUserIsSafe == Patient => panic = {}

\* While the dialog can be used, no session reads the device's line: a reply to
\* the detection or the test is never taken by a MIDI-in task.
DialogHasTheLine ==
    Patient /\ dialog \in {"ready", "works"} =>
        \A s \in DOMAIN sessions : Over(s)

\* When the events are handled, the application task's context is the one of
\* the configuration that was installed last, in whatever order the hand-overs
\* ran.
CtxMatchesConfig == AtRest /\ panic = {} => ctx = config /\ share = NoConfig

\* A shutdown that was asked for is carried out (the device is attached by MIDI
\* cables), and not before the tasks of every session are gone: the ports are
\* closed, after the quiet time they need.
Quits ==
    quitting = "asked" /\ ~Usb
        ~> \/ quitting = "quit" /\ (Patient => \A s \in DOMAIN sessions : Over(s))
           \/ panic # {}
=============================================================================
