----------------------------- MODULE UsbStream -----------------------------
(***************************************************************************)
(* What the input of a USB device promises to its reader (the MidiIn of    *)
(* pod-core/midi_io): a stream yields the packets the device sent, in      *)
(* their order, no packet is yielded twice, by whatever stream, and a      *)
(* stream that has ended yields nothing more.                              *)
(***************************************************************************)
EXTENDS Naturals, Sequences

CONSTANTS Streams,  \* every input that is ever opened
          Packets   \* what a device may send, numbered in its order

VARIABLES
    got,    \* stream -> the packets it yielded
    ended,  \* the streams that have ended
    newest  \* the newest packet yielded by any stream

streamVars == <<got, ended, newest>>

Init == /\ got = [s \in Streams |-> <<>>]
        /\ ended = {}
        /\ newest = 0

\* A packet may be lost between two streams, never repeated or overtaken.
Yield(s, p) ==
    /\ s \notin ended
    /\ p > newest
    /\ newest' = p
    /\ got' = [got EXCEPT ![s] = Append(@, p)]
    /\ UNCHANGED ended

End(s) == /\ ended' = ended \cup {s}
          /\ UNCHANGED <<got, newest>>

Next == \E s \in Streams : End(s) \/ \E p \in Packets : Yield(s, p)

Spec == Init /\ [][Next]_streamVars
=============================================================================
