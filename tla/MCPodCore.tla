----------------------------- MODULE MCPodCore -----------------------------
EXTENDS PodCoreProps, TLC

CONSTANTS p1, p2, Tuner,
          MaxActs   \* bound of a burst: how often the user and the device act

VARIABLES acts,
          same    \* what all patches have in common: their value or their name

MCPrograms == {p1, p2}
MCSeq      == <<p1, p2>>
MCModes    == {Manual, Tuner}
\* POD 2.0: 0 is manual mode, then the programs from 1, then the tuner.
MCPcNum    == Manual :> 0 @@ p1 :> 1 @@ p2 :> 2 @@ Tuner :> 3
MCBlank    == [val |-> 0, name |-> "a"]

-----------------------------------------------------------------------------
(* One thing at a time, without end: MaxBacklog = 0.  The patches differ   *)
(* either in their values or in their names; with names only the user acts *)
(* (without the tuner), and the device answers.  No handler mixes the two. *)

Patches == {raw, devEdit} \cup {data[p] : p \in Programs} \cup {devProgs[p] : p \in Programs}
Common  == /\ \A q \in Patches : q[same] = Blank[same]
           /\ same = "val" => ctl = Blank.val

SeqInit == Init /\ acts = 0 /\ same \in DOMAIN Blank /\ Common

SeqNext == /\ \/ System
              \/ User /\ (same = "val" => prog' # Tuner)
              \/ Device /\ same = "name"
           /\ UNCHANGED <<acts, same>>
           /\ Common'

SeqSpec     == SeqInit /\ [][SeqNext]_<<vars, acts, same>>
FairSeqSpec == SeqSpec /\ Fairness

(* From rest, with the first program selected, a burst of MaxActs actions, *)
(* each of them at any time.                                               *)

Act == /\ acts <= MaxActs /\ acts' = acts + 1
       /\ acts = 0 => Quiescent /\ UserProgram(p1)
       /\ acts = 1 => Quiescent
       /\ User \/ Device

BurstInit == Init /\ acts = 0 /\ same = "none"
BurstNext == (Act \/ (System /\ UNCHANGED acts)) /\ UNCHANGED same

BurstSpec == BurstInit /\ [][BurstNext]_<<vars, acts, same>>
=============================================================================
