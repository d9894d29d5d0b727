---------------------------- MODULE MCXtHandler ----------------------------
EXTENDS XtHandlerProps, TLC

CONSTANTS p1, p2, e1,
          MaxActs,  \* bound of a burst: how often the user and the device act
          Part      \* what a burst consists of

VARIABLE acts

MCPrograms == {p1, p2}
MCSeq      == <<p1, p2>>
MCEffects  == {e1}
MCEffSeq   == <<e1>>
MCPcNum    == p1 :> 0 @@ p2 :> 1
MCBlank    == [val |-> 0, name |-> "a"]

\* The device: its second program is selected, edited and, where there is
\* more than one value, other than the first.
MCVal(v) == [MCBlank EXCEPT !.val = IF v \in Vals THEN v ELSE 0]
MCInit == /\ XtInit /\ acts = 0
          /\ devProg = p2 /\ devProgs = [p \in Programs |-> MCVal(IF p = p1 THEN 0 ELSE 1)]
          /\ devEdit = Blank

\* What the user and the device do, all of it or a part of it.
Grid(e) == UserGrid(e) /\ UNCHANGED ownVars

Acts ==
    CASE Part = "all"   -> CoreUser \/ XtDevice
      [] Part = "load"  -> \E p \in Programs : Grid(LoadEvent(p, "UI"))
      [] Part = "grid"  -> \/ \E v \in Vals : UserEdit(v) /\ UNCHANGED ownVars
                           \/ \E p \in Programs : \E e \in GridActions(p) \ {CopyEvent(p, EditBuffer)} : Grid(e)
                           \/ \E p \in Programs : UserProgram(p) /\ UNCHANGED ownVars
                           \/ \E p \in Programs : UserLoadUnmodified(p) /\ UNCHANGED ownVars
                           \/ \E p \in Programs : DevProgram(p) /\ devProg' = p /\ UNCHANGED <<handlerVars, devGot>>
-----------------------------------------------------------------------------
(* One thing at a time, without end: MaxBacklog = 0.                       *)

SeqNext     == (Acts \/ XtSystem) /\ UNCHANGED acts
SeqSpec     == MCInit /\ [][SeqNext]_<<xtVars, acts>>
FairSeqSpec == SeqSpec /\ XtFairness

(* After the startup a burst of MaxActs actions, each of them at any time. *)

Act == /\ acts < MaxActs /\ acts' = acts + 1
       /\ acts = 0 => Quiescent
       /\ Acts

BurstNext == Act \/ (XtSystem /\ UNCHANGED acts)

BurstSpec == MCInit /\ [][BurstNext]_<<xtVars, acts>>
=============================================================================
