--------------------------- MODULE UsbDeviceProofs ---------------------------
(***************************************************************************)
(* UsbDevice for every number of owners, transfers, packets and plugs.     *)
(* Joined or not: no transfer is used after it was freed, and the inputs   *)
(* of all openings implement the abstract stream.  When Joined: an open    *)
(* device is held, and nobody's device is the kernel driver's.             *)
(***************************************************************************)
EXTENDS UsbDeviceProps, SequenceTheorems, TLAPS

(***************************************************************************)
(* The inductive invariant.                                                *)
(***************************************************************************)

Opens == {"detach", "claim", "submit"}

\* One owner opens the device at a time, and there is room for its transfer.
OpeningInv ==
    /\ \A o \in Owners : pc[o] \in Opens => devices = o /\ Len(xfers) < MaxTransfers
    /\ \A o \in Owners : pc[o] \in {"open", "cancel"} => inner[o].read \in DOMAIN xfers

\* A transfer that libusb has is allocated and is no leftover; one that is still
\* wanted is with libusb.
TransferInv ==
    \A t \in DOMAIN xfers :
        /\ xfers[t].usb # "idle" => xfers[t].mem = "live"
        /\ xfers[t].status = "Ok" => xfers[t].usb # "idle"
        /\ xfers[t].usb = "flying" => xfers[t].packet = 0
        /\ xfers[t].kind = "write" => xfers[t].packet = 0 /\ xfers[t].out = <<>>

Pending(t) == \E i \in DOMAIN completed : completed[i] = t

\* The completed transfers wait for the event thread once, and it works on one
\* that is not among them.
EventInv ==
    /\ \A i \in DOMAIN completed :
           completed[i] \in DOMAIN xfers /\ xfers[completed[i]].usb = "done"
    /\ \A i, j \in DOMAIN completed : i # j => completed[i] # completed[j]
    /\ \A t \in DOMAIN xfers : xfers[t].usb = "done" =>
           Pending(t) \/ (event.at = "locked" /\ event.t = t)
    /\ event.at = "wait" => event.t = 0
    /\ event.at # "wait" => event.t \in DOMAIN xfers /\ xfers[event.t].mem = "live"
    /\ event.at = "locked" => xfers[event.t].usb = "done" /\ ~Pending(event.t)
    /\ event.at \in {"drop", "free"} => xfers[event.t].usb = "idle"

UsbInv == UsbTypeOK /\ OpeningInv /\ TransferInv /\ EventInv

\* What is still to be yielded is newer than what was, and in its order.
Carriers == {t \in DOMAIN xfers : xfers[t].usb = "done" /\ xfers[t].packet # 0}

OrderInv ==
    /\ \A i \in DOMAIN wire : wire[i] <= sent
    /\ \A i, j \in DOMAIN wire : i < j => wire[i] < wire[j]
    /\ \A t \in DOMAIN xfers : t \in Carriers =>
           xfers[t].packet <= sent /\ \A i \in DOMAIN wire : xfers[t].packet < wire[i]
    /\ \A i, j \in DOMAIN completed : i < j /\ completed[i] \in Carriers /\ completed[j] \in Carriers
           => xfers[completed[i]].packet < xfers[completed[j]].packet
    /\ \A i \in DOMAIN completed :
           event.at = "locked" /\ event.t \in Carriers /\ completed[i] \in Carriers
           => xfers[event.t].packet < xfers[completed[i]].packet

YieldInv ==
    /\ \A y \in Yielded :
           /\ y <= sent
           /\ \A i \in DOMAIN wire : y < wire[i]
           /\ \A t \in DOMAIN xfers : t \in Carriers => y < xfers[t].packet
    /\ \E n \in Yielded \cup {0} : \A m \in Yielded : n >= m

-----------------------------------------------------------------------------
(* The operations on one transfer.                                         *)

LEMMA SubmittedFacts ==
    ASSUME NEW x \in XferType
    PROVE  /\ Submitted(x) \in XferType
           /\ Submitted(x).kind = x.kind /\ Submitted(x).mem = x.mem
           /\ Submitted(x).plug = x.plug /\ Submitted(x).out = x.out
           /\ Submitted(x).status = x.status
           /\ Submitted(x).usb = "flying" /\ Submitted(x).packet = 0
<1>1. 0 \in 0 .. MaxPackets
  BY UsbDeviceAssumption
<1> QED BY <1>1 DEF Submitted, XferType

LEMMA DeliveredFacts ==
    ASSUME NEW x \in XferType
    PROVE  /\ Delivered(x) \in XferType
           /\ Delivered(x).kind = x.kind /\ Delivered(x).mem = x.mem
           /\ Delivered(x).plug = x.plug /\ Delivered(x).status = x.status
           /\ Delivered(x).usb = x.usb /\ Delivered(x).packet = x.packet
           /\ Delivered(x).out = IF x.kind = "read" /\ x.packet # 0 /\ x.status = "Ok"
                                 THEN Append(x.out, x.packet) ELSE x.out
<1>1. x.packet # 0 => x.packet \in 1 .. MaxPackets
  BY UsbDeviceAssumption DEF XferType
<1>2. x.packet # 0 => Append(x.out, x.packet) \in Seq(1 .. MaxPackets)
  BY <1>1 DEF XferType
<1> QED BY <1>2 DEF Delivered, XferType

LEMMA DroppedFacts ==
    ASSUME NEW x \in XferType
    PROVE  /\ Dropped(x) \in XferType
           /\ Dropped(x).kind = x.kind /\ Dropped(x).mem = x.mem
           /\ Dropped(x).plug = x.plug /\ Dropped(x).out = x.out
           /\ Dropped(x).packet = x.packet
           /\ Dropped(x).usb = "idle" /\ Dropped(x).status = "Cancel"
BY DEF Dropped, XferType, Statuses

LEMMA CancelledFacts ==
    ASSUME NEW x \in XferType
    PROVE  /\ Cancelled(x) \in XferType
           /\ Cancelled(x).kind = x.kind /\ Cancelled(x).mem = x.mem
           /\ Cancelled(x).plug = x.plug /\ Cancelled(x).out = x.out
           /\ Cancelled(x).packet = x.packet /\ Cancelled(x).status = "Cancel"
           /\ Cancelled(x).usb = IF x.usb = "flying" THEN "done" ELSE x.usb
BY DEF Cancelled, XferType, Statuses

LEMMA RefusedFacts ==
    ASSUME NEW x \in XferType
    PROVE  /\ Refused(x) \in XferType
           /\ Refused(x).kind = x.kind /\ Refused(x).mem = x.mem
           /\ Refused(x).plug = x.plug /\ Refused(x).out = x.out
           /\ Refused(x).packet = x.packet
           /\ Refused(x).usb = "idle" /\ Refused(x).status = "Cancel"
<1>1. /\ [Dropped(x) EXCEPT !.refused = TRUE] \in XferType
      /\ Refused(x) = [Dropped(x) EXCEPT !.refused = TRUE]
  BY DroppedFacts DEF Refused, XferType
<1> QED BY <1>1, DroppedFacts DEF XferType

\* A transfer that was just submitted, or refused and freed.
Fresh(x, kind) ==
    /\ x \in XferType /\ x.kind = kind /\ x.packet = 0 /\ x.out = <<>>
    /\ \/ x.usb = "flying" /\ x.mem = "live"
       \/ x.usb = "idle" /\ x.status # "Ok"

LEMMA NewFacts ==
    ASSUME NEW g \in 0 .. MaxPlugs, NEW kind \in {"read", "write"}
    PROVE  /\ \E x : Fresh(x, kind) /\ NewTransfer(g, kind) = Append(xfers, x)
           /\ \E x : Fresh(x, kind) /\ RefusedTransfer(g, kind) = Append(xfers, x)
<1> DEFINE x == Transfer(g, kind)
<1>1. /\ x \in XferType /\ x.kind = kind /\ x.packet = 0
      /\ x.out = <<>> /\ x.mem = "live"
  BY UsbDeviceAssumption DEF Transfer, XferType, Statuses
<1>2. /\ NewTransfer(g, kind) = Append(xfers, Submitted(x))
      /\ RefusedTransfer(g, kind) = Append(xfers, [Refused(x) EXCEPT !.mem = "freed"])
  BY DEF NewTransfer, RefusedTransfer
<1> HIDE DEF x
<1>3. Fresh(Submitted(x), kind)
  BY <1>1, SubmittedFacts DEF Fresh
<1>4. Fresh([Refused(x) EXCEPT !.mem = "freed"], kind)
  <2>1. /\ [Refused(x) EXCEPT !.mem = "freed"] \in XferType
        /\ [Refused(x) EXCEPT !.mem = "freed"].kind = Refused(x).kind
        /\ [Refused(x) EXCEPT !.mem = "freed"].packet = Refused(x).packet
        /\ [Refused(x) EXCEPT !.mem = "freed"].out = Refused(x).out
        /\ [Refused(x) EXCEPT !.mem = "freed"].usb = Refused(x).usb
        /\ [Refused(x) EXCEPT !.mem = "freed"].status = Refused(x).status
    BY <1>1, RefusedFacts DEF XferType
  <2> QED BY <1>1, <2>1, RefusedFacts DEF Fresh
<1> QED BY <1>2, <1>3, <1>4

-----------------------------------------------------------------------------
(* Types and the opening.                                                  *)

LEMMA InnerFacts ==
    ASSUME NEW i \in InnerType
    PROVE  /\ \A g \in 0 .. MaxPlugs : [NoInner EXCEPT !.plug = g] \in InnerType
           /\ NoInner \in InnerType
           /\ \A b \in BOOLEAN : [i EXCEPT !.listed = b] \in InnerType
           /\ \A b, a \in BOOLEAN :
                  /\ [i EXCEPT !.listed = b, !.attach = a] \in InnerType
                  /\ [i EXCEPT !.listed = b, !.attach = a].read = i.read
           /\ \A n \in 0 .. MaxTransfers :
                  /\ [i EXCEPT !.read = n, !.halves = Halves] \in InnerType
                  /\ [i EXCEPT !.read = n, !.halves = Halves].read = n
           /\ \A hs \in SUBSET Halves : /\ [i EXCEPT !.halves = hs] \in InnerType
                                        /\ [i EXCEPT !.halves = hs].read = i.read
<1>1. 0 \in 0 .. MaxPlugs /\ 0 \in 0 .. MaxTransfers
  BY UsbDeviceAssumption
<1> QED BY <1>1 DEF InnerType, NoInner, Halves

LEMMA OwnerKeeps ==
    ASSUME UsbInv, NEW o \in Owners,
           OpenStart(o) \/ DetachDriver(o) \/ ClaimInterface(o) \/ ReleaseInterface(o)
               \/ AttachDriver(o) \/ \E h \in Halves : DropHalf(o, h)
    PROVE  UsbTypeOK' /\ OpeningInv' /\ UNCHANGED <<xfers, completed, event>>
<1> USE DEF UsbInv
<1>1. /\ inner \in [Owners -> InnerType] /\ pc \in [Owners -> Steps]
      /\ xfers \in Seq(XferType) /\ Len(xfers) \in Nat /\ MaxTransfers \in Nat
      /\ NoOwner \notin Owners
  BY UsbDeviceAssumption DEF UsbTypeOK
<1>2. CASE OpenStart(o)
  <2>1. UNCHANGED <<xfers, completed, event, plug, plugs, driver, claimed, sent, wire>>
    BY <1>2 DEF OpenStart, busVars, eventVars
  <2>2. /\ devices = NoOwner /\ Len(xfers) < MaxTransfers
        /\ known' \in 0 .. MaxPlugs /\ weak' \in Owners \cup {NoOwner}
    BY <1>1, <1>2 DEF OpenStart, Enumerated, Room, UsbTypeOK
  <2>3. \/ /\ devices' = o /\ pc' = [pc EXCEPT ![o] = "detach"]
           /\ inner' = [inner EXCEPT ![o] = [NoInner EXCEPT !.plug = plug]]
        \/ UNCHANGED <<devices, pc, inner>>
    BY <1>2 DEF OpenStart, ownerVars
  <2>4. [NoInner EXCEPT !.plug = plug] \in InnerType
    BY <1>1, InnerFacts DEF UsbTypeOK
  <2>5. UsbTypeOK'
    BY <2>1, <2>2, <2>3, <2>4, <1>1 DEF UsbTypeOK, Steps
  <2>6. OpeningInv'
    BY <2>1, <2>2, <2>3, <1>1 DEF OpeningInv, Opens
  <2> QED BY <2>1, <2>5, <2>6
<1>3. CASE DetachDriver(o)
  <2>1. /\ UNCHANGED <<xfers, completed, event, plug, plugs, claimed, sent, wire,
                       known, weak, devices>>
        /\ pc[o] = "detach" /\ pc' = [pc EXCEPT ![o] = "claim"]
        /\ driver' \in BOOLEAN
    BY <1>3 DEF DetachDriver, tableVars, eventVars
  <2>2. PICK b \in BOOLEAN, a \in BOOLEAN :
            inner' = [inner EXCEPT ![o] = [@ EXCEPT !.listed = b, !.attach = a]]
    BY <1>3, Zenon DEF DetachDriver
  <2>3. /\ [inner[o] EXCEPT !.listed = b, !.attach = a] \in InnerType
        /\ [inner[o] EXCEPT !.listed = b, !.attach = a].read = inner[o].read
    BY <1>1, InnerFacts
  <2>4. UsbTypeOK'
    BY <2>1, <2>2, <2>3, <1>1 DEF UsbTypeOK, Steps
  <2>5. OpeningInv'
    BY <2>1, <2>2, <2>3, <1>1 DEF OpeningInv, Opens
  <2> QED BY <2>1, <2>4, <2>5
<1>4. CASE ClaimInterface(o)
  <2>1. /\ UNCHANGED <<xfers, completed, event, plug, plugs, sent, wire,
                       known, weak, devices, inner>>
        /\ pc[o] = "claim" /\ pc' = [pc EXCEPT ![o] = "submit"]
        /\ driver' \in BOOLEAN /\ claimed' \in BOOLEAN
    BY <1>1, <1>4 DEF ClaimInterface, tableVars, eventVars, UsbTypeOK
  <2> QED BY <2>1, <1>1 DEF UsbTypeOK, Steps, OpeningInv, Opens
<1>5. CASE ReleaseInterface(o)
  <2>1. /\ UNCHANGED <<xfers, completed, event, plug, plugs, driver, sent, wire,
                       known, weak, devices, inner>>
        /\ pc[o] = "release" /\ pc' = [pc EXCEPT ![o] = "attach"]
        /\ claimed' \in BOOLEAN
    BY <1>5 DEF ReleaseInterface, tableVars, eventVars
  <2> QED BY <2>1, <1>1 DEF UsbTypeOK, Steps, OpeningInv, Opens
<1>6. CASE AttachDriver(o)
  <2>1. /\ UNCHANGED <<xfers, completed, event, plug, plugs, claimed, sent, wire,
                       known, weak>>
        /\ pc[o] = "attach" /\ pc' = [pc EXCEPT ![o] = "idle"]
        /\ inner' = [inner EXCEPT ![o] = NoInner]
        /\ devices' = IF devices = o THEN NoOwner ELSE devices
        /\ driver' \in BOOLEAN
    BY <1>6 DEF AttachDriver, eventVars
  <2>2. NoInner \in InnerType
    BY <1>1, InnerFacts
  <2>3. UsbTypeOK'
    BY <2>1, <2>2, <1>1 DEF UsbTypeOK, Steps
  <2>4. OpeningInv'
    BY <2>1, <1>1 DEF OpeningInv, Opens
  <2> QED BY <2>1, <2>3, <2>4
<1>7. CASE \E h \in Halves : DropHalf(o, h)
  <2>1. PICK h \in Halves : DropHalf(o, h)
    BY <1>7
  <2> DEFINE hs == inner[o].halves \ {h}
  <2>2. /\ UNCHANGED <<xfers, completed, event, plug, plugs, driver, claimed, sent, wire,
                       known, weak, devices>>
        /\ pc[o] = "open" /\ (pc' = [pc EXCEPT ![o] = "cancel"] \/ pc' = pc)
    BY <2>1 DEF DropHalf, busVars, tableVars, eventVars
  <2>3. inner' = [inner EXCEPT ![o] = [inner[o] EXCEPT !.halves = hs]]
    BY <2>1, <1>1 DEF DropHalf
  <2>4. /\ hs \in SUBSET Halves
        /\ [inner[o] EXCEPT !.halves = hs] \in InnerType
        /\ [inner[o] EXCEPT !.halves = hs].read = inner[o].read
    <3>1. inner[o] \in InnerType /\ hs \in SUBSET Halves
      BY <1>1 DEF InnerType
    <3> QED BY <3>1, InnerFacts
  <2> HIDE DEF hs
  <2>5. UsbTypeOK'
    BY <2>2, <2>3, <2>4, <1>1 DEF UsbTypeOK, Steps
  <2>6. OpeningInv'
    BY <2>2, <2>3, <2>4, <1>1 DEF OpeningInv, Opens
  <2> QED BY <2>2, <2>5, <2>6
<1> QED BY <1>2, <1>3, <1>4, <1>5, <1>6, <1>7

-----------------------------------------------------------------------------
(* The transfers.                                                          *)

LEMMA Appended ==
    ASSUME UsbInv, NEW x \in XferType, xfers' = Append(xfers, x),
           UNCHANGED <<completed, event>>,
           x.packet = 0, x.out = <<>>,
           \/ x.usb = "flying" /\ x.mem = "live"
           \/ x.usb = "idle" /\ x.status # "Ok"
    PROVE  /\ xfers' \in Seq(XferType) /\ Len(xfers') = Len(xfers) + 1
           /\ DOMAIN xfers' = DOMAIN xfers \cup {Len(xfers) + 1}
           /\ \A t \in DOMAIN xfers : xfers'[t] = xfers[t]
           /\ TransferInv' /\ EventInv'
<1>1. xfers \in Seq(XferType)
  BY DEF UsbInv, UsbTypeOK
<1>2. /\ xfers' \in Seq(XferType) /\ Len(xfers') = Len(xfers) + 1
      /\ DOMAIN xfers' = DOMAIN xfers \cup {Len(xfers) + 1}
      /\ \A t \in DOMAIN xfers : xfers'[t] = xfers[t]
      /\ xfers'[Len(xfers) + 1] = x
  BY <1>1
<1>3. TransferInv'
  BY <1>2 DEF UsbInv, TransferInv
<1>4. EventInv'
  BY <1>2 DEF UsbInv, EventInv, Pending
<1> QED BY <1>2, <1>3, <1>4

LEMMA Updated ==
    ASSUME UsbInv, NEW t \in DOMAIN xfers, NEW x \in XferType,
           xfers' = [xfers EXCEPT ![t] = x]
    PROVE  /\ xfers' \in Seq(XferType) /\ Len(xfers') = Len(xfers)
           /\ DOMAIN xfers' = DOMAIN xfers
           /\ xfers'[t] = x /\ \A u \in DOMAIN xfers \ {t} : xfers'[u] = xfers[u]
BY DEF UsbInv, UsbTypeOK

LEMMA SubmitReadKeeps ==
    ASSUME UsbInv, NEW o \in Owners, SubmitRead(o)
    PROVE  UsbInv'
<1>1. /\ inner[o] \in InnerType /\ inner[o].plug \in 0 .. MaxPlugs
      /\ pc \in [Owners -> Steps] /\ inner \in [Owners -> InnerType]
      /\ Len(xfers) \in Nat /\ MaxTransfers \in Nat
      /\ devices = o /\ Len(xfers) < MaxTransfers /\ NoOwner \notin Owners
  BY UsbDeviceAssumption DEF UsbInv, UsbTypeOK, InnerType, OpeningInv, Opens, SubmitRead
<1>2. PICK x : Fresh(x, "read") /\ xfers' = Append(xfers, x)
  <2>1. xfers' = NewTransfer(inner[o].plug, "read")
        \/ xfers' = RefusedTransfer(inner[o].plug, "read")
    BY DEF SubmitRead, ReadAccepted, ReadRefused
  <2> QED BY <1>1, <2>1, NewFacts
<1>3. UNCHANGED <<plug, plugs, driver, claimed, sent, wire, known, completed, event>>
  BY DEF SubmitRead, busVars, eventVars
<1>4. /\ xfers' \in Seq(XferType) /\ Len(xfers') = Len(xfers) + 1
      /\ DOMAIN xfers' = DOMAIN xfers \cup {Len(xfers) + 1}
      /\ TransferInv' /\ EventInv'
  BY <1>2, <1>3, Appended DEF Fresh
<1>5. Len(xfers') \in 0 .. MaxTransfers
  BY <1>1, <1>4
<1>6. CASE ReadAccepted(o)
  <2>1. /\ pc' = [pc EXCEPT ![o] = "open"] /\ weak' = o /\ devices' = NoOwner
        /\ inner' = [inner EXCEPT ![o] = [inner[o] EXCEPT !.read = Len(xfers'),
                                                          !.halves = Halves]]
    BY <1>1, <1>6 DEF ReadAccepted
  <2>2. /\ [inner[o] EXCEPT !.read = Len(xfers'), !.halves = Halves] \in InnerType
        /\ [inner[o] EXCEPT !.read = Len(xfers'), !.halves = Halves].read = Len(xfers')
    BY <1>1, <1>5, InnerFacts
  <2>3. UsbTypeOK'
    BY <1>1, <1>3, <1>4, <1>5, <2>1, <2>2 DEF UsbInv, UsbTypeOK, Steps
  <2>4. OpeningInv'
    BY <1>1, <1>4, <2>1, <2>2 DEF UsbInv, OpeningInv, Opens
  <2> QED BY <1>4, <2>3, <2>4 DEF UsbInv
<1>7. CASE ReadRefused(o)
  <2>1. pc' = [pc EXCEPT ![o] = "release"] /\ UNCHANGED <<inner, weak, devices>>
    BY <1>7 DEF ReadRefused
  <2>2. UsbTypeOK'
    BY <1>1, <1>3, <1>4, <1>5, <2>1 DEF UsbInv, UsbTypeOK, Steps
  <2>3. OpeningInv'
    BY <1>1, <1>4, <2>1 DEF UsbInv, OpeningInv, Opens
  <2> QED BY <1>4, <2>2, <2>3 DEF UsbInv
<1> QED BY <1>6, <1>7 DEF SubmitRead

LEMMA SendKeeps ==
    ASSUME UsbInv, NEW o \in Owners, Send(o)
    PROVE  UsbInv'
<1>1. /\ inner[o].plug \in 0 .. MaxPlugs
      /\ Len(xfers) \in Nat /\ MaxTransfers \in Nat
      /\ Len(xfers) < MaxTransfers
      /\ devices # NoOwner => Len(xfers) + 1 < MaxTransfers
      /\ NoOwner \notin Owners
  BY UsbDeviceAssumption DEF UsbInv, UsbTypeOK, InnerType, Send, Room
<1>2. PICK x : Fresh(x, "write") /\ xfers' = Append(xfers, x)
  <2>1. xfers' = NewTransfer(inner[o].plug, "write")
        \/ xfers' = RefusedTransfer(inner[o].plug, "write")
    BY DEF Send
  <2> QED BY <1>1, <2>1, NewFacts
<1>3. UNCHANGED <<plug, plugs, driver, claimed, sent, wire, known, weak, devices,
                  pc, inner, completed, event>>
  BY DEF Send, busVars, tableVars, ownerVars, eventVars
<1>4. /\ xfers' \in Seq(XferType) /\ Len(xfers') = Len(xfers) + 1
      /\ DOMAIN xfers' = DOMAIN xfers \cup {Len(xfers) + 1}
      /\ TransferInv' /\ EventInv'
  BY <1>2, <1>3, Appended DEF Fresh
<1>5. UsbTypeOK'
  BY <1>1, <1>3, <1>4 DEF UsbInv, UsbTypeOK
<1>6. OpeningInv'
  BY <1>1, <1>3, <1>4 DEF UsbInv, OpeningInv
<1> QED BY <1>4, <1>5, <1>6 DEF UsbInv

LEMMA CancelReadKeeps ==
    ASSUME UsbInv, NEW o \in Owners, CancelRead(o)
    PROVE  UsbInv'
<1> DEFINE t == inner[o].read
<1>1. /\ t \in DOMAIN xfers /\ xfers[t] \in XferType /\ ~Locked(t)
      /\ pc \in [Owners -> Steps] /\ completed \in Seq(Ids)
      /\ DOMAIN xfers \subseteq Ids
  BY UsbDeviceAssumption DEF UsbInv, UsbTypeOK, OpeningInv, CancelRead, Ids
<1>2. /\ UNCHANGED <<plug, plugs, driver, claimed, sent, wire, known, weak, devices,
                     inner, event>>
      /\ pc[o] = "cancel" /\ pc' = [pc EXCEPT ![o] = "release"]
  BY DEF CancelRead, busVars, tableVars
<1>3. CASE xfers[t].status # "Ok"
  <2>1. UNCHANGED <<xfers, completed>>
    BY <1>3 DEF CancelRead
  <2> QED BY <1>1, <1>2, <2>1
          DEF UsbInv, UsbTypeOK, Steps, OpeningInv, Opens, TransferInv, EventInv, Pending
<1>4. CASE xfers[t].status = "Ok"
  <2>1. xfers' = [xfers EXCEPT ![t] = Cancelled(xfers[t])]
    BY <1>4 DEF CancelRead
  <2>2. /\ xfers' \in Seq(XferType) /\ Len(xfers') = Len(xfers)
        /\ DOMAIN xfers' = DOMAIN xfers
        /\ xfers'[t] = Cancelled(xfers[t])
        /\ \A u \in DOMAIN xfers \ {t} : xfers'[u] = xfers[u]
    BY <1>1, <2>1, CancelledFacts, Updated
  <2>3. completed' = IF xfers[t].usb = "flying" THEN Append(completed, t) ELSE completed
    BY <1>4 DEF CancelRead
  <2>4. /\ xfers[t].usb \in {"flying", "done"} /\ xfers[t].mem = "live"
        /\ xfers[t].usb = "flying" => xfers[t].packet = 0
    BY <1>1, <1>4 DEF UsbInv, TransferInv, XferType
  <2>5. /\ xfers'[t].usb = "done" /\ xfers'[t].mem = "live" /\ xfers'[t].status # "Ok"
        /\ xfers'[t].kind = xfers[t].kind /\ xfers'[t].packet = xfers[t].packet
        /\ xfers'[t].out = xfers[t].out
    BY <1>1, <2>2, <2>4, CancelledFacts
  <2>6. completed' \in Seq(Ids)
    BY <1>1, <2>3
  <2>7. UsbTypeOK' /\ OpeningInv'
    BY <1>1, <1>2, <2>2, <2>6 DEF UsbInv, UsbTypeOK, Steps, OpeningInv, Opens
  <2>8. TransferInv'
    BY <2>2, <2>5 DEF UsbInv, TransferInv
  <2>9. EventInv'
    <3>1. CASE xfers[t].usb = "done"
      <4>1. completed' = completed
        BY <2>3, <3>1
      <4> QED BY <1>1, <1>2, <2>2, <2>5, <3>1, <4>1 DEF UsbInv, EventInv, Pending, Locked
    <3>2. CASE xfers[t].usb = "flying"
      <4>1. completed' = Append(completed, t)
        BY <2>3, <3>2
      <4>2. /\ DOMAIN completed' = DOMAIN completed \cup {Len(completed) + 1}
            /\ \A i \in DOMAIN completed : completed'[i] = completed[i]
            /\ completed'[Len(completed) + 1] = t
        BY <1>1, <4>1
      <4>3. \A i \in DOMAIN completed : completed[i] # t
        BY <3>2 DEF UsbInv, EventInv
      <4>4. event.at \in {"wait", "free"} \/ event.t # t
        BY <1>1 DEF UsbInv, UsbTypeOK, Locked
      <4>5. event.at = "free" => event.t # t
        BY <3>2 DEF UsbInv, EventInv
      <4> QED BY <1>1, <1>2, <2>2, <2>5, <4>2, <4>3, <4>4, <4>5
              DEF UsbInv, EventInv, Pending
    <3> QED BY <2>4, <3>1, <3>2
  <2> QED BY <2>7, <2>8, <2>9 DEF UsbInv
<1> QED BY <1>3, <1>4

LEMMA CallbackStartKeeps ==
    ASSUME UsbInv, NEW t \in DOMAIN xfers, CallbackStart(t)
    PROVE  UsbInv'
<1>1. /\ UNCHANGED <<plug, plugs, driver, claimed, sent, wire, known, weak, devices,
                     pc, inner, xfers>>
      /\ completed # <<>> /\ t = completed[1] /\ completed' = Tail(completed)
      /\ event.at = "wait" /\ event' = [at |-> "locked", t |-> t]
  BY DEF CallbackStart, Waiting, busVars, tableVars, ownerVars
<1>2. /\ completed \in Seq(Ids) /\ completed' \in Seq(Ids)
      /\ Len(completed) \in Nat \ {0} /\ Len(completed') = Len(completed) - 1
      /\ \A i \in DOMAIN completed' : completed'[i] = completed[i + 1] /\ i + 1 \in DOMAIN completed
      /\ 1 \in DOMAIN completed
  BY <1>1 DEF UsbInv, UsbTypeOK
<1>3. event'.at = "locked" /\ event'.t = t /\ t \in 0 .. MaxTransfers
  BY <1>1, UsbDeviceAssumption DEF UsbInv, UsbTypeOK
<1>4. UsbTypeOK'
  BY <1>1, <1>2, <1>3 DEF UsbInv, UsbTypeOK
<1>5. OpeningInv' /\ TransferInv'
  BY <1>1 DEF UsbInv, OpeningInv, TransferInv
<1>6. EventInv'
  <2>1. xfers[t].usb = "done" /\ xfers[t].mem = "live"
    BY <1>1, <1>2 DEF UsbInv, EventInv, TransferInv
  <2>2. \A i \in DOMAIN completed' : completed'[i] # t
    BY <1>1, <1>2 DEF UsbInv, EventInv
  <2>3. \A u \in DOMAIN xfers : Pending(u) => Pending(u)' \/ u = t
    <3> SUFFICES ASSUME NEW u \in DOMAIN xfers, NEW i \in DOMAIN completed,
                        completed[i] = u, u # t
                 PROVE  Pending(u)'
      BY DEF Pending
    <3>1. i # 1 /\ i - 1 \in DOMAIN completed'
      BY <1>1, <1>2
    <3>2. completed'[i - 1] = u
      BY <1>2, <3>1
    <3> QED BY <3>1, <3>2 DEF Pending
  <2>4. \A i, j \in DOMAIN completed' : i # j => completed'[i] # completed'[j]
    BY <1>2 DEF UsbInv, EventInv
  <2>5. \A i \in DOMAIN completed' :
            completed'[i] \in DOMAIN xfers /\ xfers[completed'[i]].usb = "done"
    BY <1>2 DEF UsbInv, EventInv
  <2>6. \A u \in DOMAIN xfers : xfers[u].usb = "done" => Pending(u)
    BY <1>1 DEF UsbInv, EventInv
  <2>7. ~Pending(t)'
    BY <2>2 DEF Pending
  <2> QED BY <1>1, <1>3, <2>1, <2>3, <2>4, <2>5, <2>6, <2>7 DEF EventInv
<1> QED BY <1>4, <1>5, <1>6 DEF UsbInv

\* What the callback leaves behind.
LEMMA CallbackRunFacts ==
    ASSUME UsbInv, NEW t \in DOMAIN xfers, CallbackRun(t)
    PROVE  /\ event.at = "locked" /\ event.t = t
           /\ event' \in [at : {"keep", "drop"}, t : {t}]
           /\ xfers' \in Seq(XferType) /\ Len(xfers') = Len(xfers)
           /\ DOMAIN xfers' = DOMAIN xfers
           /\ \A u \in DOMAIN xfers \ {t} : xfers'[u] = xfers[u]
           /\ xfers'[t].kind = xfers[t].kind /\ xfers'[t].mem = xfers[t].mem
           /\ xfers'[t].plug = xfers[t].plug
           /\ xfers'[t].out = Delivered(xfers[t]).out
           /\ event'.at = "keep" => xfers'[t].usb = "flying" /\ xfers'[t].packet = 0
           /\ event'.at = "drop" => /\ xfers'[t].usb = "idle" /\ xfers'[t].status # "Ok"
                                    /\ xfers'[t].packet = xfers[t].packet
<1> DEFINE x == Delivered(xfers[t])
<1>1. xfers[t] \in XferType /\ x \in XferType
  BY DeliveredFacts DEF UsbInv, UsbTypeOK
<1>2. event = [at |-> "locked", t |-> t]
  BY DEF CallbackRun
<1>3. /\ x.kind = xfers[t].kind /\ x.mem = xfers[t].mem /\ x.plug = xfers[t].plug
      /\ x.packet = xfers[t].packet
  BY <1>1, DeliveredFacts
<1>4. \/ /\ xfers' = [xfers EXCEPT ![t] = Submitted(x)]
         /\ event' = [event EXCEPT !.at = "keep"]
      \/ /\ xfers' = [xfers EXCEPT ![t] = Refused(x)] \/ xfers' = [xfers EXCEPT ![t] = Dropped(x)]
         /\ event' = [event EXCEPT !.at = "drop"]
  BY DEF CallbackRun
<1>5. ASSUME NEW y \in XferType, xfers' = [xfers EXCEPT ![t] = y]
      PROVE  /\ xfers' \in Seq(XferType) /\ Len(xfers') = Len(xfers)
             /\ DOMAIN xfers' = DOMAIN xfers
             /\ xfers'[t] = y /\ \A u \in DOMAIN xfers \ {t} : xfers'[u] = xfers[u]
  BY <1>5, Updated
<1>6. /\ Submitted(x) \in XferType /\ Refused(x) \in XferType /\ Dropped(x) \in XferType
  BY <1>1, SubmittedFacts, RefusedFacts, DroppedFacts
<1>7. x.out = Delivered(xfers[t]).out
  OBVIOUS
<1> HIDE DEF x
<1>8. CASE xfers' = [xfers EXCEPT ![t] = Submitted(x)] /\ event' = [event EXCEPT !.at = "keep"]
  BY <1>1, <1>2, <1>3, <1>5, <1>6, <1>7, <1>8, SubmittedFacts
<1>9. CASE xfers' = [xfers EXCEPT ![t] = Refused(x)] /\ event' = [event EXCEPT !.at = "drop"]
  BY <1>1, <1>2, <1>3, <1>5, <1>6, <1>7, <1>9, RefusedFacts
<1>10. CASE xfers' = [xfers EXCEPT ![t] = Dropped(x)] /\ event' = [event EXCEPT !.at = "drop"]
  BY <1>1, <1>2, <1>3, <1>5, <1>6, <1>7, <1>10, DroppedFacts
<1> QED BY <1>4, <1>8, <1>9, <1>10

LEMMA CallbackRunKeeps ==
    ASSUME UsbInv, NEW t \in DOMAIN xfers, CallbackRun(t)
    PROVE  UsbInv'
<1>1. UNCHANGED <<plug, plugs, driver, claimed, sent, wire, known, weak, devices,
                  pc, inner, completed>>
  BY DEF CallbackRun, busVars, tableVars, ownerVars
<1>2. /\ event.at = "locked" /\ event.t = t /\ event'.t = t
      /\ event'.at \in {"keep", "drop"}
      /\ event' \in [at : {"wait", "locked", "keep", "drop", "free"}, t : 0 .. MaxTransfers]
  BY CallbackRunFacts, UsbDeviceAssumption DEF UsbInv, UsbTypeOK
<1>3. UsbTypeOK' /\ OpeningInv'
  BY <1>1, <1>2, CallbackRunFacts DEF UsbInv, UsbTypeOK, OpeningInv
<1>4. /\ xfers[t].usb = "done" /\ xfers[t].mem = "live" /\ ~Pending(t)
      /\ xfers[t].kind = "write" => Delivered(xfers[t]).out = <<>> /\ xfers[t].packet = 0
  <2>1. xfers[t] \in XferType
    BY DEF UsbInv, UsbTypeOK
  <2> QED BY <1>2, <2>1, DeliveredFacts DEF UsbInv, EventInv, TransferInv
<1>5. TransferInv'
  BY <1>2, <1>4, CallbackRunFacts DEF UsbInv, TransferInv
<1>6. EventInv'
  <2>1. \A i \in DOMAIN completed : completed[i] # t
    BY <1>4 DEF Pending
  <2>2. xfers'[t].usb \in {"idle", "flying"} /\ xfers'[t].mem = "live"
    BY <1>2, <1>4, CallbackRunFacts
  <2>3. event'.at = "drop" => xfers'[t].usb = "idle"
    BY CallbackRunFacts
  <2>4. /\ DOMAIN xfers' = DOMAIN xfers
        /\ \A u \in DOMAIN xfers \ {t} : xfers'[u] = xfers[u]
    BY CallbackRunFacts
  <2> QED BY <1>1, <1>2, <2>1, <2>2, <2>3, <2>4 DEF UsbInv, EventInv, Pending
<1> QED BY <1>3, <1>5, <1>6 DEF UsbInv

LEMMA CallbackEndKeeps ==
    ASSUME UsbInv, NEW t \in DOMAIN xfers, CallbackEnd(t)
    PROVE  UsbInv'
<1>1. /\ UNCHANGED <<plug, plugs, driver, claimed, sent, wire, known, weak, devices,
                     pc, inner, xfers, completed>>
      /\ event.t = t /\ event.at \in {"keep", "drop"}
  BY DEF CallbackEnd, busVars, tableVars, ownerVars
<1>2. \/ event.at = "keep" /\ event'.at = "wait" /\ event'.t = 0
      \/ event.at = "drop" /\ event'.at = "free" /\ event'.t = t
  BY <1>1 DEF CallbackEnd, Waiting
<1>3. event' \in [at : {"wait", "locked", "keep", "drop", "free"}, t : 0 .. MaxTransfers]
  BY <1>1, UsbDeviceAssumption DEF CallbackEnd, Waiting, UsbInv, UsbTypeOK
<1> QED BY <1>1, <1>2, <1>3
        DEF UsbInv, UsbTypeOK, OpeningInv, TransferInv, EventInv, Pending

LEMMA CallbackFreeKeeps ==
    ASSUME UsbInv, NEW t \in DOMAIN xfers, CallbackFree(t)
    PROVE  UsbInv'
<1> DEFINE x == [xfers[t] EXCEPT !.mem = "freed"]
<1>1. /\ UNCHANGED <<plug, plugs, driver, claimed, sent, wire, known, weak, devices,
                     pc, inner, completed>>
      /\ event.at = "free" /\ event.t = t /\ event'.at = "wait" /\ event'.t = 0
  BY DEF CallbackFree, Waiting, busVars, tableVars, ownerVars
<1>2. event' \in [at : {"wait", "locked", "keep", "drop", "free"}, t : 0 .. MaxTransfers]
  BY UsbDeviceAssumption DEF CallbackFree, Waiting
<1>3. /\ xfers[t] \in XferType /\ x \in XferType
      /\ x.usb = xfers[t].usb /\ x.status = xfers[t].status /\ x.kind = xfers[t].kind
      /\ x.packet = xfers[t].packet /\ x.out = xfers[t].out
  <2>1. xfers[t] \in XferType
    BY DEF UsbInv, UsbTypeOK
  <2> QED BY <2>1 DEF XferType
<1>4. /\ xfers' \in Seq(XferType) /\ Len(xfers') = Len(xfers)
      /\ DOMAIN xfers' = DOMAIN xfers
      /\ xfers'[t] = x /\ \A u \in DOMAIN xfers \ {t} : xfers'[u] = xfers[u]
  <2>1. xfers' = [xfers EXCEPT ![t] = x]
    BY DEF CallbackFree
  <2> HIDE DEF x
  <2> QED BY <1>3, <2>1, Updated
<1> HIDE DEF x
<1>5. xfers[t].usb = "idle"
  BY <1>1 DEF UsbInv, EventInv
<1>6. UsbTypeOK' /\ OpeningInv'
  BY <1>1, <1>2, <1>4 DEF UsbInv, UsbTypeOK, OpeningInv
<1>7. TransferInv'
  BY <1>3, <1>4, <1>5 DEF UsbInv, TransferInv
<1>8. EventInv'
  BY <1>1, <1>3, <1>4, <1>5 DEF UsbInv, EventInv, Pending
<1> QED BY <1>6, <1>7, <1>8 DEF UsbInv

LEMMA CompleteFacts ==
    ASSUME UsbInv, NEW t \in DOMAIN xfers, Complete(t)
    PROVE  /\ xfers' \in Seq(XferType) /\ Len(xfers') = Len(xfers)
           /\ DOMAIN xfers' = DOMAIN xfers
           /\ \A u \in DOMAIN xfers \ {t} : xfers'[u] = xfers[u]
           /\ xfers[t].usb = "flying" /\ xfers'[t].usb = "done"
           /\ xfers'[t].mem = xfers[t].mem /\ xfers'[t].status = xfers[t].status
           /\ xfers'[t].kind = xfers[t].kind /\ xfers'[t].out = xfers[t].out
           /\ \/ /\ xfers'[t].packet = 0 /\ wire' = wire
              \/ /\ xfers[t].kind = "read" /\ wire # <<>>
                 /\ xfers'[t].packet = Head(wire) /\ wire' = Tail(wire)
           /\ wire' \in Seq(1 .. MaxPackets)
           /\ completed' = Append(completed, t)
<1> DEFINE x == [xfers[t] EXCEPT !.usb = "done",
                                 !.packet = IF Readable(xfers[t]) THEN Head(wire) ELSE 0]
<1>1. /\ xfers[t] \in XferType /\ wire \in Seq(1 .. MaxPackets)
      /\ 0 \in 0 .. MaxPackets
  BY UsbDeviceAssumption DEF UsbInv, UsbTypeOK
<1>2. Readable(xfers[t]) => /\ wire # <<>> /\ xfers[t].kind = "read"
                            /\ Head(wire) \in 0 .. MaxPackets
                            /\ Tail(wire) \in Seq(1 .. MaxPackets)
  BY <1>1, UsbDeviceAssumption DEF Readable
<1>3. /\ x \in XferType /\ x.usb = "done" /\ x.mem = xfers[t].mem
      /\ x.status = xfers[t].status /\ x.kind = xfers[t].kind /\ x.out = xfers[t].out
      /\ x.packet = IF Readable(xfers[t]) THEN Head(wire) ELSE 0
  BY <1>1, <1>2 DEF XferType
<1>4. /\ xfers' = [xfers EXCEPT ![t] = x]
      /\ xfers[t].usb = "flying"
      /\ wire' = IF Readable(xfers[t]) THEN Tail(wire) ELSE wire
      /\ completed' = Append(completed, t)
  BY <1>1 DEF Complete
<1> HIDE DEF x
<1>5. /\ xfers' \in Seq(XferType) /\ Len(xfers') = Len(xfers)
      /\ DOMAIN xfers' = DOMAIN xfers
      /\ xfers'[t] = x /\ \A u \in DOMAIN xfers \ {t} : xfers'[u] = xfers[u]
  BY <1>3, <1>4, Updated
<1> QED BY <1>1, <1>2, <1>3, <1>4, <1>5

LEMMA CompleteKeeps ==
    ASSUME UsbInv, NEW t \in DOMAIN xfers, Complete(t)
    PROVE  UsbInv'
<1>1. UNCHANGED <<plug, plugs, driver, claimed, sent, known, weak, devices,
                  pc, inner, event>>
  BY DEF Complete, tableVars, ownerVars
<1>2. /\ completed \in Seq(Ids) /\ t \in Ids
      /\ completed' = Append(completed, t) /\ completed' \in Seq(Ids)
      /\ DOMAIN completed' = DOMAIN completed \cup {Len(completed) + 1}
      /\ \A i \in DOMAIN completed : completed'[i] = completed[i]
      /\ completed'[Len(completed) + 1] = t
  <2>1. completed \in Seq(Ids) /\ t \in Ids /\ completed' = Append(completed, t)
    BY UsbDeviceAssumption, CompleteFacts DEF UsbInv, UsbTypeOK, Ids
  <2> QED BY <2>1
<1>3. UsbTypeOK' /\ OpeningInv'
  BY <1>1, <1>2, CompleteFacts DEF UsbInv, UsbTypeOK, OpeningInv
<1>4. TransferInv'
  BY CompleteFacts DEF UsbInv, TransferInv
<1>5. EventInv'
  <2>1. xfers[t].usb = "flying" /\ xfers[t].mem = "live"
    BY CompleteFacts DEF UsbInv, TransferInv
  <2>2. (\A i \in DOMAIN completed : completed[i] # t) /\ ~Pending(t)
    BY <2>1 DEF UsbInv, EventInv, Pending
  <2>3. event.at \in {"locked", "drop", "free"} => event.t # t
    BY <2>1 DEF UsbInv, EventInv
  <2> HIDE DEF Pending
  <2>4. \A u \in DOMAIN xfers : Pending(u)' <=> Pending(u) \/ u = t
    BY <1>2 DEF Pending
  <2>5. /\ DOMAIN xfers' = DOMAIN xfers
        /\ xfers'[t].usb = "done" /\ xfers'[t].mem = "live"
        /\ \A u \in DOMAIN xfers \ {t} : xfers'[u] = xfers[u]
    BY <2>1, CompleteFacts
  <2> QED BY <1>1, <1>2, <2>1, <2>2, <2>3, <2>4, <2>5 DEF UsbInv, EventInv
<1> QED BY <1>3, <1>4, <1>5 DEF UsbInv

LEMMA BusKeeps ==
    ASSUME UsbInv, DevSend \/ Unplug \/ Plug
    PROVE  UsbInv'
<1>1. UNCHANGED <<known, weak, devices, pc, inner, xfers, completed, event>>
  BY DEF DevSend, Unplug, Plug, tableVars, ownerVars, eventVars
<1>2. /\ plug' \in 0 .. MaxPlugs /\ plugs' \in 0 .. MaxPlugs
      /\ driver' \in BOOLEAN /\ claimed' \in BOOLEAN
      /\ sent' \in 0 .. MaxPackets /\ wire' \in Seq(1 .. MaxPackets)
  <2>1. CASE DevSend
    <3>1. sent' \in 1 .. MaxPackets /\ sent' \in 0 .. MaxPackets
      BY <2>1, UsbDeviceAssumption DEF DevSend, UsbInv, UsbTypeOK
    <3> QED BY <2>1, <3>1 DEF DevSend, UsbInv, UsbTypeOK
  <2>2. CASE Unplug
    <3>1. plug' = 0 /\ driver' = FALSE /\ claimed' = FALSE /\ wire' = <<>>
          /\ UNCHANGED <<plugs, sent>>
      BY <2>2 DEF Unplug
    <3>2. 0 \in 0 .. MaxPlugs /\ <<>> \in Seq(1 .. MaxPackets)
      BY UsbDeviceAssumption
    <3> QED BY <3>1, <3>2 DEF UsbInv, UsbTypeOK
  <2>3. CASE Plug
    BY <2>3, UsbDeviceAssumption DEF Plug, UsbInv, UsbTypeOK
  <2> QED BY <2>1, <2>2, <2>3
<1>3. UsbTypeOK'
  BY <1>1, <1>2 DEF UsbInv, UsbTypeOK
<1> QED BY <1>1, <1>3 DEF UsbInv, OpeningInv, TransferInv, EventInv, Pending

LEMMA UsbInit == Init => UsbInv
<1> SUFFICES ASSUME Init PROVE UsbInv
  OBVIOUS
<1>1. /\ 0 \in 0 .. MaxPlugs /\ 1 \in 0 .. MaxPlugs /\ 0 \in 0 .. MaxPackets
      /\ 0 \in 0 .. MaxTransfers
  BY UsbDeviceAssumption
<1>2. NoInner \in InnerType
  BY <1>1 DEF NoInner, InnerType
<1>3. UsbTypeOK
  <2>1. /\ plug \in 0 .. MaxPlugs /\ plugs \in 0 .. MaxPlugs /\ sent \in 0 .. MaxPackets
        /\ known \in 0 .. MaxPlugs /\ driver \in BOOLEAN /\ claimed \in BOOLEAN
        /\ weak \in Owners \cup {NoOwner} /\ devices \in Owners \cup {NoOwner}
    BY <1>1 DEF Init
  <2>2. wire \in Seq(1 .. MaxPackets) /\ completed \in Seq(Ids)
        /\ xfers \in Seq(XferType) /\ Len(xfers) = 0
    BY DEF Init
  <2>3. pc \in [Owners -> Steps] /\ inner \in [Owners -> InnerType]
    BY <1>2 DEF Init, Steps
  <2>4. event \in [at : {"wait", "locked", "keep", "drop", "free"}, t : 0 .. MaxTransfers]
    BY <1>1 DEF Init, Waiting
  <2> QED BY <1>1, <2>1, <2>2, <2>3, <2>4 DEF UsbTypeOK
<1> QED BY <1>3 DEF Init, UsbInv, OpeningInv, Opens, TransferInv, EventInv, Waiting, Pending

LEMMA UsbStep == UsbInv /\ [Next]_usbVars => UsbInv'
<1> SUFFICES ASSUME UsbInv, [Next]_usbVars PROVE UsbInv'
  OBVIOUS
<1>1. CASE UNCHANGED usbVars
  BY <1>1 DEF usbVars, busVars, tableVars, ownerVars, eventVars,
              UsbInv, UsbTypeOK, OpeningInv, TransferInv, EventInv, Pending
<1>2. ASSUME NEW o \in Owners, Owner(o) PROVE UsbInv'
  <2>1. CASE OpenStart(o) \/ DetachDriver(o) \/ ClaimInterface(o) \/ ReleaseInterface(o)
                 \/ AttachDriver(o) \/ \E h \in Halves : DropHalf(o, h)
    <3>1. UsbTypeOK' /\ OpeningInv' /\ UNCHANGED <<xfers, completed, event>>
      BY <2>1, OwnerKeeps
    <3> QED BY <3>1 DEF UsbInv, TransferInv, EventInv, Pending
  <2> QED BY <1>2, <2>1, SubmitReadKeeps, SendKeeps, CancelReadKeeps
          DEF Owner, Opening, CloseStep
<1>3. CASE Callback
  BY <1>3, CallbackStartKeeps, CallbackRunKeeps, CallbackEndKeeps, CallbackFreeKeeps
     DEF Callback
<1>4. CASE Bus
  BY <1>4, BusKeeps, CompleteKeeps DEF Bus
<1> QED BY <1>1, <1>2, <1>3, <1>4 DEF Next

\* Every variable has its type, for every number of owners, transfers, packets
\* and plugs.
THEOREM UsbTypeCorrect == Spec => []UsbTypeOK
<1>1. UsbInv => UsbTypeOK
  BY DEF UsbInv
<1> QED BY <1>1, UsbInit, UsbStep, PTL DEF Spec

\* No transfer is freed while libusb, the event thread or the owner that may cancel
\* it still uses it (usb.rs, SubmittedTransfer::cancel against Transfer::callback).
THEOREM TransfersAreSafe == Spec => []NoDanglingTransfer
<1>1. UsbInv => NoDanglingTransfer
  <2> SUFFICES ASSUME UsbInv, NEW t \in DOMAIN xfers,
                      \/ xfers[t].usb # "idle"
                      \/ event.at # "wait" /\ event.t = t
                      \/ xfers[t].status = "Ok"
               PROVE  xfers[t].mem = "live"
    BY DEF NoDanglingTransfer
  <2> QED BY DEF UsbInv, TransferInv, EventInv
<1> QED BY <1>1, UsbInit, UsbStep, PTL DEF Spec

-----------------------------------------------------------------------------
(* The order of the packets.                                               *)

LEMMA YieldedIs ==
    /\ \A y : y \in Yielded <=>
           \E t \in DOMAIN xfers : \E i \in DOMAIN xfers[t].out : y = xfers[t].out[i]
    /\ \A y : y \in Yielded' <=>
           \E t \in DOMAIN xfers' : \E i \in DOMAIN xfers'[t].out : y = xfers'[t].out[i]
BY DEF Yielded

LEMMA YieldedNat == UsbInv => Yielded \subseteq 1 .. MaxPackets
<1> SUFFICES ASSUME UsbInv, NEW t \in DOMAIN xfers, NEW i \in DOMAIN xfers[t].out
             PROVE  xfers[t].out[i] \in 1 .. MaxPackets
  BY YieldedIs
<1>1. xfers[t] \in XferType /\ MaxPackets \in Nat
  BY UsbDeviceAssumption DEF UsbInv, UsbTypeOK
<1>2. xfers[t].out \in Seq(1 .. MaxPackets)
  BY <1>1 DEF XferType
<1>3. i \in 1 .. Len(xfers[t].out)
  BY <1>2
<1> HIDE DEF UsbInv
<1> QED BY <1>2, <1>3, ElementOfSeq

LEMMA YieldedSame ==
    ASSUME DOMAIN xfers \subseteq DOMAIN xfers',
           \A t \in DOMAIN xfers : xfers'[t].out = xfers[t].out,
           \A t \in DOMAIN xfers' \ DOMAIN xfers : xfers'[t].out = <<>>
    PROVE  Yielded' = Yielded
<1>1. \A y \in Yielded' : y \in Yielded
  <2> SUFFICES ASSUME NEW t \in DOMAIN xfers', NEW i \in DOMAIN xfers'[t].out
               PROVE  xfers'[t].out[i] \in Yielded
    BY YieldedIs
  <2>1. t \in DOMAIN xfers
    OBVIOUS
  <2> QED BY <2>1, YieldedIs
<1>2. \A y \in Yielded : y \in Yielded'
  BY YieldedIs
<1> QED BY <1>1, <1>2

\* A step that changes nothing of what is on its way keeps the order.
LEMMA OrderSame ==
    ASSUME UsbInv, OrderInv, YieldInv,
           UNCHANGED <<sent, wire, completed, event>>,
           DOMAIN xfers \subseteq DOMAIN xfers',
           \A t \in DOMAIN xfers : xfers'[t].out = xfers[t].out,
           \A t \in DOMAIN xfers' \ DOMAIN xfers : xfers'[t].out = <<>>,
           \A t \in DOMAIN xfers' : t \in Carriers' => /\ t \in DOMAIN xfers /\ t \in Carriers
                                                  /\ xfers'[t].packet = xfers[t].packet
    PROVE  OrderInv' /\ YieldInv'
<1>1. Yielded' = Yielded
  BY YieldedSame
<1>2. \A t : t \in Carriers' => t \in DOMAIN xfers'
  BY DEF Carriers
<1> HIDE DEF Carriers
<1>3. OrderInv'
  BY <1>2 DEF OrderInv
<1>4. YieldInv'
  BY <1>1, <1>2 DEF YieldInv
<1> QED BY <1>3, <1>4

LEMMA OrderCancel ==
    ASSUME UsbInv, OrderInv, YieldInv, NEW o \in Owners, CancelRead(o)
    PROVE  /\ OrderInv' /\ YieldInv' /\ DOMAIN xfers' = DOMAIN xfers
           /\ \A u \in DOMAIN xfers : /\ xfers'[u].kind = xfers[u].kind
                                      /\ xfers'[u].out = xfers[u].out
                                      /\ xfers'[u].mem = xfers[u].mem
<1> DEFINE t == inner[o].read
<1>1. /\ t \in DOMAIN xfers /\ xfers[t] \in XferType /\ completed \in Seq(Ids)
      /\ UNCHANGED <<sent, wire, event>>
  BY DEF UsbInv, UsbTypeOK, OpeningInv, CancelRead, busVars
<1>2. CASE xfers[t].status # "Ok"
  <2>1. UNCHANGED <<xfers, completed>>
    BY <1>2 DEF CancelRead
  <2>2. \A u \in DOMAIN xfers' : u \in Carriers' => u \in Carriers
    BY <2>1 DEF Carriers
  <2> QED BY <1>1, <2>1, <2>2, OrderSame
<1>3. CASE xfers[t].status = "Ok"
  <2>1. xfers' = [xfers EXCEPT ![t] = Cancelled(xfers[t])]
    BY <1>3 DEF CancelRead
  <2>2. /\ DOMAIN xfers' = DOMAIN xfers
        /\ xfers'[t] = Cancelled(xfers[t])
        /\ \A u \in DOMAIN xfers \ {t} : xfers'[u] = xfers[u]
    BY <1>1, <2>1, CancelledFacts, Updated
  <2>3. completed' = IF xfers[t].usb = "flying" THEN Append(completed, t) ELSE completed
    BY <1>3 DEF CancelRead
  <2>4. xfers[t].usb = "flying" => xfers[t].packet = 0
    BY <1>1 DEF UsbInv, TransferInv
  <2>5. \A u \in DOMAIN xfers : /\ xfers'[u].kind = xfers[u].kind
                                /\ xfers'[u].out = xfers[u].out
                                /\ xfers'[u].mem = xfers[u].mem
                                /\ xfers'[u].packet = xfers[u].packet
    BY <1>1, <2>2, CancelledFacts
  <2>6. \A u : u \in Carriers' <=> u \in Carriers
    <3> SUFFICES ASSUME NEW u \in DOMAIN xfers PROVE u \in Carriers' <=> u \in Carriers
      BY <2>2 DEF Carriers
    <3>1. CASE u = t
      BY <1>1, <2>2, <2>4, <3>1, CancelledFacts DEF Carriers
    <3>2. CASE u # t
      BY <2>2, <3>2 DEF Carriers
    <3> QED BY <3>1, <3>2
  <2>7. Yielded' = Yielded
    BY <2>2, <2>5, YieldedSame
  <2>8. YieldInv'
    <3> HIDE DEF Carriers
    <3> QED BY <1>1, <2>2, <2>5, <2>6, <2>7 DEF YieldInv
  <2>9. \A i \in DOMAIN completed' : completed'[i] \in Carriers' =>
            i \in DOMAIN completed /\ completed'[i] = completed[i]
    <3>1. xfers[t].usb = "flying" => t \notin Carriers
      BY DEF Carriers
    <3>2. CASE xfers[t].usb = "flying"
      <4>1. \A i \in DOMAIN completed' :
                (i \in DOMAIN completed /\ completed'[i] = completed[i]) \/ completed'[i] = t
        BY <1>1, <2>3, <3>2
      <4> HIDE DEF Carriers
      <4> QED BY <2>6, <3>1, <3>2, <4>1
    <3>3. CASE xfers[t].usb # "flying"
      BY <2>3, <3>3
    <3> QED BY <3>2, <3>3
  <2>10. OrderInv'
    <3>1. \A u : u \in Carriers => u \in DOMAIN xfers
      BY DEF Carriers
    <3> HIDE DEF Carriers
    <3> QED BY <1>1, <2>2, <2>5, <2>6, <2>9, <3>1 DEF OrderInv
  <2> QED BY <2>2, <2>5, <2>8, <2>10
<1> QED BY <1>2, <1>3

LEMMA OrderCallbackStart ==
    ASSUME UsbInv, OrderInv, YieldInv, NEW t \in DOMAIN xfers, CallbackStart(t)
    PROVE  OrderInv' /\ YieldInv'
<1>1. /\ UNCHANGED <<sent, wire, xfers>>
      /\ completed # <<>> /\ t = completed[1] /\ completed' = Tail(completed)
      /\ event' = [at |-> "locked", t |-> t]
  BY DEF CallbackStart, busVars
<1>2. /\ completed \in Seq(Ids) /\ 1 \in DOMAIN completed
      /\ \A i \in DOMAIN completed' : completed'[i] = completed[i + 1]
                                      /\ i + 1 \in DOMAIN completed /\ 1 < i + 1
      /\ \A i, j \in DOMAIN completed' : i < j => i + 1 < j + 1
  BY <1>1 DEF UsbInv, UsbTypeOK
<1>3. \A u : u \in Carriers' <=> u \in Carriers
  BY <1>1 DEF Carriers
<1>4. Yielded' = Yielded
  BY <1>1 DEF Yielded
<1> HIDE DEF Carriers
<1>5. event'.at = "locked" /\ event'.t = t
  BY <1>1
<1>6. OrderInv'
  BY <1>1, <1>2, <1>3, <1>5 DEF OrderInv
<1>7. YieldInv'
  BY <1>1, <1>3, <1>4 DEF YieldInv
<1> QED BY <1>6, <1>7

\* A packet that is delivered is newer than all that were, and older than all that
\* are on their way.
LEMMA OrderCallbackRun ==
    ASSUME UsbInv, OrderInv, YieldInv, NEW t \in DOMAIN xfers, CallbackRun(t)
    PROVE  /\ OrderInv' /\ YieldInv'
           /\ \/ xfers'[t].out = xfers[t].out /\ Yielded' = Yielded
              \/ /\ xfers'[t].out = Append(xfers[t].out, xfers[t].packet)
                 /\ Yielded' = Yielded \cup {xfers[t].packet}
                 /\ xfers[t].kind = "read" /\ xfers[t].packet \in 1 .. MaxPackets
                 /\ \A y \in Yielded : y < xfers[t].packet
<1>1. /\ UNCHANGED <<sent, wire, completed>>
      /\ event.at = "locked" /\ event.t = t /\ event'.at # "locked"
      /\ xfers[t].usb = "done" /\ ~Pending(t)
  <2>1. UNCHANGED <<sent, wire, completed>>
    BY DEF CallbackRun, busVars
  <2> QED BY <2>1, CallbackRunFacts DEF UsbInv, EventInv
<1>2. xfers[t] \in XferType /\ xfers[t].out \in Seq(1 .. MaxPackets) /\ MaxPackets \in Nat
      /\ sent \in Nat /\ wire \in Seq(1 .. MaxPackets)
  <2>1. xfers[t] \in XferType /\ MaxPackets \in Nat /\ sent \in Nat
        /\ wire \in Seq(1 .. MaxPackets)
    BY UsbDeviceAssumption DEF UsbInv, UsbTypeOK
  <2> QED BY <2>1 DEF XferType
<1>3. /\ DOMAIN xfers' = DOMAIN xfers
      /\ xfers'[t].usb # "done"
      /\ \A u \in DOMAIN xfers \ {t} : xfers'[u] = xfers[u]
      /\ xfers'[t].out = Delivered(xfers[t]).out
  BY CallbackRunFacts
<1>4. \A u : u \in Carriers' <=> u \in Carriers /\ u # t
  BY <1>3 DEF Carriers
<1>5. \A u : u \in Carriers => u \in DOMAIN xfers /\ xfers[u].usb = "done" /\ xfers[u].packet # 0
                           /\ xfers[u].packet \in Nat
  <2> SUFFICES ASSUME NEW u, u \in Carriers PROVE xfers[u].packet \in Nat
    BY DEF Carriers
  <2>1. xfers[u] \in XferType /\ MaxPackets \in Nat
    BY UsbDeviceAssumption DEF Carriers, UsbInv, UsbTypeOK
  <2> QED BY <2>1 DEF XferType
<1>6. \A u : u \in Carriers /\ u # t => \E i \in DOMAIN completed : completed[i] = u
  BY <1>1, <1>5 DEF UsbInv, EventInv, Pending
<1>7. t \in Carriers => \A u : u \in Carriers /\ u # t => xfers[t].packet < xfers[u].packet
  <2> HIDE DEF Carriers
  <2> QED BY <1>1, <1>6 DEF OrderInv
<1>8. OrderInv'
  <2> HIDE DEF Carriers
  <2> QED BY <1>1, <1>3, <1>4, <1>5 DEF OrderInv
<1>9. CASE ~(xfers[t].kind = "read" /\ xfers[t].packet # 0 /\ xfers[t].status = "Ok")
  <2>1. xfers'[t].out = xfers[t].out
    BY <1>2, <1>3, <1>9, DeliveredFacts
  <2>2. Yielded' = Yielded
    BY <1>3, <2>1, YieldedSame
  <2>3. YieldInv'
    <3> HIDE DEF Carriers
    <3> QED BY <1>1, <1>3, <1>4, <1>5, <2>2 DEF YieldInv
  <2> QED BY <1>8, <2>1, <2>2, <2>3
<1>10. CASE xfers[t].kind = "read" /\ xfers[t].packet # 0 /\ xfers[t].status = "Ok"
  <2> DEFINE p == xfers[t].packet
  <2>1. xfers'[t].out = Append(xfers[t].out, p)
    BY <1>2, <1>3, <1>10, DeliveredFacts
  <2>2. t \in Carriers /\ p \in 1 .. MaxPackets
    BY <1>1, <1>2, <1>10 DEF Carriers, XferType
  <2>3. /\ DOMAIN xfers'[t].out = DOMAIN xfers[t].out \cup {Len(xfers[t].out) + 1}
        /\ \A i \in DOMAIN xfers[t].out : xfers'[t].out[i] = xfers[t].out[i]
        /\ xfers'[t].out[Len(xfers[t].out) + 1] = p
    BY <1>2, <2>1, <2>2
  <2>4. Yielded' = Yielded \cup {p}
    <3>1. ASSUME NEW u \in DOMAIN xfers', NEW i \in DOMAIN xfers'[u].out
          PROVE  xfers'[u].out[i] \in Yielded \cup {p}
      <4>1. CASE u # t
        BY <1>3, <4>1, YieldedIs
      <4>2. CASE u = t
        BY <1>3, <2>3, <4>2, YieldedIs
      <4> QED BY <4>1, <4>2
    <3>2. ASSUME NEW u \in DOMAIN xfers, NEW i \in DOMAIN xfers[u].out
          PROVE  xfers[u].out[i] \in Yielded'
      <4>1. i \in DOMAIN xfers'[u].out /\ xfers'[u].out[i] = xfers[u].out[i]
        BY <1>3, <2>3
      <4> QED BY <1>3, <4>1, YieldedIs
    <3>3. p \in Yielded'
      BY <1>3, <2>3, YieldedIs
    <3> QED BY <3>1, <3>2, <3>3, YieldedIs
  <2>5. \A y \in Yielded : y < p
    <3> HIDE DEF Carriers
    <3> QED BY <2>2 DEF YieldInv
  <2>6. YieldInv'
    <3>1. p <= sent /\ \A i \in DOMAIN wire : p < wire[i]
      <4> HIDE DEF Carriers
      <4> QED BY <2>2 DEF OrderInv
    <3>2. \A u \in DOMAIN xfers : u \in Carriers' => p < xfers'[u].packet
      BY <1>3, <1>4, <1>7, <2>2
    <3>3. \A y \in Yielded : y \in Nat
      BY YieldedNat, <1>2
    <3>4. \A y \in Yielded' : p >= y
      BY <2>2, <2>4, <2>5, <3>3
    <3> HIDE DEF Carriers, p
    <3> QED BY <1>1, <1>3, <1>4, <1>5, <2>4, <3>1, <3>2, <3>4 DEF YieldInv
  <2> QED BY <1>8, <1>10, <2>1, <2>2, <2>4, <2>5, <2>6
<1> QED BY <1>9, <1>10

LEMMA OrderComplete ==
    ASSUME UsbInv, OrderInv, YieldInv, NEW t \in DOMAIN xfers, Complete(t)
    PROVE  OrderInv' /\ YieldInv' /\ Yielded' = Yielded
<1>1. UNCHANGED <<sent, event>> /\ completed' = Append(completed, t)
  BY DEF Complete
<1>2. /\ completed \in Seq(Ids)
      /\ DOMAIN completed' = DOMAIN completed \cup {Len(completed) + 1}
      /\ \A i \in DOMAIN completed : completed'[i] = completed[i] /\ i < Len(completed) + 1
      /\ completed'[Len(completed) + 1] = t
  <2>1. completed \in Seq(Ids) /\ completed' = Append(completed, t)
    BY <1>1 DEF UsbInv, UsbTypeOK
  <2> QED BY <2>1
<1>3. /\ DOMAIN xfers' = DOMAIN xfers
      /\ xfers[t].usb = "flying" /\ xfers'[t].usb = "done"
      /\ \A u \in DOMAIN xfers \ {t} : xfers'[u] = xfers[u]
      /\ \A u \in DOMAIN xfers : xfers'[u].out = xfers[u].out
  BY CompleteFacts
<1>4. t \notin Carriers
  BY <1>3 DEF Carriers
<1>5. \A u : u # t => (u \in Carriers' <=> u \in Carriers) /\ (u \in Carriers => xfers'[u] = xfers[u])
  BY <1>3 DEF Carriers
<1>6. Yielded' = Yielded
  BY <1>3, YieldedSame
<1>7. \A i \in DOMAIN completed : completed[i] # t
  BY <1>3 DEF UsbInv, EventInv
<1>8. event.at = "locked" => event.t # t
  BY <1>3 DEF UsbInv, EventInv
<1>9. wire \in Seq(1 .. MaxPackets) /\ MaxPackets \in Nat
  BY UsbDeviceAssumption DEF UsbInv, UsbTypeOK
<1>10. \A u : u \in Carriers => u \in DOMAIN xfers
  BY DEF Carriers
<1>11. CASE xfers'[t].packet = 0 /\ wire' = wire
  <2>1. t \notin Carriers'
    BY <1>11 DEF Carriers
  <2> HIDE DEF Carriers
  <2>2. OrderInv'
    BY <1>1, <1>2, <1>3, <1>4, <1>5, <1>7, <1>8, <1>10, <1>11, <2>1 DEF OrderInv
  <2>3. YieldInv'
    BY <1>1, <1>3, <1>4, <1>5, <1>6, <1>10, <1>11, <2>1 DEF YieldInv
  <2> QED BY <1>6, <2>2, <2>3
<1>12. CASE wire # <<>> /\ xfers'[t].packet = Head(wire) /\ wire' = Tail(wire)
  <2>1. /\ 1 \in DOMAIN wire /\ xfers'[t].packet = wire[1]
        /\ \A i \in DOMAIN wire' : wire'[i] = wire[i + 1] /\ i + 1 \in DOMAIN wire
                                   /\ 1 < i + 1
        /\ \A i, j \in DOMAIN wire' : i < j => i + 1 < j + 1
    BY <1>9, <1>12
  <2> HIDE DEF Carriers
  <2>2. OrderInv'
    <3>1. /\ \A i \in DOMAIN wire' : wire'[i] <= sent' /\ xfers'[t].packet < wire'[i]
          /\ \A i, j \in DOMAIN wire' : i < j => wire'[i] < wire'[j]
          /\ xfers'[t].packet <= sent'
      BY <1>1, <2>1 DEF OrderInv
    <3>2. \A u \in DOMAIN xfers : u \in Carriers => /\ xfers[u].packet <= sent'
                                                /\ xfers[u].packet < xfers'[t].packet
                                                /\ \A i \in DOMAIN wire' : xfers[u].packet < wire'[i]
      BY <1>1, <2>1 DEF OrderInv
    <3>3. \A i \in DOMAIN completed : completed[i] \in Carriers' =>
              /\ completed[i] \in Carriers /\ completed[i] \in DOMAIN xfers
              /\ xfers'[completed[i]] = xfers[completed[i]]
      BY <1>5, <1>7, <1>10
    <3>4. event.at = "locked" /\ event'.t \in Carriers' =>
              /\ event.t \in Carriers /\ event.t \in DOMAIN xfers
              /\ xfers'[event.t] = xfers[event.t]
      BY <1>1, <1>5, <1>8, <1>10
    <3> QED BY <1>1, <1>2, <1>3, <1>5, <3>1, <3>2, <3>3, <3>4 DEF OrderInv
  <2>3. YieldInv'
    BY <1>1, <1>3, <1>5, <1>6, <2>1 DEF YieldInv
  <2> QED BY <1>6, <2>2, <2>3
<1> QED BY <1>11, <1>12, CompleteFacts

LEMMA OrderBus ==
    ASSUME UsbInv, OrderInv, YieldInv, DevSend \/ Unplug \/ Plug
    PROVE  OrderInv' /\ YieldInv' /\ UNCHANGED xfers
<1>1. UNCHANGED <<xfers, completed, event>>
  BY DEF DevSend, Unplug, Plug, eventVars
<1>2. Yielded' = Yielded
  BY <1>1 DEF Yielded
<1>3. \A u : u \in Carriers' <=> u \in Carriers
  BY <1>1 DEF Carriers
<1>4. wire \in Seq(1 .. MaxPackets) /\ sent \in Nat /\ MaxPackets \in Nat
  BY UsbDeviceAssumption DEF UsbInv, UsbTypeOK
<1>5. /\ \A y \in Yielded : y \in Nat
      /\ \A u : u \in Carriers => xfers[u].packet \in Nat /\ u \in DOMAIN xfers
  <2>1. \A u \in DOMAIN xfers : xfers[u].packet \in Nat
    <3> SUFFICES ASSUME NEW u \in DOMAIN xfers PROVE xfers[u].packet \in Nat
      OBVIOUS
    <3>1. xfers[u] \in XferType
      BY DEF UsbInv, UsbTypeOK
    <3> QED BY <1>4, <3>1 DEF XferType
  <2> QED BY <1>4, <2>1, YieldedNat DEF Carriers
<1> HIDE DEF Carriers
<1>6. CASE DevSend
  <2>1. sent' = sent + 1 /\ wire' = Append(wire, sent + 1)
    BY <1>6 DEF DevSend
  <2>2. /\ DOMAIN wire' = DOMAIN wire \cup {Len(wire) + 1}
        /\ \A i \in DOMAIN wire : wire'[i] = wire[i] /\ wire[i] \in Nat /\ i < Len(wire) + 1
        /\ wire'[Len(wire) + 1] = sent + 1
    BY <1>4, <2>1
  <2>3. OrderInv'
    <3>1. /\ \A i \in DOMAIN wire' : wire'[i] <= sent'
          /\ \A i, j \in DOMAIN wire' : i < j => wire'[i] < wire'[j]
      BY <1>4, <2>1, <2>2 DEF OrderInv
    <3>2. \A u \in DOMAIN xfers : u \in Carriers =>
              xfers[u].packet <= sent' /\ \A i \in DOMAIN wire' : xfers[u].packet < wire'[i]
      BY <1>4, <1>5, <2>1, <2>2 DEF OrderInv
    <3> QED BY <1>1, <1>3, <3>1, <3>2 DEF OrderInv
  <2>4. YieldInv'
    <3>1. \A y \in Yielded : y <= sent' /\ \A i \in DOMAIN wire' : y < wire'[i]
      BY <1>4, <1>5, <2>1, <2>2 DEF YieldInv
    <3>2. \A y \in Yielded : \A u \in DOMAIN xfers' : u \in Carriers' => y < xfers'[u].packet
      BY <1>1, <1>3 DEF YieldInv
    <3>3. \E n \in Yielded \cup {0} : \A m \in Yielded : n >= m
      BY DEF YieldInv
    <3> HIDE DEF Yielded, Carriers
    <3> QED BY <1>2, <3>1, <3>2, <3>3 DEF YieldInv
  <2> QED BY <1>1, <2>3, <2>4
<1>7. CASE Unplug
  <2>1. wire' = <<>> /\ sent' = sent
    BY <1>7 DEF Unplug
  <2> QED BY <1>1, <1>2, <1>3, <2>1 DEF OrderInv, YieldInv
<1>8. CASE Plug
  <2>1. UNCHANGED <<wire, sent>>
    BY <1>8 DEF Plug
  <2> QED BY <1>1, <1>2, <1>3, <2>1 DEF OrderInv, YieldInv
<1> QED BY <1>6, <1>7, <1>8

StreamInv == UsbInv /\ OrderInv /\ YieldInv

-----------------------------------------------------------------------------
(* The refinement.                                                         *)

\* The state of the abstract stream.
Got   == [t \in Ids |-> IF ReadOf(t) THEN xfers[t].out ELSE <<>>]
Ended == {t \in Ids : ReadOf(t) /\ xfers[t].mem = "freed"}

LEMMA NewestIs ==
    /\ YieldInv => Newest \in Yielded \cup {0} /\ \A m \in Yielded : Newest >= m
    /\ YieldInv' => Newest' \in Yielded' \cup {0} /\ \A m \in Yielded' : Newest' >= m
BY DEF Newest, YieldInv

\* The steps of the abstract stream, on these three.
LEMMA StreamSteps ==
    /\ \A t \in Ids : Ended' = Ended \cup {t} /\ Got' = Got /\ Newest' = Newest
           => Stream!Next
    /\ \A t \in Ids, p \in 1 .. MaxPackets :
           /\ t \notin Ended /\ p > Newest /\ Newest' = p
           /\ Got' = [Got EXCEPT ![t] = Append(@, p)] /\ Ended' = Ended
           => Stream!Next
    /\ Ended' = Ended /\ Got' = Got /\ Newest' = Newest => UNCHANGED Stream!streamVars
BY DEF Got, Ended, Stream!Next, Stream!End, Stream!Yield, Stream!streamVars

LEMMA DomainIds ==
    /\ UsbInv => DOMAIN xfers \subseteq Ids
    /\ UsbInv' => DOMAIN xfers' \subseteq Ids
<1>1. /\ UsbInv => xfers \in Seq(XferType) /\ Len(xfers) \in 0 .. MaxTransfers
      /\ UsbInv' => xfers' \in Seq(XferType) /\ Len(xfers') \in 0 .. MaxTransfers
  BY DEF UsbInv, UsbTypeOK
<1>2. MaxTransfers \in Nat
  BY UsbDeviceAssumption
<1> HIDE DEF UsbInv, XferType
<1> QED BY <1>1, <1>2 DEF Ids

\* A step that yields nothing ends the stream of one read transfer, or none.
LEMMA Stutters ==
    ASSUME UsbInv, UsbInv', Yielded' = Yielded,
           DOMAIN xfers \subseteq DOMAIN xfers',
           \A t \in DOMAIN xfers : /\ xfers'[t].out = xfers[t].out
                                   /\ xfers'[t].kind = xfers[t].kind,
           \A t \in DOMAIN xfers' \ DOMAIN xfers : xfers'[t].out = <<>>,
           NEW e \in Ids,
           \A t \in DOMAIN xfers \ {e} : xfers'[t].mem = xfers[t].mem,
           e \in DOMAIN xfers => xfers[e].mem = "live" \/ xfers'[e].mem = xfers[e].mem,
           \A t \in DOMAIN xfers' \ DOMAIN xfers : t = e
    PROVE  [Stream!Next]_(Stream!streamVars)
<1>1. DOMAIN xfers \subseteq Ids /\ DOMAIN xfers' \subseteq Ids
  BY DomainIds
<1>2. Newest' = Newest
  BY DEF Newest
<1>3. Got' = Got
  BY <1>1 DEF Got, ReadOf
<1>4. Ended' = Ended \/ Ended' = Ended \cup {e}
  BY <1>1 DEF Ended, ReadOf
<1> QED BY <1>2, <1>3, <1>4, StreamSteps

LEMMA StreamStep ==
    ASSUME StreamInv, UsbInv', [Next]_usbVars
    PROVE  OrderInv' /\ YieldInv' /\ [Stream!Next]_(Stream!streamVars)
<1> USE DEF StreamInv
<1>1. /\ DOMAIN xfers \subseteq Ids /\ DOMAIN xfers' \subseteq Ids
      /\ xfers \in Seq(XferType) /\ MaxTransfers \in Nat /\ Len(xfers) \in Nat
  BY UsbDeviceAssumption, DomainIds DEF UsbInv, UsbTypeOK
\* Steps that leave the transfers alone.
<1>2. ASSUME UNCHANGED xfers, OrderInv', YieldInv'
      PROVE  OrderInv' /\ YieldInv' /\ [Stream!Next]_(Stream!streamVars)
  <2>1. Got' = Got /\ Ended' = Ended /\ Newest' = Newest
    BY <1>2 DEF Got, Ended, Newest, ReadOf, Yielded
  <2> QED BY <1>2, <2>1, StreamSteps
<1>3. ASSUME UNCHANGED <<xfers, sent, wire, completed, event>>
      PROVE  OrderInv' /\ YieldInv' /\ [Stream!Next]_(Stream!streamVars)
  <2>1. Yielded' = Yielded /\ Carriers' = Carriers
    BY <1>3 DEF Yielded, Carriers
  <2>2. OrderInv' /\ YieldInv'
    BY <1>3, <2>1 DEF OrderInv, YieldInv
  <2> QED BY <1>2, <1>3, <2>2
<1>4. ASSUME NEW x, NEW kind, Fresh(x, kind), xfers' = Append(xfers, x),
             UNCHANGED <<sent, wire, completed, event>>
      PROVE  OrderInv' /\ YieldInv' /\ [Stream!Next]_(Stream!streamVars)
  <2>1. x.out = <<>> /\ x.packet = 0 /\ x \in XferType
    BY <1>4 DEF Fresh
  <2>2. /\ DOMAIN xfers' = DOMAIN xfers \cup {Len(xfers) + 1}
        /\ \A t \in DOMAIN xfers : xfers'[t] = xfers[t]
        /\ xfers'[Len(xfers) + 1] = x /\ Len(xfers) + 1 \notin DOMAIN xfers
    BY <1>1, <1>4, <2>1
  <2>3. Len(xfers) + 1 \in Ids
    BY <1>1, <2>2
  <2>4. \A t \in DOMAIN xfers' : t \in Carriers' => /\ t \in DOMAIN xfers /\ t \in Carriers
                                                   /\ xfers'[t].packet = xfers[t].packet
    BY <2>1, <2>2 DEF Carriers
  <2>5. Yielded' = Yielded
    BY <2>1, <2>2, YieldedSame
  <2>6. OrderInv' /\ YieldInv'
    BY <1>4, <2>1, <2>2, <2>4, OrderSame
  <2>7. [Stream!Next]_(Stream!streamVars)
    BY <2>1, <2>2, <2>3, <2>5, Stutters
  <2> QED BY <2>6, <2>7
<1>5. CASE UNCHANGED usbVars
  BY <1>3, <1>5 DEF usbVars, busVars, eventVars
<1>6. ASSUME NEW o \in Owners, Owner(o)
      PROVE  OrderInv' /\ YieldInv' /\ [Stream!Next]_(Stream!streamVars)
  <2>1. CASE OpenStart(o) \/ DetachDriver(o) \/ ClaimInterface(o) \/ ReleaseInterface(o)
                 \/ AttachDriver(o) \/ \E h \in Halves : DropHalf(o, h)
    <3>1. UNCHANGED <<xfers, sent, wire, completed, event>>
      BY <2>1 DEF OpenStart, DetachDriver, ClaimInterface, ReleaseInterface, AttachDriver,
                  DropHalf, busVars, eventVars
    <3> QED BY <1>3, <3>1
  <2>2. inner[o].plug \in 0 .. MaxPlugs
    BY DEF UsbInv, UsbTypeOK, InnerType
  <2>3. CASE SubmitRead(o)
    <3>1. /\ xfers' = NewTransfer(inner[o].plug, "read")
             \/ xfers' = RefusedTransfer(inner[o].plug, "read")
          /\ UNCHANGED <<sent, wire, completed, event>>
      BY <2>3 DEF SubmitRead, ReadAccepted, ReadRefused, busVars, eventVars
    <3>2. PICK x : Fresh(x, "read") /\ xfers' = Append(xfers, x)
      BY <2>2, <3>1, NewFacts
    <3> QED BY <1>4, <3>1, <3>2
  <2>4. CASE Send(o)
    <3>1. /\ xfers' = NewTransfer(inner[o].plug, "write")
             \/ xfers' = RefusedTransfer(inner[o].plug, "write")
          /\ UNCHANGED <<sent, wire, completed, event>>
      BY <2>4 DEF Send, busVars, eventVars
    <3>2. PICK x : Fresh(x, "write") /\ xfers' = Append(xfers, x)
      BY <2>2, <3>1, NewFacts
    <3> QED BY <1>4, <3>1, <3>2
  <2>5. CASE CancelRead(o)
    <3>1. /\ OrderInv' /\ YieldInv' /\ DOMAIN xfers' = DOMAIN xfers
          /\ \A u \in DOMAIN xfers : /\ xfers'[u].kind = xfers[u].kind
                                     /\ xfers'[u].out = xfers[u].out
                                     /\ xfers'[u].mem = xfers[u].mem
      BY <2>5, OrderCancel
    <3>2. inner[o].read \in Ids /\ Yielded' = Yielded
      BY <1>1, <2>5, <3>1, YieldedSame DEF CancelRead, UsbInv, OpeningInv
    <3>3. [Stream!Next]_(Stream!streamVars)
      BY <3>1, <3>2, Stutters
    <3> QED BY <3>1, <3>3
  <2> QED BY <1>6, <2>1, <2>3, <2>4, <2>5 DEF Owner, Opening, CloseStep
<1>7. ASSUME NEW t \in DOMAIN xfers, CallbackStart(t)
      PROVE  OrderInv' /\ YieldInv' /\ [Stream!Next]_(Stream!streamVars)
  BY <1>2, <1>7, OrderCallbackStart DEF CallbackStart
<1>8. ASSUME NEW t \in DOMAIN xfers, CallbackRun(t)
      PROVE  OrderInv' /\ YieldInv' /\ [Stream!Next]_(Stream!streamVars)
  <2>1. /\ DOMAIN xfers' = DOMAIN xfers
        /\ \A u \in DOMAIN xfers \ {t} : xfers'[u] = xfers[u]
        /\ xfers'[t].kind = xfers[t].kind /\ xfers'[t].mem = xfers[t].mem
        /\ event.at = "locked" /\ event.t = t
    BY <1>8, CallbackRunFacts
  <2>2. xfers[t].mem = "live" /\ t \in Ids
    BY <1>1, <2>1 DEF UsbInv, EventInv
  <2>3. OrderInv' /\ YieldInv'
    BY <1>8, OrderCallbackRun
  <2>4. CASE xfers'[t].out = xfers[t].out /\ Yielded' = Yielded
    BY <2>1, <2>2, <2>3, <2>4, Stutters
  <2>5. CASE /\ xfers'[t].out = Append(xfers[t].out, xfers[t].packet)
             /\ Yielded' = Yielded \cup {xfers[t].packet}
             /\ xfers[t].kind = "read" /\ xfers[t].packet \in 1 .. MaxPackets
             /\ \A y \in Yielded : y < xfers[t].packet
    <3>1. Got' = [Got EXCEPT ![t] = Append(@, xfers[t].packet)] /\ Ended' = Ended
      BY <1>1, <2>1, <2>2, <2>5 DEF Got, Ended, ReadOf
    <3>2. t \notin Ended
      BY <2>2 DEF Ended
    <3>3. xfers[t].packet > Newest /\ Newest' = xfers[t].packet
      <4>1. MaxPackets \in Nat /\ Yielded \subseteq 1 .. MaxPackets
            /\ Yielded' \subseteq 1 .. MaxPackets
        BY <2>5, UsbDeviceAssumption, YieldedNat
      <4>2. /\ Newest \in Yielded \cup {0} /\ Newest' \in Yielded' \cup {0}
            /\ \A m \in Yielded' : Newest' >= m
        BY <2>3, NewestIs
      <4> QED BY <2>5, <4>1, <4>2
    <3> QED BY <2>2, <2>3, <2>5, <3>1, <3>2, <3>3, StreamSteps
  <2> QED BY <1>8, <2>4, <2>5, OrderCallbackRun
<1>9. ASSUME NEW t \in DOMAIN xfers, CallbackEnd(t)
      PROVE  OrderInv' /\ YieldInv' /\ [Stream!Next]_(Stream!streamVars)
  <2>1. UNCHANGED <<xfers, sent, wire, completed>>
    BY <1>9 DEF CallbackEnd, busVars
  <2>2. event'.at # "locked"
    BY <1>9 DEF CallbackEnd, Waiting, UsbInv, UsbTypeOK
  <2>3. Yielded' = Yielded /\ Carriers' = Carriers
    BY <2>1 DEF Yielded, Carriers
  <2>4. OrderInv' /\ YieldInv'
    BY <2>1, <2>2, <2>3 DEF OrderInv, YieldInv
  <2> QED BY <1>2, <2>1, <2>4
<1>10. ASSUME NEW t \in DOMAIN xfers, CallbackFree(t)
       PROVE  OrderInv' /\ YieldInv' /\ [Stream!Next]_(Stream!streamVars)
  <2> DEFINE x == [xfers[t] EXCEPT !.mem = "freed"]
  <2>1. /\ UNCHANGED <<sent, wire, completed>> /\ event'.at # "locked"
        /\ event.at = "free" /\ event.t = t
    BY <1>10 DEF CallbackFree, Waiting, busVars
  <2>2. xfers[t] \in XferType
    BY DEF UsbInv, UsbTypeOK
  <2>3. /\ DOMAIN xfers' = DOMAIN xfers
        /\ \A u \in DOMAIN xfers \ {t} : xfers'[u] = xfers[u]
        /\ xfers'[t].out = xfers[t].out /\ xfers'[t].kind = xfers[t].kind
        /\ xfers'[t].usb = xfers[t].usb /\ xfers'[t].packet = xfers[t].packet
    BY <1>10, <2>2 DEF CallbackFree, XferType
  <2>4. xfers[t].mem = "live"
    BY <2>1 DEF UsbInv, EventInv
  <2>5. Yielded' = Yielded
    BY <2>3, YieldedSame
  <2>6. /\ Carriers' = Carriers /\ Carriers \subseteq DOMAIN xfers
        /\ \A u \in DOMAIN xfers : xfers'[u].packet = xfers[u].packet
    BY <2>3 DEF Carriers
  <2>7. OrderInv'
    BY <2>1, <2>3, <2>6 DEF OrderInv
  <2>8. YieldInv'
    BY <2>1, <2>3, <2>5, <2>6 DEF YieldInv
  <2>9. [Stream!Next]_(Stream!streamVars)
    BY <1>1, <2>3, <2>4, <2>5, Stutters
  <2> QED BY <2>7, <2>8, <2>9
<1>11. ASSUME NEW t \in DOMAIN xfers, Complete(t)
       PROVE  OrderInv' /\ YieldInv' /\ [Stream!Next]_(Stream!streamVars)
  <2>1. OrderInv' /\ YieldInv' /\ Yielded' = Yielded
    BY <1>11, OrderComplete
  <2>2. /\ DOMAIN xfers' = DOMAIN xfers
        /\ \A u \in DOMAIN xfers : /\ xfers'[u].out = xfers[u].out
                                   /\ xfers'[u].kind = xfers[u].kind
                                   /\ xfers'[u].mem = xfers[u].mem
    BY <1>11, CompleteFacts
  <2>3. [Stream!Next]_(Stream!streamVars)
    BY <1>1, <2>1, <2>2, Stutters
  <2> QED BY <2>1, <2>3
<1>12. CASE DevSend \/ Unplug \/ Plug
  BY <1>2, <1>12, OrderBus
<1> QED BY <1>5, <1>6, <1>7, <1>8, <1>9, <1>10, <1>11, <1>12 DEF Next, Callback, Bus

LEMMA StreamInit == Init => OrderInv /\ YieldInv /\ Stream!Init
<1> SUFFICES ASSUME Init PROVE OrderInv /\ YieldInv /\ Stream!Init
  OBVIOUS
<1>1. xfers = <<>> /\ wire = <<>> /\ completed = <<>> /\ sent = 0
  BY DEF Init
<1>2. Yielded = {} /\ Carriers = {}
  BY <1>1 DEF Yielded, Carriers
<1>3. OrderInv /\ YieldInv
  BY <1>1, <1>2 DEF OrderInv, YieldInv
<1>4. Newest = 0
  BY <1>2, <1>3, NewestIs
<1> QED BY <1>1, <1>3, <1>4 DEF Stream!Init, ReadOf

\* The inputs of all openings of a device, whatever is unplugged, cancelled or
\* times out in between, implement the abstract stream: in order, never twice,
\* nothing after the end (usb.rs, Transfer::callback_inner).
THEOREM StreamsImplement == Spec => ImplementsStream
<1>1. Init => StreamInv /\ Stream!Init
  BY UsbInit, StreamInit DEF StreamInv
<1>2. StreamInv /\ [Next]_usbVars => StreamInv' /\ [Stream!Next]_(Stream!streamVars)
  BY UsbStep, StreamStep DEF StreamInv
<1> QED BY <1>1, <1>2, PTL DEF Spec, ImplementsStream, Stream!Spec

-----------------------------------------------------------------------------
(* Who holds the device.                                                   *)

Active(o) == pc[o] # "idle"

\* What an owner that works on the plugged device has done to its interface it
\* knows how to undo: it lists what is claimed, and attaches what is detached.
\* What it has got of the two, it does not know.
Held(o) ==
    Active(o) /\ Reaches(inner[o].plug) =>
        /\ claimed => inner[o].listed /\ ~driver
        /\ driver \/ inner[o].attach
        /\ pc[o] = "detach" => driver
        /\ pc[o] \in {"detach", "claim", "attach"} => ~claimed
        /\ pc[o] \in {"open", "cancel"} => claimed

\* The weak reference of the plugged device finds the owner that has it open.
Found(o) == pc[o] = "open" => /\ inner[o].halves # {}
                              /\ inner[o].plug = plug => weak = o

\* Two owners never work on the same plug of the device.
HoldInv ==
    /\ plug \in {0, plugs} /\ (plug = 0 => ~claimed)
    /\ \A o \in Owners : Active(o) => /\ inner[o].plug \in 1 .. plugs
                                      /\ inner[o].plug = plug => known = plug
    /\ \A o, p \in Owners : o # p /\ Active(o) /\ Active(p) => inner[o].plug # inner[p].plug
    /\ \A o \in Owners : Found(o) /\ Held(o)
    /\ plug # 0 /\ (\A o \in Owners : Active(o) => inner[o].plug # plug) => driver /\ ~claimed

LEMMA HoldTypes ==
    ASSUME UsbInv
    PROVE  /\ plug \in Nat /\ plugs \in Nat /\ NoOwner \notin Owners
           /\ pc \in [Owners -> Steps] /\ inner \in [Owners -> InnerType]
           /\ driver \in BOOLEAN /\ claimed \in BOOLEAN
           /\ \A o \in Owners : inner[o].plug \in Nat
<1>1. MaxPlugs \in Nat /\ NoOwner \notin Owners
  BY UsbDeviceAssumption
<1> QED BY <1>1 DEF UsbInv, UsbTypeOK, InnerType

\* A step of one owner that touches the interface only through a handle that reaches
\* it, and leaves it as the owner's next step expects it.
LEMMA HoldOwner ==
    ASSUME UsbInv, HoldInv, NEW o \in Owners, Active(o),
           UNCHANGED <<plug, plugs, known>>,
           \A p \in Owners \ {o} : pc'[p] = pc[p] /\ inner'[p] = inner[p],
           Active(o)' => inner'[o].plug = inner[o].plug,
           ~Reaches(inner[o].plug) => UNCHANGED <<driver, claimed>>,
           weak' = weak \/ (weak' = o /\ Reaches(inner[o].plug)),
           Active(o)' => Found(o)' /\ Held(o)',
           ~Active(o)' /\ Reaches(inner[o].plug) => driver' /\ ~claimed'
    PROVE  HoldInv'
<1>1. \A p \in Owners \ {o} : Active(p) /\ Reaches(inner[p].plug) => ~Reaches(inner[o].plug)
  BY DEF HoldInv, Reaches
<1>2. \A p \in Owners \ {o} : Found(p)' /\ Held(p)'
  <2> SUFFICES ASSUME NEW p \in Owners \ {o} PROVE Found(p)' /\ Held(p)'
    OBVIOUS
  <2>1. Found(p) /\ Held(p) /\ Reaches(inner[p].plug)' = Reaches(inner[p].plug)
    BY DEF HoldInv, Reaches
  <2>2. CASE Active(p) /\ Reaches(inner[p].plug)
    <3>1. UNCHANGED <<driver, claimed>> /\ weak' = weak
      BY <1>1, <2>2
    <3> QED BY <2>1, <3>1 DEF Found, Held, Active
  <2>3. CASE ~Active(p) \/ ~Reaches(inner[p].plug)
    <3>1. pc[p] = "open" => inner[p].plug # plug
      BY <2>3, HoldTypes DEF Active, Reaches, HoldInv
    <3> QED BY <2>1, <2>3, <3>1 DEF Found, Held, Active
  <2> QED BY <2>2, <2>3
<1>3. Found(o)' /\ Held(o)'
  BY DEF Found, Held, Active
<1>4. plug' \in {0, plugs'} /\ (plug' = 0 => ~claimed')
  BY DEF HoldInv, Reaches
<1>5. /\ \A p \in Owners : Active(p)' => /\ inner'[p].plug \in 1 .. plugs'
                                         /\ inner'[p].plug = plug' => known' = plug'
      /\ \A p, q \in Owners : p # q /\ Active(p)' /\ Active(q)' => inner'[p].plug # inner'[q].plug
  BY DEF HoldInv, Active
<1>6. ASSUME plug' # 0, \A p \in Owners : Active(p)' => inner'[p].plug # plug'
      PROVE  driver' /\ ~claimed'
  <2>1. CASE Reaches(inner[o].plug)
    BY <1>6, <2>1 DEF Reaches
  <2>2. CASE ~Reaches(inner[o].plug)
    BY <1>6, <2>2 DEF Reaches, HoldInv, Active
  <2> QED BY <2>1, <2>2
<1> QED BY <1>2, <1>3, <1>4, <1>5, <1>6 DEF HoldInv

LEMMA HoldSame ==
    ASSUME HoldInv,
           UNCHANGED <<plug, plugs, driver, claimed, known, weak, pc, inner>>
    PROVE  HoldInv'
BY DEF HoldInv, Active, Found, Held, Reaches

LEMMA HoldOpenStart ==
    ASSUME Joined, UsbInv, HoldInv, NEW o \in Owners, OpenStart(o)
    PROVE  HoldInv'
<1>1. /\ UNCHANGED <<plug, plugs, driver, claimed>> /\ known' = plug
      /\ known = plug => weak' = weak
      /\ pc[o] = "idle" /\ devices = NoOwner
      /\ \A p \in Owners : pc[p] \notin {"cancel", "release", "attach"}
  BY DEF OpenStart, Enumerated, Closing, busVars
<1>2. /\ \A p \in Owners : Active(p) => pc[p] = "open"
  BY <1>1, HoldTypes DEF UsbInv, OpeningInv, Opens, Steps, Active
<1>3. \A p \in Owners : Active(p) /\ inner[p].plug = plug => weak' = p /\ inner[p].halves # {}
  BY <1>1, <1>2 DEF HoldInv, Found
<1>4. CASE UNCHANGED <<pc, inner>>
  <2>1. \A p \in Owners : Found(p)' /\ Held(p)'
    BY <1>1, <1>2, <1>3, <1>4 DEF HoldInv, Found, Held, Active, Reaches
  <2> QED BY <1>1, <1>4, <2>1 DEF HoldInv, Active
<1>5. CASE /\ plug # 0 /\ ~Upgrades(weak')
           /\ pc' = [pc EXCEPT ![o] = "detach"]
           /\ inner' = [inner EXCEPT ![o] = [NoInner EXCEPT !.plug = plug]]
  <2>1. \A p \in Owners : Active(p) => inner[p].plug # plug
    <3> SUFFICES ASSUME NEW p \in Owners, Active(p), inner[p].plug = plug PROVE FALSE
      OBVIOUS
    <3>1. weak' = p /\ inner[p].halves # {}
      BY <1>3
    <3> QED BY <1>5, <3>1 DEF Upgrades
  <2>2. /\ pc'[o] = "detach" /\ inner'[o].plug = plug
        /\ \A p \in Owners \ {o} : pc'[p] = pc[p] /\ inner'[p] = inner[p]
    BY <1>5, HoldTypes DEF NoInner
  <2>3. driver /\ ~claimed /\ plug = plugs
    BY <1>5, <2>1 DEF HoldInv
  <2>4. \A p \in Owners \ {o} : Found(p)' /\ Held(p)'
    BY <1>1, <2>1, <2>2 DEF HoldInv, Found, Held, Active, Reaches
  <2>5. Found(o)' /\ Held(o)'
    BY <1>1, <2>2, <2>3 DEF Found, Held, Active
  <2>6. /\ \A p \in Owners : Active(p)' => /\ inner'[p].plug \in 1 .. plugs'
                                           /\ inner'[p].plug = plug' => known' = plug'
        /\ \A p, q \in Owners : p # q /\ Active(p)' /\ Active(q)' => inner'[p].plug # inner'[q].plug
    BY <1>1, <1>5, <2>1, <2>2, <2>3, HoldTypes DEF HoldInv, Active
  <2> QED BY <1>1, <1>5, <2>2, <2>3, <2>4, <2>5, <2>6 DEF HoldInv
<1> QED BY <1>4, <1>5 DEF OpenStart, ownerVars

LEMMA HoldStep ==
    ASSUME Joined, UsbInv, HoldInv, [Next]_usbVars
    PROVE  HoldInv'
<1> USE HoldTypes
<1>1. CASE UNCHANGED usbVars
  BY <1>1, HoldSame DEF usbVars, busVars, tableVars, ownerVars
<1>2. ASSUME NEW o \in Owners, Owner(o) PROVE HoldInv'
  <2>0. inner[o] \in InnerType /\ Found(o) /\ Held(o)
    BY DEF HoldInv
  <2>1. CASE OpenStart(o)
    BY <2>1, HoldOpenStart
  <2>2. CASE DetachDriver(o)
    <3> DEFINE there == Reaches(inner[o].plug)
    <3>1. /\ pc[o] = "detach" /\ pc'[o] = "claim"
          /\ UNCHANGED <<plug, plugs, known, weak, claimed>>
          /\ \A p \in Owners \ {o} : pc'[p] = pc[p]
      BY <2>2 DEF DetachDriver, tableVars
    <3>2. PICK listed, attach, detached \in BOOLEAN :
              /\ listed => there
              /\ attach => listed /\ driver
              /\ detached => attach
              /\ inner' = [inner EXCEPT ![o] = [@ EXCEPT !.listed = listed, !.attach = attach]]
              /\ driver' = (driver /\ ~detached)
      BY <2>2, Zenon DEF DetachDriver
    <3> HIDE DEF there
    <3>3. /\ \A p \in Owners \ {o} : inner'[p] = inner[p]
          /\ inner'[o].plug = inner[o].plug /\ inner'[o].attach = attach
      BY <2>0, <3>2 DEF InnerType
    <3>4. (driver' = driver) \/ (attach /\ there)
      BY <3>2, Zenon
    <3>5. ~there => UNCHANGED <<driver, claimed>>
      BY <3>1, <3>2, <3>4
    <3>6. Reaches(inner[o].plug)' = there
      BY <3>1, <3>3 DEF there, Reaches
    <3>7. there => driver /\ ~claimed
      BY <2>0, <3>1 DEF Held, Active, there
    <3>8. Found(o)' /\ Held(o)'
      BY <3>1, <3>3, <3>4, <3>6, <3>7 DEF Found, Held
    <3> QED BY <3>1, <3>3, <3>5, <3>8, HoldOwner DEF Active, there
  <2>3. CASE ClaimInterface(o)
    <3>1. /\ pc[o] = "claim" /\ pc'[o] = "submit"
          /\ UNCHANGED <<plug, plugs, known, weak, inner>>
          /\ \A p \in Owners \ {o} : pc'[p] = pc[p]
      BY <2>3 DEF ClaimInterface, tableVars
    <3>2. /\ driver' = driver \/ (driver' = TRUE /\ Reaches(inner[o].plug) /\ ~claimed)
          /\ \/ claimed' = claimed
             \/ claimed' = TRUE /\ inner[o].listed /\ Reaches(inner[o].plug) /\ ~driver'
      BY <2>3 DEF ClaimInterface
    <3>3. ~Reaches(inner[o].plug) => UNCHANGED <<driver, claimed>>
      BY <3>2
    <3>4. Found(o)' /\ Held(o)'
      BY <2>0, <3>1, <3>2 DEF Found, Held, Active, Reaches
    <3> QED BY <3>1, <3>3, <3>4, HoldOwner DEF Active
  <2>4. CASE SubmitRead(o)
    <3>1. pc[o] = "submit" /\ UNCHANGED <<plug, plugs, known, driver, claimed>>
      BY <2>4 DEF SubmitRead, busVars
    <3>2. CASE ReadAccepted(o)
      <4> DEFINE n == Len(xfers')
                 x == [inner[o] EXCEPT !.read = n, !.halves = Halves]
      <4>1. /\ pc'[o] = "open" /\ weak' = o
            /\ \A p \in Owners \ {o} : pc'[p] = pc[p]
            /\ inner' = [inner EXCEPT ![o] = x]
        BY <3>2 DEF ReadAccepted
      <4> HIDE DEF n
      <4>2. /\ x.plug = inner[o].plug /\ x.listed = inner[o].listed
            /\ x.attach = inner[o].attach /\ x.halves # {}
        BY <2>0 DEF InnerType, Halves
      <4> HIDE DEF x
      <4>3. /\ inner'[o] = x /\ \A p \in Owners \ {o} : inner'[p] = inner[p]
        BY <4>1
      <4>4. Reaches(inner[o].plug) /\ claimed
        BY <3>2 DEF ReadAccepted, Submits
      <4>5. Found(o)' /\ Held(o)'
        BY <2>0, <3>1, <4>1, <4>2, <4>3, <4>4 DEF Found, Held, Active, Reaches
      <4> QED BY <3>1, <4>1, <4>2, <4>3, <4>4, <4>5, HoldOwner DEF Active
    <3>3. CASE ReadRefused(o)
      <4>1. /\ pc'[o] = "release" /\ UNCHANGED <<weak, inner>>
            /\ \A p \in Owners \ {o} : pc'[p] = pc[p]
        BY <3>3 DEF ReadRefused
      <4>2. Found(o)' /\ Held(o)'
        BY <2>0, <3>1, <4>1 DEF Found, Held, Active, Reaches
      <4> QED BY <3>1, <4>1, <4>2, HoldOwner DEF Active
    <3> QED BY <2>4, <3>2, <3>3 DEF SubmitRead
  <2>5. CASE Send(o)
    BY <2>5, HoldSame DEF Send, busVars, tableVars, ownerVars
  <2>6. CASE CancelRead(o)
    <3>1. /\ pc[o] = "cancel" /\ pc'[o] = "release"
          /\ UNCHANGED <<plug, plugs, known, weak, driver, claimed, inner>>
          /\ \A p \in Owners \ {o} : pc'[p] = pc[p]
      BY <2>6 DEF CancelRead, busVars, tableVars
    <3> QED BY <2>0, <3>1, HoldOwner DEF Active, Found, Held, Reaches
  <2>7. CASE ReleaseInterface(o)
    <3>1. /\ pc[o] = "release" /\ pc'[o] = "attach"
          /\ claimed' = (claimed /\ ~(inner[o].listed /\ Reaches(inner[o].plug)))
          /\ UNCHANGED <<plug, plugs, known, weak, driver, inner>>
          /\ \A p \in Owners \ {o} : pc'[p] = pc[p]
      BY <2>7 DEF ReleaseInterface, tableVars
    <3>2. ~Reaches(inner[o].plug) => claimed' = claimed
      BY <3>1
    <3>3. Found(o)' /\ Held(o)'
      BY <2>0, <3>1 DEF Found, Held, Active, Reaches
    <3> QED BY <3>1, <3>2, <3>3, HoldOwner DEF Active
  <2>8. CASE AttachDriver(o)
    <3>1. /\ pc[o] = "attach" /\ pc'[o] = "idle"
          /\ driver' = (driver \/ (inner[o].attach /\ Reaches(inner[o].plug) /\ ~claimed))
          /\ UNCHANGED <<plug, plugs, known, weak, claimed>>
          /\ \A p \in Owners \ {o} : pc'[p] = pc[p] /\ inner'[p] = inner[p]
      BY <2>8 DEF AttachDriver
    <3>2. ~Reaches(inner[o].plug) => driver' = driver
      BY <3>1
    <3>3. Reaches(inner[o].plug) => driver' /\ ~claimed'
      BY <2>0, <3>1 DEF Held, Active
    <3> QED BY <3>1, <3>2, <3>3, HoldOwner DEF Active
  <2>9. ASSUME NEW h \in Halves, DropHalf(o, h) PROVE HoldInv'
    <3> DEFINE hs == inner[o].halves \ {h}
    <3>1. /\ pc[o] = "open" /\ pc'[o] = (IF hs = {} THEN "cancel" ELSE "open")
          /\ UNCHANGED <<plug, plugs, known, weak, driver, claimed>>
          /\ \A p \in Owners \ {o} : pc'[p] = pc[p] /\ inner'[p] = inner[p]
      BY <2>9 DEF DropHalf, busVars, tableVars
    <3>2. inner' = [inner EXCEPT ![o] = [inner[o] EXCEPT !.halves = hs]]
      BY <2>9 DEF DropHalf
    <3>3. /\ inner'[o].plug = inner[o].plug /\ inner'[o].listed = inner[o].listed
          /\ inner'[o].attach = inner[o].attach /\ inner'[o].halves = hs
      BY <2>0, <3>2 DEF InnerType
    <3> QED BY <2>0, <3>1, <3>3, HoldOwner DEF Active, Found, Held, Reaches
  <2> QED BY <1>2, <2>1, <2>2, <2>3, <2>4, <2>5, <2>6, <2>7, <2>8, <2>9
          DEF Owner, Opening, CloseStep
<1>3. CASE Callback
  BY <1>3, HoldSame DEF Callback, CallbackStart, CallbackRun, CallbackEnd, CallbackFree,
                        busVars, tableVars, ownerVars
<1>4. CASE DevSend \/ \E t \in DOMAIN xfers : Complete(t)
  BY <1>4, HoldSame DEF DevSend, Complete, tableVars, ownerVars
<1>5. CASE Unplug
  <2>1. plug' = 0 /\ claimed' = FALSE /\ UNCHANGED <<plugs, known, weak, pc, inner>>
    BY <1>5 DEF Unplug, tableVars, ownerVars
  <2> QED BY <2>1 DEF HoldInv, Active, Found, Held, Reaches
<1>6. CASE Plug
  <2>1. /\ plug = 0 /\ plug' = plugs + 1 /\ plugs' = plugs + 1 /\ driver' = TRUE
        /\ UNCHANGED <<claimed, known, weak, pc, inner>>
    BY <1>6 DEF Plug, tableVars, ownerVars
  <2>2. \A o \in Owners : Active(o) => inner[o].plug \in 1 .. plugs /\ inner[o].plug # plug'
    BY <2>1 DEF HoldInv
  <2>3. \A o \in Owners : Found(o)' /\ Held(o)'
    BY <2>1, <2>2 DEF HoldInv, Active, Found, Held, Reaches
  <2> QED BY <2>1, <2>2, <2>3 DEF HoldInv, Active
<1> QED BY <1>1, <1>2, <1>3, <1>4, <1>5, <1>6 DEF Next, Bus

LEMMA HoldInit == Init => HoldInv
<1> SUFFICES ASSUME Init PROVE HoldInv
  OBVIOUS
<1>1. /\ plug = 1 /\ plugs = 1 /\ driver = TRUE /\ claimed = FALSE
      /\ \A o \in Owners : pc[o] = "idle"
  BY DEF Init
<1> QED BY <1>1 DEF HoldInv, Active, Found, Held

LEMMA Holds == ASSUME Joined PROVE Spec => [](UsbInv /\ HoldInv)
<1>1. Init => UsbInv /\ HoldInv
  BY UsbInit, HoldInit
<1>2. UsbInv /\ HoldInv /\ [Next]_usbVars => (UsbInv /\ HoldInv)'
  BY UsbStep, HoldStep
<1> QED BY <1>1, <1>2, PTL DEF Spec

\* When whoever opens the device waits for the earlier openings to be closed
\* (midi_in_out_stop is awaited), no close gives an open device back to the kernel
\* driver, however it is plugged and unplugged in between (dev_handler.rs,
\* DeviceInner::close).
THEOREM DeviceIsHeld == Joined => (Spec => []OpenDeviceIsHeld)
<1> SUFFICES ASSUME Joined PROVE Spec => []OpenDeviceIsHeld
  OBVIOUS
<1>1. UsbInv /\ HoldInv => OpenDeviceIsHeld
  BY DEF HoldInv, Held, Active, OpenDeviceIsHeld
<1> QED BY <1>1, Holds, PTL

\* Under the same condition the kernel driver has the device back whenever nobody
\* uses it, whichever step of an opening failed (dev_handler.rs, close_inner).
THEOREM DriverReturns == Joined => (Spec => []DriverIsGivenBack)
<1> SUFFICES ASSUME Joined PROVE Spec => []DriverIsGivenBack
  OBVIOUS
<1>1. UsbInv /\ HoldInv => DriverIsGivenBack
  BY DEF HoldInv, Active, DriverIsGivenBack
<1> QED BY <1>1, Holds, PTL
=============================================================================
