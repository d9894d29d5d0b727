----------------------------- MODULE UsbDevice -----------------------------
(***************************************************************************)
(* The USB transport of pod-usb: opening and closing a device, and its     *)
(* asynchronous libusb transfers.                                          *)
(*                                                                         *)
(* The owners are the threads and tasks that open a device, send to it and *)
(* drop its two halves (DeviceInput, DeviceOutput).  The event thread runs *)
(* the completion callbacks.  A Transfer is freed by its callback, while   *)
(* the owner keeps a raw pointer to it for the cancellation: the mutex     *)
(* around its status is all that keeps the two apart.                      *)
(*                                                                         *)
(* The device has one interface.  A packet is one MIDI message, known by   *)
(* its number; what the framers make of it is in MidiPath.                 *)
(***************************************************************************)
EXTENDS Naturals, Sequences, FiniteSets

CONSTANTS
    Owners, NoOwner,
    MaxTransfers,   \* bound: transfers ever allocated
    MaxPackets,     \* bound: packets the device sends
    MaxPlugs,       \* bound: how often the device is plugged in
    Joined          \* a device is opened only after every owner that dropped
                    \* it has finished: midi_in_out_stop is awaited

ASSUME UsbDeviceAssumption ==
    /\ NoOwner \notin Owners
    /\ MaxTransfers \in Nat /\ MaxPackets \in Nat
    /\ MaxPlugs \in Nat \ {0}
    /\ Joined \in BOOLEAN

Ids      == 1 .. MaxTransfers
Halves   == {"in", "out"}
Steps    == {"idle", "detach", "claim", "submit", "open",
             "cancel", "release", "attach"}
Statuses == {"Ok", "Error", "Cancel"}

VARIABLES
    plug,       \* 0: not plugged in; n: plugged in for the n-th time
    plugs,      \* how often it was plugged in
    driver,     \* the kernel driver is attached to the interface
    claimed,    \* the interface is claimed by this process
    sent,       \* the packets the device has sent so far
    wire,       \* the packets it still holds
    known,      \* DEVICES: the plug of the Device kept there; 0: none
    weak,       \* Device.inner: whose DeviceInner it refers to
    devices,    \* owner that holds the mutex of DEVICES
    pc,         \* where an owner stands
    inner,      \* the owner's DeviceInner
    xfers,      \* the transfers allocated so far
    completed,  \* the transfers libusb has completed, for the event thread
    event       \* what the event thread is doing

busVars   == <<plug, plugs, driver, claimed, sent, wire>>
tableVars == <<known, weak, devices>>
ownerVars == <<pc, inner>>
eventVars == <<completed, event>>
usbVars   == <<busVars, tableVars, ownerVars, xfers, eventVars>>

-----------------------------------------------------------------------------
(* Transfers.                                                              *)

\* A transfer: the handle it uses, a read or a write, TransferStatus, where
\* libusb has it, the packet it completed with (0: none), its memory, and
\* what its callback has sent to the channel of the DeviceInput.  That libusb
\* refused it is noted for the properties.
Transfer(g, kind) ==
    [plug |-> g, kind |-> kind, status |-> "Ok", usb |-> "idle",
     packet |-> 0, mem |-> "live", out |-> <<>>, refused |-> FALSE]

Waiting == [at |-> "wait", t |-> 0]
Locked(t)   == event.t = t /\ event.at \in {"locked", "keep", "drop"}

\* The handle reaches the device while it stays plugged in.
Reaches(g) == plug # 0 /\ plug = g

\* Without the device or a claimed interface libusb refuses every transfer;
\* with both it may still refuse any.
Submits(g) == Reaches(g) /\ claimed

\* Mutant: the status of a transfer that ends is left alone.
DroppedQuietly(x) == [x EXCEPT !.usb = "idle"]

\* callback_inner, TransferCommand::Drop.
Dropped(x) == [x EXCEPT !.status = "Cancel", !.usb = "idle"]

\* submit_inner: libusb has the transfer, or it ends as one that failed.
Submitted(x) == [x EXCEPT !.usb = "flying", !.packet = 0]
Refused(x)   == [Dropped(x) EXCEPT !.refused = TRUE]

\* Transfer::submit: a refused transfer is freed at once.
NewTransfer(g, kind)     == Append(xfers, Submitted(Transfer(g, kind)))
RefusedTransfer(g, kind) == Append(xfers, [Refused(Transfer(g, kind)) EXCEPT !.mem = "freed"])

\* Bound: another transfer may be allocated, beside that of an opening.
Room == Len(xfers) + (IF devices = NoOwner THEN 0 ELSE 1) < MaxTransfers

-----------------------------------------------------------------------------
(* Opening.                                                                *)

NoInner == [plug |-> 0, listed |-> FALSE, attach |-> FALSE, read |-> 0, halves |-> {}]

\* Mutant: the Weak is never set.
UpgradesNever(o) == FALSE

\* The owner's DeviceInner still counts as open: a Weak to it upgrades.
Upgrades(o) == o \in Owners /\ inner[o].halves # {}

\* usb_enumerate_devices: a Device that is no longer listed is dropped, a
\* new one is added.
Enumerated == /\ known' = plug
              /\ weak' = IF known = plug THEN weak ELSE NoOwner

Closing == \E o \in Owners : pc[o] \in {"cancel", "release", "attach"}

\* usb_device_for_name, Device::open: refused when the device is not there
\* or already open.
OpenStart(o) ==
    /\ pc[o] = "idle"
    /\ devices = NoOwner
    /\ Joined => ~Closing
    /\ Room
    /\ Enumerated
    /\ IF plug # 0 /\ ~Upgrades(weak')
       THEN /\ devices' = o
            /\ pc' = [pc EXCEPT ![o] = "detach"]
            /\ inner' = [inner EXCEPT ![o] = [NoInner EXCEPT !.plug = plug]]
       ELSE UNCHANGED <<devices, ownerVars>>
    /\ UNCHANGED <<busVars, xfers, eventVars>>

\* DeviceInner::detach_kernel_driver: no interface is listed without a device,
\* or when its configuration is not to be had; a driver may pass for absent,
\* and may stay when it was to be detached.  The opening goes on with it all.
DetachDriver(o) ==
    /\ pc[o] = "detach"
    /\ pc' = [pc EXCEPT ![o] = "claim"]
    /\ \E listed, attach, detached \in BOOLEAN :
           /\ listed => Reaches(inner[o].plug)
           /\ attach => listed /\ driver
           /\ detached => attach
           /\ inner' = [inner EXCEPT ![o] = [@ EXCEPT !.listed = listed, !.attach = attach]]
           /\ driver' = (driver /\ ~detached)
    /\ UNCHANGED <<plug, plugs, claimed, sent, wire, tableVars, xfers, eventVars>>

\* Setting another configuration makes the kernel bind its driver again; that,
\* and a claim that fails, is logged and ignored (claim_interfaces).
ClaimInterface(o) ==
    /\ pc[o] = "claim"
    /\ pc' = [pc EXCEPT ![o] = "submit"]
    /\ \/ driver' = driver
       \/ driver' = TRUE /\ Reaches(inner[o].plug) /\ ~claimed
    /\ \/ claimed' = claimed
       \/ claimed' = TRUE /\ inner[o].listed /\ Reaches(inner[o].plug) /\ ~driver'
    /\ UNCHANGED <<plug, plugs, sent, wire, tableVars, inner, xfers, eventVars>>

ReadAccepted(o) ==
    /\ Submits(inner[o].plug)
    /\ xfers' = NewTransfer(inner[o].plug, "read")
    /\ pc' = [pc EXCEPT ![o] = "open"]
    /\ inner' = [inner EXCEPT ![o] = [@ EXCEPT !.read = Len(xfers'), !.halves = Halves]]
    /\ weak' = o
    /\ devices' = NoOwner

\* Mutant: a failed opening gives nothing back.
ReadRefusedKept(o) ==
    /\ xfers' = RefusedTransfer(inner[o].plug, "read")
    /\ pc' = [pc EXCEPT ![o] = "idle"]
    /\ inner' = [inner EXCEPT ![o] = NoInner]
    /\ devices' = NoOwner
    /\ UNCHANGED weak

\* What was claimed and detached is given back (close_inner), under the mutex.
ReadRefused(o) ==
    /\ xfers' = RefusedTransfer(inner[o].plug, "read")
    /\ pc' = [pc EXCEPT ![o] = "release"]
    /\ UNCHANGED <<inner, weak, devices>>

SubmitRead(o) ==
    /\ pc[o] = "submit"
    /\ ReadAccepted(o) \/ ReadRefused(o)
    /\ UNCHANGED <<busVars, known, eventVars>>

-----------------------------------------------------------------------------
(* Sending and closing.                                                    *)

\* DeviceInner::send: each write is a transfer of its own, that nobody
\* cancels.  DeviceInner.closed is set by the last half only: it is never
\* seen here.
Send(o) ==
    /\ pc[o] = "open" /\ "out" \in inner[o].halves
    /\ Room
    /\ \/ Submits(inner[o].plug) /\ xfers' = NewTransfer(inner[o].plug, "write")
       \/ xfers' = RefusedTransfer(inner[o].plug, "write")
    /\ UNCHANGED <<busVars, tableVars, ownerVars, eventVars>>

\* Drop of one half; the last one closes the DeviceInner.
DropHalf(o, h) ==
    /\ pc[o] = "open" /\ h \in inner[o].halves
    /\ inner' = [inner EXCEPT ![o].halves = @ \ {h}]
    /\ pc' = IF inner[o].halves = {h} THEN [pc EXCEPT ![o] = "cancel"] ELSE pc
    /\ UNCHANGED <<busVars, tableVars, xfers, eventVars>>

\* Mutant: the status is not told.
CancelledOnly(x) == [x EXCEPT !.usb = IF @ = "flying" THEN "done" ELSE @]

\* libusb_cancel_transfer: a transfer that has completed meanwhile is left
\* to its callback.
Cancelled(x) == [x EXCEPT !.status = "Cancel",
                          !.usb = IF @ = "flying" THEN "done" ELSE @]

\* SubmittedTransfer::cancel, under the lock of the status.
CancelRead(o) ==
    /\ pc[o] = "cancel"
    /\ LET t == inner[o].read
       IN  /\ ~Locked(t)
           /\ xfers' = IF xfers[t].status = "Ok"
                       THEN [xfers EXCEPT ![t] = Cancelled(@)] ELSE xfers
           /\ completed' = IF xfers[t].status = "Ok" /\ xfers[t].usb = "flying"
                           THEN Append(completed, t) ELSE completed
    /\ pc' = [pc EXCEPT ![o] = "release"]
    /\ UNCHANGED <<busVars, tableVars, inner, event>>

\* DeviceInner::release_interfaces.
ReleaseInterface(o) ==
    /\ pc[o] = "release"
    /\ pc' = [pc EXCEPT ![o] = "attach"]
    /\ claimed' = (claimed /\ ~(inner[o].listed /\ Reaches(inner[o].plug)))
    /\ UNCHANGED <<plug, plugs, driver, sent, wire, tableVars, inner, xfers, eventVars>>

\* DeviceInner::attach_kernel_driver; the kernel refuses it while the
\* interface is claimed.  A failed opening releases the mutex.
AttachDriver(o) ==
    /\ pc[o] = "attach"
    /\ pc' = [pc EXCEPT ![o] = "idle"]
    /\ driver' = (driver \/ (inner[o].attach /\ Reaches(inner[o].plug) /\ ~claimed))
    /\ devices' = IF devices = o THEN NoOwner ELSE devices
    /\ inner' = [inner EXCEPT ![o] = NoInner]
    /\ UNCHANGED <<plug, plugs, claimed, sent, wire, known, weak, xfers, eventVars>>

-----------------------------------------------------------------------------
(* The event thread.                                                       *)

\* Transfer::callback takes the lock of the status; libusb_handle_events
\* calls back in the order of the completions.
CallbackStart(t) ==
    /\ event = Waiting
    /\ completed # <<>> /\ t = Head(completed)
    /\ completed' = Tail(completed)
    /\ event' = [at |-> "locked", t |-> t]
    /\ UNCHANGED <<busVars, tableVars, ownerVars, xfers>>

\* Mutant: the buffer is taken at its full length.
DeliveredFull(x) ==
    IF x.kind = "read" /\ x.status = "Ok" /\ (x.packet # 0 \/ x.out # <<>>)
    THEN [x EXCEPT !.out = Append(@, IF x.packet # 0 THEN x.packet ELSE @[Len(@)])]
    ELSE x

\* The callback of the read transfer: what was read goes to the channel.
Delivered(x) == IF x.kind = "read" /\ x.packet # 0 /\ x.status = "Ok"
                THEN [x EXCEPT !.out = Append(@, x.packet)] ELSE x

\* Mutant: a read that timed out ends the reading.
ResubmitsData(x) == x.kind = "read" /\ x.status = "Ok" /\ x.packet # 0

Resubmits(x) == x.kind = "read" /\ x.status = "Ok"

\* Transfer::callback_inner: the read transfer goes on until it is cancelled
\* or refused, whatever status it completed with.
CallbackRun(t) ==
    /\ event = [at |-> "locked", t |-> t]
    /\ \/ /\ Resubmits(xfers[t]) /\ Submits(xfers[t].plug)
          /\ xfers' = [xfers EXCEPT ![t] = Submitted(Delivered(@))]
          /\ event' = [event EXCEPT !.at = "keep"]
       \/ /\ xfers' = [xfers EXCEPT ![t] =
                IF Resubmits(@) THEN Refused(Delivered(@)) ELSE Dropped(Delivered(@))]
          /\ event' = [event EXCEPT !.at = "drop"]
    /\ UNCHANGED <<busVars, tableVars, ownerVars, completed>>

\* The lock is released; then the Transfer that is no longer needed is freed.
CallbackEnd(t) ==
    /\ event.t = t /\ event.at \in {"keep", "drop"}
    /\ event' = IF event.at = "keep" THEN Waiting ELSE [at |-> "free", t |-> t]
    /\ UNCHANGED <<busVars, tableVars, ownerVars, xfers, completed>>

CallbackFree(t) ==
    /\ event = [at |-> "free", t |-> t]
    /\ xfers' = [xfers EXCEPT ![t].mem = "freed"]
    /\ event' = Waiting
    /\ UNCHANGED <<busVars, tableVars, ownerVars, completed>>

-----------------------------------------------------------------------------
(* libusb and the device.                                                  *)

\* A transfer completes: a read with the next packet the device holds, or
\* with nothing when its time is up or the device is gone.
Readable(x) == x.kind = "read" /\ wire # <<>> /\ Reaches(x.plug)

Complete(t) ==
    /\ xfers[t].usb = "flying"
    /\ xfers' = [xfers EXCEPT ![t].usb = "done",
                              ![t].packet = IF Readable(xfers[t]) THEN Head(wire) ELSE 0]
    /\ wire' = IF Readable(xfers[t]) THEN Tail(wire) ELSE wire
    /\ completed' = Append(completed, t)
    /\ UNCHANGED <<plug, plugs, driver, claimed, sent, tableVars, ownerVars, event>>

DevSend ==
    /\ plug # 0 /\ sent < MaxPackets
    /\ sent' = sent + 1
    /\ wire' = Append(wire, sent')
    /\ UNCHANGED <<plug, plugs, driver, claimed, tableVars, ownerVars, xfers, eventVars>>

Unplug ==
    /\ plug # 0
    /\ plug' = 0 /\ driver' = FALSE /\ claimed' = FALSE /\ wire' = <<>>
    /\ UNCHANGED <<plugs, sent, tableVars, ownerVars, xfers, eventVars>>

\* The kernel gives the device another address and binds its driver.
Plug ==
    /\ plug = 0 /\ plugs < MaxPlugs
    /\ plugs' = plugs + 1 /\ plug' = plugs' /\ driver' = TRUE
    /\ UNCHANGED <<claimed, sent, wire, tableVars, ownerVars, xfers, eventVars>>

-----------------------------------------------------------------------------
Init ==
    /\ plug = 1 /\ plugs = 1 /\ driver = TRUE /\ claimed = FALSE
    /\ sent = 0 /\ wire = <<>>
    /\ known = 0 /\ weak = NoOwner /\ devices = NoOwner
    /\ pc = [o \in Owners |-> "idle"]
    /\ inner = [o \in Owners |-> NoInner]
    /\ xfers = <<>>
    /\ completed = <<>> /\ event = Waiting

Opening(o) == DetachDriver(o) \/ ClaimInterface(o) \/ SubmitRead(o)
CloseStep(o) == CancelRead(o) \/ ReleaseInterface(o) \/ AttachDriver(o)
Callback == \E t \in DOMAIN xfers :
               CallbackStart(t) \/ CallbackRun(t) \/ CallbackEnd(t) \/ CallbackFree(t)
Owner(o) == \/ OpenStart(o) \/ Opening(o) \/ Send(o) \/ CloseStep(o)
            \/ \E h \in Halves : DropHalf(o, h)
Bus == DevSend \/ Unplug \/ Plug \/ \E t \in DOMAIN xfers : Complete(t)

Next == (\E o \in Owners : Owner(o)) \/ Callback \/ Bus

\* Every thread runs on; every transfer has a timeout (READ_DURATION,
\* WRITE_DURATION), so libusb completes it in the end.
Fairness ==
    /\ \A o \in Owners : WF_usbVars(Opening(o) \/ CloseStep(o))
    /\ WF_usbVars(Callback)
    /\ \A t \in Ids : WF_usbVars(t \in DOMAIN xfers /\ Complete(t))

Spec     == Init /\ [][Next]_usbVars
FairSpec == Spec /\ Fairness
=============================================================================
