--------------------------- MODULE UsbDeviceProps ---------------------------
(***************************************************************************)
(* What the USB transport of UsbDevice must keep.                          *)
(***************************************************************************)
EXTENDS UsbDevice

XferType ==
    [plug : 0 .. MaxPlugs, kind : {"read", "write"}, status : Statuses,
     usb : {"idle", "flying", "done"}, packet : 0 .. MaxPackets,
     mem : {"live", "freed"}, out : Seq(1 .. MaxPackets),
     refused : BOOLEAN]

InnerType ==
    [plug : 0 .. MaxPlugs, listed : BOOLEAN, attach : BOOLEAN,
     read : 0 .. MaxTransfers, halves : SUBSET Halves]

\* Every variable has its type.
UsbTypeOK ==
    /\ plug \in 0 .. MaxPlugs /\ plugs \in 0 .. MaxPlugs
    /\ driver \in BOOLEAN /\ claimed \in BOOLEAN
    /\ sent \in 0 .. MaxPackets /\ wire \in Seq(1 .. MaxPackets)
    /\ known \in 0 .. MaxPlugs
    /\ weak \in Owners \cup {NoOwner} /\ devices \in Owners \cup {NoOwner}
    /\ pc \in [Owners -> Steps]
    /\ inner \in [Owners -> InnerType]
    /\ xfers \in Seq(XferType) /\ Len(xfers) \in 0 .. MaxTransfers
    /\ completed \in Seq(Ids)
    /\ event \in [at : {"wait", "locked", "keep", "drop", "free"}, t : 0 .. MaxTransfers]

-----------------------------------------------------------------------------
(* Memory.                                                                 *)

\* Whoever may still touch a transfer finds it allocated: libusb while it
\* has it, the event thread from the start of the callback to the one free,
\* and the owner, whose raw pointer is used whenever the status is Ok
\* (usb.rs, SubmittedTransfer::cancel against Transfer::callback).
NoDanglingTransfer ==
    \A t \in DOMAIN xfers :
        \/ xfers[t].usb # "idle"
        \/ event.at # "wait" /\ event.t = t
        \/ xfers[t].status = "Ok"
        => xfers[t].mem = "live"

\* Every transfer ends, and none leaks: a write, a read whose owner has
\* dropped both halves, and any transfer of a device that was unplugged is
\* freed in the end; the channel of a read closes with it, so that its reader
\* sees the end of the stream (usb.rs: "Transfer needs to be dropped").
Abandoned(t) == \A o \in Owners : inner[o].read # t
TransfersEnd ==
    \A t \in Ids :
        (t \in DOMAIN xfers /\ (Abandoned(t) \/ ~Reaches(xfers[t].plug)))
            ~> (t \in DOMAIN xfers /\ xfers[t].mem = "freed")

-----------------------------------------------------------------------------
(* The device.                                                             *)

\* While the device is open no close of an earlier opening gives its
\* interface back to the kernel driver (dev_handler.rs, DeviceInner::close
\* against Device::open).
OpenDeviceIsHeld ==
    \A o \in Owners :
        pc[o] = "open" /\ Reaches(inner[o].plug) => claimed /\ ~driver

\* When nobody uses the device the kernel driver has it back, whichever step
\* of an opening failed (dev_handler.rs, DeviceInner::new, close_inner).
DriverIsGivenBack ==
    (\A o \in Owners : pc[o] = "idle") /\ plug # 0 => driver /\ ~claimed

-----------------------------------------------------------------------------
(* The streams.                                                            *)

ReadOf(t) == t \in DOMAIN xfers /\ xfers[t].kind = "read"
Yielded   == UNION {{xfers[t].out[i] : i \in DOMAIN xfers[t].out} : t \in DOMAIN xfers}
Newest    == CHOOSE n \in Yielded \cup {0} : \A m \in Yielded : n >= m

\* The inputs of all openings implement the abstract stream: in order, never
\* twice, nothing after the end.
Stream == INSTANCE UsbStream WITH
    Streams <- Ids,
    Packets <- 1 .. MaxPackets,
    got     <- [t \in Ids |-> IF ReadOf(t) THEN xfers[t].out ELSE <<>>],
    ended   <- {t \in Ids : ReadOf(t) /\ xfers[t].mem = "freed"},
    newest  <- Newest
ImplementsStream == Stream!Spec

\* A packet sent while the device is open arrives, unless the device is
\* closed or unplugged first, or libusb refuses to go on reading.
Usable == \E o \in Owners : /\ pc[o] = "open" /\ Reaches(inner[o].plug)
                            /\ ~xfers[inner[o].read].refused
PacketArrives ==
    \A n \in 1 .. MaxPackets :
        (Usable /\ n \in {wire[i] : i \in DOMAIN wire}) ~> (n \in Yielded \/ ~Usable)
=============================================================================
