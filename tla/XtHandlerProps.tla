--------------------------- MODULE XtHandlerProps ---------------------------
(***************************************************************************)
(* What the PODxt handler promises, besides what PodCoreProps says of any  *)
(* patch library.                                                          *)
(***************************************************************************)
EXTENDS XtHandler, PodCoreProps

OnBus(m) == Marker(m) \in Range(bus)

-----------------------------------------------------------------------------
(* Under every interleaving, with answers lost, late or negative.          *)

\* A patch dump sent for a store is never forgotten: until its marks are
\* cleared or kept, an end marker that will start a timer, a running timer
\* or a timeout marker is there for it.
StoreIsWatched ==
    storing # {} => OnBus("end") \/ OnBus("timeout") \/ handle = "armed" \/ orphans > 0

\* Stores are dropped only for as long as a status may still come: a handle
\* that blocks them has a timer running or its timeout marker on the bus.
StoreIsNotBlocked == handle # "none" => handle = "armed" \/ OnBus("timeout")

-----------------------------------------------------------------------------
(* When one thing is done at a time.                                       *)

\* At rest every request of the queue has had its answer: no load is stuck.
RestMeansAnswered == Quiescent => queue = <<>>

\* At rest the device's programs, and its current one, are those shown:
\* the startup requests reach the end of the queue, effects included.
StartedUp ==
    Quiescent => /\ numbered(prog) /\ reported \in Programs
                 /\ \A e \in Effects : effects[e] # ""

\* A reroute never outlives the data it waits for, which may be the answer
\* to a request of the queue.
XtRouteIsAwaited ==
    \A b \in Dumpable : reroute[b] # NoRoute => Awaited(b) \/ ReqMsg(b) \in Range(queue)

\* Nothing is left over when all is quiet, neither a request nor a part of the
\* startup nor a reroute.
RestIsComplete == RestMeansAnswered /\ StartedUp /\ XtRouteIsAwaited

\* "Load stored patch from device": the patch of the slot that was asked for
\* is the one of the device.
LoadArrives ==
    \A p \in Programs :
        (Alone(bus, LoadEvent(p, "UI")) /\ reroute[p] = NoRoute)
            ~> (Quiescent /\ data[p] = devProgs[p] /\ ~modified[p])

\* "Store patch to device" reaches the device, or the patch stays marked.
StoreArrivesOrStaysMarked ==
    \A p \in Programs :
        (Alone(bus, StoreEvent(p, "UI")) /\ modified[p])
            ~> (Quiescent /\ (devProgs[p] = data[p] \/ modified[p]))

=============================================================================
