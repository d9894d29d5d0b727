---------------------------- MODULE PodCoreProps ----------------------------
(***************************************************************************)
(* What the patch library of PodCore promises.                             *)
(***************************************************************************)
EXTENDS PodCore, Functions

-----------------------------------------------------------------------------
(* Under every interleaving.                                               *)

CarriesControl(s) == s.key = "control" /\ s.origin # "NONE"

\* No value the user or the device set is missing from the edit buffer
\* unless its signal is still on the way to cc_handler: the controls on the
\* screen and the raw bytes that are stored never part for good.
EditBufferFollowsControls ==
    ctl # raw.val =>
        \/ \E s \in Range(ctq) : CarriesControl(s)
        \/ \E e \in Range(bus) : e.type = "cc" /\ CarriesControl(e.sig)

\* The program whose patch is in the edit buffer (program:prev) is behind the
\* selected program only while the change is still to be handled: the edits
\* made next are saved to the right slot.
PreviousCatchesUp ==
    prev # prog =>
        \/ progOrigin = "NONE"
        \/ "program" \in Range(uiq)
        \/ \E e \in Range(bus) : e.type = "pc"
        \/ app.at = "synced"

\* A reroute never outlives the data it waits for: as long as it is in the
\* table, something under way leads to a BufferData event for its buffer
\* (a device that answers every request is assumed).  Stale entries would
\* catch a later, unrelated dump.
Produces(e, b) ==
    \/ e.type \in {"load", "store"} /\ e.buffer = b /\ e.origin = "UI"
    \/ e.type = "data" /\ e.buffer = b
    \/ e.type = "in" /\ e.msg.cmd = "dump" /\ e.msg.buffer = b
    \/ e.type = "out" /\ e.msg.cmd = "request" /\ e.msg.buffer = b

Awaited(b) ==
    \/ \E e \in Range(bus) : Produces(e, b)
    \/ \E m \in Range(toDev) : m.cmd = "request" /\ m.buffer = b
    \/ \E m \in Range(fromDev) : m.cmd = "dump" /\ m.buffer = b

RouteIsAwaited == \A b \in Dumpable : reroute[b] # NoRoute => Awaited(b)

-----------------------------------------------------------------------------
(* When one thing is done at a time (MaxBacklog = 0).                      *)

\* A program that is not marked modified holds what the device has stored,
\* in its slot and, for the current one, in the edit buffer: switching
\* programs, copying, loading and storing never lose track of an edit.
UnmodifiedMatchesDevice ==
    (Quiescent /\ prog # Hidden) =>
        /\ \A p \in Programs : ~modified[p] => data[p] = devProgs[p]
        /\ numbered(prog) /\ ~edited => raw = devProgs[prog]

\* The marks of the grid are the flags of the dump, and the names listed
\* are those of the patches (of the edit buffer for the current program).
GridShowsDump ==
    Quiescent =>
        /\ shown = modified
        /\ \A p \in Programs : names[p] = (IF p = prog THEN raw ELSE data[p]).name

\* When the edit buffer is saved to the slot of the program being left and
\* changes it, the slot is marked ("in case the edit buffer was modified, but
\* the dump was not marked modified ... make sure to send a modified event").
SavedEditsAreMarked ==
    [][(app.at # "synced" /\ app'.at = "synced" /\ numbered(prev) /\ raw # data[prev])
           => modified'[prev]]_vars

\* Whatever is done, the events it causes die down: no handler feeds itself.
Settles == []<>Quiescent

Alone(q, x) == Backlog = 1 /\ q = <<x>>

\* "Load unmodified" brings the patch stored on the device to the edit
\* buffers on both sides, whatever the slot of pod-ui holds.
LoadUnmodifiedArrives ==
    \A p \in Programs :
        (Alone(bus, LoadEvent(p, "UI")) /\ reroute[p] = EditBuffer)
            ~> (Quiescent /\ raw = devProgs[p] /\ devEdit = devProgs[p])

\* "Store from edit buffer" copies the edit buffer to the slot, and marks it.
CopyToSlotArrives ==
    \A p \in Programs :
        Alone(bus, CopyEvent(EditBuffer, p))
            ~> (Quiescent /\ data[p] = raw /\ modified[p] /\ shown[p])

\* "Store to device" and "Store All" reach the device.
StoreArrives ==
    /\ \A p \in Programs :
        (Alone(bus, StoreEvent(p, "UI")) /\ reroute[p] = NoRoute)
            ~> (Quiescent /\ devProgs[p] = data[p] /\ ~modified[p])
    /\ Alone(uiq, "store_all_button")
            ~> (Quiescent /\ devProgs = data /\ \A p \in Programs : ~modified[p])

\* A control the user moves is moved on the device.
EditArrives ==
    (\E v \in Vals : Alone(ctq, ControlSignal(v, "UI")))
        ~> (Quiescent /\ devEdit.val = ctl)

\* What the user asks for is done: edits, and the actions of the grid of programs
\* and its menu.
UserActionsArrive ==
    EditArrives /\ LoadUnmodifiedArrives /\ CopyToSlotArrives /\ StoreArrives

=============================================================================
