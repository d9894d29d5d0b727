---------------------------- MODULE MidiSession ----------------------------
(***************************************************************************)
(* The connection to the device over the life of the program: the startup  *)
(* detection, the settings dialog, the MIDI-in and MIDI-out tasks that are *)
(* started, cancelled and awaited, the hand-over of the context between    *)
(* the application task and the GTK thread when the device's configuration *)
(* changes, and the shutdown.                                              *)
(*                                                                         *)
(* The GTK thread handles one signal at a time, but the dialog runs a main *)
(* loop of its own: results and events arrive while it is open.            *)
(***************************************************************************)
EXTENDS Naturals, Sequences

CONSTANTS
    Configs, NoConfig,
    Default,        \* the configuration taken when nothing is detected
    Actual,         \* the configuration the device answers with
    Quirky,         \* the configurations with MIDI_CLOSE_QUIET_TIMEOUT
    Lines,          \* how the device may be attached: "midi", "usb"
    Users,          \* "patient": acts when the program is done; "hasty"
    MayUnplug,      \* the device may be unplugged
    MaxSessions,    \* bound: sessions ever started
    MaxDialogs      \* bound: how often the dialog is opened

ASSUME MidiSessionAssumption ==
    /\ Default \in Configs /\ Actual \in Configs /\ NoConfig \notin Configs
    /\ Quirky \subseteq Configs
    /\ Lines \subseteq {"midi", "usb"} /\ Users \subseteq {"patient", "hasty"}
    /\ MayUnplug \in BOOLEAN
    /\ MaxSessions \in Nat /\ MaxDialogs \in Nat

Sessions == 1 .. MaxSessions

VARIABLES
    line, user, \* the device's line and the user, which do not change
    there,      \* the device is plugged in
    startup,    \* the startup detection: "runs", its result, "done"
    config,     \* State.config
    named,      \* State.midi_in_name, midi_out_name are set
    isUsb,      \* State.midi_is_usb
    cancels,    \* the session whose cancel senders are in State; 0: none
    joins,      \* the session whose JoinHandles are in State; 0: none
    sessions,   \* the sessions started so far
    dialog,     \* the settings dialog
    dialogs,    \* how often it was opened
    stopping,   \* what the dialogs await: <<dialog, session; 0: none>>
    workers,    \* the tasks of its Autodetect and Test buttons at work
    bus,        \* the application event bus
    uiq,        \* the UI events
    ctx, share, \* the context of the application task, and ctx_share
    panic,      \* the unwraps that failed
    quitting,   \* the shutdown: "no", "asked", "waits", "quit"
    closing     \* the session it awaits

device     == <<line, user, there>>
stateVars  == <<config, named, isUsb, cancels, joins, sessions>>
dialogVars == <<dialog, dialogs, stopping, workers>>
eventVars  == <<bus, uiq, ctx, share, panic>>
quitVars   == <<quitting, closing>>
sessionVars == <<device, startup, stateVars, dialogVars, eventVars, quitVars>>

-----------------------------------------------------------------------------
(* Sessions: a MIDI-in and a MIDI-out task that share an open device.      *)

Session(quirk) == [in |-> "runs", out |-> "runs", told |-> FALSE, quirk |-> quirk]
Over(s)  == s # 0 => sessions[s].in = "gone" /\ sessions[s].out = "gone"

AtRest   == bus = <<>> /\ uiq = <<>>
AppAlive == "app" \notin panic
GtkAlive == "gtk" \notin panic /\ quitting # "quit"

Patient == user = "patient"
Usb     == line = "usb"

\* The device can be opened: a USB device by one at a time.
Free == /\ there
        /\ Usb => /\ startup \notin {"runs", "found"} /\ workers = 0
                  /\ \A s \in DOMAIN sessions : Over(s)

\* A session's cancel senders are used, or dropped, which its tasks cannot
\* tell apart.
Told(ss, s) == IF s = 0 THEN ss ELSE [ss EXCEPT ![s].told = TRUE]

\* midi_in_out_stop: the handles are given to whoever awaits them.
Stop == /\ sessions' = Told(sessions, cancels)
        /\ cancels' = 0 /\ joins' = 0

NewConfig(changed) == [type |-> "NewConfig", changed |-> changed]
NewCtx             == [type |-> "NewCtx", changed |-> FALSE]
Shutdown           == [type |-> "Shutdown", changed |-> FALSE]

\* midi_in_out_start: what ran before loses its senders; without a device its
\* handles stay behind.
Start(opened, usb, quirk, changed) ==
    /\ bus' = Append(bus, NewConfig(changed))
    /\ named' = opened /\ isUsb' = (opened /\ usb)
    /\ IF opened
       THEN /\ sessions' = Append(Told(sessions, cancels), Session(quirk))
            /\ cancels' = Len(sessions') /\ joins' = Len(sessions')
       ELSE /\ sessions' = Told(sessions, cancels)
            /\ cancels' = 0 /\ UNCHANGED joins

\* Mutant: the change is looked for after the configuration was replaced.
SetMidiInOutLate(opened, usb, c) ==
    /\ config' = c
    /\ Start(opened, usb, c \in Quirky, FALSE)

\* set_midi_in_out.
SetMidiInOut(opened, usb, c) ==
    /\ config' = c
    /\ Start(opened, usb, c \in Quirky, c # config)

-----------------------------------------------------------------------------
(* The startup detection (autodetect::detect).                             *)

StartupEnds ==
    /\ startup = "runs"
    /\ startup' \in {"failed"} \cup (IF there THEN {"found"} ELSE {})
    /\ UNCHANGED <<device, stateVars, dialogVars, eventVars, quitVars>>

\* Its result is handled by the GTK thread, dialog or not; the port it found
\* never counts as a USB one.
StartupResult ==
    /\ GtkAlive /\ startup \in {"found", "failed"}
    /\ Len(sessions) < MaxSessions
    /\ startup' = "done"
    /\ IF startup = "found" THEN SetMidiInOut(TRUE, FALSE, Actual)
                            ELSE SetMidiInOut(FALSE, FALSE, Default)
    /\ UNCHANGED <<device, dialogVars, uiq, ctx, share, panic, quitVars>>

-----------------------------------------------------------------------------
(* The settings dialog.                                                    *)

\* "preferences": MIDI is stopped and awaited.
Preferences ==
    /\ GtkAlive /\ dialog = "closed" /\ quitting = "no"
    /\ dialogs < MaxDialogs
    /\ Patient => AtRest /\ startup = "done" /\ workers = 0
    /\ dialog' = "waits" /\ dialogs' = dialogs + 1
    /\ stopping' = stopping \cup {<<dialogs', joins>>}
    /\ Stop
    /\ UNCHANGED <<device, startup, config, named, isUsb, workers, eventVars, quitVars>>

\* Mutant: the handles are not awaited.
StopNotAwaited ==
    /\ GtkAlive
    /\ \E d \in stopping : stopping' = stopping \ {d}
    /\ dialog' = IF dialog = "closed" THEN dialog ELSE "ready"
    /\ UNCHANGED <<device, startup, stateVars, dialogs, workers, eventVars, quitVars>>

\* The tasks are gone: the dialog becomes interactive, were it another one.
StopAwaited ==
    /\ GtkAlive
    /\ \E d \in stopping : Over(d[2]) /\ stopping' = stopping \ {d}
    /\ dialog' = IF dialog = "closed" THEN dialog ELSE "ready"
    /\ UNCHANGED <<device, startup, stateVars, dialogs, workers, eventVars, quitVars>>

\* Autodetect or Test: a task of its own opens the device ...
WorkStarts ==
    /\ GtkAlive /\ dialog = "ready" /\ Free /\ workers < MaxDialogs
    /\ dialog' = "works" /\ workers' = workers + 1
    /\ UNCHANGED <<device, startup, stateVars, dialogs, stopping, eventVars, quitVars>>

\* ... and closes it when its result was shown.
WorkEnds ==
    /\ GtkAlive /\ workers > 0
    /\ workers' = workers - 1
    /\ dialog' = IF dialog = "closed" THEN dialog ELSE "ready"
    /\ UNCHANGED <<device, startup, stateVars, dialogs, stopping, eventVars, quitVars>>

\* OK: connect to the device, or to none, as the model that is selected.
DialogOk(chosen, c) ==
    /\ GtkAlive /\ dialog = "ready"
    /\ Patient => AtRest
    /\ Len(sessions) < MaxSessions
    /\ dialog' = "closed"
    /\ SetMidiInOut(chosen /\ Free, Usb, c)
    /\ UNCHANGED <<device, startup, dialogs, stopping, workers, uiq, ctx, share, panic,
                   quitVars>>

\* Cancel: connect as before, by name: a USB device is found only among the
\* USB ones.  The configuration is unwrapped.
DialogCancel ==
    /\ GtkAlive /\ dialog # "closed"
    /\ Patient => dialog = "ready" /\ AtRest
    /\ Len(sessions) < MaxSessions
    /\ dialog' = "closed"
    /\ IF config = NoConfig
       THEN panic' = panic \cup {"gtk"} /\ UNCHANGED <<stateVars, bus>>
       ELSE /\ Start(named /\ Free /\ isUsb = Usb, isUsb, config \in Quirky, FALSE)
            /\ UNCHANGED <<config, panic>>
    /\ UNCHANGED <<device, startup, dialogs, stopping, workers, uiq, ctx, share, quitVars>>

-----------------------------------------------------------------------------
(* The tasks of a session.                                                 *)

\* MIDI-in: cancelled, at once or after a quiet time on the line.  The timer
\* starts anew with every turn of the loop; a closed port makes it turn for
\* ever.
InCancelled(s) ==
    /\ sessions[s].told /\ sessions[s].in = "runs"
    /\ sessions' = [sessions EXCEPT ![s].in = IF sessions[s].quirk THEN "quiet" ELSE "gone"]
    /\ UNCHANGED <<device, startup, config, named, isUsb, cancels, joins, dialogVars,
                   eventVars, quitVars>>

Spins == Usb /\ ~there

InQuiet(s) ==
    /\ sessions[s].in = "quiet" /\ ~Spins
    /\ sessions' = [sessions EXCEPT ![s].in = "gone"]
    /\ UNCHANGED <<device, startup, config, named, isUsb, cancels, joins, dialogVars,
                   eventVars, quitVars>>

OutCancelled(s) ==
    /\ sessions[s].told /\ sessions[s].out = "runs"
    /\ sessions' = [sessions EXCEPT ![s].out = "gone"]
    /\ UNCHANGED <<device, startup, config, named, isUsb, cancels, joins, dialogVars,
                   eventVars, quitVars>>

-----------------------------------------------------------------------------
(* The application task: system events, in the order of the bus.           *)

\* The context goes to the GTK thread, which is asked for a new one.
NewConfigHandler ==
    IF Head(bus).changed
    THEN /\ share' = ctx /\ ctx' = NoConfig
         /\ uiq' = Append(uiq, "NewConfig")
         /\ UNCHANGED <<panic, quitVars>>
    ELSE UNCHANGED <<share, ctx, uiq, panic, quitVars>>

\* The new context is taken over; it is unwrapped.
NewCtxHandler ==
    /\ IF share = NoConfig THEN panic' = panic \cup {"app"} /\ UNCHANGED ctx
                           ELSE ctx' = share /\ UNCHANGED panic
    /\ share' = NoConfig
    /\ UNCHANGED <<uiq, quitVars>>

ShutdownHandler ==
    /\ uiq' = Append(uiq, "Shutdown")
    /\ UNCHANGED <<ctx, share, panic, quitVars>>

AppTask ==
    /\ AppAlive /\ bus # <<>>
    /\ bus' = Tail(bus)
    /\ \/ Head(bus).type = "NewConfig" /\ NewConfigHandler
       \/ Head(bus).type = "NewCtx" /\ NewCtxHandler
       \/ Head(bus).type = "Shutdown" /\ ShutdownHandler
    /\ UNCHANGED <<device, startup, stateVars, dialogVars>>

-----------------------------------------------------------------------------
(* The UI events.                                                          *)

\* Mutant: the new context is announced before it is shared.
UiNewConfigLate ==
    /\ bus' = Append(bus, NewCtx)
    /\ UNCHANGED <<stateVars, ctx, share, panic, quitVars>>

\* A context for the configuration of the moment is built and shared; the
\* application task's panic has poisoned the lock of ctx_share.
UiNewConfig ==
    /\ IF AppAlive THEN /\ share' = config /\ bus' = Append(bus, NewCtx)
                        /\ UNCHANGED panic
                   ELSE panic' = panic \cup {"gtk"} /\ UNCHANGED <<share, bus>>
    /\ UNCHANGED <<stateVars, ctx, quitVars>>

\* Mutant: it awaits what it did not stop.
UiShutdownNoStop ==
    /\ IF quitting = "asked" THEN quitting' = "waits" /\ closing' = joins
                             ELSE UNCHANGED quitVars
    /\ UNCHANGED <<stateVars, bus, ctx, share, panic>>

\* The first one stops MIDI and awaits it, others only ask for patience.
UiShutdown ==
    /\ IF quitting = "asked"
       THEN /\ quitting' = "waits" /\ closing' = joins
            /\ Stop /\ UNCHANGED <<config, named, isUsb>>
       ELSE UNCHANGED <<stateVars, quitVars>>
    /\ UNCHANGED <<bus, ctx, share, panic>>

UiTask ==
    /\ GtkAlive /\ uiq # <<>>
    /\ uiq' = Tail(uiq)
    /\ \/ Head(uiq) = "NewConfig" /\ UiNewConfig
       \/ Head(uiq) = "Shutdown" /\ UiShutdown
    /\ UNCHANGED <<device, startup, dialogVars>>

\* The window is closed; the dialog is modal.
CloseWindow ==
    /\ GtkAlive /\ dialog = "closed" /\ quitting = "no"
    /\ Patient => AtRest /\ startup = "done"
    /\ quitting' = "asked"
    /\ bus' = Append(bus, Shutdown)
    /\ UNCHANGED <<device, startup, stateVars, dialogVars, uiq, ctx, share, panic, closing>>

Quit ==
    /\ GtkAlive /\ quitting = "waits" /\ Over(closing)
    /\ quitting' = "quit"
    /\ UNCHANGED <<device, startup, stateVars, dialogVars, eventVars, closing>>

Unplug ==
    /\ MayUnplug /\ there
    /\ there' = FALSE
    /\ UNCHANGED <<line, user, startup, stateVars, dialogVars, eventVars, quitVars>>

-----------------------------------------------------------------------------
Init ==
    /\ line \in Lines /\ user \in Users
    /\ there = TRUE /\ startup = "runs"
    /\ config = NoConfig /\ named = FALSE /\ isUsb = FALSE /\ cancels = 0 /\ joins = 0 /\ sessions = <<>>
    /\ dialog = "closed" /\ dialogs = 0 /\ stopping = {} /\ workers = 0
    /\ bus = <<>> /\ uiq = <<>> /\ ctx = NoConfig /\ share = NoConfig /\ panic = {}
    /\ quitting = "no" /\ closing = 0

User == Preferences \/ WorkStarts \/ DialogCancel \/ CloseWindow
        \/ \E chosen \in BOOLEAN, c \in Configs \cup {config} : DialogOk(chosen, c)
Tasks == \E s \in DOMAIN sessions : InCancelled(s) \/ InQuiet(s) \/ OutCancelled(s)
Results == StartupEnds \/ StartupResult \/ StopAwaited \/ WorkEnds \/ Quit

Next == User \/ Tasks \/ Results \/ AppTask \/ UiTask \/ Unplug

\* The tokio runtime and the GTK main loop run on, and a quiet time on the
\* line comes in the end; the user may do nothing.
Fairness ==
    /\ \A s \in Sessions : WF_sessionVars(s \in DOMAIN sessions /\
                               (InCancelled(s) \/ InQuiet(s) \/ OutCancelled(s)))
    /\ WF_sessionVars(AppTask) /\ WF_sessionVars(UiTask)
    /\ WF_sessionVars(StartupEnds) /\ WF_sessionVars(StartupResult)
    /\ WF_sessionVars(StopAwaited) /\ WF_sessionVars(WorkEnds) /\ WF_sessionVars(Quit)

Spec     == Init /\ [][Next]_sessionVars
FairSpec == Spec /\ Fairness
=============================================================================
