-------------------------- MODULE MidiSessionProofs --------------------------
(***************************************************************************)
(* MidiSession for all configurations, lines and users, and any number of  *)
(* sessions and dialogs: the hand-over of the context never leaves one of  *)
(* another configuration behind; a user who waits for the program is safe  *)
(* from its unwraps, and has the device's line while the dialog is open.   *)
(***************************************************************************)
EXTENDS MidiSessionProps, TLAPS

Events      == [type : {"NewConfig", "NewCtx", "Shutdown"}, changed : BOOLEAN]
SessionType == [in : {"runs", "quiet", "gone"}, out : {"runs", "gone"},
                told : BOOLEAN, quirk : BOOLEAN]

\* The types the arguments need.
TypeInv ==
    /\ bus \in Seq(Events) /\ uiq \in Seq({"NewConfig", "Shutdown"})
    /\ sessions \in Seq(SessionType)
    /\ workers \in Nat

Pend(q) == {q[i] : i \in DOMAIN q}

\* A hand-over will begin, or a context will be built.
Coming == NewConfig(TRUE) \in Pend(bus) \/ "NewConfig" \in Pend(uiq)

\* When none is coming, the last one built is that of the configuration: it is
\* shared, or taken over already.
CtxInv ==
    panic = {} =>
        \/ Coming
        \/ ctx = config /\ share = NoConfig
        \/ NewCtx \in Pend(bus) /\ share = config

\* For a user who waits there is one event at a time, one dialog at a time, and
\* the tasks that are not gone are those of the one session that somebody awaits,
\* or can.
OneEvent ==
    \/ bus = <<>> /\ uiq \in {<<>>, <<"NewConfig">>, <<"Shutdown">>}
    \/ uiq = <<>> /\ bus \in {<<NewConfig(TRUE)>>, <<NewConfig(FALSE)>>, <<NewCtx>>, <<Shutdown>>}

Starting == AtRest /\ sessions = <<>> /\ joins = 0 /\ dialog = "closed" /\ quitting = "no"

Awaited(s) == s = joins \/ s = closing \/ \E d \in stopping : d[2] = s

PatientInv ==
    Patient =>
        /\ panic = {} /\ OneEvent
        /\ bus = <<NewCtx>> => share # NoConfig
        /\ IF startup = "done" THEN config # NoConfig ELSE Starting
        /\ quitting # "no" => dialog = "closed"
        /\ quitting \in {"no", "asked"} => closing = 0
        /\ dialog # "closed" => joins = 0
        /\ dialog # "waits" => stopping = {}
        /\ \A d, e \in stopping : d = e
        /\ workers <= 1 /\ (workers > 0 => dialog = "works")
        /\ \A s \in DOMAIN sessions : Over(s) \/ Awaited(s)

SessionInv == TypeInv /\ CtxInv /\ PatientInv

-----------------------------------------------------------------------------
(* Queues and sessions.                                                    *)

LEMMA Queued ==
    ASSUME NEW S, NEW q \in Seq(S), NEW e \in S
    PROVE  /\ Append(q, e) \in Seq(S) /\ Append(q, e) # <<>>
           /\ Pend(Append(q, e)) = Pend(q) \cup {e}
<1>1. /\ Append(q, e) \in Seq(S) /\ DOMAIN Append(q, e) = DOMAIN q \cup {Len(q) + 1}
      /\ Append(q, e)[Len(q) + 1] = e
      /\ \A i \in DOMAIN q : Append(q, e)[i] = q[i]
  OBVIOUS
<1> QED BY <1>1 DEF Pend

LEMMA Taken ==
    ASSUME NEW S, NEW q \in Seq(S), q # <<>>
    PROVE  /\ Tail(q) \in Seq(S) /\ Head(q) \in S
           /\ Pend(q) = {Head(q)} \cup Pend(Tail(q))
<1>1. Tail(q) \in Seq(S) /\ Head(q) = q[1] /\ Len(q) \in Nat \ {0}
  OBVIOUS
<1>2. DOMAIN q = 1 .. Len(q) /\ DOMAIN Tail(q) = 1 .. Len(q) - 1
  BY <1>1
<1>3. \A i \in DOMAIN Tail(q) : i + 1 \in DOMAIN q /\ Tail(q)[i] = q[i + 1]
  BY <1>1, <1>2
<1>4. \A i \in DOMAIN q : i = 1 \/ (i - 1 \in DOMAIN Tail(q) /\ Tail(q)[i - 1] = q[i])
  <2> SUFFICES ASSUME NEW i \in DOMAIN q, i # 1
               PROVE  i - 1 \in DOMAIN Tail(q) /\ Tail(q)[i - 1] = q[i]
    OBVIOUS
  <2> DEFINE j == i - 1
  <2>1. j \in DOMAIN Tail(q) /\ j + 1 = i
    BY <1>1, <1>2
  <2>2. Tail(q)[j] = q[j + 1]
    BY <1>3, <2>1
  <2> QED BY <2>1, <2>2
<1>5. 1 \in DOMAIN q /\ Head(q) \in S
  BY <1>1, <1>2
<1>6. \A x \in Pend(q) : x \in {Head(q)} \cup Pend(Tail(q))
  BY <1>1, <1>4 DEF Pend
<1>7. \A x \in {Head(q)} \cup Pend(Tail(q)) : x \in Pend(q)
  BY <1>1, <1>3, <1>5 DEF Pend
<1> QED BY <1>1, <1>5, <1>6, <1>7

LEMMA EventsAre ==
    /\ \A b \in BOOLEAN : NewConfig(b) \in Events
    /\ NewCtx \in Events /\ Shutdown \in Events
    /\ \A b \in BOOLEAN : NewConfig(b) # NewCtx /\ NewConfig(b) # Shutdown
    /\ NewCtx # Shutdown /\ NewConfig(TRUE) # NewConfig(FALSE)
    /\ \A e \in Events : e.type = "NewConfig" => e = NewConfig(e.changed)
    /\ \A b \in BOOLEAN : NewConfig(b).changed = b
BY DEF Events, NewConfig, NewCtx, Shutdown

LEMMA SessionSet ==
    ASSUME NEW ss \in Seq(SessionType), NEW s \in DOMAIN ss, NEW x \in SessionType
    PROVE  /\ [ss EXCEPT ![s] = x] \in Seq(SessionType)
           /\ DOMAIN [ss EXCEPT ![s] = x] = DOMAIN ss
           /\ \A i \in DOMAIN ss : [ss EXCEPT ![s] = x][i] = IF i = s THEN x ELSE ss[i]
<1> HIDE DEF SessionType
<1> QED OBVIOUS

\* Telling a session to end leaves those that are gone.
LEMMA ToldFacts ==
    ASSUME NEW ss \in Seq(SessionType), NEW s
    PROVE  /\ Told(ss, s) \in Seq(SessionType) /\ DOMAIN Told(ss, s) = DOMAIN ss
           /\ \A i \in DOMAIN ss : /\ Told(ss, s)[i].in = ss[i].in
                                   /\ Told(ss, s)[i].out = ss[i].out
<1>1. CASE s = 0
  BY <1>1 DEF Told
<1>2. CASE s # 0 /\ s \notin DOMAIN ss
  <2>1. Told(ss, s) = ss
    BY <1>2 DEF Told
  <2> QED BY <2>1
<1>3. CASE s # 0 /\ s \in DOMAIN ss
  <2> DEFINE x == [ss[s] EXCEPT !.told = TRUE]
  <2>1. ss[s] \in SessionType
    BY <1>3
  <2>2. x \in SessionType /\ x.in = ss[s].in /\ x.out = ss[s].out
    BY <2>1 DEF SessionType
  <2>3. Told(ss, s) = [ss EXCEPT ![s] = x]
    BY <1>3 DEF Told
  <2> HIDE DEF x
  <2> QED BY <1>3, <2>2, <2>3, SessionSet
<1> QED BY <1>1, <1>2, <1>3

\* What was gone stays gone.
LEMMA OverStays ==
    ASSUME \A i \in DOMAIN sessions : /\ i \in DOMAIN sessions'
                                      /\ sessions[i].in = "gone" => sessions'[i].in = "gone"
                                      /\ sessions[i].out = "gone" => sessions'[i].out = "gone"
    PROVE  \A i \in DOMAIN sessions : Over(i) => Over(i)'
BY DEF Over

LEMMA StopFacts ==
    ASSUME TypeInv, Stop
    PROVE  /\ sessions' \in Seq(SessionType) /\ DOMAIN sessions' = DOMAIN sessions
           /\ \A i \in DOMAIN sessions : Over(i) => Over(i)'
           /\ joins' = 0
BY ToldFacts, OverStays DEF TypeInv, Stop

LEMMA StartFacts ==
    ASSUME TypeInv, NEW opened, NEW usb, NEW quirk \in BOOLEAN, NEW changed \in BOOLEAN,
           Start(opened, usb, quirk, changed)
    PROVE  /\ bus' = Append(bus, NewConfig(changed)) /\ bus' \in Seq(Events)
           /\ Pend(bus)' = Pend(bus) \cup {NewConfig(changed)}
           /\ sessions' \in Seq(SessionType)
           /\ DOMAIN sessions \subseteq DOMAIN sessions'
           /\ \A i \in DOMAIN sessions : Over(i) => Over(i)'
           /\ \/ joins' = joins /\ DOMAIN sessions' = DOMAIN sessions
              \/ DOMAIN sessions' = DOMAIN sessions \cup {joins'}
<1>1. /\ bus' = Append(bus, NewConfig(changed)) /\ bus' \in Seq(Events)
      /\ Pend(bus)' = Pend(bus) \cup {NewConfig(changed)}
  BY Queued, EventsAre DEF Start, TypeInv
<1> DEFINE ss == Told(sessions, cancels)
<1>2. /\ ss \in Seq(SessionType) /\ DOMAIN ss = DOMAIN sessions
      /\ \A i \in DOMAIN sessions : ss[i].in = sessions[i].in /\ ss[i].out = sessions[i].out
  BY ToldFacts DEF TypeInv
<1>3. CASE opened
  <2>1. Session(quirk) \in SessionType
    BY DEF Session, SessionType
  <2>2. sessions' = Append(ss, Session(quirk)) /\ joins' = Len(sessions')
    BY <1>3 DEF Start
  <2> HIDE DEF ss
  <2>3. /\ sessions' \in Seq(SessionType) /\ DOMAIN sessions' = DOMAIN ss \cup {Len(ss) + 1}
        /\ Len(sessions') = Len(ss) + 1 /\ \A i \in DOMAIN ss : sessions'[i] = ss[i]
    BY <1>2, <2>1, <2>2
  <2> QED BY <1>1, <1>2, <2>2, <2>3, OverStays
<1>4. CASE ~opened
  <2>1. sessions' = ss /\ joins' = joins
    BY <1>4 DEF Start
  <2> HIDE DEF ss
  <2> QED BY <1>1, <1>2, <2>1, OverStays
<1> QED BY <1>3, <1>4

-----------------------------------------------------------------------------
(* The context.                                                            *)

\* A new configuration brings a hand-over along.
LEMMA CtxStart ==
    ASSUME SessionInv, NEW opened, NEW usb, NEW quirk \in BOOLEAN, NEW changed \in BOOLEAN,
           Start(opened, usb, quirk, changed), changed \/ config' = config,
           UNCHANGED <<uiq, ctx, share>>, panic' = {} => panic = {}
    PROVE  CtxInv'
<1>1. Pend(bus)' = Pend(bus) \cup {NewConfig(changed)}
  BY Queued, EventsAre DEF Start, SessionInv, TypeInv
<1>2. CASE changed = TRUE
  BY <1>1, <1>2 DEF CtxInv, Coming
<1>3. CASE changed = FALSE
  <2>1. config' = config
    BY <1>3
  <2>2. NewConfig(TRUE) \in Pend(bus)' <=> NewConfig(TRUE) \in Pend(bus)
    BY <1>1, <1>3, EventsAre
  <2>3. NewCtx \in Pend(bus) => NewCtx \in Pend(bus)'
    BY <1>1
  <2> QED BY <2>1, <2>2, <2>3 DEF SessionInv, CtxInv, Coming
<1> QED BY <1>2, <1>3

LEMMA CtxSame ==
    ASSUME SessionInv, UNCHANGED <<bus, uiq, ctx, share, config>>, panic' = {} => panic = {}
    PROVE  CtxInv'
BY DEF SessionInv, CtxInv, Coming

LEMMA CtxApp ==
    ASSUME SessionInv, AppTask
    PROVE  CtxInv' /\ bus' \in Seq(Events) /\ uiq' \in Seq({"NewConfig", "Shutdown"})
<1>1. /\ bus # <<>> /\ bus' = Tail(bus) /\ config' = config
      /\ bus \in Seq(Events) /\ uiq \in Seq({"NewConfig", "Shutdown"})
  BY DEF AppTask, stateVars, SessionInv, TypeInv
<1>2. /\ bus' \in Seq(Events) /\ Head(bus) \in Events
      /\ Pend(bus) = {Head(bus)} \cup Pend(bus)'
  BY <1>1, Taken
<1>3. CASE Head(bus).type = "NewConfig" /\ NewConfigHandler
  <2>1. CASE Head(bus).changed
    <3>1. uiq' = Append(uiq, "NewConfig") /\ panic' = panic
      BY <1>3, <2>1 DEF NewConfigHandler
    <3>2. "NewConfig" \in Pend(uiq)' /\ uiq' \in Seq({"NewConfig", "Shutdown"})
      BY <1>1, <3>1, Queued
    <3> QED BY <1>2, <3>1, <3>2 DEF CtxInv, Coming
  <2>2. CASE ~Head(bus).changed
    <3>1. UNCHANGED <<share, ctx, uiq, panic>>
      BY <1>3, <2>2 DEF NewConfigHandler
    <3>2. Head(bus) # NewConfig(TRUE) /\ Head(bus) # NewCtx
      BY <1>3, <2>2, EventsAre DEF NewConfig, NewCtx
    <3> QED BY <1>1, <1>2, <3>1, <3>2 DEF SessionInv, CtxInv, Coming
  <2> QED BY <2>1, <2>2
<1>4. CASE Head(bus).type = "NewCtx" /\ NewCtxHandler
  <2>1. Head(bus) # NewConfig(TRUE) /\ uiq' = uiq /\ share' = NoConfig
    BY <1>4 DEF NewConfig, NewCtxHandler
  <2>2. CASE share = NoConfig
    <3>1. panic' = panic \cup {"app"}
      BY <1>4, <2>2 DEF NewCtxHandler
    <3> QED BY <1>1, <1>2, <2>1, <3>1 DEF CtxInv
  <2>3. CASE share # NoConfig
    <3>1. ctx' = share /\ panic' = panic
      BY <1>4, <2>3 DEF NewCtxHandler
    <3> QED BY <1>1, <1>2, <2>1, <2>3, <3>1 DEF SessionInv, CtxInv, Coming
  <2> QED BY <2>2, <2>3
<1>5. CASE Head(bus).type = "Shutdown" /\ ShutdownHandler
  <2>1. uiq' = Append(uiq, "Shutdown") /\ UNCHANGED <<ctx, share, panic>>
    BY <1>5 DEF ShutdownHandler
  <2>2. uiq' \in Seq({"NewConfig", "Shutdown"}) /\ Pend(uiq)' = Pend(uiq) \cup {"Shutdown"}
    BY <1>1, <2>1, Queued
  <2>3. Head(bus) # NewConfig(TRUE) /\ Head(bus) # NewCtx
    BY <1>5 DEF NewConfig, NewCtx
  <2> QED BY <1>1, <1>2, <2>1, <2>2, <2>3 DEF SessionInv, CtxInv, Coming
<1> QED BY <1>3, <1>4, <1>5 DEF AppTask

LEMMA CtxUi ==
    ASSUME SessionInv, UiTask
    PROVE  CtxInv' /\ bus' \in Seq(Events) /\ uiq' \in Seq({"NewConfig", "Shutdown"})
<1>1. /\ uiq # <<>> /\ uiq' = Tail(uiq)
      /\ bus \in Seq(Events) /\ uiq \in Seq({"NewConfig", "Shutdown"})
  BY DEF UiTask, SessionInv, TypeInv
<1>2. /\ uiq' \in Seq({"NewConfig", "Shutdown"})
      /\ Pend(uiq) = {Head(uiq)} \cup Pend(uiq)'
  BY <1>1, Taken
<1>3. CASE Head(uiq) = "NewConfig" /\ UiNewConfig
  <2>1. config' = config
    BY <1>3 DEF UiNewConfig, stateVars
  <2>2. CASE AppAlive
    <3>1. share' = config /\ bus' = Append(bus, NewCtx)
      BY <1>3, <2>2 DEF UiNewConfig
    <3>2. bus' \in Seq(Events) /\ NewCtx \in Pend(bus)'
      BY <1>1, <3>1, Queued, EventsAre
    <3> QED BY <1>2, <2>1, <3>1, <3>2 DEF CtxInv
  <2>3. CASE ~AppAlive
    <3>1. panic' = panic \cup {"gtk"} /\ bus' = bus
      BY <1>3, <2>3 DEF UiNewConfig
    <3> QED BY <1>1, <1>2, <3>1 DEF CtxInv
  <2> QED BY <2>2, <2>3
<1>4. CASE Head(uiq) = "Shutdown" /\ UiShutdown
  <2>1. UNCHANGED <<bus, ctx, share, panic, config>>
    BY <1>4 DEF UiShutdown, stateVars
  <2> QED BY <1>1, <1>2, <1>4, <2>1 DEF SessionInv, CtxInv, Coming
<1> QED BY <1>3, <1>4 DEF UiTask

-----------------------------------------------------------------------------
(* One user who waits.                                                     *)

LEMMA Short ==
    /\ NewConfig(TRUE) # NewCtx /\ NewConfig(FALSE) # NewCtx /\ Shutdown # NewCtx
    /\ \A e : <<e>> # <<>> /\ Head(<<e>>) = e /\ Tail(<<e>>) = <<>>
    /\ \A e : Append(<<>>, e) = <<e>>
    /\ \A b \in BOOLEAN : <<NewConfig(b)>> # <<NewCtx>>
    /\ <<Shutdown>> # <<NewCtx>>
<1>1. /\ \A b \in BOOLEAN : NewConfig(b) # NewCtx
      /\ Shutdown # NewCtx
  BY DEF NewConfig, NewCtx, Shutdown
<1>2. \A d, e : <<d>> = <<e>> => d = e
  OBVIOUS
<1>3. \A e : <<e>> # <<>> /\ Head(<<e>>) = e /\ Tail(<<e>>) = <<>>
  OBVIOUS
<1>4. \A e : Append(<<>>, e) = <<e>>
  OBVIOUS
<1>5. /\ \A b \in BOOLEAN : <<NewConfig(b)>> # <<NewCtx>>
      /\ <<Shutdown>> # <<NewCtx>>
  BY <1>1, <1>2
<1>6. NewConfig(TRUE) # NewCtx /\ NewConfig(FALSE) # NewCtx
  BY <1>1
<1> QED BY <1>1, <1>3, <1>4, <1>5, <1>6

\* The same tasks are awaited, or more of them are gone.
LEMMA AwaitedStays ==
    ASSUME \A s \in DOMAIN sessions : Over(s) \/ Awaited(s),
           DOMAIN sessions' = DOMAIN sessions,
           \A s \in DOMAIN sessions : Over(s) => Over(s)',
           UNCHANGED <<joins, closing, stopping>>
    PROVE  \A s \in DOMAIN sessions' : (Over(s) \/ Awaited(s))'
BY DEF Awaited

LEMMA PatientStart ==
    ASSUME SessionInv, Patient, NEW opened, NEW usb, NEW c,
           SetMidiInOut(opened, usb, c) \/ (Start(opened, usb, c \in Quirky, FALSE) /\ config' = config),
           AtRest, joins = 0, closing = 0, stopping = {},
           UNCHANGED <<closing, stopping>>
    PROVE  /\ bus' \in {<<NewConfig(TRUE)>>, <<NewConfig(FALSE)>>}
           /\ sessions' \in Seq(SessionType) /\ bus' \in Seq(Events)
           /\ \A s \in DOMAIN sessions' : (Over(s) \/ Awaited(s))'
<1>1. PICK quirk \in BOOLEAN, changed \in BOOLEAN : Start(opened, usb, quirk, changed)
  <2>1. (c \in Quirky) \in BOOLEAN /\ (c # config) \in BOOLEAN
    OBVIOUS
  <2> QED BY <2>1 DEF SetMidiInOut
<1>2. TypeInv /\ bus = <<>>
  BY DEF SessionInv, AtRest
<1>3. /\ bus' = Append(bus, NewConfig(changed)) /\ bus' \in Seq(Events)
      /\ sessions' \in Seq(SessionType)
      /\ \A i \in DOMAIN sessions : Over(i) => Over(i)'
      /\ \/ joins' = joins /\ DOMAIN sessions' = DOMAIN sessions
         \/ DOMAIN sessions' = DOMAIN sessions \cup {joins'}
  BY <1>1, <1>2, StartFacts
<1>4. \A s \in DOMAIN sessions : Over(s) \/ s = 0
  BY DEF SessionInv, PatientInv, Awaited
<1>5. \A s \in DOMAIN sessions' : (Over(s) \/ Awaited(s))'
  BY <1>3, <1>4 DEF Awaited, Over
<1>6. changed = TRUE \/ changed = FALSE
  OBVIOUS
<1> QED BY <1>2, <1>3, <1>5, <1>6, Short

LEMMA PatientApp ==
    ASSUME SessionInv, AppTask
    PROVE  PatientInv'
<1> SUFFICES ASSUME Patient' PROVE PatientInv'
  BY DEF PatientInv
<1>1. /\ Patient /\ bus # <<>> /\ bus' = Tail(bus)
      /\ UNCHANGED <<startup, config, joins, sessions, dialog, stopping, workers>>
  BY DEF AppTask, device, stateVars, dialogVars, Patient
<1>2. /\ uiq = <<>> /\ panic = {} /\ startup = "done" /\ config # NoConfig
      /\ bus \in {<<NewConfig(TRUE)>>, <<NewConfig(FALSE)>>, <<NewCtx>>, <<Shutdown>>}
  BY <1>1 DEF SessionInv, PatientInv, OneEvent, Starting, AtRest
<1>3. bus' = <<>> /\ Append(uiq, "NewConfig") = <<"NewConfig">>
      /\ Append(uiq, "Shutdown") = <<"Shutdown">>
  BY <1>1, <1>2, Short
<1>4. /\ uiq' \in {<<>>, <<"NewConfig">>, <<"Shutdown">>} /\ panic' = {}
      /\ UNCHANGED <<quitting, closing>>
  <2>1. CASE Head(bus).type = "NewConfig" /\ NewConfigHandler
    BY <1>2, <1>3, <2>1 DEF NewConfigHandler, quitVars
  <2>2. CASE Head(bus).type = "NewCtx" /\ NewCtxHandler
    <3>1. bus = <<NewCtx>>
      BY <1>2, <2>2 DEF NewConfig, NewCtx, Shutdown
    <3>2. share # NoConfig
      BY <1>1, <3>1 DEF SessionInv, PatientInv
    <3> QED BY <1>2, <2>2, <3>2 DEF NewCtxHandler, quitVars
  <2>3. CASE Head(bus).type = "Shutdown" /\ ShutdownHandler
    BY <1>2, <1>3, <2>3 DEF ShutdownHandler, quitVars
  <2> QED BY <2>1, <2>2, <2>3 DEF AppTask
<1>5. \A s \in DOMAIN sessions' : (Over(s) \/ Awaited(s))'
  BY <1>1, <1>4 DEF SessionInv, PatientInv, Over, Awaited
<1> QED BY <1>1, <1>2, <1>3, <1>4, <1>5, Short DEF SessionInv, PatientInv, OneEvent

LEMMA PatientUi ==
    ASSUME SessionInv, UiTask
    PROVE  PatientInv' /\ sessions' \in Seq(SessionType)
<1>1. /\ uiq # <<>> /\ uiq' = Tail(uiq) /\ sessions \in Seq(SessionType) /\ TypeInv
      /\ UNCHANGED <<user, startup, dialog, stopping, workers>>
  BY DEF UiTask, device, dialogVars, SessionInv, TypeInv
<1>2. Patient => /\ bus = <<>> /\ panic = {} /\ startup = "done" /\ config # NoConfig
                 /\ uiq \in {<<"NewConfig">>, <<"Shutdown">>}
                 /\ \A s \in DOMAIN sessions : Over(s) \/ Awaited(s)
  BY <1>1 DEF SessionInv, PatientInv, OneEvent, Starting, AtRest
<1>3. Patient => uiq' = <<>>
  BY <1>1, <1>2, Short
<1>4. CASE Head(uiq) = "NewConfig" /\ UiNewConfig
  <2>1. UNCHANGED <<config, joins, sessions, quitting, closing>>
    BY <1>4 DEF UiNewConfig, stateVars, quitVars
  <2>2. Patient => share' = config /\ bus' = <<NewCtx>> /\ panic' = panic
    BY <1>2, <1>4, Short DEF UiNewConfig, AppAlive
  <2>3. Patient => \A s \in DOMAIN sessions' : (Over(s) \/ Awaited(s))'
    BY <1>1, <1>2, <2>1 DEF Over, Awaited
  <2> QED BY <1>1, <1>2, <1>3, <2>1, <2>2, <2>3 DEF SessionInv, PatientInv, OneEvent, Patient
<1>5. CASE Head(uiq) = "Shutdown" /\ UiShutdown
  <2>1. UNCHANGED <<bus, share, panic, config>>
    BY <1>5 DEF UiShutdown, stateVars
  <2>2. CASE quitting = "asked"
    <3>1. quitting' = "waits" /\ closing' = joins /\ Stop
      BY <1>5, <2>2 DEF UiShutdown
    <3>2. /\ sessions' \in Seq(SessionType) /\ DOMAIN sessions' = DOMAIN sessions
          /\ \A i \in DOMAIN sessions : Over(i) => Over(i)'
          /\ joins' = 0
      BY <1>1, <3>1, StopFacts
    <3>3. Patient => closing = 0
      BY <2>2 DEF SessionInv, PatientInv
    <3>4. Patient => \A s \in DOMAIN sessions' : (Over(s) \/ Awaited(s))'
      BY <1>1, <1>2, <3>1, <3>2, <3>3 DEF Awaited, Over
    <3> QED BY <1>1, <1>2, <1>3, <2>1, <2>2, <3>1, <3>2, <3>4, Short
            DEF SessionInv, PatientInv, OneEvent, Patient
  <2>3. CASE quitting # "asked"
    <3>1. UNCHANGED <<joins, sessions, quitting, closing>>
      BY <1>5, <2>3 DEF UiShutdown, stateVars, quitVars
    <3>2. Patient => \A s \in DOMAIN sessions' : (Over(s) \/ Awaited(s))'
      BY <1>1, <1>2, <3>1 DEF Over, Awaited
    <3> QED BY <1>1, <1>2, <1>3, <2>1, <3>1, <3>2, Short
            DEF SessionInv, PatientInv, OneEvent, Patient
  <2> QED BY <2>2, <2>3
<1> QED BY <1>4, <1>5 DEF UiTask

-----------------------------------------------------------------------------
(* The other steps.                                                        *)

LEMMA StartupKeeps ==
    ASSUME SessionInv, StartupEnds \/ StartupResult
    PROVE  SessionInv'
<1>1. TypeInv /\ Default \in Configs /\ Actual \in Configs /\ NoConfig \notin Configs
  BY MidiSessionAssumption DEF SessionInv
<1>2. CASE StartupEnds
  <2>1. /\ startup # "done" /\ startup' # "done"
        /\ UNCHANGED <<user, config, joins, sessions, dialog, stopping, workers, bus, uiq,
                       ctx, share, panic, quitting, closing>>
    BY <1>2 DEF StartupEnds, device, stateVars, dialogVars, eventVars, quitVars
  <2> QED BY <2>1, CtxSame DEF SessionInv, TypeInv, PatientInv, OneEvent, Starting, AtRest,
                               Patient, Over, Awaited
<1>3. CASE StartupResult
  <2>1. PICK opened \in BOOLEAN, c \in Configs : SetMidiInOut(opened, FALSE, c)
    BY <1>1, <1>3 DEF StartupResult
  <2>2. PICK quirk \in BOOLEAN, changed \in BOOLEAN :
            Start(opened, FALSE, quirk, changed) /\ config' = c /\ (changed \/ config' = config)
    <3>1. (c \in Quirky) \in BOOLEAN /\ (c # config) \in BOOLEAN
      OBVIOUS
    <3> QED BY <2>1, <3>1 DEF SetMidiInOut
  <2>3. /\ startup # "done" /\ startup' = "done"
        /\ UNCHANGED <<user, dialog, stopping, workers, uiq, ctx, share, panic, quitting, closing>>
    BY <1>3 DEF StartupResult, device, dialogVars, quitVars
  <2>4. CtxInv'
    BY <2>2, <2>3, CtxStart
  <2>5. TypeInv'
    BY <1>1, <2>2, <2>3, StartFacts DEF TypeInv
  <2>6. ASSUME Patient' PROVE PatientInv'
    <3>1. Patient /\ AtRest /\ joins = 0 /\ closing = 0 /\ stopping = {} /\ quitting = "no"
          /\ dialog = "closed"
      BY <2>3, <2>6 DEF SessionInv, PatientInv, Starting, Patient
    <3>2. /\ bus' \in {<<NewConfig(TRUE)>>, <<NewConfig(FALSE)>>}
          /\ \A s \in DOMAIN sessions' : (Over(s) \/ Awaited(s))'
      BY <2>1, <2>3, <3>1, PatientStart
    <3>3. bus' # <<NewCtx>>
      BY <3>2, Short
    <3>5. uiq' = <<>> /\ panic' = {} /\ config' # NoConfig
      BY <1>1, <2>2, <2>3, <3>1 DEF SessionInv, PatientInv, AtRest
    <3>6. OneEvent'
      BY <3>2, <3>5 DEF OneEvent
    <3>4. workers' <= 1 /\ (workers' > 0 => dialog' = "works")
      BY <2>3, <3>1 DEF SessionInv, PatientInv
    <3> QED BY <2>3, <3>1, <3>2, <3>3, <3>4, <3>5, <3>6 DEF PatientInv
  <2> QED BY <2>4, <2>5, <2>6 DEF SessionInv, PatientInv
<1> QED BY <1>2, <1>3

\* Preferences, and what the dialog does until it is closed.
LEMMA DialogKeeps ==
    ASSUME SessionInv, Preferences \/ StopAwaited \/ WorkStarts \/ WorkEnds
    PROVE  SessionInv'
<1>1. TypeInv /\ workers \in Nat
  BY DEF SessionInv, TypeInv
<1>2. CASE Preferences
  <2>1. /\ UNCHANGED <<user, startup, config, workers, bus, uiq, ctx, share, panic,
                       quitting, closing>>
        /\ dialog = "closed" /\ dialog' = "waits" /\ quitting = "no"
        /\ stopping' = stopping \cup {<<dialogs', joins>>} /\ Stop
        /\ Patient => startup = "done"
    BY <1>2 DEF Preferences, device, eventVars, quitVars
  <2>2. /\ sessions' \in Seq(SessionType) /\ DOMAIN sessions' = DOMAIN sessions
        /\ \A i \in DOMAIN sessions : Over(i) => Over(i)'
        /\ joins' = 0
    BY <1>1, <2>1, StopFacts
  <2>3. ASSUME Patient' PROVE PatientInv'
    <3>1. Patient /\ stopping = {} /\ closing = 0
          /\ \A s \in DOMAIN sessions : Over(s) \/ s = joins \/ s = 0
      BY <2>1, <2>3 DEF SessionInv, PatientInv, Awaited, Patient
    <3>2. stopping' = {<<dialogs', joins>>} /\ <<dialogs', joins>>[2] = joins
      BY <2>1, <3>1
    <3>3. \A s \in DOMAIN sessions' : (Over(s) \/ Awaited(s))'
      BY <2>2, <3>1, <3>2 DEF Awaited, Over
    <3>4. workers = 0 /\ panic = {} /\ OneEvent /\ (bus = <<NewCtx>> => share # NoConfig)
          /\ startup = "done" /\ config # NoConfig
      BY <1>1, <2>1, <3>1 DEF SessionInv, PatientInv
    <3>5. panic' = {} /\ OneEvent' /\ (bus' = <<NewCtx>> => share' # NoConfig)
      BY <2>1, <3>4 DEF OneEvent
    <3>6. /\ startup' = "done" /\ config' # NoConfig /\ quitting' = "no" /\ closing' = 0
          /\ joins' = 0 /\ dialog' = "waits" /\ workers' = 0
      BY <2>1, <2>2, <3>1, <3>4
    <3>7. \A d, e \in stopping' : d = e
      BY <3>2
    <3> QED BY <3>3, <3>5, <3>6, <3>7 DEF PatientInv
  <2> QED BY <1>1, <2>1, <2>2, <2>3, CtxSame DEF SessionInv, TypeInv, PatientInv
<1>3. CASE StopAwaited
  <2>1. UNCHANGED <<user, startup, config, joins, sessions, workers, bus, uiq, ctx, share, panic,
                    quitting, closing>>
    BY <1>3 DEF StopAwaited, device, stateVars, eventVars, quitVars
  <2>2. PICK d \in stopping : Over(d[2]) /\ stopping' = stopping \ {d}
    BY <1>3 DEF StopAwaited
  <2>3. ASSUME Patient PROVE /\ dialog = "waits" /\ dialog' = "ready" /\ stopping' = {}
                             /\ \A s \in DOMAIN sessions' : (Over(s) \/ Awaited(s))'
    <3>1. dialog = "waits" /\ stopping = {d}
      BY <2>2, <2>3 DEF SessionInv, PatientInv
    <3>2. dialog' = "ready" /\ stopping' = {}
      BY <1>3, <2>2, <3>1 DEF StopAwaited
    <3>3. \A s \in DOMAIN sessions : Over(s) \/ s = joins \/ s = closing
      BY <2>2, <2>3, <3>1 DEF SessionInv, PatientInv, Awaited
    <3> QED BY <2>1, <3>1, <3>2, <3>3 DEF Awaited, Over
  <2> QED BY <1>1, <2>1, <2>3, CtxSame DEF SessionInv, TypeInv, PatientInv, OneEvent, Starting,
                                           AtRest, Patient
<1>4. CASE WorkStarts \/ WorkEnds
  <2>1. UNCHANGED <<user, startup, config, joins, sessions, stopping, bus, uiq, ctx, share, panic,
                    quitting, closing>>
    BY <1>4 DEF WorkStarts, WorkEnds, device, stateVars, eventVars, quitVars
  <2>2. \/ dialog = "ready" /\ dialog' = "works" /\ workers' = workers + 1
        \/ /\ workers > 0 /\ workers' = workers - 1
           /\ dialog' = IF dialog = "closed" THEN dialog ELSE "ready"
    BY <1>4 DEF WorkStarts, WorkEnds
  <2>3. Patient => /\ dialog \in {"ready", "works"} /\ dialog' \in {"ready", "works"}
                   /\ workers' <= 1 /\ (workers' > 0 => dialog' = "works")
    BY <1>1, <2>2 DEF SessionInv, PatientInv
  <2>4. workers' \in Nat
    BY <1>1, <2>2
  <2>5. Patient => \A s \in DOMAIN sessions' : (Over(s) \/ Awaited(s))'
    BY <2>1 DEF SessionInv, PatientInv, Over, Awaited
  <2> QED BY <1>1, <2>1, <2>3, <2>4, <2>5, CtxSame
          DEF SessionInv, TypeInv, PatientInv, OneEvent, Starting, AtRest, Patient
<1> QED BY <1>2, <1>3, <1>4

\* OK and Cancel.
LEMMA CloseKeeps ==
    ASSUME SessionInv,
           DialogCancel \/ \E chosen \in BOOLEAN, c \in Configs \cup {config} : DialogOk(chosen, c)
    PROVE  SessionInv'
<1>1. CASE config = NoConfig /\ DialogCancel
  <2>1. /\ panic' # {} /\ dialog # "closed"
        /\ UNCHANGED <<user, startup, config, sessions, workers, bus, uiq, ctx, share>>
    BY <1>1 DEF DialogCancel, device, stateVars
  <2>2. ~Patient'
    BY <1>1, <2>1 DEF SessionInv, PatientInv, Starting, Patient
  <2> QED BY <2>1, <2>2 DEF SessionInv, TypeInv, CtxInv, PatientInv
<1>2. CASE ~(config = NoConfig /\ DialogCancel)
  <2>1. /\ UNCHANGED <<user, startup, stopping, workers, uiq, ctx, share, panic, quitting, closing>>
        /\ dialog # "closed" /\ dialog' = "closed"
        /\ Patient => dialog = "ready" /\ AtRest
    BY <1>2 DEF DialogCancel, DialogOk, device, quitVars
  <2>2. PICK opened, usb, c :
            /\ c \in Configs \cup {config}
            /\ \/ SetMidiInOut(opened, usb, c)
               \/ Start(opened, usb, c \in Quirky, FALSE) /\ config' = config
    BY <1>2 DEF DialogCancel, DialogOk
  <2>3. PICK quirk \in BOOLEAN, changed \in BOOLEAN :
            Start(opened, usb, quirk, changed) /\ (changed \/ config' = config)
    <3>1. (c \in Quirky) \in BOOLEAN /\ (c # config) \in BOOLEAN
      OBVIOUS
    <3> QED BY <2>2, <3>1 DEF SetMidiInOut
  <2>4. CtxInv'
    BY <2>1, <2>3, CtxStart
  <2>5. TypeInv'
    BY <2>1, <2>3, StartFacts DEF SessionInv, TypeInv
  <2>6. ASSUME Patient' PROVE PatientInv'
    <3>1. Patient /\ AtRest /\ dialog = "ready"
      BY <2>1, <2>6 DEF Patient
    <3>2. /\ joins = 0 /\ stopping = {} /\ quitting = "no" /\ closing = 0 /\ panic = {}
          /\ startup = "done" /\ config # NoConfig /\ workers = 0
      BY <3>1 DEF SessionInv, TypeInv, PatientInv, Starting
    <3>3. /\ bus' \in {<<NewConfig(TRUE)>>, <<NewConfig(FALSE)>>}
          /\ \A s \in DOMAIN sessions' : (Over(s) \/ Awaited(s))'
      BY <2>1, <2>2, <3>1, <3>2, PatientStart
    <3>4. bus' # <<NewCtx>>
      BY <3>3, Short
    <3>5. config' # NoConfig
      BY <2>2, <3>2, MidiSessionAssumption DEF SetMidiInOut
    <3>6. uiq' = <<>> /\ OneEvent'
      BY <2>1, <3>1, <3>3 DEF OneEvent, AtRest
    <3> QED BY <2>1, <3>2, <3>3, <3>4, <3>5, <3>6 DEF PatientInv
  <2> QED BY <2>4, <2>5, <2>6 DEF SessionInv, PatientInv
<1> QED BY <1>1, <1>2

\* A step of a session's task ends it.
LEMMA TaskKeeps ==
    ASSUME SessionInv, NEW s \in DOMAIN sessions, InCancelled(s) \/ InQuiet(s) \/ OutCancelled(s)
    PROVE  SessionInv'
<1>1. UNCHANGED <<user, startup, config, joins, dialog, stopping, workers, bus, uiq, ctx, share,
                  panic, quitting, closing>>
  BY DEF InCancelled, InQuiet, OutCancelled, device, dialogVars, eventVars, quitVars
<1>2. sessions[s] \in SessionType /\ sessions \in Seq(SessionType)
  BY DEF SessionInv, TypeInv
<1>3. PICK x \in SessionType :
          /\ sessions' = [sessions EXCEPT ![s] = x]
          /\ sessions[s].in = "gone" => x.in = "gone"
          /\ sessions[s].out = "gone" => x.out = "gone"
  <2>1. /\ [sessions[s] EXCEPT !.in = "quiet"] \in SessionType
        /\ [sessions[s] EXCEPT !.in = "gone"] \in SessionType
        /\ [sessions[s] EXCEPT !.out = "gone"] \in SessionType
    BY <1>2 DEF SessionType
  <2>2. CASE InCancelled(s)
    <3> DEFINE x == [sessions[s] EXCEPT !.in = IF sessions[s].quirk THEN "quiet" ELSE "gone"]
    <3>1. x \in SessionType /\ x.out = sessions[s].out
      BY <1>2 DEF SessionType
    <3>2. sessions' = [sessions EXCEPT ![s] = x] /\ sessions[s].in # "gone"
      BY <2>2 DEF InCancelled
    <3> HIDE DEF x
    <3> QED BY <3>1, <3>2
  <2>3. CASE InQuiet(s)
    <3> DEFINE x == [sessions[s] EXCEPT !.in = "gone"]
    <3>1. x \in SessionType /\ x.out = sessions[s].out
      BY <1>2 DEF SessionType
    <3>2. sessions' = [sessions EXCEPT ![s] = x] /\ sessions[s].in # "gone"
      BY <2>3 DEF InQuiet
    <3> HIDE DEF x
    <3> QED BY <3>1, <3>2
  <2>4. CASE OutCancelled(s)
    <3> DEFINE x == [sessions[s] EXCEPT !.out = "gone"]
    <3>1. x \in SessionType /\ x.in = sessions[s].in
      BY <1>2 DEF SessionType
    <3>2. sessions' = [sessions EXCEPT ![s] = x] /\ sessions[s].out # "gone"
      BY <2>4 DEF OutCancelled
    <3> HIDE DEF x
    <3> QED BY <3>1, <3>2
  <2> QED BY <2>2, <2>3, <2>4
<1>4. /\ sessions' \in Seq(SessionType) /\ DOMAIN sessions' = DOMAIN sessions
      /\ \A i \in DOMAIN sessions : sessions'[i] = IF i = s THEN x ELSE sessions[i]
  BY <1>2, <1>3, SessionSet
<1>5. \A i \in DOMAIN sessions : Over(i) => Over(i)'
  BY <1>3, <1>4, OverStays
<1>6. Patient => startup = "done"
  BY <1>2 DEF SessionInv, PatientInv, Starting
<1>7. Patient => \A i \in DOMAIN sessions' : (Over(i) \/ Awaited(i))'
  BY <1>1, <1>4, <1>5 DEF SessionInv, PatientInv, Awaited
<1> QED BY <1>1, <1>4, <1>6, <1>7, CtxSame
        DEF SessionInv, TypeInv, PatientInv, OneEvent, Patient

\* Closing the window, quitting, and unplugging.
LEMMA RestKeeps ==
    ASSUME SessionInv, CloseWindow \/ Quit \/ Unplug
    PROVE  SessionInv'
<1>1. UNCHANGED <<user, startup, config, joins, sessions, dialog, stopping, workers, uiq, ctx,
                  share, panic, closing>>
  BY DEF CloseWindow, Quit, Unplug, device, stateVars, dialogVars, eventVars, quitVars
<1>2. Patient => \A s \in DOMAIN sessions' : (Over(s) \/ Awaited(s))'
  BY <1>1 DEF SessionInv, PatientInv, Over, Awaited
<1>3. CASE CloseWindow
  <2>1. /\ bus' = Append(bus, Shutdown) /\ quitting' = "asked" /\ quitting = "no"
        /\ dialog = "closed" /\ (Patient => AtRest /\ startup = "done")
    BY <1>3 DEF CloseWindow
  <2>2. bus' \in Seq(Events) /\ Pend(bus)' = Pend(bus) \cup {Shutdown}
    BY <2>1, Queued, EventsAre DEF SessionInv, TypeInv
  <2>3. CtxInv'
    BY <1>1, <2>2, EventsAre DEF SessionInv, CtxInv, Coming
  <2>4. ASSUME Patient' PROVE PatientInv'
    <3>1. Patient /\ bus = <<>> /\ uiq' = <<>> /\ startup' = "done"
      BY <1>1, <2>1, <2>4 DEF AtRest, Patient
    <3>2. bus' = <<Shutdown>> /\ bus' # <<NewCtx>>
      BY <2>1, <3>1, Short
    <3>3. OneEvent'
      BY <3>1, <3>2 DEF OneEvent
    <3>4. /\ panic = {} /\ config # NoConfig /\ closing = 0 /\ stopping = {}
          /\ workers <= 1 /\ (workers > 0 => dialog = "works")
      BY <1>1, <2>1, <3>1 DEF SessionInv, PatientInv
    <3> QED BY <1>1, <1>2, <2>1, <3>1, <3>2, <3>3, <3>4 DEF PatientInv, Patient
  <2> QED BY <1>1, <2>2, <2>3, <2>4 DEF SessionInv, TypeInv, PatientInv
<1>4. CASE Quit \/ Unplug
  <2>1. bus' = bus /\ (quitting' = quitting \/ (quitting = "waits" /\ quitting' = "quit"))
    BY <1>4 DEF Quit, Unplug, eventVars, quitVars
  <2> QED BY <1>1, <1>2, <2>1, CtxSame
          DEF SessionInv, TypeInv, PatientInv, OneEvent, Starting, AtRest, Patient
<1> QED BY <1>3, <1>4

-----------------------------------------------------------------------------
LEMMA SessionInit == Init => SessionInv
<1> SUFFICES ASSUME Init PROVE SessionInv
  OBVIOUS
<1>1. TypeInv
  BY DEF Init, TypeInv
<1>2. CtxInv
  BY DEF Init, CtxInv
<1>3. PatientInv
  BY DEF Init, PatientInv, OneEvent, Starting, AtRest
<1> QED BY <1>1, <1>2, <1>3 DEF SessionInv

LEMMA SessionStep == SessionInv /\ [Next]_sessionVars => SessionInv'
<1> SUFFICES ASSUME SessionInv, [Next]_sessionVars PROVE SessionInv'
  OBVIOUS
<1>1. CASE UNCHANGED sessionVars
  <2>1. UNCHANGED <<user, startup, config, joins, sessions, dialog, stopping, workers, bus, uiq,
                    ctx, share, panic, quitting, closing>>
    BY <1>1 DEF sessionVars, device, stateVars, dialogVars, eventVars, quitVars
  <2>2. PatientInv'
    BY <2>1 DEF SessionInv, PatientInv, OneEvent, Starting, AtRest, Patient, Over, Awaited
  <2> QED BY <2>1, <2>2, CtxSame DEF SessionInv, TypeInv
<1>2. CASE AppTask
  <2>1. sessions' = sessions /\ workers' = workers
    BY <1>2 DEF AppTask, stateVars, dialogVars
  <2> QED BY <1>2, <2>1, CtxApp, PatientApp DEF SessionInv, TypeInv
<1>3. CASE UiTask
  <2>1. workers' = workers
    BY <1>3 DEF UiTask, dialogVars
  <2> QED BY <1>3, <2>1, CtxUi, PatientUi DEF SessionInv, TypeInv
<1> QED BY <1>1, <1>2, <1>3, StartupKeeps, DialogKeeps, CloseKeeps, TaskKeeps, RestKeeps
        DEF Next, User, Tasks, Results

LEMMA Session_Inv == Spec => []SessionInv
BY SessionInit, SessionStep, PTL DEF Spec

-----------------------------------------------------------------------------
\* A user who waits for the program never makes it panic: not the application
\* task, which unwraps the context it takes over, and not the GTK thread, which
\* unwraps the configuration when the dialog is cancelled.
THEOREM PatientIsSafe == Spec => []PatientUserIsSafe
<1>1. SessionInv => PatientUserIsSafe
  BY DEF SessionInv, PatientInv, PatientUserIsSafe
<1> QED BY <1>1, Session_Inv, PTL

\* Whoever the user is and however many configurations were installed in a row:
\* when the events are handled the application task has the context of the last
\* one (NewConfig and NewCtx of the application task, NewConfig of the GTK one).
THEOREM ContextMatches == Spec => []CtxMatchesConfig
<1>1. SessionInv => CtxMatchesConfig
  BY DEF SessionInv, CtxInv, Coming, Pend, CtxMatchesConfig, AtRest
<1> QED BY <1>1, Session_Inv, PTL

\* While the settings dialog can be used no task of a session is left on the
\* device's line: the dialog awaited the only one there was.
THEOREM DialogHasLine == Spec => []DialogHasTheLine
<1>1. SessionInv => DialogHasTheLine
  <2> SUFFICES ASSUME SessionInv, Patient, dialog \in {"ready", "works"},
                      NEW s \in DOMAIN sessions
               PROVE  Over(s)
    BY DEF DialogHasTheLine
  <2>1. joins = 0 /\ stopping = {} /\ closing = 0
    BY DEF SessionInv, PatientInv
  <2>2. Over(s) \/ s = 0
    BY <2>1 DEF SessionInv, PatientInv, Awaited
  <2> QED BY <2>2 DEF Over
<1> QED BY <1>1, Session_Inv, PTL
=============================================================================
