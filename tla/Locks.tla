-------------------------------- MODULE Locks --------------------------------
(***************************************************************************)
(* The mutexes two threads share: the GTK thread (callbacks of widgets and *)
(* of controls, UI events) and the task that runs the handlers.  A handler *)
(* is a row of critical sections with nothing held between them; a section *)
(* is the list of the mutexes it takes and gives back, in the order of the *)
(* guards' scopes.  The GTK thread and the task do their sections in any   *)
(* order: what decides which one comes next is in PodCore and Controls.    *)
(* The mutexes that are only taken last and alone (ui_controller, the      *)
(* routes of the dispatch) cannot block anybody for ever and are left out. *)
(***************************************************************************)
EXTENDS Naturals, Sequences, SequencesExt

Mutexes == {"ctx_share", "controller", "edit", "raw", "dump"}
Threads == {"gtk", "app"}

Take(m) == [do |-> "lock", on |-> m]
Give(m) == [do |-> "unlock", on |-> m]

\* A section that takes mutexes one inside the other.
Nested(ms) == [i \in 1 .. Len(ms) |-> Take(ms[i])]
              \o Reverse([i \in 1 .. Len(ms) |-> Give(ms[i])])

\* What a section does while it holds mutexes.
Inside(ms, part) == [i \in 1 .. Len(ms) |-> Take(ms[i])] \o part
                    \o Reverse([i \in 1 .. Len(ms) |-> Give(ms[i])])

NameAppears     == Nested(<<"edit", "raw">>)
NameTyped       == Nested(<<"edit", "raw", "controller">>)
ControlTouched  == Nested(<<"controller">>)
ControlsStarted == Nested(<<"edit", "controller">>)
ConfigReplaced  == Inside(<<"ctx_share">>, Nested(<<"controller">>) \o Nested(<<"dump">>))

GtkSections ==
    [name_callback        |-> NameAppears,
     set_name             |-> NameTyped,
     set_name_same        |-> NameAppears,
     control              |-> ControlTouched,
     init_module_controls |-> ControlsStarted,
     new_config           |-> ConfigReplaced]

\* Mutant: the bytes before the buffer they belong to.
UpdateEditBufferRawFirst == Nested(<<"controller", "raw", "edit">>)

UpdateEditBuffer == Nested(<<"controller", "edit", "raw">>)

\* The bytes are copied to the edit buffer, and from there to the controls.
LoadEdit == Nested(<<"raw">>) \o Nested(<<"controller", "raw">>)
ReadEdit == Nested(<<"raw">>) \o Nested(<<"raw">>)

SyncBuffers == Inside(<<"edit", "dump">>, ReadEdit \o LoadEdit)

AppSections ==
    [get_config            |-> Nested(<<"controller">>),
     update_edit_buffer    |-> UpdateEditBuffer,
     edit_name             |-> Nested(<<"edit", "raw">>),
     program_name          |-> Nested(<<"dump">>),
     sync_edit_and_dump    |-> SyncBuffers,
     store_edit            |-> Inside(<<"dump", "edit">>, ReadEdit),
     store_program         |-> Nested(<<"dump">>),
     buffer_to_edit        |-> Inside(<<"edit">>, LoadEdit),
     program_to_edit       |-> Inside(<<"edit", "dump">>, LoadEdit),
     modified_edit         |-> Nested(<<"dump", "edit">>),
     new_ctx               |-> Nested(<<"ctx_share">>)]

Sections == [gtk |-> GtkSections, app |-> AppSections]

VARIABLES
    section,    \* the section each thread is in, or "none"
    at,         \* the step of it that comes next
    holder      \* the thread that holds each mutex, or "none"

locksVars == <<section, at, holder>>

Init ==
    /\ section = [t \in Threads |-> "none"]
    /\ at = [t \in Threads |-> 1]
    /\ holder = [m \in Mutexes |-> "none"]

Steps(t) == Sections[t][section[t]]
Working(t) == section[t] # "none"

Start(t) ==
    /\ ~Working(t)
    /\ \E s \in DOMAIN Sections[t] : section' = [section EXCEPT ![t] = s]
    /\ at' = [at EXCEPT ![t] = 1]
    /\ UNCHANGED holder

Wants(t) == IF Working(t) /\ Steps(t)[at[t]].do = "lock" THEN {Steps(t)[at[t]].on} ELSE {}

\* After its last step a thread is in no section.
Advance(t) ==
    /\ at' = [at EXCEPT ![t] = IF at[t] = Len(Steps(t)) THEN 1 ELSE at[t] + 1]
    /\ section' = [section EXCEPT ![t] = IF at[t] = Len(Steps(t)) THEN "none" ELSE section[t]]

Lock(t) ==
    \E m \in Wants(t) :
        /\ holder[m] = "none"
        /\ holder' = [holder EXCEPT ![m] = t]
        /\ Advance(t)

Unlock(t) ==
    /\ Working(t) /\ Wants(t) = {}
    /\ holder' = [holder EXCEPT ![Steps(t)[at[t]].on] = "none"]
    /\ Advance(t)

Next == \E t \in Threads : Start(t) \/ Lock(t) \/ Unlock(t)

Spec == Init /\ [][Next]_locksVars

-----------------------------------------------------------------------------
Stuck(t) == \E m \in Wants(t) : holder[m] # "none"

\* The two threads wait for each other in one case only: the task takes the
\* controller and then the edit buffer to write a control to it, while the GTK
\* thread has the edit buffer, to store a name somebody types or to start the
\* controls of a new configuration, and wants the controller.  No other pair of
\* sections can stop the program, and no section waits for itself.
OnlyKnownDeadlock ==
    /\ \A t \in Threads : \A m \in Wants(t) : holder[m] # t
    /\ (\A t \in Threads : Stuck(t)) =>
          /\ section["app"] = "update_edit_buffer"
          /\ section["gtk"] \in {"set_name", "init_module_controls"}
=============================================================================
