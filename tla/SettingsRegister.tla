-------------------------- MODULE SettingsRegister --------------------------
(***************************************************************************)
(* What the configuration store (config.cpp) promises to the program: a    *)
(* register that holds one whole record of settings or nothing.  A save    *)
(* first loses what the register held and then puts the working settings   *)
(* in; it may fail, and it may be cut short by a stop, but what is loaded  *)
(* is the record put in last or, after a loss of power, the one that was   *)
(* held at the last sync.  No file, no magic number and no copy.           *)
(* ConfigStore.tla is shown to implement this module.                      *)
(***************************************************************************)
CONSTANTS
    Records,   \* settings the program can work with
    Default,   \* those it works with when it finds none
    None       \* "no record": not a member of Records

VARIABLES
    held,      \* what a load returns: a record, or None
    durable,   \* what a load returns after a loss of power
    working,   \* the settings the program works with, None before a load
    saving,    \* whether a save is under way
    failed     \* the last attempt to put a record in did not succeed

vars == <<held, durable, working, saving, failed>>

Init ==
    /\ held = None /\ durable = None
    /\ working = None
    /\ saving = FALSE
    /\ failed = FALSE

Load ==
    /\ working = None /\ held # None
    /\ working' = held
    /\ failed' = FALSE
    /\ UNCHANGED <<held, durable, saving>>

(* Nothing is held, or it cannot be read: the defaults are to replace it.  *)
UseDefault ==
    /\ working = None
    /\ working' = Default
    /\ saving' = TRUE
    /\ UNCHANGED <<held, durable, failed>>

Change ==
    /\ working # None /\ ~saving
    /\ working' \in Records
    /\ UNCHANGED <<held, durable, saving, failed>>

Save ==
    /\ working # None /\ ~saving
    /\ saving' = TRUE
    /\ UNCHANGED <<held, durable, working, failed>>

-----------------------------------------------------------------------------
(* A save that has nothing to do, unless the last one failed: that one is  *)
(* not made up for.                                                        *)
Skip ==
    /\ saving
    /\ held = working \/ failed
    /\ saving' = FALSE
    /\ UNCHANGED <<held, durable, working, failed>>

Lose ==
    /\ saving
    /\ held' = None
    /\ UNCHANGED <<durable, working, saving, failed>>

Put ==
    /\ saving
    /\ held' = working
    /\ saving' = FALSE
    /\ failed' = FALSE
    /\ UNCHANGED <<durable, working>>

PutFails ==
    /\ saving
    /\ saving' = FALSE
    /\ failed' = TRUE
    /\ UNCHANGED <<held, durable, working>>

-----------------------------------------------------------------------------
Sync ==
    /\ durable' \in {held, None}
    /\ UNCHANGED <<held, working, saving, failed>>

(* The program is restarted, or the power is lost.                         *)
Stop ==
    /\ held' \in {held, durable}
    /\ working' = None
    /\ saving' = FALSE
    /\ UNCHANGED <<durable, failed>>

Next ==
    \/ Load \/ UseDefault \/ Change \/ Save
    \/ Skip \/ Lose \/ Put \/ PutFails
    \/ Sync \/ Stop

Spec == Init /\ [][Next]_vars
=============================================================================
