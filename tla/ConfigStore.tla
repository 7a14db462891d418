---------------------------- MODULE ConfigStore ----------------------------
(***************************************************************************)
(* The configuration store (config.cpp, config.h): a struct in memory that *)
(* callers change through the pointer getCfg returns, a copy of what was   *)
(* saved last, and a file that savecfg truncates and writes again.  Two    *)
(* magic numbers, one ahead of the settings and one behind them, tell a    *)
(* whole record from a torn one.                                           *)
(*                                                                         *)
(* The struct is four cells in the order of the file.  A cell that the     *)
(* file does not reach is Absent; a file that does not exist reaches none. *)
(* External: the file system, which may fail a call, write less than it    *)
(* was asked to, and, as nobody calls fsync, keep on the disk only a part  *)
(* of what was written when the power is lost.                             *)
(***************************************************************************)
EXTENDS Integers

CONSTANTS
    Counts,      \* values of runcount
    Settings,    \* values of network_mod and rtmpurl together
    CHECKSTART, CHECKEND,
    Absent

ASSUME ValuesAssumption == Counts \subseteq Nat /\ Settings \subseteq Nat
ASSUME DefaultsAssumption == 0 \in Counts /\ 0 \in Settings
ASSUME MagicAssumption == CHECKSTART \in Nat \ {0} /\ CHECKEND \in Nat \ {0}
ASSUME AbsentAssumption == Absent \notin Nat

Cells == 1..4
Record(n, s) == <<n, CHECKSTART, s, CHECKEND>>
Records == {Record(n, s) : n \in Counts, s \in Settings}
Zeroed == [i \in Cells |-> 0]
Empty == [i \in Cells |-> Absent]
Default == Record(0, 0)

Values == Nat \union {Absent}

VARIABLES
    cfgdata,  \* the configuration in memory
    bak,      \* cfgdata_bak
    file,     \* what a read of the file returns
    disk,     \* what a read of the file returns after a loss of power
    pc,       \* "boot" | "run" | "save" (in savecfg) | "write" (after open)
    fd,       \* whether the open of savecfg succeeded
    saved,    \* history: the records savecfg was called with
    failed    \* history: the last attempt to write did not succeed

memory == <<cfgdata, bak>>
vars == <<memory, file, disk, pc, fd, saved, failed>>

Init ==
    /\ cfgdata = Zeroed /\ bak = Zeroed
    /\ file = Empty /\ disk = Empty
    /\ pc = "boot"
    /\ fd = FALSE
    /\ saved = {}
    /\ failed = FALSE

(* What read leaves in a buffer that was zeroed before.                    *)
Padded(f) == [i \in Cells |-> IF f[i] = Absent THEN 0 ELSE f[i]]

(* Mutant: only the first magic number is looked at.                       *)
ValidStart(r) == r[2] = CHECKSTART
Valid(r) == r[2] = CHECKSTART /\ r[4] = CHECKEND

-----------------------------------------------------------------------------
(* readcfg.                                                                *)

(* The result of a read; open and read may fail.                           *)
Loaded == {Padded(file), Zeroed}

(* Mutant: the copy is not made, so that it is left zeroed.                *)
AcceptNoCopy ==
    /\ pc = "boot"
    /\ \E r \in Loaded : Valid(r) /\ cfgdata' = r
    /\ pc' = "run"
    /\ failed' = FALSE
    /\ UNCHANGED <<bak, file, disk, fd, saved>>
Accept ==
    /\ pc = "boot"
    /\ \E r \in Loaded : Valid(r) /\ cfgdata' = r /\ bak' = r
    /\ pc' = "run"
    /\ failed' = FALSE
    /\ UNCHANGED <<file, disk, fd, saved>>

(* Mutant: readcfg tries again until it reads something valid.             *)
RejectAndRetry ==
    /\ pc = "boot"
    /\ \E r \in Loaded : ~Valid(r) /\ cfgdata' = r
    /\ UNCHANGED <<bak, file, disk, pc, fd, saved, failed>>
(* Not valid: take the defaults and save them.                             *)
Reject ==
    /\ pc = "boot"
    /\ \E r \in Loaded : ~Valid(r)
    /\ cfgdata' = Default
    /\ pc' = "save"
    /\ saved' = saved \union {Default}
    /\ UNCHANGED <<bak, file, disk, fd, failed>>

-----------------------------------------------------------------------------
(* The callers of getCfg and savecfg.                                      *)

Change ==
    /\ pc = "run"
    /\ \E n \in Counts, s \in Settings :
          cfgdata' = [cfgdata EXCEPT ![1] = n, ![3] = s]
    /\ UNCHANGED <<bak, file, disk, pc, fd, saved, failed>>

SaveCall ==
    /\ pc = "run"
    /\ pc' = "save"
    /\ saved' = saved \union {cfgdata}
    /\ UNCHANGED <<memory, file, disk, fd, failed>>

-----------------------------------------------------------------------------
(* savecfg.  readcfg, when it is the caller, copies cfgdata to bak once    *)
(* more after the return, which changes nothing.                           *)

SaveSkip ==
    /\ pc = "save" /\ cfgdata = bak
    /\ pc' = "run"
    /\ UNCHANGED <<memory, file, disk, fd, saved, failed>>

(* Mutant: the file is opened without O_TRUNC.                             *)
SaveOpenKeep ==
    /\ pc = "save" /\ cfgdata # bak
    /\ fd' = TRUE
    /\ pc' = "write"
    /\ UNCHANGED <<memory, file, disk, saved, failed>>
SaveOpen ==
    /\ pc = "save" /\ cfgdata # bak
    /\ fd' = TRUE
    /\ file' = Empty
    /\ pc' = "write"
    /\ UNCHANGED <<memory, disk, saved, failed>>

(* open returns -1, which passes `if (fd)`.                                *)
SaveOpenFails ==
    /\ pc = "save" /\ cfgdata # bak
    /\ fd' = FALSE
    /\ pc' = "write"
    /\ UNCHANGED <<memory, file, disk, saved, failed>>

(* A write of the first k cells over what the file holds.                  *)
Overwritten(f, k) == [i \in Cells |-> IF i <= k THEN cfgdata[i] ELSE f[i]]

(* write, whose result nobody looks at, the copy to bak and close.         *)
SaveWrite ==
    /\ pc = "write"
    /\ \E k \in 0..4 :
          /\ ~fd => k = 0
          /\ file' = Overwritten(file, k)
          /\ failed' = (k # 4)
    /\ bak' = cfgdata
    /\ fd' = FALSE
    /\ pc' = "run"
    /\ UNCHANGED <<cfgdata, disk, saved>>

-----------------------------------------------------------------------------
(* The file system and the power.                                          *)

(* Some or all of the file reaches the disk.                               *)
Writeback ==
    /\ \E k \in 0..4 :
          disk' = [i \in Cells |-> IF i <= k THEN file[i] ELSE Absent]
    /\ UNCHANGED <<memory, file, pc, fd, saved, failed>>

(* A new process starts with its static data zeroed.                       *)
NewProcess ==
    /\ cfgdata' = Zeroed /\ bak' = Zeroed
    /\ pc' = "boot"
    /\ fd' = FALSE
    /\ UNCHANGED <<disk, saved, failed>>

Restart == NewProcess /\ UNCHANGED file
PowerLoss == NewProcess /\ file' = disk

-----------------------------------------------------------------------------
readcfg == Accept \/ Reject
savecfg == SaveSkip \/ SaveOpen \/ SaveOpenFails \/ SaveWrite

Next ==
    \/ readcfg \/ Change \/ SaveCall \/ savecfg
    \/ Writeback \/ Restart \/ PowerLoss

Spec == Init /\ [][Next]_vars

(* The program runs, and is not restarted for ever.                        *)
FairSpec ==
    /\ Spec
    /\ WF_vars(readcfg) /\ WF_vars(savecfg)
    /\ <>[][~Restart /\ ~PowerLoss]_vars

-----------------------------------------------------------------------------
(* Types of the store.                                                     *)
TypeOK ==
    /\ cfgdata \in Records \union {Zeroed}
    /\ bak \in Records \union {Zeroed}
    /\ file \in [Cells -> Values]
    /\ disk \in [Cells -> Values]
    /\ pc \in {"boot", "run", "save", "write"}
    /\ fd \in BOOLEAN
    /\ saved \subseteq Records
    /\ failed \in BOOLEAN

(* To its callers the store is a register of whole records: whatever is    *)
(* interrupted, cut short or fails, readcfg takes the record written last, *)
(* after a loss of power the one that had reached the disk, or else the    *)
(* defaults.  savecfg replaces it by the configuration it was called with  *)
(* or loses it, and leaves a write out only when the register holds that   *)
(* configuration, or after a write that failed.                            *)
Held(f) == IF Valid(Padded(f)) THEN Padded(f) ELSE Zeroed
Register == INSTANCE SettingsRegister WITH
    None <- Zeroed,
    held <- Held(file),
    durable <- Held(disk),
    working <- IF pc = "boot" THEN Zeroed ELSE cfgdata,
    saving <- pc \in {"save", "write"}
StoreIsRegister == Register!Spec

(* savecfg skips the write when the configuration equals the copy.  That   *)
(* loses nothing as long as the last write succeeded: the copy is then what*)
(* the file holds, and what a restart reads.                               *)
CopyTellsTheFile ==
    pc = "run" /\ ~failed => file = bak

(* However a save was interrupted and whatever calls fail, the program gets*)
(* through readcfg, and through the save that readcfg may call.            *)
BootsAtLast == pc = "boot" ~> pc = "run"
=============================================================================
