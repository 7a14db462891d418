-------------------------- MODULE ConfigStoreProofs --------------------------
(***************************************************************************)
(* Theorems about ConfigStore for any sets of values and any two magic     *)
(* numbers other than zero.                                                *)
(*                                                                         *)
(* The invariant behind them: the file and the disk each hold a prefix of  *)
(* ONE saved record (savecfg truncates before it writes), and a prefix     *)
(* that reaches the second magic number is the whole record.  So the file  *)
(* is a register that holds one record or none (SettingsRegister).         *)
(***************************************************************************)
EXTENDS ConfigStore, TLAPS

(* The first k cells of a record.                                          *)
Prefix(r, k) == [i \in Cells |-> IF i <= k THEN r[i] ELSE Absent]

PrefixOfSaved(f) == \E r \in saved, k \in 0..4 : f = Prefix(r, k)

FileInv ==
    /\ file = Empty \/ PrefixOfSaved(file)
    /\ disk = Empty \/ PrefixOfSaved(disk)
    /\ pc \in {"save", "write"} => cfgdata \in saved
    /\ pc # "boot" => cfgdata \in Records
    /\ pc = "write" /\ fd => file = Empty

CopyInv ==
    /\ CopyTellsTheFile
    /\ pc = "boot" => bak = Zeroed
    /\ pc = "save" /\ bak # Zeroed /\ ~failed => file = bak

-----------------------------------------------------------------------------
(* Records and what can be read of a prefix.                               *)

LEMMA RecordShape ==
    /\ \A r \in Records :
          /\ r \in [Cells -> Nat]
          /\ r[2] = CHECKSTART /\ r[4] = CHECKEND
          /\ r # Zeroed
    /\ Default \in Records
    /\ Zeroed \in [Cells -> Nat]
<1> USE ValuesAssumption, DefaultsAssumption, MagicAssumption
<1>1. ASSUME NEW n \in Counts, NEW s \in Settings
      PROVE  /\ Record(n, s) \in [Cells -> Nat]
             /\ Record(n, s)[2] = CHECKSTART /\ Record(n, s)[4] = CHECKEND
  <2>1. n \in Nat /\ s \in Nat
    OBVIOUS
  <2> QED
    BY <2>1 DEF Record, Cells
<1>2. Zeroed \in [Cells -> Nat] /\ Zeroed[2] = 0
  BY DEF Zeroed, Cells
<1> QED
  BY <1>1, <1>2 DEF Records, Default

(* callers change the run count and the settings and leave the magic.      *)
LEMMA ChangeShape ==
    ASSUME NEW r \in Records, NEW n \in Counts, NEW s \in Settings
    PROVE  [r EXCEPT ![1] = n, ![3] = s] = Record(n, s)
<1>1. PICK m \in Counts, t \in Settings : r = Record(m, t)
  BY DEF Records
<1> QED
  BY <1>1 DEF Record

LEMMA PrefixShape ==
    ASSUME NEW r \in Records, NEW k \in 0..4
    PROVE  /\ Prefix(r, k) \in [Cells -> Values]
           /\ Padded(Prefix(r, k)) \in [Cells -> Nat]
           /\ Valid(Padded(Prefix(r, k))) => k = 4
           /\ k = 4 => Prefix(r, k) = r /\ Padded(Prefix(r, k)) = r
<1> USE RecordShape, AbsentAssumption, MagicAssumption
<1>1. /\ Prefix(r, k) \in [Cells -> Values]
      /\ Padded(Prefix(r, k)) \in [Cells -> Nat]
  BY DEF Prefix, Padded, Cells, Values
<1>2. Valid(Padded(Prefix(r, k))) => k = 4
  BY DEF Prefix, Padded, Cells, Valid
<1>3. ASSUME k = 4
      PROVE  Prefix(r, k) = r /\ Padded(Prefix(r, k)) = r
  BY <1>3 DEF Prefix, Padded, Cells
<1> QED
  BY <1>1, <1>2, <1>3

LEMMA EmptyShape ==
    /\ Empty \in [Cells -> Values]
    /\ Padded(Empty) = Zeroed
    /\ ~Valid(Zeroed)
BY AbsentAssumption, MagicAssumption DEF Empty, Padded, Zeroed, Valid, Cells, Values

(* What readcfg accepts is the file, and a saved record.                   *)
LEMMA ValidIsSaved ==
    ASSUME NEW f, f = Empty \/ PrefixOfSaved(f), saved \subseteq Records,
           Valid(Padded(f))
    PROVE  Padded(f) \in saved /\ f = Padded(f)
<1>1. f # Empty
  BY EmptyShape
<1>2. PICK r \in saved, k \in 0..4 : f = Prefix(r, k)
  BY <1>1 DEF PrefixOfSaved
<1> QED
  BY <1>2, PrefixShape

-----------------------------------------------------------------------------
LEMMA TypeInit == Init => TypeOK
BY EmptyShape DEF Init, TypeOK

LEMMA TypeStep == TypeOK /\ FileInv /\ [Next]_vars => TypeOK'
<1> SUFFICES ASSUME TypeOK, FileInv, Next PROVE TypeOK'
  BY DEF TypeOK, vars, memory
<1> USE RecordShape DEF TypeOK
<1>1. CASE Accept
  <2>1. PICK r \in Loaded : Valid(r) /\ cfgdata' = r /\ bak' = r
    BY <1>1 DEF Accept
  <2>2. r \in saved
    BY <2>1, EmptyShape, ValidIsSaved DEF Loaded, FileInv
  <2> QED
    BY <1>1, <2>1, <2>2 DEF Accept
<1>2. CASE Reject
  BY <1>2 DEF Reject
<1>3. CASE Change
  <2>1. PICK n \in Counts, s \in Settings :
           cfgdata' = [cfgdata EXCEPT ![1] = n, ![3] = s]
    BY <1>3 DEF Change
  <2>2. cfgdata' \in Records
    BY <1>3, <2>1, ChangeShape DEF Change, FileInv, Records
  <2> QED
    BY <1>3, <2>2 DEF Change
<1>4. CASE SaveCall
  BY <1>4 DEF SaveCall, FileInv, memory
<1>5. CASE SaveSkip \/ SaveOpenFails
  BY <1>5 DEF SaveSkip, SaveOpenFails, memory
<1>6. CASE SaveOpen
  BY <1>6, EmptyShape DEF SaveOpen, memory
<1>7. CASE SaveWrite
  <2>1. cfgdata \in [Cells -> Values]
    BY DEF Values
  <2>2. \A k \in 0..4 : Overwritten(file, k) \in [Cells -> Values]
    BY <2>1 DEF Overwritten
  <2> QED
    BY <1>7, <2>2 DEF SaveWrite
<1>8. CASE Writeback
  <2>1. \A k \in 0..4 :
           [i \in Cells |-> IF i <= k THEN file[i] ELSE Absent] \in [Cells -> Values]
    BY DEF Values
  <2> QED
    BY <1>8, <2>1 DEF Writeback, memory
<1>9. CASE Restart \/ PowerLoss
  BY <1>9 DEF Restart, PowerLoss, NewProcess
<1> QED
  BY <1>1, <1>2, <1>3, <1>4, <1>5, <1>6, <1>7, <1>8, <1>9 DEF Next, readcfg, savecfg

-----------------------------------------------------------------------------
LEMMA FileInit == Init => FileInv
BY DEF Init, FileInv

(* A write and a writeback make prefixes of one record.                    *)
LEMMA Prefixes ==
    ASSUME NEW r \in Records, NEW k \in 0..4
    PROVE  /\ [i \in Cells |-> IF i <= k THEN r[i] ELSE Empty[i]] = Prefix(r, k)
           /\ [i \in Cells |-> IF i <= k THEN Empty[i] ELSE Absent] = Empty
           /\ \A j \in 0..4 : \E m \in 0..4 :
                 [i \in Cells |-> IF i <= k THEN Prefix(r, j)[i] ELSE Absent]
                    = Prefix(r, m)
<1>1. /\ [i \in Cells |-> IF i <= k THEN r[i] ELSE Empty[i]] = Prefix(r, k)
      /\ [i \in Cells |-> IF i <= k THEN Empty[i] ELSE Absent] = Empty
  BY DEF Prefix, Empty
<1>2. ASSUME NEW j \in 0..4
      PROVE  \E m \in 0..4 :
                [i \in Cells |-> IF i <= k THEN Prefix(r, j)[i] ELSE Absent]
                   = Prefix(r, m)
  <2> DEFINE m == IF j <= k THEN j ELSE k
  <2>1. m \in 0..4
    OBVIOUS
  <2>2. [i \in Cells |-> IF i <= k THEN Prefix(r, j)[i] ELSE Absent] = Prefix(r, m)
    BY DEF Prefix, Cells
  <2> QED
    BY <2>1, <2>2
<1> QED
  BY <1>1, <1>2

LEMMA FileStep == TypeOK /\ FileInv /\ [Next]_vars => FileInv'
<1> SUFFICES ASSUME TypeOK, FileInv, Next PROVE FileInv'
  BY DEF FileInv, PrefixOfSaved, vars, memory
<1> USE RecordShape DEF FileInv
<1>0. /\ saved \subseteq Records
      /\ \A f : saved \subseteq saved' /\ PrefixOfSaved(f) => PrefixOfSaved(f)'
  BY DEF TypeOK, PrefixOfSaved
<1>1. CASE Accept
  <2>1. PICK r \in Loaded : Valid(r) /\ cfgdata' = r
    BY <1>1 DEF Accept
  <2>2. r \in saved
    BY <1>0, <2>1, EmptyShape, ValidIsSaved DEF Loaded
  <2> QED
    BY <1>0, <1>1, <2>1, <2>2 DEF Accept
<1>2. CASE Reject
  BY <1>0, <1>2 DEF Reject
<1>3. CASE Change
  <2>1. PICK n \in Counts, s \in Settings :
           cfgdata' = [cfgdata EXCEPT ![1] = n, ![3] = s]
    BY <1>3 DEF Change
  <2>2. cfgdata' \in Records
    BY <1>3, <2>1, ChangeShape DEF Change, Records
  <2> QED
    BY <1>0, <1>3, <2>2 DEF Change
<1>4. CASE SaveCall
  BY <1>0, <1>4 DEF SaveCall, memory
<1>5. CASE SaveSkip \/ SaveOpen \/ SaveOpenFails
  BY <1>0, <1>5 DEF SaveSkip, SaveOpen, SaveOpenFails, memory
<1>6. CASE SaveWrite
  <2>1. PICK k \in 0..4 : (~fd => k = 0) /\ file' = Overwritten(file, k)
    BY <1>6 DEF SaveWrite
  <2>2. CASE fd
    <3>1. file' = Prefix(cfgdata, k)
      BY <1>0, <1>6, <2>1, <2>2, Prefixes DEF SaveWrite, Overwritten
    <3>2. PrefixOfSaved(file)'
      BY <1>6, <3>1 DEF SaveWrite, PrefixOfSaved, Prefix
    <3> QED
      BY <1>0, <1>6, <3>2 DEF SaveWrite
  <2>3. CASE ~fd
    <3>1. file' = file
      BY <2>1, <2>3 DEF TypeOK, Overwritten, Cells
    <3> QED
      BY <1>0, <1>6, <3>1 DEF SaveWrite
  <2> QED
    BY <2>2, <2>3
<1>7. CASE Writeback
  <2>1. PICK k \in 0..4 :
           disk' = [i \in Cells |-> IF i <= k THEN file[i] ELSE Absent]
    BY <1>7 DEF Writeback
  <2>2. disk' = Empty \/ PrefixOfSaved(disk')
    <3>1. CASE file = Empty
      BY <2>1, <3>1, Prefixes
    <3>2. CASE PrefixOfSaved(file)
      <4>1. PICK r \in saved, j \in 0..4 : file = Prefix(r, j)
        BY <3>2 DEF PrefixOfSaved
      <4>2. disk' = [i \in Cells |-> IF i <= k THEN Prefix(r, j)[i] ELSE Absent]
        BY ONLY <2>1, <4>1, Zenon
      <4>3. r \in Records
        BY <1>0
      <4>4. \E m \in 0..4 : disk' = Prefix(r, m)
        BY ONLY <4>2, <4>3, Prefixes, k \in 0..4, j \in 0..4
      <4> QED
        BY <4>4 DEF PrefixOfSaved
    <3> QED
      BY <3>1, <3>2
  <2>3. PrefixOfSaved(disk') => PrefixOfSaved(disk)'
    BY <1>7 DEF Writeback, PrefixOfSaved
  <2> QED
    BY <1>0, <1>7, <2>2, <2>3 DEF Writeback, memory
<1>8. CASE Restart \/ PowerLoss
  BY <1>0, <1>8 DEF Restart, PowerLoss, NewProcess
<1> QED
  BY <1>1, <1>2, <1>3, <1>4, <1>5, <1>6, <1>7, <1>8 DEF Next, readcfg, savecfg

-----------------------------------------------------------------------------
LEMMA CopyInit == Init => CopyInv
BY DEF Init, CopyInv, CopyTellsTheFile

LEMMA CopyStep == TypeOK /\ FileInv /\ CopyInv /\ [Next]_vars => CopyInv'
<1> SUFFICES ASSUME TypeOK, FileInv, CopyInv, Next PROVE CopyInv'
  BY DEF CopyInv, CopyTellsTheFile, vars, memory
<1> USE RecordShape DEF CopyInv, CopyTellsTheFile
<1>1. CASE Accept
  <2>1. PICK r \in Loaded : Valid(r) /\ bak' = r
    BY <1>1 DEF Accept
  <2>2. r = file
    BY <2>1, EmptyShape, ValidIsSaved DEF Loaded, FileInv, TypeOK
  <2> QED
    BY <1>1, <2>1, <2>2 DEF Accept
<1>2. CASE Reject \/ Change \/ SaveCall
  <2>1. CASE Reject
    <3>1. bak = Zeroed
      BY <2>1 DEF Reject
    <3> QED
      BY <2>1, <3>1 DEF Reject
  <2> QED
    BY <1>2, <2>1 DEF Change, SaveCall, memory
<1>3. CASE SaveSkip
  BY <1>3 DEF SaveSkip, FileInv, memory
<1>4. CASE SaveOpen \/ SaveOpenFails \/ Writeback
  BY <1>4 DEF SaveOpen, SaveOpenFails, Writeback, memory
<1>5. CASE SaveWrite
  <2>1. PICK k \in 0..4 :
           file' = Overwritten(file, k) /\ failed' = (k # 4)
    BY <1>5 DEF SaveWrite
  <2>2. k = 4 => file' = cfgdata
    BY <1>5, <2>1 DEF SaveWrite, Overwritten, Cells, FileInv
  <2> QED
    BY <1>5, <2>1, <2>2 DEF SaveWrite
<1>6. CASE Restart \/ PowerLoss
  BY <1>6 DEF Restart, PowerLoss, NewProcess
<1> QED
  BY <1>1, <1>2, <1>3, <1>4, <1>5, <1>6 DEF Next, readcfg, savecfg

-----------------------------------------------------------------------------
(* Refinement: every step is a step of SettingsRegister or leaves it as is.*)

(* What the register holds when the file is a prefix of a saved record.    *)
LEMMA HeldShape ==
    /\ Held(Empty) = Zeroed
    /\ \A r \in Records, k \in 0..4 :
          Held(Prefix(r, k)) = IF k = 4 THEN r ELSE Zeroed
<1>1. ASSUME NEW r \in Records, NEW k \in 0..4
      PROVE  Held(Prefix(r, k)) = IF k = 4 THEN r ELSE Zeroed
  <2>1. k = 4 => Valid(r)
    BY RecordShape DEF Valid
  <2> QED
    BY <2>1, PrefixShape DEF Held
<1> QED
  BY <1>1, EmptyShape DEF Held

(* A valid record is held as it is; nothing else is held.                  *)
LEMMA HeldOrNothing ==
    ASSUME NEW r \in Loaded
    PROVE  /\ Valid(r) => Held(file) = r /\ r # Zeroed
           /\ Held(file) = Zeroed \/ Valid(Padded(file))
BY EmptyShape DEF Loaded, Held

LEMMA RegisterInit == Init => Register!Init
BY HeldShape DEF Init, Register!Init

LEMMA RegisterStep ==
    TypeOK /\ FileInv /\ CopyInv /\ [Next]_vars => [Register!Next]_(Register!vars)
<1> SUFFICES ASSUME TypeOK, FileInv, CopyInv, [Next]_vars
             PROVE  [Register!Next]_(Register!vars)
  OBVIOUS
<1> USE RecordShape
<1>0. /\ Zeroed \notin Records
      /\ pc # "boot" => cfgdata \in Records
      /\ saved \subseteq Records
  BY DEF FileInv, TypeOK
<1>1. CASE UNCHANGED vars
  BY <1>1 DEF vars, memory, Register!vars
<1>2. CASE Accept
  <2>1. PICK r \in Loaded : Valid(r) /\ cfgdata' = r
    BY <1>2 DEF Accept
  <2>2. Held(file) = r /\ r # Zeroed
    BY <2>1, HeldOrNothing
  <2>3. Register!Load
    BY <1>2, <2>1, <2>2 DEF Accept, Register!Load
  <2> QED
    BY <2>3 DEF Register!Next
<1>3. CASE Reject
  <2>1. Register!UseDefault
    BY <1>3 DEF Reject, Register!UseDefault
  <2> QED
    BY <2>1 DEF Register!Next
<1>4. CASE Change
  <2>1. PICK n \in Counts, s \in Settings :
           cfgdata' = [cfgdata EXCEPT ![1] = n, ![3] = s]
    BY <1>4 DEF Change
  <2>2. cfgdata' \in Records
    BY <1>0, <1>4, <2>1, ChangeShape DEF Change, Records
  <2>3. Register!Change
    BY <1>0, <1>4, <2>2 DEF Change, Register!Change
  <2> QED
    BY <2>3 DEF Register!Next
<1>5. CASE SaveCall
  <2>1. Register!Save
    BY <1>0, <1>5 DEF SaveCall, memory, Register!Save
  <2> QED
    BY <2>1 DEF Register!Next
<1>6. CASE SaveSkip
  <2>1. bak # Zeroed /\ cfgdata \in Records
    BY <1>0, <1>6 DEF SaveSkip
  <2>2. failed \/ file = cfgdata
    BY <1>6, <2>1 DEF SaveSkip, CopyInv
  <2>3. failed \/ Held(file) = cfgdata
    BY <2>1, <2>2, HeldShape, PrefixShape
  <2>4. Register!Skip
    BY <1>6, <2>3 DEF SaveSkip, memory, Register!Skip
  <2> QED
    BY <2>4 DEF Register!Next
<1>7. CASE SaveOpen
  <2>1. Register!Lose
    BY <1>7, HeldShape DEF SaveOpen, memory, Register!Lose
  <2> QED
    BY <2>1 DEF Register!Next
<1>8. CASE SaveOpenFails
  <2>1. UNCHANGED Register!vars
    BY <1>8 DEF SaveOpenFails, memory, Register!vars
  <2> QED
    BY <2>1
<1>9. CASE SaveWrite
  <2>1. PICK k \in 0..4 : /\ ~fd => k = 0
                          /\ file' = Overwritten(file, k)
                          /\ failed' = (k # 4)
    BY <1>9 DEF SaveWrite
  <2>2. cfgdata \in Records
    BY <1>0, <1>9 DEF SaveWrite
  <2>3. fd => Held(file) = Zeroed /\ Held(file') = IF k = 4 THEN cfgdata ELSE Zeroed
    <3>1. ASSUME fd PROVE file = Empty /\ file' = Prefix(cfgdata, k)
      BY <1>9, <2>1, <2>2, <3>1, Prefixes DEF SaveWrite, FileInv, Overwritten
    <3> QED
      BY <2>2, <3>1, HeldShape
  <2>4. ~fd => file' = file
    BY <2>1 DEF TypeOK, Overwritten, Cells
  <2>5. Held(file)' = Held(file') /\ UNCHANGED Held(disk)
    BY <1>9 DEF SaveWrite, Held, Valid, Padded
  <2>6. /\ pc = "write" /\ pc' = "run"
        /\ UNCHANGED cfgdata
    BY <1>9 DEF SaveWrite
  <2>7. CASE k = 4
    <3>1. Held(file') = cfgdata
      BY <2>1, <2>3, <2>7
    <3>2. failed' = FALSE
      <4>1. failed' = (k # 4)
        BY <2>1
      <4> QED
        BY ONLY <4>1, <2>7
    <3>3. Register!Put
      BY <2>5, <2>6, <3>1, <3>2 DEF Register!Put
    <3> QED
      BY <3>3 DEF Register!Next
  <2>8. CASE k # 4
    <3>1. Held(file') = Held(file) /\ failed' = TRUE
      BY <2>1, <2>3, <2>4, <2>8
    <3>2. Register!PutFails
      BY <2>5, <2>6, <3>1 DEF Register!PutFails
    <3> QED
      BY <3>2 DEF Register!Next
  <2> QED
    BY <2>7, <2>8
<1>10. CASE Writeback
  <2>1. PICK k \in 0..4 :
           disk' = [i \in Cells |-> IF i <= k THEN file[i] ELSE Absent]
    BY <1>10 DEF Writeback
  <2>2. Held(disk') \in {Held(file), Zeroed}
    <3>1. k = 4 => disk' = file
      BY <2>1 DEF TypeOK, Cells
    <3>2. k # 4 => ~Valid(Padded(disk'))
      BY <2>1, MagicAssumption DEF Valid, Padded, Cells
    <3> QED
      BY <3>1, <3>2 DEF Held
  <2>3. Register!Sync
    BY <1>10, <2>2 DEF Writeback, memory, Register!Sync
  <2> QED
    BY <2>3 DEF Register!Next
<1>11. CASE Restart \/ PowerLoss
  <2>1. Register!Stop
    BY <1>11 DEF Restart, PowerLoss, NewProcess, Register!Stop
  <2> QED
    BY <2>1 DEF Register!Next
<1> QED
  BY <1>1, <1>2, <1>3, <1>4, <1>5, <1>6, <1>7, <1>8, <1>9, <1>10, <1>11
     DEF Next, readcfg, savecfg

-----------------------------------------------------------------------------
(* Types of the store, with every configuration in memory a record.        *)
THEOREM TypeCorrect == Spec => []TypeOK
BY TypeInit, TypeStep, FileInit, FileStep, PTL DEF Spec

(* "Two numbers that make sure that what is read is right" (config.h): what*)
(* readcfg would accept, now or after a loss of power, is a record savecfg *)
(* was once called with, and never one torn by a crash or a short write or *)
(* mixed from two saves.                                                   *)
AcceptedIsWhole ==
    \A f \in {file, disk} : Valid(Padded(f)) => Padded(f) \in saved

(* Whatever crashes and short writes happen, readcfg accepts only a record *)
(* that savecfg was called with.                                           *)
THEOREM WholeRecords == Spec => []AcceptedIsWhole
<1>1. TypeOK /\ FileInv => AcceptedIsWhole
  BY ValidIsSaved DEF TypeOK, FileInv, AcceptedIsWhole
<1> QED
  BY TypeInit, TypeStep, FileInit, FileStep, <1>1, PTL DEF Spec

(* The write that savecfg skips is a write of what the file holds, unless  *)
(* the last one failed.                                                    *)
THEOREM SkipLosesNothing == Spec => []CopyTellsTheFile
<1>1. CopyInv => CopyTellsTheFile
  BY DEF CopyInv
<1> QED
  BY TypeInit, TypeStep, FileInit, FileStep, CopyInit, CopyStep, <1>1, PTL DEF Spec

(* The store implements SettingsRegister, for any settings and any two     *)
(* magic numbers other than zero: what readcfg takes is the record savecfg *)
(* wrote last, or had written when the disk was last brought up to date if *)
(* the power was lost since, or the defaults.                              *)
THEOREM ImplementsRegister == Spec => StoreIsRegister
BY TypeInit, TypeStep, FileInit, FileStep, CopyInit, CopyStep, RegisterInit,
   RegisterStep, PTL DEF Spec, StoreIsRegister, Register!Spec
=============================================================================
