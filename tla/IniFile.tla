------------------------------ MODULE IniFile ------------------------------
(***************************************************************************)
(* GetProfileString (Common.c): looks a key up in a section of an INI file *)
(* and leaves its value in the caller's buffer KeyVal.                     *)
(*                                                                         *)
(* The file is read with fgets into KEYVALLEN bytes, so what the program   *)
(* sees is a sequence of pieces.  A piece is what it looks like after the  *)
(* blanks on its left were removed: the header of a section, a comment     *)
(* ('#'), an entry (it has a '=') or anything else, empty lines included.  *)
(* `long` says that the piece filled the buffer before its line ended; the *)
(* next piece is then the rest of that line, and taken for a line.         *)
(*                                                                         *)
(* sscanf copies without regard to the size of what it copies to: the name *)
(* of an entry to keyname, which has 32 bytes, and its value to the buffer *)
(* of the caller, which has 32 bytes for most keys.  What fits the line    *)
(* need not fit there.                                                     *)
(***************************************************************************)
EXTENDS Integers, Sequences

CONSTANTS
    Section,   \* AppName, the section that is looked for
    Keys,      \* names a key can have
    LongNames, \* names of entries that do not fit into keyname
    Values,    \* what stands behind '='
    Empty,     \* nothing at all behind '='
    Contents,  \* what a buffer can hold
    Wide,      \* contents that need more than 32 bytes
    Roomy,     \* the keys whose buffer has room for every line
    Files      \* bound: the files considered, sequences of Pieces

Pieces ==
    [kind : {"header", "comment", "entry", "other"},
     name : Keys \cup LongNames \cup {Section, "another"}, value : Values \cup {Empty},
     long : BOOLEAN]

VARIABLES
    file,      \* the file on the card
    ipc,       \* "idle" | "open" | "scan" | "done": where the call is
    pos,       \* number of pieces fgets has returned, -1 without an open file
    found,     \* found: 0, 1 = in the section, 2 = the key was found, or 3:
               \* any other number, which nothing assigns to it
    KeyName,   \* the key that is looked for
    KeyVal,    \* the caller's buffer
    before,    \* history: KeyVal when the function was called
    ret,       \* what the function returned
    overran    \* history: the buffers this call wrote beyond

iniVars == <<file, ipc, pos, found, KeyName, KeyVal, before, ret, overran>>

Init ==
    /\ file \in Files /\ file \in Seq(Pieces)
    /\ ipc = "idle"
    /\ pos = -1 /\ found = 0
    /\ KeyName \in Keys
    /\ KeyVal \in Contents
    /\ before = KeyVal
    /\ ret = -1
    /\ overran = {}

(* The caller passes a key and a buffer that holds v.                      *)
Call(k, v) ==
    /\ ipc \in {"idle", "done"}
    /\ ipc' = "open"
    /\ KeyName' = k
    /\ KeyVal' = v /\ before' = v
    /\ pos' = -1 /\ found' = 0
    /\ overran' = {}
    /\ UNCHANGED <<file, ret>>

OpenFails ==
    /\ ipc = "open"
    /\ ipc' = "done"
    /\ ret' = -1
    /\ UNCHANGED <<file, pos, found, KeyName, KeyVal, before, overran>>

Open ==
    /\ ipc = "open"
    /\ ipc' = "scan"
    /\ pos' = 0
    /\ UNCHANGED <<file, found, KeyName, KeyVal, before, ret, overran>>

(* What the next piece is, as the loop sees it; IsKey as long as the name  *)
(* fits, see LongName.                                                     *)
Line == file[pos + 1]

IsHeader(p) == p.kind = "header"
IsSection(p) == IsHeader(p) /\ p.name = Section
IsNamed(p, k) == p.kind = "entry" /\ p.name = k
IsKey(p) == IsNamed(p, KeyName)
IsTooLong(p) == p.kind = "entry" /\ p.name \in LongNames

(* sscanf assigns nothing when there is nothing to read.                   *)
Taken(v) == IF v = Empty THEN KeyVal ELSE v

Return(f) ==
    /\ ipc' = "done"
    /\ found' = f
    /\ ret' = IF f = 2 THEN 0 ELSE -1

More == ipc = "scan" /\ pos < Len(file)

(* Pieces that mean nothing where they stand.                              *)
Skip ==
    /\ More
    /\ \/ found = 0 /\ ~IsSection(Line)
       \/ found = 1 /\ ~IsHeader(Line) /\ ~IsKey(Line) /\ ~IsTooLong(Line)
       \/ found > 1
    /\ pos' = pos + 1
    /\ UNCHANGED <<file, ipc, found, KeyName, KeyVal, before, ret, overran>>

EnterSection ==
    /\ More
    /\ found = 0 /\ IsSection(Line)
    /\ pos' = pos + 1
    /\ found' = 1
    /\ UNCHANGED <<file, ipc, KeyName, KeyVal, before, ret, overran>>

(* Mutant: the header of the next section is skipped like anything else.   *)
LeaveSectionNot ==
    /\ More
    /\ found = 1 /\ IsHeader(Line)
    /\ pos' = pos + 1
    /\ UNCHANGED <<file, ipc, found, KeyName, KeyVal, before, ret, overran>>
LeaveSection ==
    /\ More
    /\ found = 1 /\ IsHeader(Line)
    /\ pos' = pos + 1
    /\ Return(1)
    /\ UNCHANGED <<file, KeyName, KeyVal, before, overran>>

(* The entry is the one that is looked for; its value is copied whole.     *)
TakeValue ==
    /\ More
    /\ found = 1 /\ IsKey(Line)
    /\ pos' = pos + 1
    /\ KeyVal' = Taken(Line.value)
    /\ overran' = IF Taken(Line.value) \in Wide /\ KeyName \notin Roomy
                    THEN overran \cup {"KeyVal"} ELSE overran
    /\ Return(2)
    /\ UNCHANGED <<file, KeyName, before>>

(* A name that is too long is written over the other variables of the call.*)
(* It is none of the keys; what found is then is not determined, and the   *)
(* caller may never be returned to (it is the caller that crashes).        *)
LongName ==
    /\ More
    /\ found = 1 /\ IsTooLong(Line)
    /\ pos' = pos + 1
    /\ found' \in 0..3
    /\ overran' = overran \cup {"keyname"}
    /\ UNCHANGED <<file, ipc, KeyName, KeyVal, before, ret>>

EndOfFile ==
    /\ ipc = "scan" /\ pos = Len(file)
    /\ Return(found)
    /\ UNCHANGED <<file, pos, KeyName, KeyVal, before, overran>>

GetProfileString ==
    \/ OpenFails \/ Open \/ Skip \/ EnterSection \/ LeaveSection
    \/ TakeValue \/ LongName \/ EndOfFile

Next ==
    \/ \E k \in Keys, v \in Contents : Call(k, v)
    \/ GetProfileString

Spec == Init /\ [][Next]_iniVars

-----------------------------------------------------------------------------
(* The values of the function's variables, and how far it is in the file.  *)
TypeOK ==
    /\ file \in Seq(Pieces)
    /\ ipc \in {"idle", "open", "scan", "done"}
    /\ pos \in -1..Len(file) /\ (ipc = "scan" => pos # -1)
    /\ found \in 0..3
    /\ KeyName \in Keys
    /\ KeyVal \in Contents /\ before \in Contents
    /\ ret \in {-1, 0}
    /\ overran \subseteq {"KeyVal", "keyname"}

(* The meaning of an INI file, line by line: the section begins at its     *)
(* first header and ends before the next header, and the first entry of    *)
(* the key in it counts.  A line is what begins where a line begins.       *)
LineStarts == {i \in 1..Len(file) : i = 1 \/ ~file[i - 1].long}
Headers == {i \in LineStarts : IsHeader(file[i])}

Begins(s) == s \in Headers /\ IsSection(file[s])
             /\ \A h \in Headers : IsSection(file[h]) => s <= h
InBody(s, e) == s < e /\ \A h \in Headers : ~(s < h /\ h <= e)
Entry(k, e) ==
    /\ e \in LineStarts /\ IsNamed(file[e], k)
    /\ \E s \in Headers : Begins(s) /\ InBody(s, e)
Counts(k, e) == Entry(k, e) /\ \A d \in LineStarts : Entry(k, d) => e <= d

ShortLines == \A i \in 1..Len(file) : ~file[i].long

(* No line, no name and no value of the file is too long for its buffer.   *)
FitsEntry(p) ==
    p.kind = "entry" => p.name \notin LongNames /\ (p.value \in Wide => p.name \in Roomy)
Fits == ShortLines /\ \A i \in 1..Len(file) : FitsEntry(file[i])

(* GetProfileString returns 0 if and only if it could open the file and    *)
(* the section has the key; the caller's buffer then holds the value of    *)
(* the first such entry.  Otherwise, and when nothing stands behind '=',   *)
(* the buffer is as it was.  Provided that no line is longer than          *)
(* KEYVALLEN (the rest of a long comment or value is taken for a line) and *)
(* that the call met no name and no value too long for its 32 bytes.       *)
ReadsAsWritten ==
    ipc = "done" /\ ShortLines /\ overran = {} =>
        \/ /\ ret = 0
           /\ \E e \in LineStarts :
                 /\ Counts(KeyName, e)
                 /\ KeyVal = IF file[e].value = Empty THEN before ELSE file[e].value
        \/ /\ ret = -1 /\ KeyVal = before
           /\ pos = -1 \/ \A e \in LineStarts : ~Entry(KeyName, e)
=============================================================================
