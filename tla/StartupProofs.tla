--------------------------- MODULE StartupProofs ---------------------------
(***************************************************************************)
(* Proofs about Startup for any INI files and any set of builds: what the  *)
(* encoder's callbacks find, for files of any length what GetProfileString *)
(* (IniFile) reads, and what the settings are when the threads start.      *)
(***************************************************************************)
EXTENDS Startup, TLAPS

Early == {"readInifile", "asked"}
Held == {"start", "server", "serve", "push", "resume"}
Before == Early \cup Modes \cup {"pause", "start"}

-----------------------------------------------------------------------------
(* The media modes.  The encoder calls only when it runs and is not held,  *)
(* and it is both only after main has made all that the mode needs.        *)

RegisteredOK ==
    /\ registered = IF mediamod = "RTSP" THEN "mwrtsp" ELSE "mwrtmp"
    /\ mediamod # "AVCHAT" => registered \in filled

MediaInv ==
    /\ pc \notin Early => pc \in {"crashed", "ended"} \/ mediamod \in Modes
    /\ encoding \in BOOLEAN /\ paused \in BOOLEAN
    /\ pushing \in BOOLEAN
    /\ pc \in Modes => mediamod = pc
    /\ calls # {} => encoding /\ ~paused
    /\ encoding /\ ~paused => Ready /\ RegisteredOK
    /\ pc \in Held => paused
    /\ pc \in Before => ~encoding
    /\ pc \in {"pause"} \cup Held =>
          /\ RegisteredOK
          /\ mediamod = "RTMP" => "rtmp" \in threads
          /\ mediamod = "AVCHAT" => "mrtp" \in made
    /\ pc \in {"server", "serve"} => mediamod = "RTSP"
    /\ pc = "push" => mediamod # "AVCHAT"
    /\ mediamod = "RTSP" =>
          /\ pc \in {"serve", "push", "resume"} => "rtspSrv" \in made
          /\ pc \in {"push", "resume"} => "rtspSrv" \in threads
    /\ mediamod = "RTMP" /\ pc = "resume" => pushing

LEMMA MediaInit == Init => MediaInv
BY ModesAssumption DEF Init, MediaInv, Modes, Held, Before, Early

LEMMA MediaStep == MediaInv /\ [Next]_vars => MediaInv'
<1> SUFFICES ASSUME MediaInv, [Next]_vars PROVE MediaInv'
  OBVIOUS
<1> USE DEF MediaInv, Modes, Held, Before, Early, Ready, RegisteredOK, mediaVars, Step
<1>1. CASE UNCHANGED vars
  BY <1>1 DEF vars
<1>2. CASE readInifile
  <2>1. CASE Ask
    BY <2>1 DEF Ask
  <2>2. CASE Lookup
    BY <2>2 DEF Lookup
  <2>3. CASE ScanNumber
    BY <2>3 DEF ScanNumber
  <2>4. CASE KeepString
    BY <2>4 DEF KeepString, Keep
  <2>5. CASE KeepOverrun
    BY <2>5 DEF KeepOverrun
  <2>6. CASE ReadCrashes
    BY <2>6 DEF ReadCrashes
  <2> QED
    BY <1>2, <2>1, <2>2, <2>3, <2>4, <2>5, <2>6 DEF readInifile
<1>3. CASE StartThreads
  BY <1>3 DEF StartThreads
<1>4. CASE RegisterRtsp
  BY <1>4 DEF RegisterRtsp
<1>5. CASE RegisterRtmp
  BY <1>5 DEF RegisterRtmp
<1>6. CASE RegisterAvchat
  BY <1>6 DEF RegisterAvchat
<1>7. CASE Pause
  BY <1>7 DEF Pause
<1>8. CASE AvStart
  BY <1>8 DEF AvStart
<1>9. CASE NewServer \/ StartServer
  BY <1>9 DEF NewServer, StartServer
<1>10. CASE StartPush
  BY <1>10 DEF StartPush
<1>11. CASE Resume
  BY <1>11 DEF Resume
<1>12. ASSUME NEW s \in Streams, Write(s) PROVE MediaInv'
  BY <1>12 DEF Write
<1>13. ASSUME NEW s \in Streams, WriteReturns(s) PROVE MediaInv'
  BY <1>13 DEF WriteReturns
<1>14. CASE SerialRead \/ SerialWrite
  <2>1. UNCHANGED <<pc, mediamod, calls>>
    BY <1>14 DEF SerialRead, SerialWrite
  <2>2. UNCHANGED <<registered, filled, made, threads, pushing, encoding, paused>>
    BY <1>14 DEF SerialRead, SerialWrite
  <2> QED
    BY <2>1, <2>2
<1>15. CASE SerialReadFails
  BY <1>15 DEF SerialReadFails
<1> QED
  BY <1>1, <1>2, <1>3, <1>4, <1>5, <1>6, <1>7, <1>8, <1>9, <1>10, <1>11, <1>12,
     <1>13, <1>14, <1>15 DEF Next, main

(* No callback of the encoder ever finds its server missing, in any mode   *)
(* and however the threads interleave.                                     *)
THEOREM CallbacksAreSafe == Spec => []CallbacksFindTheirServer
<1>1. MediaInv => CallbacksFindTheirServer
  BY DEF MediaInv, RegisteredOK, CallbacksFindTheirServer
<1> QED
  BY MediaInit, MediaStep, <1>1, PTL DEF Spec

-----------------------------------------------------------------------------
(* GetProfileString, called with the keys of main in any order.            *)

IniKeys == {Wanted[i] : i \in 1..Len(Wanted)}

LEMMA LookupTypeInit == Ini!Init => Ini!TypeOK
BY DEF Ini!Init, Ini!TypeOK

LEMMA LookupTypeStep == Ini!TypeOK /\ [Ini!Next]_(Ini!iniVars) => Ini!TypeOK'
<1> SUFFICES ASSUME Ini!TypeOK, [Ini!Next]_(Ini!iniVars) PROVE Ini!TypeOK'
  OBVIOUS
<1>1. file \in Seq(Ini!Pieces) /\ Len(file) \in Nat
  BY DEF Ini!TypeOK
<1>2. Ini!More => Ini!Line \in Ini!Pieces /\ pos + 1 \in 0..Len(file)
  BY <1>1 DEF Ini!More, Ini!Line, Ini!TypeOK
<1> USE <1>1 DEF Ini!TypeOK
<1>3. CASE UNCHANGED Ini!iniVars
  BY <1>3 DEF Ini!iniVars
<1>4. ASSUME NEW k \in IniKeys, NEW v \in Contents, Ini!Call(k, v) PROVE Ini!TypeOK'
  BY <1>4 DEF Ini!Call, IniKeys
<1>5. CASE Ini!OpenFails \/ Ini!Open
  <2>1. UNCHANGED <<file, found, KeyName, KeyVal, before, overran>>
    BY <1>5 DEF Ini!OpenFails, Ini!Open
  <2>2. ipc' \in {"scan", "done"} /\ ret' \in {-1, 0}
    BY <1>5 DEF Ini!OpenFails, Ini!Open
  <2>3. pos' \in -1..Len(file) /\ (ipc' = "scan" => pos' # -1)
    BY <1>5 DEF Ini!OpenFails, Ini!Open
  <2> QED
    BY <2>1, <2>2, <2>3
<1>6. CASE Ini!Skip \/ Ini!EnterSection \/ Ini!LeaveSection
  <2>1. UNCHANGED <<file, KeyName, KeyVal, before, overran>>
    BY <1>6 DEF Ini!Skip, Ini!EnterSection, Ini!LeaveSection
  <2>2. pos' = pos + 1
    BY <1>6 DEF Ini!Skip, Ini!EnterSection, Ini!LeaveSection
  <2>3. found' \in 0..3 /\ ipc' \in {"scan", "done"} /\ ret' \in {-1, 0}
    BY <1>6 DEF Ini!Skip, Ini!EnterSection, Ini!LeaveSection, Ini!Return, Ini!More
  <2>4. Ini!More
    BY <1>6 DEF Ini!Skip, Ini!EnterSection, Ini!LeaveSection
  <2>5. pos' \in -1..Len(file) /\ pos' # -1
    BY <1>2, <2>2, <2>4
  <2> QED
    BY <2>1, <2>3, <2>5
<1>7. CASE Ini!TakeValue
  <2>1. KeyVal' \in Contents
    BY <1>2, <1>7 DEF Ini!TakeValue, Ini!Taken, Ini!Pieces, Contents
  <2>2. overran' \subseteq {"KeyVal", "keyname"}
    BY <1>7 DEF Ini!TakeValue
  <2> QED
    BY <1>2, <1>7, <2>1, <2>2 DEF Ini!TakeValue, Ini!Return, Ini!More
<1>9. CASE Ini!LongName
  BY <1>2, <1>9 DEF Ini!LongName, Ini!More
<1>8. CASE Ini!EndOfFile
  BY <1>8 DEF Ini!EndOfFile, Ini!Return
<1> QED
  BY <1>3, <1>4, <1>5, <1>6, <1>7, <1>8, <1>9 DEF Ini!Next, Ini!GetProfileString, IniKeys

(* Types of the variables; the reading position stays within the file.     *)
THEOREM LookupTypes == Ini!Spec => []Ini!TypeOK
BY LookupTypeInit, LookupTypeStep, PTL DEF Ini!Spec

-----------------------------------------------------------------------------
(* What the scan knows about the pieces it has passed: before it found the *)
(* section none of them was its header; afterwards the first header lies   *)
(* behind it, and since then neither a header nor the key.                 *)

InSection(s) ==
    /\ Ini!IsSection(file[s])
    /\ \A i \in 1..(s - 1) : ~Ini!IsSection(file[i])
    /\ \A i \in (s + 1)..pos : ~Ini!IsHeader(file[i]) /\ ~Ini!IsKey(file[i])

ScanInv ==
    /\ ipc = "open" => KeyVal = before /\ found = 0 /\ pos = -1
    /\ ipc = "scan" /\ overran = {} =>
          /\ KeyVal = before /\ pos >= 0 /\ found \in {0, 1}
          /\ found = 0 => \A i \in 1..pos : ~Ini!IsSection(file[i])
          /\ found = 1 => \E s \in 1..pos : InSection(s)
    /\ Ini!ReadsAsWritten

LEMMA ScanInit == Ini!Init => ScanInv
BY DEF Ini!Init, ScanInv, Ini!ReadsAsWritten

(* Without long lines every piece is a line.                               *)
LEMMA ShortStarts ==
    ASSUME Ini!TypeOK, Ini!ShortLines
    PROVE  Ini!LineStarts = 1..Len(file) /\ Len(file) \in Nat
<1>1. Len(file) \in Nat
  BY DEF Ini!TypeOK
<1> QED
  BY <1>1 DEF Ini!ShortLines, Ini!LineStarts

(* The key stands at the current place of a section that is being read.    *)
LEMMA KeyHere ==
    ASSUME Ini!TypeOK, Ini!ShortLines, NEW s \in 1..pos, InSection(s), pos < Len(file),
           Ini!IsKey(file[pos + 1])
    PROVE  pos + 1 \in Ini!LineStarts /\ Ini!Counts(KeyName, pos + 1)
<1>1. Ini!LineStarts = 1..Len(file) /\ Len(file) \in Nat /\ pos \in Nat /\ s \in Nat
  BY ShortStarts DEF Ini!TypeOK
<1>2. ~Ini!IsHeader(file[pos + 1])
  BY DEF Ini!IsHeader, Ini!IsKey, Ini!IsNamed
<1>3. Ini!Begins(s)
  BY <1>1 DEF Ini!Begins, Ini!Headers, InSection, Ini!IsSection
<1>4. Ini!InBody(s, pos + 1)
  BY <1>1, <1>2 DEF Ini!InBody, Ini!Headers, InSection
<1>5. Ini!Entry(KeyName, pos + 1)
  BY <1>1, <1>3, <1>4 DEF Ini!Entry, Ini!Begins, Ini!IsKey
<1>6. ASSUME NEW d \in Ini!LineStarts, Ini!Entry(KeyName, d) PROVE pos + 1 <= d
  <2>1. PICK h \in Ini!Headers : Ini!Begins(h) /\ Ini!InBody(h, d)
    BY <1>6 DEF Ini!Entry
  <2>2. h = s
    BY <1>1, <1>3, <2>1 DEF Ini!Begins, Ini!Headers
  <2>3. s < d /\ Ini!IsKey(file[d])
    BY <1>6, <2>1, <2>2 DEF Ini!InBody, Ini!Entry, Ini!IsKey
  <2> QED
    BY <1>1, <2>3 DEF InSection
<1> QED
  BY <1>1, <1>5, <1>6 DEF Ini!Counts

(* There is no key if the section ends before one came.                    *)
LEMMA KeyNowhere ==
    ASSUME Ini!TypeOK, Ini!ShortLines, NEW s \in 1..pos, InSection(s),
           \/ pos = Len(file)
           \/ pos < Len(file) /\ Ini!IsHeader(file[pos + 1])
    PROVE  \A e \in Ini!LineStarts : ~Ini!Entry(KeyName, e)
<1> SUFFICES ASSUME NEW e \in Ini!LineStarts, Ini!Entry(KeyName, e) PROVE FALSE
  OBVIOUS
<1>1. Ini!LineStarts = 1..Len(file) /\ Len(file) \in Nat /\ pos \in Nat /\ s \in Nat
  BY ShortStarts DEF Ini!TypeOK
<1>2. Ini!Begins(s)
  BY <1>1 DEF Ini!Begins, Ini!Headers, InSection, Ini!IsSection
<1>3. PICK h \in Ini!Headers : Ini!Begins(h) /\ Ini!InBody(h, e)
  BY DEF Ini!Entry
<1>4. h = s
  BY <1>1, <1>2, <1>3 DEF Ini!Begins, Ini!Headers
<1>5. s < e /\ Ini!IsKey(file[e]) /\ \A i \in Ini!Headers : ~(s < i /\ i <= e)
  BY <1>3, <1>4 DEF Ini!InBody, Ini!Entry, Ini!IsKey
<1>6. e > pos
  BY <1>1, <1>5 DEF InSection
<1>7. pos + 1 \in Ini!Headers /\ pos + 1 <= e
  BY <1>1, <1>6 DEF Ini!Headers
<1> QED
  BY <1>1, <1>5, <1>7

(* ... or if the file has no such section.                                 *)
LEMMA SectionNowhere ==
    ASSUME Ini!TypeOK, Ini!ShortLines, \A i \in 1..Len(file) : ~Ini!IsSection(file[i])
    PROVE  \A e \in Ini!LineStarts : ~Ini!Entry(KeyName, e)
BY ShortStarts DEF Ini!Entry, Ini!Begins, Ini!Headers

(* The meaning of the file does not change while it is read.               *)
LEMMA SameFile ==
    ASSUME UNCHANGED <<file, KeyName>>
    PROVE  /\ Ini!ShortLines' = Ini!ShortLines /\ Ini!LineStarts' = Ini!LineStarts
           /\ \A k, e : Ini!Entry(k, e)' = Ini!Entry(k, e)
           /\ \A k, e : Ini!Counts(k, e)' = Ini!Counts(k, e)
BY DEF Ini!ShortLines, Ini!LineStarts, Ini!Counts, Ini!Entry, Ini!Headers, Ini!Begins, Ini!InBody, Ini!IsKey, Ini!IsNamed

LEMMA ScanStep == Ini!TypeOK /\ ScanInv /\ [Ini!Next]_(Ini!iniVars) => ScanInv'
<1> SUFFICES ASSUME Ini!TypeOK, ScanInv, [Ini!Next]_(Ini!iniVars) PROVE ScanInv'
  OBVIOUS
<1>1. Len(file) \in Nat
  BY DEF Ini!TypeOK
<1>2. CASE UNCHANGED Ini!iniVars
  BY <1>2 DEF Ini!iniVars, ScanInv, InSection, Ini!ReadsAsWritten, Ini!ShortLines, Ini!Counts, Ini!Entry,
              Ini!Begins, Ini!InBody, Ini!Headers, Ini!LineStarts, Ini!IsKey, Ini!IsNamed
<1>3. ASSUME NEW k \in IniKeys, NEW v \in Contents, Ini!Call(k, v) PROVE ScanInv'
  BY <1>3 DEF Ini!Call, ScanInv, Ini!ReadsAsWritten
<1>4. CASE Ini!OpenFails
  BY <1>4 DEF Ini!OpenFails, ScanInv, Ini!ReadsAsWritten
<1>5. CASE Ini!Open
  BY <1>5 DEF Ini!Open, ScanInv, Ini!ReadsAsWritten
<1>6. CASE Ini!Skip
  BY <1>1, <1>6 DEF Ini!Skip, Ini!More, Ini!Line, ScanInv, Ini!ReadsAsWritten, InSection, Ini!TypeOK,
                    Ini!IsKey, Ini!IsNamed, Ini!IsHeader, Ini!IsSection
<1>7. CASE Ini!EnterSection
  <2>1. /\ ipc = "scan" /\ found = 0 /\ Ini!IsSection(file[pos + 1])
        /\ pos' = pos + 1 /\ UNCHANGED <<file, KeyName, overran>>
    BY <1>7 DEF Ini!EnterSection, Ini!More, Ini!Line
  <2>2. ASSUME overran = {}, NEW s, s = pos + 1 PROVE s \in 1..pos' /\ InSection(s)'
    <3>1. pos \in Nat /\ \A i \in 1..pos : ~Ini!IsSection(file[i])
      BY <2>1, <2>2 DEF ScanInv, Ini!TypeOK
    <3>2. s \in 1..pos' /\ s - 1 = pos /\ (s + 1)..pos' = {}
      BY <2>1, <2>2, <3>1
    <3> QED
      BY <2>1, <2>2, <3>1, <3>2 DEF InSection, Ini!IsSection, Ini!IsHeader
  <2>3. overran' = {} => found' = 1 /\ ipc' = "scan" /\ KeyVal' = before' /\ pos' >= 0
    BY <1>7 DEF Ini!EnterSection, Ini!More, ScanInv, Ini!TypeOK
  <2>4. overran' = {} => \E s \in 1..pos' : InSection(s)'
    BY <2>1, <2>2
  <2>5. ipc' = "scan" /\ found' = 1
    BY <1>7 DEF Ini!EnterSection, Ini!More
  <2> QED
    BY <2>3, <2>4, <2>5 DEF ScanInv, Ini!ReadsAsWritten
<1>8. CASE Ini!LeaveSection
  <2>1. ASSUME Ini!ShortLines, overran = {} PROVE \A e \in Ini!LineStarts : ~Ini!Entry(KeyName, e)
    BY <1>1, <1>8, <2>1, KeyNowhere DEF Ini!LeaveSection, Ini!More, Ini!Line, ScanInv, Ini!TypeOK
  <2> QED
    BY <1>8, <2>1, SameFile DEF Ini!LeaveSection, Ini!Return, Ini!More, ScanInv, Ini!ReadsAsWritten
<1>9. CASE Ini!TakeValue
  <2>1. ASSUME Ini!ShortLines, overran = {}
        PROVE  pos + 1 \in Ini!LineStarts /\ Ini!Counts(KeyName, pos + 1)
    BY <1>1, <1>9, <2>1, KeyHere DEF Ini!TakeValue, Ini!More, Ini!Line, ScanInv, Ini!TypeOK
  <2>2. overran' = {} => overran = {}
    BY <1>9 DEF Ini!TakeValue
  <2> QED
    BY <1>9, <2>1, <2>2, SameFile DEF Ini!TakeValue, Ini!Return, Ini!Taken, Ini!More, Ini!Line, ScanInv, Ini!ReadsAsWritten
<1>10. CASE Ini!EndOfFile
  <2>1. ASSUME Ini!ShortLines, overran = {} PROVE \A e \in Ini!LineStarts : ~Ini!Entry(KeyName, e)
    BY <1>1, <1>10, <2>1, KeyNowhere, SectionNowhere DEF Ini!EndOfFile, ScanInv, Ini!TypeOK
  <2> QED
    BY <1>10, <2>1, SameFile DEF Ini!EndOfFile, Ini!Return, ScanInv, Ini!ReadsAsWritten
<1>11. CASE Ini!LongName
  BY <1>11 DEF Ini!LongName, Ini!More, ScanInv, Ini!ReadsAsWritten
<1> QED
  BY <1>2, <1>3, <1>4, <1>5, <1>6, <1>7, <1>8, <1>9, <1>10, <1>11
  DEF Ini!Next, Ini!GetProfileString, IniKeys

(* For every file without a line longer than KEYVALLEN, every key, and     *)
(* every call that met no name of 32 bytes or more and no value too long   *)
(* for the caller's buffer: GetProfileString returns 0 exactly when it     *)
(* opened the file and the section has the key, with the value of the      *)
(* first such entry, and leaves the buffer alone otherwise.                *)
THEOREM FindsWhatIsWritten == Ini!Spec => []Ini!ReadsAsWritten
<1>1. ScanInv => Ini!ReadsAsWritten
  BY DEF ScanInv
<1> QED
  BY LookupTypeInit, LookupTypeStep, ScanInit, ScanStep, <1>1, PTL DEF Ini!Spec

-----------------------------------------------------------------------------
(* Every step of the start-up is a step of IniFile or leaves its variables *)
(* alone, so that what was proved of GetProfileString holds in main.       *)
(* While a call is under way, key is one of those that are wanted.         *)

IniInv == TypeOK /\ ScanInv /\ (pc = "asked" => key <= Len(Wanted))

LEMMA SevenWanted == Len(Wanted) = 7
BY DEF Wanted

LEMMA KeptKeys == \A i \in 1..Len(Wanted) : i > 2 => Wanted[i] \in Strings
BY SevenWanted DEF Strings

LEMMA IniInit == Init => IniInv
<1> SUFFICES ASSUME Init PROVE IniInv
  OBVIOUS
<1>1. Ini!Init
  BY DEF Init
<1>2. Ini!TypeOK
  BY <1>1, LookupTypeInit
<1>2a. key = 1 /\ len = 0
  BY DEF Init
<1>3. key \in 1..Len(Wanted) + 1 /\ len \in 0..MaxRead
  BY <1>2a, ReadAssumption, SevenWanted
<1>4. mediamod \in Modes \cup {"none"} /\ setting \in [Strings -> Contents]
  BY ModesAssumption DEF Init, Contents
<1>5. TypeOK
  BY <1>2, <1>3, <1>4 DEF Init, TypeOK
<1> QED
  BY <1>1, <1>5, ScanInit DEF Init, IniInv

LEMMA CallsIniFile ==
    ASSUME IniInv, [Next]_vars
    PROVE  [Ini!Next]_(Ini!iniVars)
<1> USE DEF readVars, iniVars, Step, IniInv, Ini!iniVars
<1>1. CASE UNCHANGED vars
  BY <1>1 DEF vars
<1>2. CASE Ask
  <2>1. Wanted[key] \in {Wanted[i] : i \in 1..Len(Wanted)}
    BY <1>2 DEF Ask, Wanted, TypeOK
  <2>2. (IF key <= 2 THEN KeyVal ELSE setting[Wanted[key]]) \in Contents
    <3>1. CASE key <= 2
      BY <3>1 DEF TypeOK, Ini!TypeOK
    <3>2. CASE key > 2
      BY <1>2, <3>2, KeptKeys DEF TypeOK, Ask
    <3> QED
      BY <3>1, <3>2, SevenWanted DEF TypeOK
  <2> QED
    BY <1>2, <2>1, <2>2 DEF Ask, Ini!Next
<1>3. CASE Lookup
  BY <1>3 DEF Lookup, Ini!Next
<1>4. CASE ReadCrashes \/ ScanNumber \/ KeepString \/ KeepOverrun
  BY <1>4 DEF ReadCrashes, ScanNumber, KeepString, Keep, KeepOverrun
<1>5. CASE StartThreads
  BY <1>5 DEF StartThreads
<1>6. CASE RegisterRtsp \/ RegisterRtmp \/ RegisterAvchat
  BY <1>6 DEF RegisterRtsp, RegisterRtmp, RegisterAvchat
<1>7. CASE Pause \/ AvStart \/ NewServer \/ StartServer \/ StartPush \/ Resume
  BY <1>7 DEF Pause, AvStart, NewServer, StartServer, StartPush, Resume
<1>8. ASSUME NEW s \in Streams, Write(s) \/ WriteReturns(s)
      PROVE  UNCHANGED iniVars
  BY <1>8 DEF Write, WriteReturns
<1>9. CASE SerialRead \/ SerialReadFails \/ SerialWrite
  BY <1>9 DEF SerialRead, SerialReadFails, SerialWrite
<1> QED
  BY <1>1, <1>2, <1>3, <1>4, <1>5, <1>6, <1>7, <1>8, <1>9 DEF Next, main, readInifile

(* The other variables of TypeOK, given that those of IniFile have theirs. *)
LEMMA MainTypeStep ==
    ASSUME IniInv, Ini!TypeOK', [Next]_vars
    PROVE  TypeOK' /\ (pc' = "asked" => key' <= Len(Wanted))
<1> USE ReadAssumption, SevenWanted DEF IniInv, TypeOK, readVars, mediaVars, serialVars, Step
<1>1. CASE UNCHANGED vars
  BY <1>1 DEF vars
<1>2. CASE Ask \/ Lookup
  BY <1>2 DEF Ask, Lookup
<1>3. CASE ReadCrashes \/ ScanNumber
  <2>1. key' \in 1..Len(Wanted) + 1 /\ pc' \in {"readInifile", "crashed"}
    BY <1>3 DEF ReadCrashes, ScanNumber
  <2>2. UNCHANGED <<mediamod, setting, mediaVars, calls, serialVars>>
    BY <1>3 DEF ReadCrashes, ScanNumber
  <2> QED
    BY <2>1, <2>2
<1>4. CASE KeepString \/ KeepOverrun
  <2>1. KeyVal \in Contents
    BY DEF Ini!TypeOK
  <2>2. key' \in 1..Len(Wanted) + 1 /\ pc' = "readInifile"
    BY <1>4 DEF KeepString, Keep, KeepOverrun
  <2>3. setting' \in [Strings -> Contents]
    BY <1>4, <2>1 DEF KeepString, Keep, KeepOverrun, Contents
  <2>4. mediamod' \in Modes \cup {"none"}
    BY <1>4 DEF KeepString, Keep, KeepOverrun
  <2>5. UNCHANGED <<mediaVars, calls, serialVars>>
    BY <1>4 DEF KeepString, Keep, KeepOverrun
  <2> QED
    BY <2>2, <2>3, <2>4, <2>5
<1>5. CASE StartThreads
  BY <1>5 DEF StartThreads, Modes
<1>6. CASE RegisterRtsp \/ RegisterRtmp \/ RegisterAvchat
  BY <1>6 DEF RegisterRtsp, RegisterRtmp, RegisterAvchat
<1>7. CASE Pause \/ AvStart \/ NewServer \/ StartServer \/ StartPush \/ Resume
  BY <1>7 DEF Pause, AvStart, NewServer, StartServer, StartPush, Resume
<1>8. ASSUME NEW s \in Streams, Write(s) \/ WriteReturns(s)
      PROVE  TypeOK' /\ (pc' = "asked" => key' <= Len(Wanted))
  <2>1. UNCHANGED <<key, mediamod, setting, mediaVars, serialVars>>
    BY <1>8 DEF Write, WriteReturns
  <2>2. calls' \subseteq Streams /\ pc' \in {pc, "crashed"}
    BY <1>8 DEF Write, WriteReturns
  <2> QED
    BY <2>1, <2>2
<1>9. CASE SerialRead \/ SerialReadFails \/ SerialWrite
  BY <1>9 DEF SerialRead, SerialReadFails, SerialWrite
<1> QED
  BY <1>1, <1>2, <1>3, <1>4, <1>5, <1>6, <1>7, <1>8, <1>9 DEF Next, main, readInifile

LEMMA IniStep == IniInv /\ [Next]_vars => IniInv'
<1> SUFFICES ASSUME IniInv, [Next]_vars PROVE IniInv'
  OBVIOUS
<1>1. Ini!TypeOK' /\ ScanInv'
  BY CallsIniFile, LookupTypeStep, ScanStep DEF IniInv, TypeOK
<1> QED
  BY <1>1, MainTypeStep DEF IniInv

(* Types: no read of the serial port that failed gives the next writeData  *)
(* its length, and each buffer of readInifile is passed to one lookup.     *)
THEOREM TypeCorrect == Spec => []TypeOK
<1>1. IniInv => TypeOK
  BY DEF IniInv
<1> QED
  BY IniInit, IniStep, <1>1, PTL DEF Spec

(* Whatever runs beside main: each call of GetProfileString that the       *)
(* start-up makes reads the value of its key as it is written, if the file *)
(* has no line longer than KEYVALLEN and the call met no name and no value *)
(* too long for its buffer.                                                *)
THEOREM SettingsAreRead == Spec => []ReadsAsWritten
<1>1. IniInv => ReadsAsWritten
  BY DEF IniInv, ScanInv, ReadsAsWritten
<1> QED
  BY IniInit, IniStep, <1>1, PTL DEF Spec

-----------------------------------------------------------------------------
(* What the settings hold.  In a file in which everything fits no call     *)
(* runs over a buffer, so that the buffer of a setting has what it had     *)
(* before or what the file gives its key.                                  *)

FromFile(k, v) ==
    v = "" \/ \E e \in Ini!LineStarts : Ini!Counts(k, e) /\ v = file[e].value

SettingInv ==
    Ini!Fits =>
        /\ \A k \in Strings : FromFile(k, setting[k])
        /\ pc = "asked" =>
              /\ KeyName = Wanted[key]
              /\ key > 2 => before = setting[KeyName] /\ overran = {}

LEMMA SettingInit == Init => SettingInv
BY DEF Init, SettingInv, FromFile

(* A value that the file gives a key fits into the key's buffer.           *)
LEMMA FileValuesFit ==
    ASSUME IniInv, Ini!Fits, NEW k, NEW v, FromFile(k, v), v = "wide"
    PROVE  k = "RTMPURL"
<1>1. PICK e \in Ini!LineStarts : Ini!Counts(k, e) /\ v = file[e].value
  BY DEF FromFile
<1>2. e \in 1..Len(file) /\ file[e].kind = "entry" /\ file[e].name = k
  BY <1>1 DEF Ini!Counts, Ini!Entry, Ini!IsNamed, Ini!LineStarts
<1> QED
  BY <1>1, <1>2 DEF Ini!Fits, Ini!FitsEntry

(* The lookup stays within its buffers.                                    *)
LEMMA LookupStaysWithin ==
    ASSUME IniInv, SettingInv, Ini!Fits, pc = "asked", key > 2, Ini!GetProfileString
    PROVE  overran' = {} /\ UNCHANGED <<file, KeyName, before>>
<1>1. KeyName = Wanted[key] /\ before = setting[KeyName] /\ overran = {}
  BY DEF SettingInv
<1>2. KeyName \in Strings
  BY <1>1, KeptKeys DEF IniInv, TypeOK
<1>3. Ini!More => pos + 1 \in 1..Len(file) /\ KeyVal = before
  BY <1>1 DEF Ini!More, IniInv, ScanInv, TypeOK, Ini!TypeOK
<1>4. CASE Ini!OpenFails \/ Ini!Open \/ Ini!EndOfFile
  BY <1>1, <1>4 DEF Ini!OpenFails, Ini!Open, Ini!EndOfFile
<1>5. CASE Ini!Skip \/ Ini!EnterSection \/ Ini!LeaveSection
  BY <1>1, <1>5 DEF Ini!Skip, Ini!EnterSection, Ini!LeaveSection
<1>6. CASE Ini!TakeValue
  <2>1. file[pos + 1].kind = "entry" /\ file[pos + 1].name = KeyName
    BY <1>6 DEF Ini!TakeValue, Ini!IsKey, Ini!IsNamed, Ini!Line
  <2>2. ASSUME Ini!Taken(file[pos + 1].value) = "wide" PROVE KeyName = "RTMPURL"
    <3>1. CASE file[pos + 1].value = "wide"
      BY <1>3, <1>6, <2>1, <3>1 DEF Ini!TakeValue, Ini!Fits, Ini!FitsEntry
    <3>2. CASE setting[KeyName] = "wide"
      BY <1>2, <3>2, FileValuesFit DEF SettingInv
    <3> QED
      BY <1>1, <1>3, <1>6, <2>2, <3>1, <3>2 DEF Ini!Taken, Ini!TakeValue
  <2> QED
    BY <1>1, <1>6, <2>2 DEF Ini!TakeValue, Ini!Line
<1>7. CASE Ini!LongName
  BY <1>3, <1>7 DEF Ini!LongName, Ini!IsTooLong, Ini!Line, Ini!Fits, Ini!FitsEntry
<1> QED
  BY <1>4, <1>5, <1>6, <1>7 DEF Ini!GetProfileString

(* A file means the same as long as it stays the same.                     *)
LEMMA SameSettings ==
    ASSUME UNCHANGED file
    PROVE  /\ Ini!Fits' = Ini!Fits
           /\ \A k, v : FromFile(k, v)' = FromFile(k, v)
BY DEF Ini!Fits, Ini!FitsEntry, FromFile, Ini!ShortLines, Ini!LineStarts, Ini!Counts, Ini!Entry,
       Ini!Headers, Ini!Begins, Ini!InBody, Ini!IsNamed

LEMMA SettingStep == IniInv /\ SettingInv /\ [Next]_vars => SettingInv'
<1> SUFFICES ASSUME IniInv, SettingInv, [Next]_vars, Ini!Fits' PROVE SettingInv'
  BY DEF SettingInv
<1>1. UNCHANGED file
  BY CallsIniFile DEF Ini!Next, Ini!iniVars, Ini!Call, Ini!GetProfileString, Ini!OpenFails, Ini!Open, Ini!Skip,
     Ini!EnterSection, Ini!LeaveSection, Ini!TakeValue, Ini!LongName, Ini!EndOfFile
<1>2. Ini!Fits
  BY <1>1, SameSettings
<1>3. \A k \in Strings : FromFile(k, setting[k])
  BY <1>2 DEF SettingInv
<1>4. ASSUME UNCHANGED setting PROVE \A k \in Strings : FromFile(k, setting[k])'
  BY <1>1, <1>3, <1>4, SameSettings
<1>5. CASE Ask
  BY <1>4, <1>5, SevenWanted DEF Ask, Ini!Call, readVars, SettingInv, TypeOK, IniInv
<1>6. CASE Lookup
  <2>1. UNCHANGED <<setting, key, pc>> /\ pc = "asked"
    BY <1>6 DEF Lookup, readVars
  <2>2. UNCHANGED KeyName
    BY <1>6 DEF Lookup, Ini!GetProfileString, Ini!OpenFails, Ini!Open, Ini!Skip, Ini!EnterSection,
       Ini!LeaveSection, Ini!TakeValue, Ini!LongName, Ini!EndOfFile
  <2>3. key > 2 => overran' = {} /\ UNCHANGED before
    BY <1>2, <1>6, <2>1, LookupStaysWithin DEF Lookup
  <2> QED
    BY <1>2, <1>4, <2>1, <2>2, <2>3 DEF SettingInv
<1>7. CASE ReadCrashes \/ ScanNumber
  BY <1>4, <1>7 DEF ReadCrashes, ScanNumber, readVars, SettingInv
<1>8. CASE KeepString
  <2>1. KeyName = Wanted[key] /\ before = setting[KeyName] /\ overran = {}
    BY <1>2, <1>8 DEF KeepString, Keep, SettingInv
  <2>2. FromFile(KeyName, before)
    BY <1>3, <1>8, <2>1, KeptKeys DEF KeepString, Keep, IniInv, TypeOK
  <2>3. FromFile(KeyName, KeyVal)
    BY <1>2, <1>8, <2>1, <2>2 DEF KeepString, Keep, IniInv, ScanInv, Ini!ReadsAsWritten, Ini!Fits, FromFile
  <2>4. setting' = [setting EXCEPT ![KeyName] = KeyVal]
    BY <1>8, <2>1 DEF KeepString, Keep
  <2>5. \A k \in Strings : FromFile(k, setting'[k])
    BY <1>3, <2>3, <2>4 DEF IniInv, TypeOK
  <2>6. \A k \in Strings : FromFile(k, setting[k])'
    BY <1>1, <2>5, SameSettings
  <2> QED
    BY <1>8, <2>6 DEF KeepString, Keep, SettingInv
<1>9. CASE KeepOverrun
  BY <1>2, <1>9 DEF KeepOverrun, SettingInv
<1>10. CASE StartThreads
  <2>1. pc' # "asked"
    BY <1>10 DEF StartThreads, Modes
  <2> QED
    BY <1>4, <1>10, <2>1 DEF StartThreads, readVars, SettingInv
<1>11. CASE RegisterRtsp \/ RegisterRtmp \/ RegisterAvchat
  BY <1>4, <1>11 DEF RegisterRtsp, RegisterRtmp, RegisterAvchat, Step, readVars, SettingInv
<1>12. CASE Pause \/ AvStart \/ NewServer \/ StartServer \/ StartPush \/ Resume
  BY <1>4, <1>12 DEF Pause, AvStart, NewServer, StartServer, StartPush, Resume, Step, readVars, SettingInv
<1>13. ASSUME NEW s \in Streams, Write(s) \/ WriteReturns(s) PROVE SettingInv'
  <2>1. UNCHANGED <<setting, iniVars, key>> /\ pc' \in {pc, "crashed"}
    BY <1>13 DEF Write, WriteReturns, readVars
  <2> QED
    BY <1>2, <1>4, <2>1 DEF SettingInv, iniVars
<1>14. CASE SerialRead \/ SerialReadFails \/ SerialWrite
  <2>1. UNCHANGED <<setting, iniVars, key>> /\ pc' \in {pc, "crashed"}
    BY <1>14 DEF SerialRead, SerialReadFails, SerialWrite, readVars
  <2> QED
    BY <1>2, <1>4, <2>1 DEF SettingInv, iniVars
<1>15. CASE UNCHANGED vars
  <2>1. UNCHANGED <<setting, iniVars, key, pc>>
    BY <1>15 DEF vars, readVars
  <2> QED
    BY <1>2, <1>4, <2>1 DEF SettingInv, iniVars
<1> QED
  BY <1>5, <1>6, <1>7, <1>8, <1>9, <1>10, <1>11, <1>12, <1>13, <1>14, <1>15 DEF Next, main, readInifile

(* For every file whose lines, names and values fit their buffers: when    *)
(* main starts its threads, each setting holds what the first entry of its *)
(* own key gives it, or nothing.                                           *)
THEOREM SettingsHold == Spec => []SettingsAsWritten
<1>1. SettingInv => SettingsAsWritten
  BY DEF SettingInv, SettingsAsWritten, FromFile
<1> QED
  BY IniInit, IniStep, SettingInit, SettingStep, <1>1, PTL DEF Spec
=============================================================================
