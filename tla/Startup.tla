------------------------------ MODULE Startup ------------------------------
(***************************************************************************)
(* main() (main.cpp): it reads the INI file, starts the threads and the    *)
(* network, and brings up one of three media modes.  Around it run the     *)
(* threads of the encoder, which call the registered write_a and write_v,  *)
(* and the thread that echoes serial port 2 (SerialPortSrv.cpp).           *)
(*                                                                         *)
(* The encoder and the servers come as binaries and are external.  Of the  *)
(* encoder it is assumed what avenc.h says: its threads run from av_start  *)
(* on, and while pause_write(1) holds they call nobody.                    *)
(*                                                                         *)
(* mediamod has its initial value from the source, MEDIA_RTSP; a build for *)
(* another mode has another one there, and DefaultModes are the builds     *)
(* considered.  The network managers and the TS session keep nothing that  *)
(* the rest looks at.                                                      *)
(*                                                                         *)
(* The settings are read into static buffers of 32 bytes, rtmpurl of 256.  *)
(* A value that does not fit is written over what the linker put behind    *)
(* them: any of the other settings and mediamod.                           *)
(***************************************************************************)
EXTENDS Integers, Sequences

CONSTANTS
    DefaultModes,  \* initial values of mediamod: "RTSP", "RTMP", "AVCHAT"
    Files,         \* contents of /SDCARD/iotcamcfg.ini
    MaxRead        \* bound: bytes the serial port has at a time

Modes == {"RTSP", "RTMP", "AVCHAT"}

ASSUME ModesAssumption == DefaultModes \subseteq Modes
ASSUME ReadAssumption == MaxRead \in Nat \ {0}

(* readInifile asks for these, in this order; the first two are read into  *)
(* the local buffer __tmp, the others each into a static one.              *)
Wanted == <<"NETWORKMOD", "MEDIAMOD", "RTMPURL", "RTPPORT", "RTPHOST",
            "WIFISSID", "WIFIPASS">>
Strings == {Wanted[i] : i \in 3..Len(Wanted)}

VARIABLES
    file, ipc, pos, found, KeyName, KeyVal, before, ret, overran,  \* of IniFile
    pc,          \* where main is; "crashed" and "ended" end the process
    key,         \* index in Wanted of the call main is at
    mediamod,    \* the mode, MEDIA_RTSP unless built otherwise
    setting,     \* what each of the static buffers holds
    registered,  \* the MEDIA_WRITE given to register_mw, or "none"
    filled,      \* the MEDIA_WRITEs whose members were assigned
    made,        \* objects that were created: "rtspSrv", "mrtp"
    threads,     \* threads that were started
    pushing,     \* rtmp.startPush was called
    encoding,    \* av_start was called
    paused,      \* pause_write's flag
    calls,       \* the streams whose encoder thread is in a callback
    sp,          \* where the echo thread is
    len          \* what serial_read returned last

iniVars == <<file, ipc, pos, found, KeyName, KeyVal, before, ret, overran>>
readVars == <<key, setting>>
mediaVars == <<registered, filled, made, threads, pushing, encoding, paused>>
serialVars == <<sp, len>>
vars == <<iniVars, pc, mediamod, readVars, mediaVars, calls, serialVars>>

(* The content of a value: a number as sscanf("%d") reads it, or another   *)
(* text, or one of 32 bytes and more.  A buffer may be empty, or "spoilt": *)
(* other than what was read into it.                                       *)
Contents == {"", "number", "text", "wide", "spoilt"}

Ini == INSTANCE IniFile WITH
          Section <- "GENERAL", Keys <- {Wanted[i] : i \in 1..Len(Wanted)},
          LongNames <- {"long"}, Values <- {"number", "text", "wide"},
          Empty <- "empty", Wide <- {"wide"}, Roomy <- {"RTMPURL"}

Streams == {"write_a", "write_v"}

(* What __tmp holds before the first call is not determined.               *)
Init ==
    /\ Ini!Init
    /\ KeyName = Wanted[1] /\ KeyVal \in {"number", "text", "wide"}
    /\ pc = "readInifile" /\ key = 1
    /\ mediamod \in DefaultModes
    /\ setting = [k \in Strings |-> ""]
    /\ registered = "none" /\ filled = {}
    /\ made = {} /\ threads = {}
    /\ pushing = FALSE
    /\ encoding = FALSE /\ paused = FALSE
    /\ calls = {}
    /\ sp = "off" /\ len = 0

-----------------------------------------------------------------------------
(* readInifile.                                                            *)

(* __tmp keeps what is in it from the first call to the second.            *)
Ask ==
    /\ pc = "readInifile" /\ key <= Len(Wanted)
    /\ Ini!Call(Wanted[key], IF key <= 2 THEN KeyVal ELSE setting[Wanted[key]])
    /\ pc' = "asked"
    /\ UNCHANGED <<mediamod, readVars, mediaVars, calls, serialVars>>

Lookup ==
    /\ pc = "asked"
    /\ Ini!GetProfileString
    /\ UNCHANGED <<pc, mediamod, readVars, mediaVars, calls, serialVars>>

(* A function whose variables on the stack were written over need not come *)
(* back to its caller.                                                     *)
ReadCrashes ==
    /\ pc = "asked" /\ ipc = "done" /\ overran # {}
    /\ pc' = "crashed"
    /\ UNCHANGED <<iniVars, mediamod, readVars, mediaVars, calls, serialVars>>

(* sscanf(__tmp, "%d", networkmod) and the same with mediamod: the value   *)
(* of the variable, 0, 1 or 2, is taken for the address to store at.  What *)
(* is wide may begin with a number.                                        *)
ScanNumber ==
    /\ pc = "asked" /\ ipc = "done" /\ key <= 2
    /\ key' = key + 1
    /\ \/ KeyVal \in {"number", "wide"} /\ pc' = "crashed"
       \/ KeyVal # "number" /\ pc' = "readInifile"
    /\ UNCHANGED <<iniVars, mediamod, setting, mediaVars, calls, serialVars>>

(* The buffer that was passed is the setting's own.                        *)
Keep(k) ==
    /\ pc = "asked" /\ ipc = "done" /\ key > 2
    /\ key' = key + 1
    /\ pc' = "readInifile"
    /\ setting' = [setting EXCEPT ![k] = KeyVal]
    /\ "KeyVal" \notin overran
    /\ UNCHANGED <<iniVars, mediamod, mediaVars, calls, serialVars>>

(* Mutant: the two settings of the RTP session are read into each other.   *)
KeepStringSwapped ==
    Keep(CASE Wanted[key] = "RTPPORT" -> "RTPHOST"
           [] Wanted[key] = "RTPHOST" -> "RTPPORT"
           [] OTHER -> Wanted[key])
KeepString == Keep(Wanted[key])

(* The value ran over its buffer.  Which settings, its own among them, are *)
(* not what they should be when they are used depends on where they lie    *)
(* and on what is read after it; mediamod is what was written over it.     *)
KeepOverrun ==
    /\ pc = "asked" /\ ipc = "done" /\ key > 2
    /\ "KeyVal" \in overran
    /\ key' = key + 1
    /\ pc' = "readInifile"
    /\ \E hit \in SUBSET Strings :
          setting' = [k \in Strings |->
                        IF k \in hit THEN "spoilt"
                        ELSE IF k = Wanted[key] THEN KeyVal ELSE setting[k]]
    /\ mediamod' \in Modes \cup {"none"}
    /\ UNCHANGED <<iniVars, mediaVars, calls, serialVars>>

readInifile ==
    Ask \/ Lookup \/ ReadCrashes \/ ScanNumber \/ KeepString \/ KeepOverrun

-----------------------------------------------------------------------------
(* The rest of main, up to the mode: create_consumer, readcfg, the echo    *)
(* thread, the network, the TS session, the two MQTT setters, initavenc.   *)
(* Without one of the three modes main then comes to its end.              *)
StartThreads ==
    /\ pc = "readInifile" /\ key > Len(Wanted)
    /\ threads' = threads \cup {"consumer", "serial"}
    /\ sp' = "select"
    /\ pc' = IF mediamod \in Modes THEN mediamod ELSE "ended"
    /\ UNCHANGED <<iniVars, mediamod, readVars, registered, filled, made, pushing,
                   encoding, paused, calls, len>>

Step(from, to) ==
    /\ pc = from /\ pc' = to
    /\ UNCHANGED <<iniVars, mediamod, readVars, calls, serialVars>>

RegisterRtsp ==
    /\ Step("RTSP", "pause")
    /\ filled' = filled \cup {"mwrtsp"} /\ registered' = "mwrtsp"
    /\ UNCHANGED <<made, threads, pushing, encoding, paused>>

(* ... setUrl, and the thread of RtmpPush.                                 *)
RegisterRtmp ==
    /\ Step("RTMP", "pause")
    /\ filled' = filled \cup {"mwrtmp"} /\ registered' = "mwrtmp"
    /\ threads' = threads \cup {"rtmp"}
    /\ UNCHANGED <<made, pushing, encoding, paused>>

(* mwrtp is filled, mwrtmp is registered.                                  *)
RegisterAvchat ==
    /\ Step("AVCHAT", "pause")
    /\ made' = made \cup {"mrtp"}
    /\ filled' = filled \cup {"mwrtp"} /\ registered' = "mwrtmp"
    /\ UNCHANGED <<threads, pushing, encoding, paused>>

(* Mutant: the encoder is not held while the server is made.               *)
PauseNot ==
    /\ Step("pause", "start")
    /\ UNCHANGED mediaVars
Pause ==
    /\ Step("pause", "start")
    /\ paused' = TRUE
    /\ UNCHANGED <<registered, filled, made, threads, pushing, encoding>>

AvStart ==
    /\ Step("start", IF mediamod = "RTSP" THEN "server"
                     ELSE IF mediamod = "RTMP" THEN "push" ELSE "resume")
    /\ encoding' = TRUE
    /\ UNCHANGED <<registered, filled, made, threads, pushing, paused>>

NewServer ==
    /\ Step("server", "serve")
    /\ made' = made \cup {"rtspSrv"}
    /\ UNCHANGED <<registered, filled, threads, pushing, encoding, paused>>

StartServer ==
    /\ Step("serve", "push")
    /\ threads' = threads \cup {"rtspSrv"}
    /\ UNCHANGED <<registered, filled, made, pushing, encoding, paused>>

StartPush ==
    /\ Step("push", "resume")
    /\ pushing' = TRUE
    /\ UNCHANGED <<registered, filled, made, threads, encoding, paused>>

(* Mutant: the encoder stays held.                                         *)
ResumeNot ==
    /\ Step("resume", "loop")
    /\ UNCHANGED mediaVars
Resume ==
    /\ Step("resume", "loop")
    /\ paused' = FALSE
    /\ UNCHANGED <<registered, filled, made, threads, pushing, encoding>>

main ==
    \/ readInifile \/ StartThreads
    \/ RegisterRtsp \/ RegisterRtmp \/ RegisterAvchat
    \/ Pause \/ AvStart \/ NewServer \/ StartServer \/ StartPush \/ Resume

-----------------------------------------------------------------------------
Alive == pc \notin {"crashed", "ended"}

(* An encoder thread calls the registered function and the function        *)
(* returns.  A call into a MEDIA_WRITE that was never filled ends anywhere.*)
Write(s) ==
    /\ encoding /\ ~paused /\ Alive /\ s \notin calls
    /\ calls' = calls \cup {s}
    /\ UNCHANGED <<iniVars, pc, mediamod, readVars, mediaVars, serialVars>>

WriteReturns(s) ==
    /\ s \in calls /\ Alive
    /\ calls' = calls \ {s}
    /\ \/ UNCHANGED pc
       \/ registered \notin filled /\ pc' = "crashed"
    /\ UNCHANGED <<iniVars, mediamod, readVars, mediaVars, serialVars>>

-----------------------------------------------------------------------------
(* SerialPortU2::run: serial_read, then writeData of what it returned.     *)

(* Mutant: the length is not looked at and no copy is made of it.          *)
SerialReadAny ==
    /\ sp = "select" /\ Alive
    /\ len' \in -1..MaxRead
    /\ sp' = "write"
    /\ UNCHANGED <<iniVars, pc, mediamod, readVars, mediaVars, calls>>
(* 0: nothing came within two seconds, or the port could not be opened.    *)
SerialRead ==
    /\ sp = "select" /\ Alive
    /\ len' \in 0..MaxRead
    /\ sp' = "write"
    /\ UNCHANGED <<iniVars, pc, mediamod, readVars, mediaVars, calls>>

(* read returned -1: memcpy of -1 bytes.                                   *)
SerialReadFails ==
    /\ sp = "select" /\ Alive
    /\ pc' = "crashed"
    /\ UNCHANGED <<iniVars, mediamod, readVars, mediaVars, calls, serialVars>>

SerialWrite ==
    /\ sp = "write" /\ Alive
    /\ sp' = "select"
    /\ UNCHANGED <<iniVars, pc, mediamod, readVars, mediaVars, calls, len>>

-----------------------------------------------------------------------------
Next ==
    \/ main
    \/ \E s \in Streams : Write(s) \/ WriteReturns(s)
    \/ SerialRead \/ SerialReadFails \/ SerialWrite

Spec == Init /\ [][Next]_vars

(* main runs; its calls return.                                            *)
FairSpec == Spec /\ WF_vars(main)

-----------------------------------------------------------------------------
(* The values of main's variables and of the echo thread: writeData is     *)
(* never given a length that was not read.                                 *)
TypeOK ==
    /\ Ini!TypeOK
    /\ pc \in {"readInifile", "asked", "RTSP", "RTMP", "AVCHAT", "pause", "start",
              "server", "serve", "push", "resume", "loop", "crashed", "ended"}
    /\ key \in 1..Len(Wanted) + 1
    /\ mediamod \in Modes \cup {"none"}
    /\ setting \in [Strings -> Contents]
    /\ registered \in {"none", "mwrtsp", "mwrtmp"}
    /\ filled \subseteq {"mwrtsp", "mwrtmp", "mwrtp"}
    /\ made \subseteq {"rtspSrv", "mrtp"}
    /\ threads \subseteq {"consumer", "serial", "rtmp", "rtspSrv"}
    /\ pushing \in BOOLEAN /\ encoding \in BOOLEAN /\ paused \in BOOLEAN
    /\ calls \subseteq Streams
    /\ sp \in {"off", "select", "write"} /\ len \in 0..MaxRead

(* What a callback of the mode needs.                                      *)
Ready ==
    CASE mediamod = "RTSP" -> "rtspSrv" \in made /\ "rtspSrv" \in threads
      [] mediamod = "RTMP" -> "rtmp" \in threads /\ pushing
      [] mediamod = "AVCHAT" -> "mrtp" \in made

(* A callback of the encoder finds what it uses: rtsp_write_v a server     *)
(* (rtspSrv is NULL until after av_start), the RTMP callbacks a push that  *)
(* was started; and it is a function that main filled in.  pause_write     *)
(* alone keeps the callbacks back until then.  (AVCHAT mode fills mwrtp    *)
(* and registers mwrtmp: what is called there is not determined.)          *)
CallbacksFindTheirServer ==
    calls # {} => Ready /\ (mediamod # "AVCHAT" => registered \in filled)

(* GetProfileString reads what is written in the file, unless the file has *)
(* a line, or the call met a name or a value, too long for its buffer      *)
(* (IniFile).                                                              *)
ReadsAsWritten == Ini!ReadsAsWritten

(* A program that gets past readInifile has in each of its settings what   *)
(* the file gives its own key, by the first of its entries, or nothing:    *)
(* provided that every line, name and value of the file fits.              *)
SettingsAsWritten ==
    pc \notin {"readInifile", "asked"} /\ Ini!Fits =>
        \A k \in Strings :
            setting[k] = "" \/ \E e \in Ini!LineStarts : Ini!Counts(k, e) /\ setting[k] = file[e].value

(* Unless the process crashes, or main ends because a value that was too   *)
(* long took the mode away, it comes to its loop, with the encoder running *)
(* and not held.                                                           *)
StreamsAtLast ==
    <>[](\/ pc = "crashed"
         \/ pc = "ended" /\ ~Ini!Fits
         \/ pc = "loop" /\ encoding /\ ~paused)
=============================================================================
