----------------------------- MODULE MqttReply -----------------------------
(***************************************************************************)
(* MQTTData::process and xintiao (MQTTProcess.cpp): a message that has a   *)
(* MSGID is answered with a JSON text.  The text is printed from a tree of *)
(* cJSON objects that is built and deleted again, and every allocation on  *)
(* the way may fail; only three results are looked at.                     *)
(*                                                                         *)
(* One action is one call to cJSON (JSON/cJSON.c), which gives back what it*)
(* allocated itself when it fails.  What pubmsg does with the connection   *)
(* is in MqttClient and MqttPipeline, where an answer is an answer.        *)
(***************************************************************************)
EXTENDS Integers, Sequences, FiniteSets

(* What can arrive: no JSON (also: cut off by the 256 bytes of msg), an    *)
(* object without MSGID, with a string for it, or with something else.     *)
Messages == {"noJson", "noMsgid", "msgid", "otherMsgid"}

(* What xintiao adds, in order; CMDID goes into DATA.                      *)
Names == <<"DEVID", "MSGID", "TIME", "MSGTYPE", "DEVTYPE", "DATA", "CMDID">>
Wanted == {Names[j] : j \in 1..Len(Names)}

VARIABLES
    pc,        \* where process is
    message,   \* what arrived
    heap,      \* what is allocated: "json", "root", "data", "text"
    k,         \* index in Names of the call xintiao is at
    members,   \* what has been added
    str,       \* what xintiao returned is a text; FALSE: NULL
    published, \* history: the members of the published text, {} if none
    failed     \* history: what there was no memory for, in this message

vars == <<pc, message, heap, k, members, str, published, failed>>

Init ==
    /\ pc = "returned" /\ message = "noJson"
    /\ heap = {} /\ k = 1 /\ members = {} /\ str = FALSE
    /\ published = {} /\ failed = {}

(* The consumer calls process of the next message; what the last one left  *)
(* on the heap stays there, and nobody knows it any more.                  *)
Arrive ==
    /\ pc = "returned"
    /\ message' \in Messages
    /\ pc' = "parse"
    /\ heap' = {} /\ k' = 1 /\ members' = {} /\ str' = FALSE
    /\ published' = {} /\ failed' = {}

(* An allocation for x: it succeeds or it does not.                        *)
Allocate(x) ==
    \/ heap' = heap \cup {x} /\ UNCHANGED failed
    \/ failed' = failed \cup {x} /\ UNCHANGED heap

(* cJSON_Parse and cJSON_GetObjectItem.                                    *)
Parse ==
    /\ pc = "parse"
    /\ IF message = "noJson" THEN UNCHANGED <<heap, failed>> ELSE Allocate("json")
    /\ pc' = IF "json" \notin heap' THEN "returned"
             ELSE IF message = "noMsgid" THEN "delete" ELSE "create"
    /\ UNCHANGED <<message, k, members, str, published>>

-----------------------------------------------------------------------------
(* xintiao.                                                                *)
CreateRoot ==
    /\ pc = "create"
    /\ Allocate("root")
    /\ pc' = "createData"
    /\ UNCHANGED <<message, k, members, str, published>>

CreateData ==
    /\ pc = "createData"
    /\ Allocate("data")
    /\ pc' = IF {"root", "data"} \subseteq heap' THEN "add" ELSE "pubmsg"
    /\ UNCHANGED <<message, k, members, str, published>>

(* The valuestring of a MSGID that is not a string is NULL.                *)
NoString == Names[k] = "MSGID" /\ message = "otherMsgid"

(* cJSON_Add...ToObject.  A string that is NULL is not added.              *)
Add ==
    /\ pc = "add" /\ k <= Len(Names)
    /\ k' = k + 1
    /\ \/ /\ ~NoString
          /\ members' = members \cup {Names[k]}
          /\ UNCHANGED failed
       \/ /\ failed' = failed \cup {Names[k]}
          /\ UNCHANGED members
       \/ NoString /\ UNCHANGED <<members, failed>>
    /\ UNCHANGED <<pc, message, heap, str, published>>

(* cJSON_Delete of the root, with data if that was added to it.            *)
Tree == {"root"} \cup (IF "DATA" \in members THEN {"data"} ELSE {})

PrintText ==
    /\ pc = "add" /\ k > Len(Names)
    /\ heap' = (heap \ Tree) \cup {"text"}
    /\ str' = TRUE
    /\ pc' = "pubmsg"
    /\ UNCHANGED <<message, k, members, published, failed>>

(* Mutant: without a text the tree is not deleted.                         *)
PrintFailsKeeps ==
    /\ pc = "add" /\ k > Len(Names)
    /\ failed' = failed \cup {"text"}
    /\ pc' = "pubmsg"
    /\ UNCHANGED <<message, heap, k, members, str, published>>
PrintFails ==
    /\ pc = "add" /\ k > Len(Names)
    /\ heap' = heap \ Tree
    /\ failed' = failed \cup {"text"}
    /\ pc' = "pubmsg"
    /\ UNCHANGED <<message, k, members, str, published>>

-----------------------------------------------------------------------------
(* pubmsg(str): while there is a connection the length of the text is      *)
(* taken, also of NULL.                                                    *)
Connected ==
    /\ pc = "pubmsg"
    /\ IF str THEN /\ published' = IF "DATA" \in members THEN members
                                   ELSE members \ {"CMDID"}
                   /\ pc' = "free"
       ELSE pc' = "crashed" /\ UNCHANGED published
    /\ UNCHANGED <<message, heap, k, members, str, failed>>

NotConnected ==
    /\ pc = "pubmsg"
    /\ pc' = "free"
    /\ UNCHANGED <<message, heap, k, members, str, published, failed>>

Free ==
    /\ pc = "free"
    /\ heap' = heap \ {"text"}
    /\ pc' = "delete"
    /\ UNCHANGED <<message, k, members, str, published, failed>>

Delete ==
    /\ pc = "delete"
    /\ heap' = heap \ {"json"}
    /\ pc' = "returned"
    /\ UNCHANGED <<message, k, members, str, published, failed>>

process ==
    \/ Parse \/ CreateRoot \/ CreateData \/ Add \/ PrintText \/ PrintFails
    \/ Connected \/ NotConnected \/ Free \/ Delete

Next == Arrive \/ process

Spec == Init /\ [][Next]_vars

-----------------------------------------------------------------------------
(* Process leaves something on the heap only if one of the two objects     *)
(* could not be made, or not be joined.                                    *)
LeaksOnlyHalves ==
    pc = "returned" /\ heap # {} =>
        heap \subseteq {"root", "data"} /\ failed \cap {"root", "data", "DATA"} # {}

(* It does not return only if there was no memory for objects or text.     *)
CrashesOnlyWithoutText ==
    pc = "crashed" => failed \cap {"root", "data", "text"} # {}

(* A published answer lacks what there was no memory for, and the MSGID of *)
(* a message whose MSGID is not a string, and nothing else.                *)
LacksOnlyWhatFailed ==
    published # {} =>
        Wanted \ published \subseteq
            failed \cup (IF "DATA" \in failed THEN {"CMDID"} ELSE {})
                   \cup (IF message = "otherMsgid" THEN {"MSGID"} ELSE {})

(* What goes wrong with an answer has a cause that is named: whichever of  *)
(* its calls fail for want of memory, process forgets no object and does   *)
(* not crash but for the failures in the first two parts; and a published  *)
(* answer is incomplete only for such a failure or, with memory at hand,   *)
(* because the MSGID of the message is not a string.                       *)
DefectsHaveCauses == LeaksOnlyHalves /\ CrashesOnlyWithoutText /\ LacksOnlyWhatFailed
=============================================================================
