---------------------------- MODULE BoundedFifo ----------------------------
(***************************************************************************)
(* What BlockQueue (PCM/pcm.h) promises to the threads that use it: a      *)
(* bounded FIFO of heap objects whose PushData blocks while the queue is   *)
(* full and whose PopData blocks while it is empty, each taking effect at  *)
(* one instant between call and return.  No mutex, no condition variable.  *)
(* BlockQueue.tla is shown to implement this module.                       *)
(***************************************************************************)
EXTENDS Integers, Sequences, Functions

CONSTANTS
    Producers,   \* threads that call PushData
    Consumers,   \* threads that loop on PopData
    Items,       \* heap addresses a message object can have
    Cap,         \* capacity of the queue
    None         \* "no object"

Threads == Producers \cup Consumers

VARIABLES
    buf,     \* the objects in the queue, oldest first
    phase,   \* "idle" | "pending" | "done": where a thread is in its call
    held     \* the object a thread holds, or None

vars == <<buf, phase, held>>

HeldItems == {held[t] : t \in Threads} \ {None}

(* A consumer calls PopData from its first step on; a producer is idle.    *)
Init ==
    /\ buf = <<>>
    /\ phase = [t \in Threads |-> IF t \in Producers THEN "idle" ELSE "pending"]
    /\ held = [t \in Threads |-> None]

(* A producer allocates an object no one refers to and calls PushData.     *)
CallPush(p) ==
    /\ phase[p] = "idle"
    /\ \E d \in Items \ (HeldItems \cup Range(buf)) :
          held' = [held EXCEPT ![p] = d]
    /\ phase' = [phase EXCEPT ![p] = "pending"]
    /\ UNCHANGED buf

(* PushData takes effect: only while there is room, at the tail.           *)
Push(p) ==
    /\ phase[p] = "pending"
    /\ Len(buf) < Cap
    /\ buf' = Append(buf, held[p])
    /\ held' = [held EXCEPT ![p] = None]
    /\ phase' = [phase EXCEPT ![p] = "done"]

ReturnPush(p) ==
    /\ phase[p] = "done"
    /\ phase' = [phase EXCEPT ![p] = "idle"]
    /\ UNCHANGED <<buf, held>>

(* PopData takes effect: only while there is an object, from the head.     *)
Pop(c) ==
    /\ phase[c] = "pending"
    /\ buf # <<>>
    /\ held' = [held EXCEPT ![c] = Head(buf)]
    /\ buf' = Tail(buf)
    /\ phase' = [phase EXCEPT ![c] = "done"]

(* The consumer processes and deletes its object and calls PopData again.  *)
Finish(c) ==
    /\ phase[c] = "done"
    /\ held' = [held EXCEPT ![c] = None]
    /\ phase' = [phase EXCEPT ![c] = "pending"]
    /\ UNCHANGED buf

Next ==
    \/ \E p \in Producers : CallPush(p) \/ Push(p) \/ ReturnPush(p)
    \/ \E c \in Consumers : Pop(c) \/ Finish(c)

Spec == Init /\ [][Next]_vars

(* Some push takes effect while there is room and some pop while there is  *)
(* an object: which of several waiting threads gets its turn is not        *)
(* promised, and with one thread on a side it is that one.  A call that    *)
(* took effect returns, whoever made it.                                   *)
Fairness ==
    /\ WF_vars(\E p \in Producers : Push(p))
    /\ WF_vars(\E c \in Consumers : Pop(c))
    /\ \A p \in Producers : WF_vars(ReturnPush(p))
    /\ \A c \in Consumers : WF_vars(Finish(c))

FairSpec == Spec /\ Fairness
=============================================================================
