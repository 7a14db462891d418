----------------------------- MODULE BlockQueue -----------------------------
(***************************************************************************)
(* The producer/consumer queue of PCM/pcm.h and the threads around it in   *)
(* PCM/pcm.cpp: the consumer thread, which pops, processes and deletes     *)
(* message objects for ever, and the producers, which allocate an object   *)
(* and push it (mqttArrived_Fun in MQTTProcess.cpp is the live one).       *)
(*                                                                         *)
(* One action is what a thread does between two points at which another    *)
(* thread can observe it.  The wait sets of the condition variables `full` *)
(* and `empty` are the threads whose pc is "waiting".  pthread_cond_signal *)
(* wakes one waiting thread, whichever; a wait may also return unsignalled *)
(* (Spurious).  A thread that is woken contends for the mutex again.       *)
(***************************************************************************)
EXTENDS Integers, Sequences, FiniteSets, Functions

CONSTANTS
    Producers,   \* threads that call producter_push
    Consumers,   \* threads that run consumer()
    Items,       \* heap addresses a message object can have
    Cap,         \* cap, NUM = 8 in the program
    None         \* no thread, no object

Threads == Producers \cup Consumers

ASSUME ThreadsAssumption ==
    /\ IsFiniteSet(Producers) /\ IsFiniteSet(Consumers)
    /\ Producers \cap Consumers = {}
    /\ None \notin Threads
ASSUME ItemsAssumption == None \notin Items
ASSUME CapAssumption == Cap \in Nat \ {0}

VARIABLES
    q,       \* the std::queue, oldest object first
    mutex,   \* the thread that holds the mutex, or None
    pc,      \* where each thread is
    data,    \* the object each thread holds, or None
    live     \* heap: the objects that are allocated

vars == <<q, mutex, pc, data, live>>

(* The wait sets of the two condition variables.                           *)
full == {p \in Producers : pc[p] = "waiting"}
empty == {c \in Consumers : pc[c] = "waiting"}

IsEmpty == Len(q) = 0

(* Mutant: off by one.                                                     *)
IsFullLate == Len(q) > Cap
IsFull == Len(q) = Cap

(* A consumer is born inside PopData; a producer is outside the class.     *)
Init ==
    /\ q = <<>>
    /\ mutex = None
    /\ pc = [t \in Threads |-> IF t \in Producers THEN "idle" ELSE "lock"]
    /\ data = [t \in Threads |-> None]
    /\ live = {}

Goto(t, l) == [pc EXCEPT ![t] = l]

(* pthread_cond_signal by a thread that moves to l: nobody waits, or some  *)
(* waiting thread leaves the wait set and contends for the mutex.          *)
SignalAndGoto(W, t, l) ==
    \/ W = {} /\ pc' = Goto(t, l)
    \/ \E w \in W : pc' = [Goto(t, l) EXCEPT ![w] = "lock"]

NotifyConsume(t, l) == SignalAndGoto(empty, t, l)
NotifyProduct(t, l) == SignalAndGoto(full, t, l)

LockQueue(t) ==
    /\ pc[t] = "lock" /\ mutex = None
    /\ mutex' = t
    /\ pc' = Goto(t, "test")
    /\ UNCHANGED <<q, data, live>>

UnlockQueue(t, l) ==
    /\ pc[t] = "unlock"
    /\ mutex' = None
    /\ pc' = Goto(t, l)
    /\ UNCHANGED <<q, data, live>>

(* pthread_cond_wait: gives up the mutex and joins the wait set at once.   *)
CondWait(t) ==
    /\ pc[t] = "wait"
    /\ mutex' = None
    /\ pc' = Goto(t, "waiting")
    /\ UNCHANGED <<q, data, live>>

(* A wait may return although nobody signalled.                            *)
Spurious(t) ==
    /\ pc[t] = "waiting"
    /\ pc' = Goto(t, "lock")
    /\ UNCHANGED <<q, mutex, data, live>>

-----------------------------------------------------------------------------
(* producter_push: an object is allocated and PushData called with it.     *)

Produce(p) ==
    /\ pc[p] = "idle"
    /\ \E d \in Items \ live :
          /\ data' = [data EXCEPT ![p] = d]
          /\ live' = live \cup {d}
    /\ pc' = Goto(p, "lock")
    /\ UNCHANGED <<q, mutex>>

(* Queue full: wake a consumer, then wait.                                 *)
PushFull(p) ==
    /\ pc[p] = "test" /\ IsFull
    /\ NotifyConsume(p, "wait")
    /\ UNCHANGED <<q, mutex, data, live>>

PushInsert(p) ==
    /\ pc[p] = "test" /\ ~IsFull
    /\ q' = Append(q, data[p])
    /\ data' = [data EXCEPT ![p] = None]
    /\ pc' = Goto(p, "notify")
    /\ UNCHANGED <<mutex, live>>

(* Mutants: signal only when the queue was empty before; never signal.     *)
PushNotifyFirst(p) ==
    /\ pc[p] = "notify"
    /\ IF Len(q) = 1 THEN NotifyConsume(p, "unlock") ELSE pc' = Goto(p, "unlock")
    /\ UNCHANGED <<q, mutex, data, live>>
PushNotifyNever(p) ==
    /\ pc[p] = "notify"
    /\ pc' = Goto(p, "unlock")
    /\ UNCHANGED <<q, mutex, data, live>>

PushNotify(p) ==
    /\ pc[p] = "notify"
    /\ NotifyConsume(p, "unlock")
    /\ UNCHANGED <<q, mutex, data, live>>

PushData(p) ==
    \/ LockQueue(p)
    \/ PushFull(p)
    \/ CondWait(p)
    \/ PushInsert(p)
    \/ PushNotify(p)
    \/ UnlockQueue(p, "idle")

-----------------------------------------------------------------------------
(* consumer(): PopData, process and delete, for ever.                      *)

(* Queue empty: wake a producer, then wait.                                *)
PopEmpty(c) ==
    /\ pc[c] = "test" /\ IsEmpty
    /\ NotifyProduct(c, "wait")
    /\ UNCHANGED <<q, mutex, data, live>>

(* Mutants: front() without pop(); the newest object instead of the oldest. *)
PopFrontOnly(c) ==
    /\ pc[c] = "test" /\ ~IsEmpty
    /\ data' = [data EXCEPT ![c] = Head(q)]
    /\ pc' = Goto(c, "notify")
    /\ UNCHANGED <<q, mutex, live>>
PopBack(c) ==
    /\ pc[c] = "test" /\ ~IsEmpty
    /\ data' = [data EXCEPT ![c] = q[Len(q)]]
    /\ q' = SubSeq(q, 1, Len(q) - 1)
    /\ pc' = Goto(c, "notify")
    /\ UNCHANGED <<mutex, live>>

PopRemove(c) ==
    /\ pc[c] = "test" /\ ~IsEmpty
    /\ data' = [data EXCEPT ![c] = Head(q)]
    /\ q' = Tail(q)
    /\ pc' = Goto(c, "notify")
    /\ UNCHANGED <<mutex, live>>

PopNotify(c) ==
    /\ pc[c] = "notify"
    /\ NotifyProduct(c, "unlock")
    /\ UNCHANGED <<q, mutex, data, live>>

PopData(c) ==
    \/ LockQueue(c)
    \/ PopEmpty(c)
    \/ CondWait(c)
    \/ PopRemove(c)
    \/ PopNotify(c)
    \/ UnlockQueue(c, "process")

(* process() runs without the mutex; then the object is deleted.           *)
Process(c) ==
    /\ pc[c] = "process"
    /\ live' = live \ {data[c]}
    /\ data' = [data EXCEPT ![c] = None]
    /\ pc' = Goto(c, "lock")
    /\ UNCHANGED <<q, mutex>>

-----------------------------------------------------------------------------
Next ==
    \/ \E p \in Producers : Produce(p) \/ PushData(p)
    \/ \E c \in Consumers : PopData(c) \/ Process(c)
    \/ \E t \in Threads : Spurious(t)

Spec == Init /\ [][Next]_vars

(* Every thread that can run is scheduled, and process() returns.  Nothing *)
(* obliges a message to arrive (Produce), and the mutex is not fair: weak  *)
(* fairness only.  A thread that woke for no reason time and again could   *)
(* keep the mutex from the others for ever: such wakeups are exceptional,  *)
(* so they are assumed to end at some time.                                *)
Fairness ==
    /\ \A p \in Producers : WF_vars(PushData(p))
    /\ \A c \in Consumers : WF_vars(PopData(c)) /\ WF_vars(Process(c))
    /\ <>[][\A t \in Threads : ~Spurious(t)]_vars

FairSpec == Spec /\ Fairness

-----------------------------------------------------------------------------
Critical == {"test", "wait", "notify", "unlock"}

(* The value of every variable: PCM/pcm.h and the thread loops only ever   *)
(* hold one object per thread and at most cap objects in the queue.        *)
TypeOK ==
    /\ q \in Seq(Items) /\ Len(q) \in 0..Cap
    /\ mutex \in Threads \cup {None}
    /\ pc \in [Threads -> {"idle", "lock", "waiting", "process"} \cup Critical]
    /\ data \in [Threads -> Items \cup {None}]
    /\ live \subseteq Items
    /\ \A p \in Producers : pc[p] # "process"
    /\ \A c \in Consumers : pc[c] # "idle"

(* The mutex is held exactly while a thread is between LockQueue and       *)
(* UnlockQueue outside pthread_cond_wait: every path of PushData and       *)
(* PopData, the waiting ones included, gives back what it took.            *)
MutexIffCritical == \A t \in Threads : mutex = t <=> pc[t] \in Critical

Pushing(p) == pc[p] \in {"lock", "test", "wait", "waiting"}
Popped(c) == pc[c] \in {"notify", "unlock", "process"}

(* Every allocated object is in exactly one place -- a producer that is    *)
(* pushing it, the queue, or the consumer that popped it: the queue loses, *)
(* duplicates and leaks nothing and `delete(qd)` never frees an object     *)
(* somebody else can still reach.                                          *)
Holders == {p \in Producers : Pushing(p)} \cup {c \in Consumers : Popped(c)}

OneOwner ==
    /\ \A t \in Threads : data[t] # None <=> t \in Holders
    /\ live = {data[t] : t \in Holders} \cup Range(q)
    /\ \A s, t \in Holders : data[s] = data[t] => s = t
    /\ \A t \in Holders : data[t] \notin Range(q)
    /\ IsInjective(q)

(* No lost wakeup, although PushData and PopData only signal and never     *)
(* broadcast: while a consumer sleeps on `empty`, at least as many         *)
(* consumers are on their way to the queue as it has objects; while a      *)
(* producer sleeps on `full`, at least as many producers are on their way  *)
(* as it has free places.  A thread between insertion and its signal still *)
(* owes one wakeup.                                                        *)
OnTheWay(S) == {t \in S : pc[t] \in {"lock", "test"}}
Owing(S) == {t \in S : pc[t] = "notify"}

WakeupsSuffice ==
    /\ empty # {} => Len(q) <= Cardinality(OnTheWay(Consumers))
                               + Cardinality(Owing(Producers))
    /\ full # {} => Cap - Len(q) <= Cardinality(OnTheWay(Producers))
                                    + Cardinality(Owing(Consumers))

-----------------------------------------------------------------------------
(* Refinement of BoundedFifo: a call is pending until its insertion or     *)
(* removal, which is its linearization point, and done until it returns.   *)
phaseBar ==
    [t \in Threads |->
        CASE pc[t] \in {"lock", "test", "wait", "waiting"} -> "pending"
          [] pc[t] \in {"notify", "unlock", "process"} -> "done"
          [] OTHER -> "idle"]

Fifo == INSTANCE BoundedFifo WITH buf <- q, phase <- phaseBar, held <- data

(* PushData and PopData are atomic operations of a bounded FIFO queue.     *)
ImplementsFifo == Fifo!Spec

(* ... and they take effect whenever they can: while the queue has room    *)
(* and somebody pushes, or an object and somebody pops, some call goes     *)
(* through and returns.  Neither a lost wakeup nor a lock that is not      *)
(* given back stops the queue.                                             *)
ImplementsFairFifo == Fifo!FairSpec
=============================================================================
