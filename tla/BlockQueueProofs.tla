-------------------------- MODULE BlockQueueProofs --------------------------
(***************************************************************************)
(* Proofs about BlockQueue for any finite sets of producers and consumers, *)
(* any set of addresses and any capacity of at least one.                  *)
(***************************************************************************)
EXTENDS BlockQueue, FiniteSetTheorems, TLAPS

-----------------------------------------------------------------------------
(* The queue operations keep the type of the queue.                        *)
LEMMA AppendType ==
    ASSUME NEW S, NEW s \in Seq(S), NEW d \in S
    PROVE  /\ Append(s, d) \in Seq(S)
           /\ Len(Append(s, d)) = Len(s) + 1
           /\ Range(Append(s, d)) = Range(s) \cup {d}
<1>1. /\ Append(s, d) \in Seq(S)
      /\ Len(Append(s, d)) = Len(s) + 1
      /\ DOMAIN Append(s, d) = 1..(Len(s) + 1)
  OBVIOUS
<1>2. /\ \A i \in 1..Len(s) : Append(s, d)[i] = s[i]
      /\ Append(s, d)[Len(s) + 1] = d
  OBVIOUS
<1>3. DOMAIN s = 1..Len(s) /\ Len(s) \in Nat
  OBVIOUS
<1>4. 1..(Len(s) + 1) = (1..Len(s)) \cup {Len(s) + 1}
  BY <1>3
<1> QED
  BY <1>1, <1>2, <1>3, <1>4 DEF Range

LEMMA TailType ==
    ASSUME NEW S, NEW s \in Seq(S), Len(s) # 0
    PROVE  /\ Head(s) \in S
           /\ Tail(s) \in Seq(S)
           /\ Len(Tail(s)) = Len(s) - 1
           /\ Range(s) = Range(Tail(s)) \cup {Head(s)}
           /\ IsInjective(s) => IsInjective(Tail(s)) /\ Head(s) \notin Range(Tail(s))
<1>1. /\ Head(s) = s[1] /\ Head(s) \in S
      /\ Tail(s) \in Seq(S)
      /\ Len(Tail(s)) = Len(s) - 1
      /\ Len(s) \in Nat /\ Len(s) >= 1
      /\ DOMAIN s = 1..Len(s)
      /\ DOMAIN Tail(s) = 1..(Len(s) - 1)
  BY SMT
<1>2. \A i \in 1..(Len(s) - 1) : Tail(s)[i] = s[i + 1]
  BY <1>1
<1>3. \A i \in 1..Len(s) : i = 1 \/ (i - 1 \in 1..(Len(s) - 1) /\ s[i] = Tail(s)[i - 1])
  BY <1>1, <1>2
<1>4. \A i \in 1..(Len(s) - 1) : i + 1 \in 1..Len(s) /\ i + 1 # 1
  BY <1>1
<1>5. Range(s) = Range(Tail(s)) \cup {Head(s)}
  <2>1. \A i \in 1..Len(s) : s[i] \in Range(Tail(s)) \cup {Head(s)}
    BY <1>1, <1>3 DEF Range
  <2>2. \A i \in 1..(Len(s) - 1) : Tail(s)[i] \in Range(s)
    BY <1>1, <1>2, <1>4 DEF Range
  <2>3. Head(s) \in Range(s)
    BY <1>1 DEF Range
  <2> QED
    BY <1>1, <2>1, <2>2, <2>3 DEF Range
<1>6. ASSUME IsInjective(s)
      PROVE  IsInjective(Tail(s)) /\ Head(s) \notin Range(Tail(s))
  <2>1. \A i, j \in 1..(Len(s) - 1) : Tail(s)[i] = Tail(s)[j] => i = j
    BY <1>1, <1>2, <1>4, <1>6 DEF IsInjective
  <2>2. \A i \in 1..(Len(s) - 1) : Tail(s)[i] # Head(s)
    BY <1>1, <1>2, <1>4, <1>6 DEF IsInjective
  <2> QED
    BY <1>1, <2>1, <2>2 DEF IsInjective, Range
<1> QED
  BY <1>1, <1>5, <1>6

-----------------------------------------------------------------------------
(* Locking: what the code establishes before pthread_cond_wait.            *)

(* A thread about to wait holds the mutex and has just found the queue     *)
(* full (producer) or empty (consumer).                                    *)
WaitGuard ==
    /\ \A p \in Producers : pc[p] = "wait" => IsFull
    /\ \A c \in Consumers : pc[c] = "wait" => IsEmpty

(* A thread holds an object from its allocation to its insertion, or from  *)
(* its removal to its deletion.                                            *)
HoldersHold == \A t \in Threads : data[t] # None <=> t \in Holders

Locking == TypeOK /\ MutexIffCritical /\ WaitGuard /\ HoldersHold

LEMMA LockingInit == Init => Locking
BY ThreadsAssumption, CapAssumption, ItemsAssumption
   DEF Init, Locking, TypeOK, MutexIffCritical, WaitGuard, Threads, Critical,
       HoldersHold, Holders, Pushing, Popped

LEMMA LockingStep == Locking /\ [Next]_vars => Locking'
<1> SUFFICES ASSUME Locking, [Next]_vars PROVE Locking'
  OBVIOUS
<1> USE ThreadsAssumption, CapAssumption, ItemsAssumption
    DEF Locking, TypeOK, MutexIffCritical, WaitGuard, Critical, Threads,
        HoldersHold, Holders, Pushing, Popped
<1>1. CASE UNCHANGED vars
  BY <1>1 DEF vars, IsFull, IsEmpty
<1>2. ASSUME NEW t \in Threads, Spurious(t) PROVE Locking'
  BY <1>2 DEF Spurious, Goto, IsFull, IsEmpty
<1>3. ASSUME NEW t \in Threads, LockQueue(t) PROVE Locking'
  BY <1>3 DEF LockQueue, Goto, IsFull, IsEmpty
<1>4. ASSUME NEW t \in Threads, CondWait(t) PROVE Locking'
  BY <1>4 DEF CondWait, Goto, IsFull, IsEmpty
<1>5. ASSUME NEW p \in Producers, UnlockQueue(p, "idle") PROVE Locking'
  BY <1>5 DEF UnlockQueue, Goto, IsFull, IsEmpty
<1>6. ASSUME NEW c \in Consumers, UnlockQueue(c, "process") PROVE Locking'
  BY <1>6 DEF UnlockQueue, Goto, IsFull, IsEmpty
<1>7. ASSUME NEW p \in Producers, Produce(p) PROVE Locking'
  BY <1>7 DEF Produce, Goto, IsFull, IsEmpty
<1>8. ASSUME NEW p \in Producers, PushFull(p) PROVE Locking'
  BY <1>8 DEF PushFull, NotifyConsume, SignalAndGoto, Goto, empty, IsFull, IsEmpty
<1>9. ASSUME NEW p \in Producers, PushInsert(p) PROVE Locking'
  <2>1. data[p] \in Items
    BY <1>9 DEF PushInsert
  <2>2. Append(q, data[p]) \in Seq(Items) /\ Len(Append(q, data[p])) = Len(q) + 1
    BY <2>1, AppendType
  <2> QED
    BY <1>9, <2>2 DEF PushInsert, Goto, IsFull, IsEmpty
<1>10. ASSUME NEW p \in Producers, PushNotify(p) PROVE Locking'
  BY <1>10 DEF PushNotify, NotifyConsume, SignalAndGoto, Goto, empty, IsFull, IsEmpty
<1>11. ASSUME NEW c \in Consumers, PopEmpty(c) PROVE Locking'
  BY <1>11 DEF PopEmpty, NotifyProduct, SignalAndGoto, Goto, full, IsFull, IsEmpty
<1>12. ASSUME NEW c \in Consumers, PopRemove(c) PROVE Locking'
  <2> DEFINE h == Head(q)
             r == Tail(q)
  <2>1. /\ pc[c] = "test" /\ Len(q) # 0
        /\ data' = [data EXCEPT ![c] = h] /\ q' = r
        /\ pc' = [pc EXCEPT ![c] = "notify"]
        /\ UNCHANGED <<mutex, live>>
    BY <1>12 DEF PopRemove, IsEmpty, Goto
  <2>2. h \in Items /\ r \in Seq(Items) /\ Len(r) = Len(q) - 1
    BY <2>1, TailType
  <2> HIDE DEF h, r
  <2> QED
    BY <2>1, <2>2 DEF IsFull, IsEmpty
<1>13. ASSUME NEW c \in Consumers, PopNotify(c) PROVE Locking'
  BY <1>13 DEF PopNotify, NotifyProduct, SignalAndGoto, Goto, full, IsFull, IsEmpty
<1>14. ASSUME NEW c \in Consumers, Process(c) PROVE Locking'
  BY <1>14 DEF Process, Goto, IsFull, IsEmpty
<1> QED
  BY <1>1, <1>2, <1>3, <1>4, <1>5, <1>6, <1>7, <1>8, <1>9, <1>10, <1>11,
     <1>12, <1>13, <1>14 DEF Next, PushData, PopData

-----------------------------------------------------------------------------
(* OneOwner.                                                               *)

LEMMA OwnerInit == Init => OneOwner
<1> SUFFICES ASSUME Init PROVE OneOwner
  OBVIOUS
<1>1. Holders = {} /\ \A t \in Threads : data[t] = None
  BY ThreadsAssumption DEF Init, Threads, Holders, Pushing, Popped
<1>2. Range(q) = {} /\ IsInjective(q) /\ live = {}
  BY DEF Init, Range, IsInjective
<1> QED
  BY <1>1, <1>2 DEF OneOwner

(* A step that leaves the queue, the objects and the set of holders alone  *)
(* leaves their ownership alone.                                           *)
LEMMA OwnerFrame ==
    ASSUME OneOwner, UNCHANGED <<q, data, live>>, Holders' = Holders
    PROVE  OneOwner'
BY DEF OneOwner

LEMMA OwnerStep == Locking /\ OneOwner /\ [Next]_vars => OneOwner'
<1> SUFFICES ASSUME Locking, OneOwner, [Next]_vars PROVE OneOwner'
  OBVIOUS
<1> USE ThreadsAssumption, ItemsAssumption
    DEF Locking, TypeOK, Critical, Threads
<1>1. CASE UNCHANGED vars
  BY <1>1, OwnerFrame DEF vars, Holders, Pushing, Popped
<1>2. ASSUME NEW t \in Threads, Spurious(t) PROVE OneOwner'
  <2>1. Holders' = Holders
    BY <1>2 DEF Spurious, Goto, Holders, Pushing, Popped
  <2> QED
    BY <1>2, <2>1, OwnerFrame DEF Spurious
<1>3. ASSUME NEW t \in Threads, LockQueue(t) PROVE OneOwner'
  <2>1. Holders' = Holders
    BY <1>3 DEF LockQueue, Goto, Holders, Pushing, Popped
  <2> QED
    BY <1>3, <2>1, OwnerFrame DEF LockQueue
<1>4. ASSUME NEW t \in Threads, CondWait(t) PROVE OneOwner'
  <2>1. Holders' = Holders
    BY <1>4 DEF CondWait, Goto, Holders, Pushing, Popped
  <2> QED
    BY <1>4, <2>1, OwnerFrame DEF CondWait
<1>5. ASSUME NEW p \in Producers, UnlockQueue(p, "idle") PROVE OneOwner'
  <2>1. Holders' = Holders
    BY <1>5 DEF UnlockQueue, Goto, Holders, Pushing, Popped
  <2> QED
    BY <1>5, <2>1, OwnerFrame DEF UnlockQueue
<1>6. ASSUME NEW c \in Consumers, UnlockQueue(c, "process") PROVE OneOwner'
  <2>1. Holders' = Holders
    BY <1>6 DEF UnlockQueue, Goto, Holders, Pushing, Popped
  <2> QED
    BY <1>6, <2>1, OwnerFrame DEF UnlockQueue
<1>7. ASSUME NEW p \in Producers, Produce(p) PROVE OneOwner'
  <2>1. PICK d \in Items \ live : data' = [data EXCEPT ![p] = d] /\ live' = live \cup {d}
    BY <1>7 DEF Produce
  <2>2. Holders' = Holders \cup {p} /\ p \notin Holders
    BY <1>7 DEF Produce, Goto, Holders, Pushing, Popped
  <2>3. /\ d \notin Range(q)
        /\ \A t \in Holders : data[t] # d /\ t # p /\ data'[t] = data[t]
        /\ data'[p] = d /\ d # None
    BY <2>1, <2>2 DEF OneOwner, Holders
  <2>4. Range(q)' = Range(q) /\ IsInjective(q)' = IsInjective(q)
    BY <1>7 DEF Produce, Range, IsInjective
  <2>5. \A t \in Threads : data'[t] # None <=> t \in Holders'
    BY <2>1, <2>2, <2>3 DEF OneOwner
  <2>6. live' = {data'[t] : t \in Holders'} \cup Range(q')
    BY <2>1, <2>2, <2>3, <1>7 DEF OneOwner, Produce
  <2> QED
    BY <1>7, <2>1, <2>2, <2>3, <2>4, <2>5, <2>6 DEF OneOwner, Produce
<1>8. ASSUME NEW p \in Producers, PushFull(p) PROVE OneOwner'
  <2>1. Holders' = Holders
    BY <1>8 DEF PushFull, NotifyConsume, SignalAndGoto, Goto, empty, Holders, Pushing, Popped
  <2> QED
    BY <1>8, <2>1, OwnerFrame DEF PushFull
<1>9. ASSUME NEW p \in Producers, PushInsert(p) PROVE OneOwner'
  <2> DEFINE d == data[p]
  <2>1. /\ p \in Holders /\ d \in Items /\ pc[p] = "test"
        /\ data' = [data EXCEPT ![p] = None] /\ q' = Append(q, d)
        /\ pc' = [pc EXCEPT ![p] = "notify"] /\ live' = live
    BY <1>9 DEF PushInsert, Goto, OneOwner, Holders, Pushing, Popped
  <2>2. Holders' = Holders \ {p}
    BY <2>1 DEF Holders, Pushing, Popped
  <2>3. /\ Range(q') = Range(q) \cup {d}
        /\ Len(q') = Len(q) + 1
        /\ \A i \in 1..Len(q) : q'[i] = q[i]
        /\ q'[Len(q) + 1] = d
    BY <2>1, AppendType
  <2>4. \A t \in Holders' : data'[t] = data[t] /\ data[t] # d /\ t # p
    BY <2>1, <2>2 DEF OneOwner, Holders
  <2>5. live' = {data'[t] : t \in Holders'} \cup Range(q')
    BY <2>1, <2>2, <2>3, <2>4 DEF OneOwner
  <2>6. IsInjective(q')
    <3>1. d \notin Range(q)
      BY <2>1 DEF OneOwner
    <3>2. \A i \in 1..Len(q) : q[i] # d
      BY <3>1 DEF Range
    <3>3. DOMAIN q' = 1..(Len(q) + 1) /\ DOMAIN q = 1..Len(q) /\ Len(q) \in Nat
      BY <2>1, <2>3
    <3> QED
      BY <2>3, <3>2, <3>3 DEF OneOwner, IsInjective
  <2>7. \A t \in Threads : data'[t] # None <=> t \in Holders'
    BY <2>1, <2>2 DEF OneOwner
  <2>8. \A t \in Holders' : data'[t] \notin Range(q')
    BY <2>2, <2>3, <2>4 DEF OneOwner
  <2>9. \A s, t \in Holders' : data'[s] = data'[t] => s = t
    BY <2>2, <2>4 DEF OneOwner
  <2> HIDE DEF d
  <2> QED
    BY <2>5, <2>6, <2>7, <2>8, <2>9 DEF OneOwner, Range, IsInjective
<1>10. ASSUME NEW p \in Producers, PushNotify(p) PROVE OneOwner'
  <2>1. Holders' = Holders
    BY <1>10 DEF PushNotify, NotifyConsume, SignalAndGoto, Goto, empty, Holders, Pushing, Popped
  <2> QED
    BY <1>10, <2>1, OwnerFrame DEF PushNotify
<1>11. ASSUME NEW c \in Consumers, PopEmpty(c) PROVE OneOwner'
  <2>1. Holders' = Holders
    BY <1>11 DEF PopEmpty, NotifyProduct, SignalAndGoto, Goto, full, Holders, Pushing, Popped
  <2> QED
    BY <1>11, <2>1, OwnerFrame DEF PopEmpty
<1>12. ASSUME NEW c \in Consumers, PopRemove(c) PROVE OneOwner'
  <2> DEFINE h == Head(q)
             r == Tail(q)
  <2>1. /\ pc[c] = "test" /\ Len(q) # 0
        /\ data' = [data EXCEPT ![c] = h] /\ q' = r
        /\ pc' = [pc EXCEPT ![c] = "notify"] /\ live' = live
    BY <1>12 DEF PopRemove, IsEmpty, Goto
  <2>2. /\ h \in Items /\ r \in Seq(Items)
        /\ Range(q) = Range(r) \cup {h}
        /\ IsInjective(r) /\ h \notin Range(r)
    BY <2>1, TailType DEF OneOwner
  <2> HIDE DEF h, r
  <2>3. Holders' = Holders \cup {c} /\ c \notin Holders
    BY <2>1 DEF Holders, Pushing, Popped
  <2>4. /\ data'[c] = h
        /\ \A t \in Holders : data'[t] = data[t] /\ t # c /\ data[t] # h
        /\ \A t \in Holders : data[t] \notin Range(r)
    BY <2>1, <2>2, <2>3 DEF OneOwner, Holders
  <2>5. live' = {data'[t] : t \in Holders'} \cup Range(q')
    BY <2>1, <2>2, <2>3, <2>4 DEF OneOwner
  <2>6. \A t \in Threads : data'[t] # None <=> t \in Holders'
    BY <2>1, <2>2, <2>3 DEF OneOwner
  <2> QED
    BY <2>1, <2>2, <2>3, <2>4, <2>5, <2>6 DEF OneOwner
<1>13. ASSUME NEW c \in Consumers, PopNotify(c) PROVE OneOwner'
  <2>1. Holders' = Holders
    BY <1>13 DEF PopNotify, NotifyProduct, SignalAndGoto, Goto, full, Holders, Pushing, Popped
  <2> QED
    BY <1>13, <2>1, OwnerFrame DEF PopNotify
<1>14. ASSUME NEW c \in Consumers, Process(c) PROVE OneOwner'
  <2>1. Holders' = Holders \ {c} /\ c \in Holders
    BY <1>14 DEF Process, Goto, Holders, Pushing, Popped
  <2>2. \A t \in Holders' : data'[t] = data[t] /\ data[t] # data[c]
    BY <1>14, <2>1 DEF Process, OneOwner, Holders
  <2>3. live' = {data'[t] : t \in Holders'} \cup Range(q')
    BY <1>14, <2>1, <2>2 DEF Process, OneOwner
  <2>4. \A t \in Threads : data'[t] # None <=> t \in Holders'
    BY <1>14, <2>1 DEF Process, OneOwner
  <2> QED
    BY <1>14, <2>1, <2>2, <2>3, <2>4 DEF Process, OneOwner
<1> QED
  BY <1>1, <1>2, <1>3, <1>4, <1>5, <1>6, <1>7, <1>8, <1>9, <1>10, <1>11,
     <1>12, <1>13, <1>14 DEF Next, PushData, PopData
-----------------------------------------------------------------------------
(* WakeupsSuffice.                                                         *)

LEMMA CountType ==
    ASSUME NEW S, IsFiniteSet(S)
    PROVE  /\ IsFiniteSet(OnTheWay(S)) /\ Cardinality(OnTheWay(S)) \in Nat
           /\ IsFiniteSet(Owing(S)) /\ Cardinality(Owing(S)) \in Nat
<1>1. OnTheWay(S) \subseteq S /\ Owing(S) \subseteq S
  BY DEF OnTheWay, Owing
<1> QED
  BY <1>1, FS_Subset, FS_CardinalityType

(* One element more or one less.                                           *)
LEMMA OneMore ==
    ASSUME NEW S, IsFiniteSet(S), NEW x, x \notin S
    PROVE  /\ IsFiniteSet(S \cup {x})
           /\ Cardinality(S \cup {x}) = Cardinality(S) + 1
BY FS_AddElement

LEMMA OneLess ==
    ASSUME NEW S, IsFiniteSet(S), NEW x \in S
    PROVE  /\ IsFiniteSet(S \ {x})
           /\ Cardinality(S \ {x}) = Cardinality(S) - 1
BY FS_RemoveElement

LEMMA WakeupsInit == Init => WakeupsSuffice
BY DEF Init, WakeupsSuffice, empty, full, Threads

LEMMA WakeupsStep == Locking /\ WakeupsSuffice /\ [Next]_vars => WakeupsSuffice'
<1> SUFFICES ASSUME Locking, WakeupsSuffice, [Next]_vars PROVE WakeupsSuffice'
  OBVIOUS
<1> DEFINE cw == OnTheWay(Consumers)
           pw == OnTheWay(Producers)
           co == Owing(Consumers)
           po == Owing(Producers)
<1> USE DEF Locking, TypeOK, Critical, Threads
<1>a. /\ IsFiniteSet(cw) /\ Cardinality(cw) \in Nat
      /\ IsFiniteSet(pw) /\ Cardinality(pw) \in Nat
      /\ IsFiniteSet(co) /\ Cardinality(co) \in Nat
      /\ IsFiniteSet(po) /\ Cardinality(po) \in Nat
      /\ Len(q) \in Nat /\ Cap \in Nat /\ Producers \cap Consumers = {}
  BY CountType, ThreadsAssumption, CapAssumption
(* Nothing changes that the counts depend on.                              *)
<1>b. ASSUME UNCHANGED q, cw' = cw, pw' = pw, co' = co, po' = po,
             empty' \subseteq empty, full' \subseteq full
      PROVE  WakeupsSuffice'
  BY <1>a, <1>b DEF WakeupsSuffice
(* A thread joins those on their way, and no thread goes to sleep.         *)
<1>c. ASSUME UNCHANGED q, NEW t,
             \/ t \notin cw /\ cw' = cw \cup {t} /\ pw' = pw
             \/ t \notin pw /\ pw' = pw \cup {t} /\ cw' = cw,
             co' = co, po' = po, empty' \subseteq empty, full' \subseteq full
      PROVE  WakeupsSuffice'
  <2>0. \/ t \notin cw /\ cw' = cw \cup {t} /\ pw' = pw
        \/ t \notin pw /\ pw' = pw \cup {t} /\ cw' = cw
    BY <1>c
  <2>1. Cardinality(cw') \in Nat /\ Cardinality(cw') >= Cardinality(cw)
    <3>1. cw' = cw \/ Cardinality(cw') = Cardinality(cw) + 1
      BY <1>a, <2>0, OneMore
    <3> QED
      BY <1>a, <3>1
  <2>2. Cardinality(pw') \in Nat /\ Cardinality(pw') >= Cardinality(pw)
    <3>1. pw' = pw \/ Cardinality(pw') = Cardinality(pw) + 1
      BY <1>a, <2>0, OneMore
    <3> QED
      BY <1>a, <3>1
  <2> QED
    BY <1>a, <1>c, <2>1, <2>2 DEF WakeupsSuffice
<1>1. CASE UNCHANGED vars
  BY <1>1, <1>b DEF vars, OnTheWay, Owing, full, empty
<1>2. ASSUME NEW t \in Threads, Spurious(t) PROVE WakeupsSuffice'
  <2>1. /\ UNCHANGED q /\ co' = co /\ po' = po
        /\ empty' \subseteq empty /\ full' \subseteq full
    BY <1>2 DEF Spurious, Goto, OnTheWay, Owing, full, empty
  <2>2. CASE t \in Consumers
    <3>1. t \notin cw /\ cw' = cw \cup {t} /\ pw' = pw
      BY <1>2, <1>a, <2>2 DEF Spurious, Goto, OnTheWay, Owing, full, empty
    <3> QED
      BY <1>c, <2>1, <3>1
  <2>3. CASE t \in Producers
    <3>1. t \notin pw /\ pw' = pw \cup {t} /\ cw' = cw
      BY <1>2, <1>a, <2>3 DEF Spurious, Goto, OnTheWay, Owing, full, empty
    <3> QED
      BY <1>c, <2>1, <3>1
  <2> QED
    BY <2>2, <2>3
<1>3. ASSUME NEW t \in Threads, LockQueue(t) PROVE WakeupsSuffice'
  <2>1. /\ UNCHANGED q /\ cw' = cw /\ pw' = pw /\ co' = co /\ po' = po
        /\ empty' = empty /\ full' = full
    BY <1>3 DEF LockQueue, Goto, OnTheWay, Owing, full, empty
  <2> QED
    BY <1>b, <2>1
<1>4. ASSUME NEW c \in Consumers, CondWait(c) PROVE WakeupsSuffice'
  <2>1. /\ Len(q) = 0 /\ q' = q /\ cw' = cw /\ pw' = pw /\ co' = co /\ po' = po
        /\ full' = full
    BY <1>4, <1>a DEF CondWait, Goto, OnTheWay, Owing, full, empty, WaitGuard, IsEmpty
  <2> QED
    BY <1>a, <2>1 DEF WakeupsSuffice
<1>5. ASSUME NEW p \in Producers, CondWait(p) PROVE WakeupsSuffice'
  <2>1. /\ Len(q) = Cap /\ q' = q /\ cw' = cw /\ pw' = pw /\ co' = co /\ po' = po
        /\ empty' = empty
    BY <1>5, <1>a DEF CondWait, Goto, OnTheWay, Owing, full, empty, WaitGuard, IsFull
  <2> QED
    BY <1>a, <2>1 DEF WakeupsSuffice
<1>6. ASSUME NEW t \in Threads, NEW l \in {"idle", "process"}, UnlockQueue(t, l)
      PROVE  WakeupsSuffice'
  <2>1. /\ UNCHANGED q /\ cw' = cw /\ pw' = pw /\ co' = co /\ po' = po
        /\ empty' = empty /\ full' = full
    BY <1>6 DEF UnlockQueue, Goto, OnTheWay, Owing, full, empty
  <2> QED
    BY <1>b, <2>1
<1>7. ASSUME NEW p \in Producers, Produce(p) PROVE WakeupsSuffice'
  <2>1. /\ UNCHANGED q /\ co' = co /\ po' = po /\ empty' = empty /\ full' = full
        /\ p \notin pw /\ pw' = pw \cup {p} /\ cw' = cw
    BY <1>7, <1>a DEF Produce, Goto, OnTheWay, Owing, full, empty
  <2> QED
    BY <1>c, <2>1
<1>8. ASSUME NEW p \in Producers, PushFull(p) PROVE WakeupsSuffice'
  <2>1. Len(q) = Cap /\ q' = q /\ Len(q') = Cap /\ po' = po /\ co' = co
    BY <1>8, <1>a DEF PushFull, NotifyConsume, SignalAndGoto, Goto, OnTheWay, Owing, full, empty, IsFull
  <2>2. empty' = {} \/ \E w \in Consumers : w \notin cw /\ cw' = cw \cup {w}
    BY <1>8, <1>a DEF PushFull, NotifyConsume, SignalAndGoto, Goto, OnTheWay, Owing, full, empty
  <2>3. pw' = pw \ {p} /\ p \in pw /\ empty' \subseteq empty
    BY <1>8, <1>a DEF PushFull, NotifyConsume, SignalAndGoto, Goto, OnTheWay, Owing, full, empty
  <2>4. Cardinality(pw') \in Nat
    BY <1>a, <2>3, OneLess, FS_CardinalityType
  <2>5. empty' = {} \/ (Cardinality(cw') = Cardinality(cw) + 1)
    BY <1>a, <2>2, OneMore
  <2> QED
    BY <1>a, <2>1, <2>3, <2>4, <2>5 DEF WakeupsSuffice
<1>9. ASSUME NEW p \in Producers, PushInsert(p) PROVE WakeupsSuffice'
  <2>1. /\ q' = Append(q, data[p]) /\ Len(q') = Len(q) + 1
        /\ pc[p] = "test" /\ pc' = [pc EXCEPT ![p] = "notify"]
    <3>1. data[p] \in Items
      BY <1>9 DEF PushInsert, HoldersHold, Holders, Pushing
    <3> QED
      BY <1>9, <3>1, AppendType DEF PushInsert, Goto
  <2>2. /\ cw' = cw /\ co' = co /\ empty' = empty /\ full' = full
        /\ p \in pw /\ pw' = pw \ {p} /\ p \notin po /\ po' = po \cup {p}
    BY <1>a, <2>1 DEF OnTheWay, Owing, full, empty
  <2>3. /\ Cardinality(pw') = Cardinality(pw) - 1
        /\ Cardinality(po') = Cardinality(po) + 1
    BY <1>a, <2>2, OneMore, OneLess
  <2> QED
    BY <1>a, <2>1, <2>2, <2>3 DEF WakeupsSuffice
<1>10. ASSUME NEW p \in Producers, PushNotify(p) PROVE WakeupsSuffice'
  <2>1. q' = q /\ pw' = pw /\ co' = co /\ full' = full /\ empty' \subseteq empty
    BY <1>10, <1>a DEF PushNotify, NotifyConsume, SignalAndGoto, Goto, OnTheWay, Owing, full, empty
  <2>2. p \in po /\ po' = po \ {p}
    BY <1>10, <1>a DEF PushNotify, NotifyConsume, SignalAndGoto, Goto, OnTheWay, Owing, full, empty
  <2>3. empty' = {} \/ \E w \in Consumers : w \notin cw /\ cw' = cw \cup {w}
    BY <1>10, <1>a DEF PushNotify, NotifyConsume, SignalAndGoto, Goto, OnTheWay, Owing, full, empty
  <2>4. Cardinality(po') = Cardinality(po) - 1
    BY <1>a, <2>2, OneLess
  <2>5. empty' = {} \/ (Cardinality(cw') = Cardinality(cw) + 1)
    BY <1>a, <2>3, OneMore
  <2> QED
    BY <1>a, <2>1, <2>4, <2>5 DEF WakeupsSuffice
<1>11. ASSUME NEW c \in Consumers, PopEmpty(c) PROVE WakeupsSuffice'
  <2>1. Len(q) = 0 /\ q' = q /\ Len(q') = 0 /\ po' = po /\ co' = co
    BY <1>11, <1>a DEF PopEmpty, NotifyProduct, SignalAndGoto, Goto, OnTheWay, Owing, full, empty, IsEmpty
  <2>2. full' = {} \/ \E w \in Producers : w \notin pw /\ pw' = pw \cup {w}
    BY <1>11, <1>a DEF PopEmpty, NotifyProduct, SignalAndGoto, Goto, OnTheWay, Owing, full, empty
  <2>3. cw' = cw \ {c} /\ c \in cw /\ full' \subseteq full
    BY <1>11, <1>a DEF PopEmpty, NotifyProduct, SignalAndGoto, Goto, OnTheWay, Owing, full, empty
  <2>4. Cardinality(cw') \in Nat
    BY <1>a, <2>3, OneLess, FS_CardinalityType
  <2>5. full' = {} \/ (Cardinality(pw') = Cardinality(pw) + 1)
    BY <1>a, <2>2, OneMore
  <2> QED
    BY <1>a, <2>1, <2>3, <2>4, <2>5 DEF WakeupsSuffice
<1>12. ASSUME NEW c \in Consumers, PopRemove(c) PROVE WakeupsSuffice'
  <2>1. /\ Len(q) # 0 /\ Len(q') = Len(q) - 1
        /\ pc[c] = "test" /\ pc' = [pc EXCEPT ![c] = "notify"]
    BY <1>12, TailType DEF PopRemove, IsEmpty, Goto
  <2>2. /\ pw' = pw /\ po' = po /\ empty' = empty /\ full' = full
        /\ c \in cw /\ cw' = cw \ {c} /\ c \notin co /\ co' = co \cup {c}
    BY <1>a, <2>1 DEF OnTheWay, Owing, full, empty
  <2>3. /\ Cardinality(cw') = Cardinality(cw) - 1
        /\ Cardinality(co') = Cardinality(co) + 1
    BY <1>a, <2>2, OneMore, OneLess
  <2> QED
    BY <1>a, <2>1, <2>2, <2>3 DEF WakeupsSuffice
<1>13. ASSUME NEW c \in Consumers, PopNotify(c) PROVE WakeupsSuffice'
  <2>1. q' = q /\ cw' = cw /\ po' = po /\ empty' = empty /\ full' \subseteq full
    BY <1>13, <1>a DEF PopNotify, NotifyProduct, SignalAndGoto, Goto, OnTheWay, Owing, full, empty
  <2>2. c \in co /\ co' = co \ {c}
    BY <1>13, <1>a DEF PopNotify, NotifyProduct, SignalAndGoto, Goto, OnTheWay, Owing, full, empty
  <2>3. full' = {} \/ \E w \in Producers : w \notin pw /\ pw' = pw \cup {w}
    BY <1>13, <1>a DEF PopNotify, NotifyProduct, SignalAndGoto, Goto, OnTheWay, Owing, full, empty
  <2>4. Cardinality(co') = Cardinality(co) - 1
    BY <1>a, <2>2, OneLess
  <2>5. full' = {} \/ (Cardinality(pw') = Cardinality(pw) + 1)
    BY <1>a, <2>3, OneMore
  <2> QED
    BY <1>a, <2>1, <2>4, <2>5 DEF WakeupsSuffice
<1>14. ASSUME NEW c \in Consumers, Process(c) PROVE WakeupsSuffice'
  <2>1. /\ UNCHANGED q /\ co' = co /\ po' = po /\ empty' = empty /\ full' = full
        /\ c \notin cw /\ cw' = cw \cup {c} /\ pw' = pw
    BY <1>14, <1>a DEF Process, Goto, OnTheWay, Owing, full, empty
  <2> QED
    BY <1>c, <2>1
<1> QED
  BY <1>1, <1>2, <1>3, <1>4, <1>5, <1>6, <1>7, <1>8, <1>9, <1>10, <1>11,
     <1>12, <1>13, <1>14 DEF Next, PushData, PopData
-----------------------------------------------------------------------------
(* Refinement: every step is a step of BoundedFifo or leaves it unchanged. *)

LEMMA FifoInit == Init => Fifo!Init
BY ThreadsAssumption
   DEF Init, Fifo!Init, phaseBar, Threads, Fifo!Threads

(* A step of thread t that keeps every thread in the same phase stutters.  *)
LEMMA FifoStutter ==
    ASSUME UNCHANGED <<q, data>>, phaseBar' = phaseBar
    PROVE  UNCHANGED Fifo!vars
BY DEF Fifo!vars

LEMMA FifoStep == Locking /\ OneOwner /\ [Next]_vars => [Fifo!Next]_(Fifo!vars)
<1> SUFFICES ASSUME Locking, OneOwner, [Next]_vars PROVE [Fifo!Next]_(Fifo!vars)
  OBVIOUS
<1> USE ThreadsAssumption DEF Locking, TypeOK, Critical, Threads
<1>1. CASE UNCHANGED vars
  BY <1>1, FifoStutter DEF vars, phaseBar
<1>2. ASSUME NEW t \in Threads, Spurious(t) PROVE UNCHANGED Fifo!vars
  <2>1. phaseBar' = phaseBar
    BY <1>2 DEF Spurious, Goto, phaseBar
  <2> QED
    BY <1>2, <2>1, FifoStutter DEF Spurious
<1>3. ASSUME NEW t \in Threads, LockQueue(t) PROVE UNCHANGED Fifo!vars
  <2>1. phaseBar' = phaseBar
    BY <1>3 DEF LockQueue, Goto, phaseBar
  <2> QED
    BY <1>3, <2>1, FifoStutter DEF LockQueue
<1>4. ASSUME NEW t \in Threads, CondWait(t) PROVE UNCHANGED Fifo!vars
  <2>1. phaseBar' = phaseBar
    BY <1>4 DEF CondWait, Goto, phaseBar
  <2> QED
    BY <1>4, <2>1, FifoStutter DEF CondWait
<1>5. ASSUME NEW p \in Producers, UnlockQueue(p, "idle") PROVE Fifo!ReturnPush(p)
  <2>1. phaseBar[p] = "done" /\ phaseBar' = [phaseBar EXCEPT ![p] = "idle"]
    BY <1>5 DEF UnlockQueue, Goto, phaseBar
  <2> QED
    BY <1>5, <2>1 DEF UnlockQueue, Fifo!ReturnPush
<1>6. ASSUME NEW c \in Consumers, UnlockQueue(c, "process") PROVE UNCHANGED Fifo!vars
  <2>1. phaseBar' = phaseBar
    BY <1>6 DEF UnlockQueue, Goto, phaseBar
  <2> QED
    BY <1>6, <2>1, FifoStutter DEF UnlockQueue
<1>7. ASSUME NEW p \in Producers, Produce(p) PROVE Fifo!CallPush(p)
  <2>1. phaseBar[p] = "idle" /\ phaseBar' = [phaseBar EXCEPT ![p] = "pending"]
    BY <1>7 DEF Produce, Goto, phaseBar
  <2>2. Fifo!HeldItems \cup Range(q) \subseteq live
    <3>1. \A t \in Threads : data[t] # None => data[t] \in live
      BY DEF OneOwner
    <3>2. Range(q) \subseteq live
      BY DEF OneOwner
    <3> QED
      BY <3>1, <3>2 DEF Fifo!HeldItems, Fifo!Threads
  <2>3. PICK d \in Items \ live : data' = [data EXCEPT ![p] = d]
    BY <1>7 DEF Produce
  <2>4. d \in Items \ (Fifo!HeldItems \cup Fifo!Range(q))
    BY <2>2, <2>3 DEF Fifo!Range, Range
  <2> QED
    BY <1>7, <2>1, <2>3, <2>4 DEF Produce, Fifo!CallPush
<1>8. ASSUME NEW p \in Producers, PushFull(p) PROVE UNCHANGED Fifo!vars
  <2>1. phaseBar' = phaseBar
    BY <1>8 DEF PushFull, NotifyConsume, SignalAndGoto, Goto, empty, phaseBar
  <2> QED
    BY <1>8, <2>1, FifoStutter DEF PushFull
<1>9. ASSUME NEW p \in Producers, PushInsert(p) PROVE Fifo!Push(p)
  <2>1. phaseBar[p] = "pending" /\ phaseBar' = [phaseBar EXCEPT ![p] = "done"]
    BY <1>9 DEF PushInsert, Goto, phaseBar
  <2>2. Len(q) < Cap
    BY <1>9, CapAssumption DEF PushInsert, IsFull
  <2> QED
    BY <1>9, <2>1, <2>2 DEF PushInsert, Fifo!Push
<1>10. ASSUME NEW p \in Producers, PushNotify(p) PROVE UNCHANGED Fifo!vars
  <2>1. phaseBar' = phaseBar
    BY <1>10 DEF PushNotify, NotifyConsume, SignalAndGoto, Goto, empty, phaseBar
  <2> QED
    BY <1>10, <2>1, FifoStutter DEF PushNotify
<1>11. ASSUME NEW c \in Consumers, PopEmpty(c) PROVE UNCHANGED Fifo!vars
  <2>1. phaseBar' = phaseBar
    BY <1>11 DEF PopEmpty, NotifyProduct, SignalAndGoto, Goto, full, phaseBar
  <2> QED
    BY <1>11, <2>1, FifoStutter DEF PopEmpty
<1>12. ASSUME NEW c \in Consumers, PopRemove(c) PROVE Fifo!Pop(c)
  <2>1. phaseBar[c] = "pending" /\ phaseBar' = [phaseBar EXCEPT ![c] = "done"]
    BY <1>12 DEF PopRemove, Goto, phaseBar
  <2>2. q # <<>>
    BY <1>12 DEF PopRemove, IsEmpty
  <2> QED
    BY <1>12, <2>1, <2>2 DEF PopRemove, Fifo!Pop
<1>13. ASSUME NEW c \in Consumers, PopNotify(c) PROVE UNCHANGED Fifo!vars
  <2>1. phaseBar' = phaseBar
    BY <1>13 DEF PopNotify, NotifyProduct, SignalAndGoto, Goto, full, phaseBar
  <2> QED
    BY <1>13, <2>1, FifoStutter DEF PopNotify
<1>14. ASSUME NEW c \in Consumers, Process(c) PROVE Fifo!Finish(c)
  <2>1. phaseBar[c] = "done" /\ phaseBar' = [phaseBar EXCEPT ![c] = "pending"]
    BY <1>14 DEF Process, Goto, phaseBar
  <2> QED
    BY <1>14, <2>1 DEF Process, Fifo!Finish
<1> QED
  BY <1>1, <1>2, <1>3, <1>4, <1>5, <1>6, <1>7, <1>8, <1>9, <1>10, <1>11,
     <1>12, <1>13, <1>14 DEF Next, PushData, PopData, Fifo!Next

-----------------------------------------------------------------------------
(* The theorems.                                                           *)

(* The types hold; the length of the queue never leaves 0..Cap although    *)
(* IsFull tests for equality only.                                         *)
THEOREM TypeCorrect == Spec => []TypeOK
<1>1. Locking => TypeOK
  BY DEF Locking
<1> QED
  BY LockingInit, LockingStep, <1>1, PTL DEF Spec

(* Each path of PushData and PopData takes the mutex once and gives it     *)
(* back, so two threads are never between LockQueue and UnlockQueue.       *)
THEOREM MutualExclusion == Spec => []MutexIffCritical
<1>1. Locking => MutexIffCritical
  BY DEF Locking
<1> QED
  BY LockingInit, LockingStep, <1>1, PTL DEF Spec

(* Message objects are neither lost nor leaked, duplicated or deleted while*)
(* another thread can reach them.                                          *)
THEOREM Ownership == Spec => []OneOwner
BY LockingInit, LockingStep, OwnerInit, OwnerStep, PTL DEF Spec

(* One signal per insertion and per removal is enough, whatever the number *)
(* of sleeping threads: no wakeup is lost.                                 *)
THEOREM NoLostWakeup == Spec => []WakeupsSuffice
BY LockingInit, LockingStep, WakeupsInit, WakeupsStep, PTL DEF Spec

(* When all consumers sleep and no producer owes a signal, the queue is    *)
(* empty; when all producers sleep and no consumer owes one, it is full.   *)
SleepWithReason ==
    /\ Consumers # {} /\ empty = Consumers /\ Owing(Producers) = {} => IsEmpty
    /\ Producers # {} /\ full = Producers /\ Owing(Consumers) = {} => IsFull

LEMMA AsleepNotOnTheWay ==
    /\ empty = Consumers => OnTheWay(Consumers) = {} /\ Owing(Consumers) = {}
    /\ full = Producers => OnTheWay(Producers) = {} /\ Owing(Producers) = {}
<1>1. ASSUME empty = Consumers PROVE \A c \in Consumers : pc[c] = "waiting"
  BY <1>1 DEF empty
<1>2. ASSUME full = Producers PROVE \A p \in Producers : pc[p] = "waiting"
  BY <1>2 DEF full
<1> QED
  BY <1>1, <1>2 DEF OnTheWay, Owing

LEMMA SleepersHaveReason == TypeOK /\ WakeupsSuffice => SleepWithReason
<1> SUFFICES ASSUME TypeOK, WakeupsSuffice PROVE SleepWithReason
  OBVIOUS
<1>1. Cardinality({}) = 0 /\ Len(q) \in 0..Cap /\ Cap \in Nat
  BY FS_EmptySet, CapAssumption DEF TypeOK
<1>2. ASSUME Consumers # {}, empty = Consumers, Owing(Producers) = {} PROVE IsEmpty
  <2>1. Len(q) <= 0 + 0
    BY <1>1, <1>2, AsleepNotOnTheWay DEF WakeupsSuffice
  <2> QED
    BY <1>1, <2>1 DEF IsEmpty
<1>3. ASSUME Producers # {}, full = Producers, Owing(Consumers) = {} PROVE IsFull
  <2>1. Cap - Len(q) <= 0 + 0
    BY <1>1, <1>3, AsleepNotOnTheWay DEF WakeupsSuffice
  <2> QED
    BY <1>1, <2>1 DEF IsFull
<1> QED
  BY <1>2, <1>3 DEF SleepWithReason

(* Nobody sleeps without a reason: while all threads of a side are asleep  *)
(* the queue gives them nothing to do, but for a signal about to be sent.  *)
THEOREM NobodySleepsForNothing == Spec => []SleepWithReason
<1>1. Locking /\ WakeupsSuffice => SleepWithReason
  BY SleepersHaveReason DEF Locking
<1> QED
  BY LockingInit, LockingStep, WakeupsInit, WakeupsStep, <1>1, PTL DEF Spec

(* PushData and PopData cannot wait for each other: the threads are never  *)
(* all asleep.                                                             *)
THEOREM NeverAllAsleep ==
    ASSUME Producers # {}, Consumers # {}
    PROVE  Spec => []~(full = Producers /\ empty = Consumers)
<1>1. Locking /\ SleepWithReason => ~(full = Producers /\ empty = Consumers)
  <2> SUFFICES ASSUME SleepWithReason, full = Producers, empty = Consumers PROVE FALSE
    OBVIOUS
  <2>1. IsEmpty /\ IsFull
    BY AsleepNotOnTheWay DEF SleepWithReason
  <2> QED
    BY <2>1, CapAssumption DEF IsEmpty, IsFull
<1> QED
  BY LockingInit, LockingStep, NobodySleepsForNothing, <1>1, PTL DEF Spec

(* BlockQueue implements the bounded FIFO.                                 *)
THEOREM Refinement == Spec => ImplementsFifo
<1>1. Spec => [](Locking /\ OneOwner)
  BY LockingInit, LockingStep, OwnerInit, OwnerStep, PTL DEF Spec
<1> QED
  BY <1>1, FifoInit, FifoStep, PTL DEF Spec, ImplementsFifo, Fifo!Spec

-----------------------------------------------------------------------------
(* The size of the heap.                                                   *)

(* A function that maps no two arguments to the same value has as many     *)
(* values as arguments.                                                    *)
LEMMA InjectiveCount ==
    ASSUME NEW S, IsFiniteSet(S), NEW f, f = [x \in S |-> f[x]],
           \A x, y \in S : f[x] = f[y] => x = y
    PROVE  /\ IsFiniteSet({f[x] : x \in S})
           /\ Cardinality({f[x] : x \in S}) = Cardinality(S)
<1> DEFINE T == {f[x] : x \in S}
<1>1. f \in Surjection(S, T) /\ f \in Injection(S, T)
  BY DEF Surjection, Injection, IsInjective
<1> QED
  BY <1>1, FS_Surjection

LEMMA HeapCount ==
    ASSUME TypeOK, OneOwner
    PROVE  IsFiniteSet(live) /\ Cardinality(live) = Len(q) + Cardinality(Holders)
<1> DEFINE H == {data[t] : t \in Holders}
<1>1. Holders \subseteq Threads /\ IsFiniteSet(Holders) /\ Cardinality(Holders) \in Nat
  <2>1. IsFiniteSet(Threads) /\ Holders \subseteq Threads
    BY ThreadsAssumption, FS_Union DEF Threads, Holders
  <2> QED
    BY <2>1, FS_Subset, FS_CardinalityType
<1>2. IsFiniteSet(H) /\ Cardinality(H) = Cardinality(Holders)
  <2> DEFINE f == [t \in Holders |-> data[t]]
  <2>1. f = [t \in Holders |-> f[t]] /\ \A s, t \in Holders : f[s] = f[t] => s = t
    BY DEF OneOwner
  <2>2. {f[t] : t \in Holders} = H
    OBVIOUS
  <2> HIDE DEF f
  <2> QED
    BY <1>1, <2>1, <2>2, InjectiveCount
<1>3. IsFiniteSet(Range(q)) /\ Cardinality(Range(q)) = Len(q)
  <2>1. Len(q) \in Nat /\ DOMAIN q = 1..Len(q) /\ q = [j \in 1..Len(q) |-> q[j]]
    BY DEF TypeOK
  <2>2. IsFiniteSet(1..Len(q)) /\ Cardinality(1..Len(q)) = Len(q)
    BY <2>1, FS_Interval
  <2>3. \A x, y \in 1..Len(q) : q[x] = q[y] => x = y
    BY <2>1 DEF OneOwner, IsInjective
  <2>4. Range(q) = {q[j] : j \in 1..Len(q)}
    BY <2>1 DEF Range
  <2> QED
    BY <2>1, <2>2, <2>3, <2>4, InjectiveCount
<1>4. live = H \cup Range(q) /\ H \cap Range(q) = {}
  BY DEF OneOwner
<1>5. Cardinality({}) = 0 /\ Len(q) \in Nat
  BY FS_EmptySet DEF TypeOK
<1> HIDE DEF H
<1> QED
  <2>1. /\ IsFiniteSet(H \cup Range(q))
        /\ Cardinality(H \cup Range(q)) =
              Cardinality(H) + Cardinality(Range(q)) - Cardinality(H \cap Range(q))
    BY <1>2, <1>3, FS_Union
  <2>2. IsFiniteSet(live)
    BY <1>4, <2>1
  <2>3. Cardinality(live) = Len(q) + Cardinality(Holders)
    <3>1. Cardinality(live) = Cardinality(H) + Cardinality(Range(q)) - Cardinality({})
      BY <1>4, <2>1
    <3> QED
      BY <1>1, <1>2, <1>3, <1>5, <3>1
  <2> QED
    BY <2>2, <2>3

(* However many messages arrive, the heap holds as many objects as are in  *)
(* the queue and in the hands of threads: at most one for each place and   *)
(* one for each thread.                                                    *)
THEOREM HeapIsBounded ==
    Spec => [](/\ Cardinality(live) = Len(q) + Cardinality(Holders)
               /\ Cardinality(live) <= Cap + Cardinality(Threads))
<1>1. TypeOK /\ OneOwner => /\ Cardinality(live) = Len(q) + Cardinality(Holders)
                           /\ Cardinality(live) <= Cap + Cardinality(Threads)
  <2> SUFFICES ASSUME TypeOK, OneOwner
               PROVE  /\ Cardinality(live) = Len(q) + Cardinality(Holders)
                      /\ Cardinality(live) <= Cap + Cardinality(Threads)
    OBVIOUS
  <2>1. IsFiniteSet(Threads) /\ Holders \subseteq Threads
    BY ThreadsAssumption, FS_Union DEF Threads, Holders
  <2>2. /\ Cardinality(Holders) <= Cardinality(Threads)
        /\ Cardinality(Threads) \in Nat /\ Cardinality(Holders) \in Nat
    BY <2>1, FS_Subset, FS_CardinalityType
  <2>3. Len(q) \in 0..Cap
    BY DEF TypeOK
  <2> QED
    BY <2>2, <2>3, HeapCount, CapAssumption
<1> QED
  BY TypeCorrect, Ownership, <1>1, PTL
=============================================================================
