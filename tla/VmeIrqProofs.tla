---------------------------- MODULE VmeIrqProofs ----------------------------
(***************************************************************************)
(* Proofs about VmeIrq for any levels, any files, and any number of        *)
(* interrupt requests and calls: the types, that a level belongs to one    *)
(* process and a vector is given once; and, where every file is used by    *)
(* one thread, that a level a process holds is never left masked and       *)
(* nobody sleeps while his level is pending.                               *)
(***************************************************************************)
EXTENDS VmeIrq, TLAPS

-----------------------------------------------------------------------------
(* The actions *)

\* What a call of thread t can be.
CallOf(t) ==
    \/ \E S \in SUBSET Levels, A \in SUBSET Levels : Ctl(t, S, A)
    \/ CtlAck(t) \/ CtlEnable(t)
    \/ \E S \in SUBSET Levels : Off(t, S)
    \/ OffMask(t) \/ OffRelease(t)
    \/ \E S \in SUBSET Levels : Ack(t, S) \/ Wait(t, S) \/ Get(t, S)
    \/ Interrupted(t)

LEMMA Actions ==
    ASSUME [Next]_vars, \A t \in Threads : arg[t] \in SUBSET Levels
    PROVE  \/ \E l \in Levels : Request(l)
           \/ \E l \in Levels : Ring(l)
           \/ ThreadFetch \/ ThreadTake \/ ThreadHandle \/ ThreadPend
           \/ \E f \in Files : Open(f)
           \/ \E f \in Files : Cleanup(f)
           \/ \E f \in Files : Release(f)
           \/ \E t \in Threads : CallOf(t)
           \/ UNCHANGED vars
<1>1. ASSUME NEW t \in Threads, CallStep(t) PROVE CallOf(t)
  BY <1>1 DEF CallStep, CallOf
<1>2. ASSUME NEW t \in Threads, NewCall(t) PROVE CallOf(t)
  BY <1>2, UsersAssumption DEF NewCall, CallOf
<1> QED BY <1>1, <1>2 DEF Next, ThreadStep, CallOf

-----------------------------------------------------------------------------
(* Types *)

\* There is a highest level.
LEMMA HighestIn ==
    ASSUME NEW V, V \subseteq Levels, V # {}
    PROVE  Highest(V) \in V
<1>1. V \subseteq 1..7
  BY LevelsAssumption
<1>2. \E l \in V : \A k \in V : k =< l
  <2> DEFINE Above(n) == \A k \in V : k =< n
  <2>1. Above(7)
    BY <1>1
  <2>2. ASSUME NEW n \in 2..7, Above(n), n \notin V PROVE Above(n - 1)
    BY <1>1, <2>2
  <2>3. PICK v : v \in V
    OBVIOUS
  <2>4. ~Above(1) \/ 1 \in V
    BY <1>1, <2>3
  <2> HIDE DEF Above
  <2>5. \E n \in 1..7 : n \in V /\ Above(n)
    <3>1. \/ 7 \in V \/ Above(6)
      BY <2>1, <2>2
    <3>2. 7 \in V \/ 6 \in V \/ Above(5)
      BY <3>1, <2>2
    <3> QED BY <2>1, <2>2, <2>4
  <2> QED BY <2>5 DEF Above
<1> QED BY <1>2 DEF Highest

LEMMA BusTypeStep ==
    ASSUME TypeOK, [Next]_vars
    PROVE  BusType'
<1> USE UsersAssumption DEF TypeOK, BusType, UserType
<1>1. ASSUME NEW l \in Levels, Request(l) PROVE BusType'
  <2>1. raised' \in 1..MaxRequests
    BY <1>1 DEF Request
  <2>2. Append(req[l], raised') \in Seq(1..MaxRequests)
    BY <2>1
  <2> QED BY <1>1, <2>1, <2>2 DEF Request
<1>2. CASE ThreadHandle
  <2>1. ASSUME NEW l \in Levels, req[l] # <<>>
        PROVE  Tail(req[l]) \in Seq(1..MaxRequests)
    BY <2>1
  <2> QED BY <1>2, <2>1 DEF ThreadHandle
<1>3. CASE UNCHANGED bus
  BY <1>3 DEF bus
<1> QED
  BY <1>1, <1>2, <1>3, Actions
     DEF vars, Ring, ThreadFetch, ThreadTake, ThreadPend, Open, Cleanup,
         Release, CallOf, Ctl, CtlAck, CtlEnable, Off, OffMask, OffRelease,
         Ack, Wait, Get, Interrupted

LEMMA DriverTypeStep ==
    ASSUME TypeOK, [Next]_vars
    PROVE  DriverType'
<1> USE UsersAssumption DEF TypeOK, DriverType, UserType
<1>1. ASSUME NEW l \in Levels, Ring(l) PROVE DriverType'
  BY <1>1 DEF Ring, thread, info
<1>2. CASE ThreadFetch \/ ThreadTake \/ ThreadHandle \/ ThreadPend
  BY <1>2 DEF ThreadFetch, ThreadTake, ThreadHandle, ThreadPend, isr, info
<1>3. ASSUME NEW t \in Threads, CallOf(t) PROVE DriverType'
  <2>1. ASSUME NEW S \in SUBSET Levels, NEW A \in SUBSET Levels, Ctl(t, S, A)
        PROVE  DriverType'
    BY <2>1 DEF Ctl, isr, thread, info
  <2>2. CASE CtlAck(t)
    BY <2>2 DEF CtlAck, Enable, isr, thread
  <2>3. CASE CtlEnable(t)
    BY <2>3 DEF CtlEnable, Enable, isr, thread, info
  <2>4. ASSUME NEW S \in SUBSET Levels, Off(t, S) PROVE DriverType'
    BY <2>4 DEF Off, isr, thread, info
  <2>5. CASE OffMask(t) \/ OffRelease(t) \/ Interrupted(t)
    BY <2>5 DEF OffMask, OffRelease, Interrupted, Disable, isr, thread, info
  <2>6. ASSUME NEW S \in SUBSET Levels, Ack(t, S) \/ Wait(t, S) \/ Get(t, S)
        PROVE  DriverType'
    BY <2>6 DEF Ack, Wait, Get, Mine, Enable, isr, thread, info
  <2> QED BY <1>3, <2>1, <2>2, <2>3, <2>4, <2>5, <2>6 DEF CallOf
<1>4. ASSUME NEW f \in Files, Open(f) \/ Cleanup(f) \/ Release(f)
      PROVE  DriverType'
  BY <1>4 DEF Open, Cleanup, Release, Disable, isr, thread, info
<1>5. ASSUME NEW l \in Levels, Request(l) PROVE DriverType'
  BY <1>5 DEF Request, isr, thread, info
<1>6. CASE UNCHANGED vars
  BY <1>6 DEF vars, isr, thread, info
<1> QED BY <1>1, <1>2, <1>3, <1>4, <1>5, <1>6, Actions

LEMMA VectorTypeStep ==
    ASSUME TypeOK, [Next]_vars
    PROVE  VectorType'
<1> USE UsersAssumption DEF TypeOK, VectorType, UserType
<1>1. CASE ThreadHandle
  <2>1. ASSUME NEW l \in Levels
        PROVE  Iack(l) \in 1..MaxRequests \union {NoVector}
    BY DEF Iack, BusType
  <2> QED BY <1>1, <2>1 DEF ThreadHandle
<1>2. ASSUME NEW t \in Threads, NEW S \in SUBSET Levels, Get(t, S)
      PROVE  VectorType'
  <2> DEFINE V == Vectors(Mine(t) \cap S)
  <2>1. CASE V = {}
    BY <1>2, <2>1 DEF Get, Report
  <2>2. CASE V # {}
    <3>1. Highest(V) \in Levels
      <4>1. V \subseteq Levels
        BY DEF Vectors, Mine, DriverType
      <4> QED BY <2>2, <4>1, HighestIn
    <3> DEFINE high == Highest(V)
    <3>2. /\ given' = given \union {vects[high].vector}
          /\ vects' = [vects EXCEPT ![high].valid = FALSE]
      BY <1>2, <2>2 DEF Get, Report
    <3>3. vects[high] \in [vector : 1..MaxRequests \union {NoVector},
                           valid : BOOLEAN]
      BY <3>1
    <3> HIDE DEF high
    <3> QED BY <3>2, <3>3
  <2> QED BY <2>1, <2>2
<1>3. CASE UNCHANGED <<vects, given>>
  BY <1>3
<1> QED
  BY <1>1, <1>2, <1>3, Actions
     DEF vars, info, Request, Ring, ThreadFetch, ThreadTake, ThreadPend, Open,
         Cleanup, Release, CallOf, Ctl, CtlAck, CtlEnable, Off, OffMask,
         OffRelease, Ack, Wait, Interrupted

LEMMA UserTypeStep ==
    ASSUME TypeOK, [Next]_vars
    PROVE  UserType'
<1> USE UsersAssumption DEF TypeOK, UserType
<1>1. ASSUME NEW t \in Threads, CallOf(t) PROVE UserType'
  <2>0. FileOf[t] \in Files
    OBVIOUS
  <2>1. ASSUME NEW S \in SUBSET Levels, NEW A \in SUBSET Levels, Ctl(t, S, A)
        PROVE  UserType'
    BY <2>0, <2>1 DEF Ctl
  <2>2. CASE CtlAck(t)
    BY <2>2 DEF CtlAck
  <2>3. CASE CtlEnable(t)
    BY <2>3 DEF CtlEnable, Return
  <2>4. ASSUME NEW S \in SUBSET Levels, Off(t, S) PROVE UserType'
    <3>1. owned[FileOf[t]] \cap S \in SUBSET Levels
      BY <2>0
    <3> QED BY <2>4, <3>1 DEF Off
  <2>5. CASE OffMask(t)
    BY <2>5 DEF OffMask
  <2>6. CASE OffRelease(t)
    BY <2>0, <2>6 DEF OffRelease, Return
  <2>7. CASE Interrupted(t)
    BY <2>7 DEF Interrupted, Return
  <2>8. ASSUME NEW S \in SUBSET Levels, Ack(t, S) \/ Wait(t, S) \/ Get(t, S)
        PROVE  UserType'
    BY <2>8 DEF Ack, Wait, Get, Return, users
  <2> QED BY <1>1, <2>1, <2>2, <2>3, <2>4, <2>5, <2>6, <2>7, <2>8 DEF CallOf
<1>2. ASSUME NEW f \in Files, Open(f) \/ Cleanup(f) \/ Release(f)
      PROVE  UserType'
  BY <1>2 DEF Open, Cleanup, Release, users
<1>3. CASE ThreadPend
  BY <1>3 DEF ThreadPend
<1>4. CASE UNCHANGED <<owned, file, users>>
  BY <1>4 DEF users
<1> QED
  BY <1>1, <1>2, <1>3, <1>4, Actions
     DEF vars, Request, Ring, ThreadFetch, ThreadTake, ThreadHandle

LEMMA TypesInit == Init => TypeOK
<1> SUFFICES ASSUME Init PROVE TypeOK
  OBVIOUS
<1> USE UsersAssumption DEF Init
<1>1. BusType
  BY DEF BusType
<1>2. DriverType
  BY DEF DriverType
<1>3. VectorType
  BY DEF VectorType
<1>4. UserType
  BY DEF UserType
<1> QED BY <1>1, <1>2, <1>3, <1>4 DEF TypeOK

LEMMA TypesStep == TypeOK /\ [Next]_vars => TypeOK'
  BY BusTypeStep, DriverTypeStep, VectorTypeStep, UserTypeStep DEF TypeOK

\* Everything keeps its type.  The vectors are those of requests that have
\* been made, or NoVector.
THEOREM TypesHold == Spec => []TypeOK
  BY TypesInit, TypesStep, PTL DEF Spec

-----------------------------------------------------------------------------
(* Who owns a level *)

LEMMA ExclusiveStep ==
    ASSUME TypeOK, Exclusive, [Next]_vars
    PROVE  Exclusive'
<1> USE UsersAssumption DEF TypeOK, UserType, Exclusive
<1>1. ASSUME NEW t \in Threads, NEW S \in SUBSET Levels,
             NEW A \in SUBSET Levels, Ctl(t, S, A)
      PROVE  Exclusive'
  BY <1>1 DEF Ctl, FreeFor
<1>2. ASSUME NEW t \in Threads, OffRelease(t) PROVE Exclusive'
  BY <1>2 DEF OffRelease
<1>3. ASSUME NEW f \in Files, Open(f) \/ Release(f) PROVE Exclusive'
  BY <1>3 DEF Open, Release
<1>4. CASE UNCHANGED owned
  BY <1>4
<1> QED
  BY <1>1, <1>2, <1>3, <1>4, Actions
     DEF vars, Request, Ring, ThreadFetch, ThreadTake, ThreadHandle,
         ThreadPend, Cleanup, CallOf, CtlAck, CtlEnable, Off, OffMask, Ack,
         Wait, Get, Interrupted

\* No two processes own the same level.
THEOREM LevelsAreExclusive == Spec => []Exclusive
<1>1. Init => Exclusive
  BY DEF Init, Exclusive
<1> QED BY TypesHold, ExclusiveStep, <1>1, PTL DEF Spec

-----------------------------------------------------------------------------
(* No level stays masked.  From here on every file is used by one thread:   *)
(* the levels one thread is about to disable could otherwise be given back  *)
(* and reserved by another process in the meantime.                         *)

OneThreadPerFile == \A t, u \in Threads : FileOf[t] = FileOf[u] => t = u

Ownership == TypeOK /\ Working /\ Exclusive /\ PartOwned

LEMMA WorkingStep ==
    ASSUME TypeOK, Working, [Next]_vars
    PROVE  Working'
<1> USE UsersAssumption DEF TypeOK, UserType, Working
<1>1. ASSUME NEW t \in Threads, CallOf(t) PROVE Working'
  <2>1. CASE pc[t] # "idle" \/ file[FileOf[t]] = "open"
    BY <1>1, <2>1
       DEF CallOf, Ctl, CtlAck, CtlEnable, Off, OffMask, OffRelease, Ack, Wait,
           Get, Interrupted, Return, users
  <2>2. CASE pc[t] = "idle" /\ file[FileOf[t]] # "open"
    BY <1>1, <2>2
       DEF CallOf, Ctl, CtlAck, CtlEnable, Off, OffMask, OffRelease, Ack, Wait,
           Get, Interrupted, Idle
  <2> QED BY <2>1, <2>2
<1>2. ASSUME NEW f \in Files, Open(f) \/ Cleanup(f) \/ Release(f)
      PROVE  Working'
  BY <1>2 DEF Open, Cleanup, Release, users
<1>3. CASE ThreadPend
  BY <1>3 DEF ThreadPend
<1>4. CASE UNCHANGED <<file, users>>
  BY <1>4 DEF users
<1> QED
  BY <1>1, <1>2, <1>3, <1>4, Actions
     DEF vars, Request, Ring, ThreadFetch, ThreadTake, ThreadHandle

LEMMA PartOwnedStep ==
    ASSUME OneThreadPerFile, Ownership, [Next]_vars
    PROVE  PartOwned'
<1> USE UsersAssumption DEF Ownership, TypeOK, UserType, PartOwned
<1>1. ASSUME NEW t \in Threads, CallOf(t) PROVE PartOwned'
  <2> USE DEF OneThreadPerFile
  <2>1. ASSUME NEW S \in SUBSET Levels, NEW A \in SUBSET Levels, Ctl(t, S, A)
        PROVE  PartOwned'
    BY <2>1 DEF Ctl
  <2>2. CASE CtlAck(t) \/ OffMask(t)
    BY <2>2 DEF CtlAck, OffMask
  <2>3. CASE CtlEnable(t) \/ Interrupted(t)
    BY <2>3 DEF CtlEnable, Interrupted, Return
  <2>4. ASSUME NEW S \in SUBSET Levels, Off(t, S) PROVE PartOwned'
    BY <2>4 DEF Off
  <2>5. CASE OffRelease(t)
    BY <2>5 DEF OffRelease, Return
  <2>6. ASSUME NEW S \in SUBSET Levels, Ack(t, S) \/ Wait(t, S) \/ Get(t, S)
        PROVE  PartOwned'
    BY <2>6 DEF Ack, Wait, Get, Return, users
  <2> QED BY <1>1, <2>1, <2>2, <2>3, <2>4, <2>5, <2>6 DEF CallOf
<1>2. ASSUME NEW f \in Files, Open(f) \/ Release(f) PROVE PartOwned'
  BY <1>2 DEF Open, Release, users, Working
<1>3. CASE ThreadPend
  BY <1>3 DEF ThreadPend
<1>4. CASE UNCHANGED <<owned, users>>
  BY <1>4 DEF users
<1> QED
  BY <1>1, <1>2, <1>3, <1>4, Actions
     DEF vars, Request, Ring, ThreadFetch, ThreadTake, ThreadHandle, Cleanup

LEMMA HeldIsEnabledStep ==
    ASSUME OneThreadPerFile, Ownership, HeldIsEnabled, [Next]_vars
    PROVE  HeldIsEnabled'
<1> SUFFICES ASSUME NEW f \in Files, NEW l \in Levels, Held(f, l)'
             PROVE  \/ l \in enabled'
                    \/ l \in pending'
                    \/ irq_thread' = "pend" /\ l \in hand'
  BY DEF HeldIsEnabled
<1> USE UsersAssumption DEF Ownership, TypeOK, UserType
<1> DEFINE Safe == \/ l \in enabled
                   \/ l \in pending
                   \/ irq_thread = "pend" /\ l \in hand
<1>1. Held(f, l) => Safe
  BY DEF HeldIsEnabled
<1>2. ASSUME NEW t \in Threads, CallOf(t) PROVE Safe'
  <2>1. ASSUME NEW S \in SUBSET Levels, NEW A \in SUBSET Levels, Ctl(t, S, A)
        PROVE  Safe'
    <3>1. l \notin S \/ f # FileOf[t]
      BY <2>1 DEF Ctl, Held, Changes
    <3>2. Held(f, l)
      <4>1. file[f] = "open" /\ l \in owned[f]
        BY <2>1, <3>1 DEF Ctl, Held
      <4>2. ASSUME NEW u \in Threads, FileOf[u] = f PROVE ~Changes(u, l)
        BY <2>1, <3>1, <4>2 DEF Ctl, Idle, Held, Changes
      <4> QED BY <4>1, <4>2 DEF Held
    <3> QED BY <1>1, <2>1, <3>2 DEF Ctl, thread, info
  <2>2. CASE CtlAck(t)
    <3>1. Held(f, l)
      BY <2>2 DEF CtlAck, Held, Changes
    <3> QED BY <1>1, <2>2, <3>1 DEF CtlAck, Enable, thread
  <2>3. CASE CtlEnable(t)
    <3>1. l \in arg[t] \/ Held(f, l)
      BY <2>3 DEF CtlEnable, Return, Held, Changes
    <3> QED BY <1>1, <2>3, <3>1 DEF CtlEnable, Enable, thread, info
  <2>4. ASSUME NEW S \in SUBSET Levels, Off(t, S) PROVE Safe'
    <3>1. Held(f, l)
      BY <2>4 DEF Off, Idle, Held, Changes
    <3> QED BY <1>1, <2>4, <3>1 DEF Off, thread, info
  <2>5. CASE OffMask(t)
    <3>1. Held(f, l)
      BY <2>5 DEF OffMask, Held, Changes
    <3>2. l \notin part[t]
      <4>1. CASE f = FileOf[t]
        BY <2>5, <3>1, <4>1 DEF OffMask, Held, Changes, PartOwned
      <4>2. CASE f # FileOf[t]
        BY <2>5, <3>1, <4>2 DEF OffMask, Held, PartOwned, Exclusive
      <4> QED BY <4>1, <4>2
    <3> QED BY <1>1, <2>5, <3>1, <3>2 DEF OffMask, Disable, thread, info
  <2>6. CASE OffRelease(t)
    <3>1. Held(f, l)
      BY <2>6 DEF OffRelease, Return, Held, Changes
    <3> QED BY <1>1, <2>6, <3>1 DEF OffRelease, thread, info
  <2>7. CASE Interrupted(t)
    <3>1. Held(f, l)
      BY <2>7 DEF Interrupted, Return, Held, Changes
    <3> QED BY <1>1, <2>7, <3>1 DEF Interrupted, thread, info
  <2>8. ASSUME NEW S \in SUBSET Levels, Ack(t, S) \/ Wait(t, S) \/ Get(t, S)
        PROVE  Safe'
    <3>1. Held(f, l)
      BY <2>8 DEF Ack, Wait, Get, Idle, Return, Held, Changes, users
    <3> QED BY <1>1, <2>8, <3>1 DEF Ack, Wait, Get, Enable, thread, info
  <2> QED BY <1>2, <2>1, <2>2, <2>3, <2>4, <2>5, <2>6, <2>7, <2>8 DEF CallOf
<1>3. ASSUME NEW g \in Files, Open(g) \/ Release(g) PROVE Safe'
  <2>1. Held(f, l)
    BY <1>3 DEF Open, Release, Held, Changes, users
  <2> QED BY <1>1, <1>3, <2>1 DEF Open, Release, thread, info
<1>4. ASSUME NEW g \in Files, Cleanup(g) PROVE Safe'
  <2>1. Held(f, l) /\ f # g
    BY <1>4 DEF Cleanup, Held, Changes, users
  <2>2. l \notin owned[g]
    BY <2>1 DEF Held, Exclusive
  <2> QED BY <1>1, <1>4, <2>1, <2>2 DEF Cleanup, Disable, thread, info
<1>5. CASE ThreadHandle
  <2>1. Held(f, l)
    BY <1>5 DEF ThreadHandle, Held, Changes, users
  <2> QED BY <1>1, <1>5, <2>1 DEF ThreadHandle
<1>6. CASE ThreadPend
  <2>1. Held(f, l)
    BY <1>6 DEF ThreadPend, Held, Changes
  <2> QED BY <1>1, <1>6, <2>1 DEF ThreadPend
<1>7. CASE UNCHANGED <<owned, file, users>> /\ UNCHANGED <<enabled, pending>>
           /\ (irq_thread = "pend" => UNCHANGED <<irq_thread, hand>>)
  <2>1. Held(f, l)
    BY <1>7 DEF Held, Changes, users
  <2> QED BY <1>1, <1>7, <2>1
<1> QED
  BY <1>2, <1>3, <1>4, <1>5, <1>6, <1>7, Actions
     DEF vars, Request, Ring, ThreadFetch, ThreadTake, info, thread

LEMMA OwnershipInit == Init => Ownership /\ HeldIsEnabled
  BY TypesInit
     DEF Init, Ownership, Working, Exclusive, PartOwned, HeldIsEnabled, Held

\* A level that a process holds is enabled in the VME controller, or pending,
\* or about to be: whatever the irq thread, irq_ctl, irq_get, irq_ack and the
\* closing of other files do to the masks, no level is left masked for ever.
THEOREM HeldIsEnabledHolds ==
    ASSUME OneThreadPerFile
    PROVE  Spec => []HeldIsEnabled
<1>1. Ownership /\ HeldIsEnabled /\ [Next]_vars => Ownership' /\ HeldIsEnabled'
  BY TypesStep, WorkingStep, ExclusiveStep, PartOwnedStep, HeldIsEnabledStep
     DEF Ownership
<1> QED BY OwnershipInit, <1>1, PTL DEF Spec

-----------------------------------------------------------------------------
(* Nobody sleeps too long *)

LEMMA SleepsRightlyStep ==
    ASSUME OneThreadPerFile, Ownership, SleepsRightly, [Next]_vars
    PROVE  SleepsRightly'
<1> USE UsersAssumption
    DEF Ownership, TypeOK, DriverType, UserType, SleepsRightly, Mine
<1>1. ASSUME NEW t \in Threads, CallOf(t) PROVE SleepsRightly'
  <2> USE DEF OneThreadPerFile
  <2>1. ASSUME NEW S \in SUBSET Levels, NEW A \in SUBSET Levels, Ctl(t, S, A)
        PROVE  SleepsRightly'
    BY <2>1 DEF Ctl, info
  <2>2. CASE CtlAck(t)
    BY <2>2 DEF CtlAck
  <2>3. CASE CtlEnable(t)
    BY <2>3 DEF CtlEnable, Return, info
  <2>4. ASSUME NEW S \in SUBSET Levels, Off(t, S) PROVE SleepsRightly'
    BY <2>4 DEF Off, info
  <2>5. CASE OffMask(t)
    BY <2>5 DEF OffMask, info
  <2>6. CASE OffRelease(t)
    BY <2>6 DEF OffRelease, Return, info
  <2>7. CASE Interrupted(t)
    BY <2>7 DEF Interrupted, Return, info
  <2>8. ASSUME NEW S \in SUBSET Levels, Wait(t, S) PROVE SleepsRightly'
    BY <2>8 DEF Wait, info
  <2>9. ASSUME NEW S \in SUBSET Levels, Ack(t, S) \/ Get(t, S)
        PROVE  SleepsRightly'
    BY <2>9 DEF Ack, Get, Return, users
  <2> QED BY <1>1, <2>1, <2>2, <2>3, <2>4, <2>5, <2>6, <2>7, <2>8, <2>9
          DEF CallOf
<1>2. ASSUME NEW f \in Files, Open(f) \/ Cleanup(f) \/ Release(f)
      PROVE  SleepsRightly'
  BY <1>2 DEF Open, Cleanup, Release, users, info, Working
<1>3. CASE ThreadPend
  BY <1>3 DEF ThreadPend
<1>4. CASE UNCHANGED <<owned, pending, users>>
  BY <1>4 DEF users
<1> QED
  BY <1>1, <1>2, <1>3, <1>4, Actions
     DEF vars, info, Request, Ring, ThreadFetch, ThreadTake, ThreadHandle

\* Nobody sleeps in irq_wait on a level he holds while it is pending.
THEOREM NobodySleepsHolds ==
    ASSUME OneThreadPerFile
    PROVE  Spec => []NobodySleeps
<1> DEFINE Inv == Ownership /\ SleepsRightly
<1>1. Init => Inv
  BY OwnershipInit DEF Init, SleepsRightly
<1>2. Inv /\ [Next]_vars => Inv'
  BY TypesStep, WorkingStep, ExclusiveStep, PartOwnedStep, SleepsRightlyStep
     DEF Ownership
<1>3. Inv => NobodySleeps
  BY DEF SleepsRightly, NobodySleeps, Mine, Held
<1> HIDE DEF Inv
<1> QED BY <1>1, <1>2, <1>3, PTL DEF Spec

-----------------------------------------------------------------------------
(* No vector is given twice *)

LEMMA RequestInOrder ==
    ASSUME TypeOK, BusInOrder, StoredOnce, GivenOnce,
           NEW l \in Levels, Request(l)
    PROVE  BusInOrder' /\ StoredOnce' /\ GivenOnce'
<1> USE UsersAssumption DEF TypeOK, BusType
<1>1. /\ raised' = raised + 1 /\ raised \in Nat /\ MaxRequests \in Nat
      /\ raised' \in 1..MaxRequests
  BY DEF Request
<1>2. req' = [req EXCEPT ![l] = Append(@, raised')]
  BY DEF Request
<1>3. req[l] \in Seq(1..MaxRequests)
  OBVIOUS
<1>4. UNCHANGED <<vects, given>>
  BY DEF Request, info
<1>5. Queued(l)' = Queued(l) \union {raised'}
  <2>1. req'[l] = Append(req[l], raised')
    BY <1>2
  <2>2. /\ Len(req'[l]) = Len(req[l]) + 1
        /\ \A i \in 1..Len(req[l]) : req'[l][i] = req[l][i]
        /\ req'[l][Len(req[l]) + 1] = raised'
    BY <1>1, <1>3, <2>1
  <2>3. Len(req[l]) \in Nat
    BY <1>3
  <2>4. 1..Len(req'[l]) = 1..Len(req[l]) \union {Len(req[l]) + 1}
    BY <2>2, <2>3
  <2> QED BY <2>2, <2>4, Zenon DEF Queued
<1>6. \A k \in Levels : k # l => Queued(k)' = Queued(k)
  BY <1>2 DEF Queued
<1>7. \A k \in Levels : Queued(k) \subseteq 1..raised /\ raised' \notin Queued(k)
  BY <1>1 DEF BusInOrder
<1>8. raised' \notin given /\ raised' # NoVector
  BY <1>1 DEF StoredOnce, NoVector
<1>9. BusInOrder'
  <2>1. ASSUME NEW k \in Levels
        PROVE  Queued(k)' \subseteq 1..raised' /\ Queued(k)' \cap given' = {}
    BY <1>1, <1>4, <1>5, <1>6, <1>7, <1>8 DEF BusInOrder
  <2>2. ASSUME NEW k \in Levels, NEW m \in Levels, k # m
        PROVE  Queued(k)' \cap Queued(m)' = {}
    <3>1. Queued(k) \cap Queued(m) = {}
      BY <2>2 DEF BusInOrder
    <3>2. /\ Queued(k)' \subseteq Queued(k) \union (IF k = l THEN {raised'} ELSE {})
          /\ Queued(m)' \subseteq Queued(m) \union (IF m = l THEN {raised'} ELSE {})
      BY <1>5, <1>6
    <3> QED BY <1>7, <2>2, <3>1, <3>2
  <2>3. ASSUME NEW k \in Levels, NEW i \in 1..Len(req'[k]),
               NEW j \in 1..Len(req'[k]), i < j
        PROVE  req'[k][i] # req'[k][j]
    <3>1. CASE k # l
      BY <1>2, <2>3, <3>1 DEF BusInOrder
    <3>2. CASE k = l /\ j =< Len(req[l])
      <4>1. req'[k][i] = req[l][i] /\ req'[k][j] = req[l][j]
        BY <1>1, <1>2, <1>3, <2>3, <3>2
      <4> QED BY <2>3, <3>2, <4>1 DEF BusInOrder
    <3>3. CASE k = l /\ j = Len(req[l]) + 1
      <4>1. req'[k][i] = req[l][i] /\ req'[k][j] = raised'
        BY <1>1, <1>2, <1>3, <2>3, <3>3
      <4>2. req[l][i] \in Queued(l)
        BY <1>3, <2>3, <3>3 DEF Queued
      <4> QED BY <1>7, <4>1, <4>2
    <3>4. Len(req'[l]) = Len(req[l]) + 1 /\ Len(req[l]) \in Nat
      BY <1>1, <1>2, <1>3
    <3> QED BY <2>3, <3>1, <3>2, <3>3, <3>4
  <2> QED BY <2>1, <2>2, <2>3 DEF BusInOrder
<1>10. StoredOnce'
  <2>1. \A k \in Levels : Stored(k)' = Stored(k)
    BY <1>4 DEF Stored
  <2>2. \A k \in Levels : Stored(k) => vects[k].vector # raised'
    BY <1>1 DEF StoredOnce
  <2>3. \A k, m \in Levels : Stored(k) => vects[k].vector \notin Queued(m)'
    <3> SUFFICES ASSUME NEW k \in Levels, NEW m \in Levels, Stored(k)
                 PROVE  vects[k].vector \notin Queued(m)'
      OBVIOUS
    <3>1. vects[k].vector \notin Queued(m) /\ vects[k].vector # raised'
      BY <2>2 DEF StoredOnce
    <3> QED BY <1>5, <1>6, <3>1
  <2> QED BY <1>1, <1>4, <2>1, <2>3 DEF StoredOnce
<1>11. GivenOnce'
  BY <1>4 DEF GivenOnce
<1> QED BY <1>9, <1>10, <1>11

\* A vector that is read leaves the queue of its level.
LEMMA HeadLeaves ==
    ASSUME TypeOK, BusInOrder, NEW l \in Levels, req[l] # <<>>,
           req'[l] = Tail(req[l])
    PROVE  /\ Queued(l)' \subseteq Queued(l)
           /\ Head(req[l]) \in Queued(l) /\ Head(req[l]) \notin Queued(l)'
           /\ \A i, j \in 1..Len(req'[l]) : i < j => req'[l][i] # req'[l][j]
<1> USE UsersAssumption
<1>1. req[l] \in Seq(1..MaxRequests)
  BY DEF TypeOK, BusType
<1>2. /\ Len(req[l]) \in Nat \ {0}
      /\ Len(req'[l]) = Len(req[l]) - 1
      /\ \A i \in 1..Len(req'[l]) : req'[l][i] = req[l][i + 1]
      /\ Head(req[l]) = req[l][1]
  BY <1>1
<1>3. Queued(l)' \subseteq Queued(l)
  <2> SUFFICES ASSUME NEW i \in 1..Len(req'[l]) PROVE req'[l][i] \in Queued(l)
    BY DEF Queued
  <2>1. i + 1 \in 1..Len(req[l])
    BY <1>2
  <2> QED BY <1>2, <2>1 DEF Queued
<1>4. Head(req[l]) \in Queued(l)
  BY <1>2 DEF Queued
<1>5. \A i, j \in 1..Len(req[l]) : i < j => req[l][i] # req[l][j]
  BY DEF BusInOrder
<1>6. Head(req[l]) \notin Queued(l)'
  <2> SUFFICES ASSUME NEW i \in 1..Len(req'[l]) PROVE req'[l][i] # req[l][1]
    BY <1>2 DEF Queued
  <2> QED BY <1>2, <1>5
<1>7. \A i, j \in 1..Len(req'[l]) : i < j => req'[l][i] # req'[l][j]
  <2> SUFFICES ASSUME NEW i \in 1..Len(req'[l]), NEW j \in 1..Len(req'[l]), i < j
               PROVE  req'[l][i] # req'[l][j]
    OBVIOUS
  <2>1. /\ req'[l][i] = req[l][i + 1] /\ req'[l][j] = req[l][j + 1]
        /\ i + 1 \in 1..Len(req[l]) /\ j + 1 \in 1..Len(req[l]) /\ i + 1 < j + 1
    BY <1>2
  <2> QED BY <1>5, <2>1
<1> QED BY <1>3, <1>4, <1>6, <1>7

LEMMA HandleInOrder ==
    ASSUME TypeOK, BusInOrder, StoredOnce, GivenOnce, ThreadHandle
    PROVE  BusInOrder' /\ StoredOnce' /\ GivenOnce'
<1> USE UsersAssumption
<1>1. UNCHANGED <<raised, given>>
  BY DEF ThreadHandle
<1>2. ASSUME NEW l \in Levels
      PROVE  \/ req'[l] = req[l]
             \/ req[l] # <<>> /\ req'[l] = Tail(req[l])
  BY DEF ThreadHandle
<1>3. ASSUME NEW l \in Levels PROVE Queued(l)' \subseteq Queued(l)
  BY <1>2, HeadLeaves DEF Queued
<1>4. ASSUME NEW l \in Levels, Stored(l)'
      PROVE  \/ Stored(l) /\ vects'[l].vector = vects[l].vector
             \/ vects'[l].vector \in Queued(l) /\ vects'[l].vector \notin Queued(l)'
  <2>1. CASE l \notin hand'
    BY <1>4, <2>1 DEF ThreadHandle, Stored
  <2>2. CASE l \in hand'
    <3>1. vects'[l].vector = Iack(l)
      BY <2>2 DEF ThreadHandle
    <3>2. req[l] # <<>> /\ vects'[l].vector = Head(req[l])
      BY <1>4, <3>1 DEF Stored, Iack
    <3>3. req'[l] = Tail(req[l])
      BY <2>2, <3>2 DEF ThreadHandle
    <3> QED BY <3>2, <3>3, HeadLeaves
  <2> QED BY <2>1, <2>2
<1>5. BusInOrder'
  <2>1. \A l \in Levels : \A i, j \in 1..Len(req'[l]) :
            i < j => req'[l][i] # req'[l][j]
    BY <1>2, HeadLeaves DEF BusInOrder
  <2>2. \A l \in Levels : Queued(l)' \subseteq 1..raised /\ Queued(l)' \cap given = {}
    BY <1>3 DEF BusInOrder
  <2>3. \A l, k \in Levels : l # k => Queued(l)' \cap Queued(k)' = {}
    BY <1>3 DEF BusInOrder
  <2> QED BY <1>1, <2>1, <2>2, <2>3 DEF BusInOrder
<1>6. StoredOnce'
  <2>1. ASSUME NEW l \in Levels, Stored(l)' PROVE vects'[l].vector \in 1..raised
    BY <1>4, <2>1 DEF StoredOnce, BusInOrder
  <2>2. ASSUME NEW l \in Levels, NEW k \in Levels, Stored(l)'
        PROVE  vects'[l].vector \notin Queued(k)'
    BY <1>3, <1>4, <2>2 DEF StoredOnce, BusInOrder
  <2>3. ASSUME NEW l \in Levels, NEW k \in Levels, Stored(l)', Stored(k)', l # k
        PROVE  vects'[l].vector # vects'[k].vector
    BY <1>4, <2>3 DEF StoredOnce, BusInOrder
  <2> QED BY <1>1, <2>1, <2>2, <2>3 DEF StoredOnce
<1>7. GivenOnce'
  <2> SUFFICES ASSUME NEW l \in Levels, Stored(l)'
               PROVE  vects'[l].vector \notin given
    BY <1>1 DEF GivenOnce, Stored
  <2> QED BY <1>4 DEF GivenOnce, Stored, BusInOrder
<1> QED BY <1>5, <1>6, <1>7

LEMMA StaysInOrder ==
    ASSUME BusInOrder, StoredOnce, GivenOnce, UNCHANGED <<bus, vects, given>>
    PROVE  BusInOrder' /\ StoredOnce' /\ GivenOnce'
<1>1. UNCHANGED <<req, raised, vects, given>>
  BY DEF bus
<1>2. \A l \in Levels : Queued(l)' = Queued(l) /\ Stored(l)' = Stored(l)
  BY <1>1 DEF Queued, Stored
<1>3. BusInOrder'
  BY <1>1, <1>2 DEF BusInOrder
<1>4. StoredOnce'
  BY <1>1, <1>2 DEF StoredOnce
<1>5. GivenOnce'
  BY <1>1 DEF GivenOnce
<1> QED BY <1>3, <1>4, <1>5

LEMMA GetInOrder ==
    ASSUME TypeOK, BusInOrder, StoredOnce, GivenOnce,
           NEW t \in Threads, NEW S \in SUBSET Levels, Get(t, S)
    PROVE  BusInOrder' /\ StoredOnce' /\ GivenOnce'
<1> USE UsersAssumption
<1> DEFINE V == Vectors(Mine(t) \cap S)
           high == Highest(V)
<1>1. UNCHANGED <<req, raised>>
  BY DEF Get, bus
<1>2. CASE V = {}
  <2>1. UNCHANGED <<vects, given>>
    BY <1>2 DEF Get, Report
  <2> QED BY <1>1, <2>1, StaysInOrder DEF bus
<1>3. CASE V # {}
  <2>1. high \in Levels /\ vects[high].valid
    <3>1. V \subseteq Levels
      BY DEF Vectors, Mine, TypeOK, DriverType
    <3>2. high \in V
      BY <1>3, <3>1, HighestIn
    <3> QED BY <3>1, <3>2 DEF Vectors
  <2>2. /\ given' = given \union {vects[high].vector}
        /\ vects' = [vects EXCEPT ![high].valid = FALSE]
    BY <1>3 DEF Get, Report
  <2> HIDE DEF high
  <2>3. ASSUME NEW l \in Levels
        PROVE  /\ Queued(l)' = Queued(l)
               /\ Stored(l)' => l # high /\ Stored(l)
               /\ vects'[l].vector = vects[l].vector
    <3>1. vects[l] \in [vector : 1..MaxRequests \union {NoVector}, valid : BOOLEAN]
      BY DEF TypeOK, VectorType
    <3> QED BY <1>1, <2>1, <2>2, <3>1 DEF Queued, Stored, TypeOK, VectorType
  <2>4. \/ vects[high].vector = NoVector
        \/ Stored(high)
    BY <2>1 DEF Stored
  <2>5. ASSUME NEW l \in Levels PROVE Queued(l) \cap given' = {}
    <3>1. NoVector \notin Queued(l)
      BY DEF BusInOrder, NoVector, TypeOK, BusType
    <3> QED BY <2>1, <2>2, <2>4, <3>1 DEF BusInOrder, StoredOnce
  <2>6. BusInOrder'
    BY <1>1, <2>3, <2>5 DEF BusInOrder
  <2>7. given' \subseteq 1..raised \union {NoVector}
    BY <2>1, <2>2, <2>4 DEF StoredOnce
  <2>8. StoredOnce'
    BY <1>1, <2>3, <2>7 DEF StoredOnce
  <2>9. GivenOnce'
    <3> SUFFICES ASSUME NEW l \in Levels, Stored(l)'
                 PROVE  vects'[l].vector \notin given'
      BY DEF GivenOnce, Stored
    <3>1. l # high /\ Stored(l) /\ vects'[l].vector = vects[l].vector
      BY <2>3
    <3>2. vects[l].vector # vects[high].vector
      BY <2>1, <2>4, <3>1 DEF StoredOnce, Stored
    <3> QED BY <2>2, <3>1, <3>2 DEF GivenOnce, Stored
  <2> QED BY <2>6, <2>8, <2>9
<1> QED BY <1>2, <1>3

LEMMA VectorsStep ==
    ASSUME TypeOK, BusInOrder, StoredOnce, GivenOnce, [Next]_vars
    PROVE  BusInOrder' /\ StoredOnce' /\ GivenOnce'
  BY StaysInOrder, RequestInOrder, HandleInOrder, GetInOrder, Actions
     DEF TypeOK, UserType, vars, info, Ring, ThreadFetch, ThreadTake,
         ThreadPend, Open, Cleanup, Release, CallOf, Ctl, CtlAck, CtlEnable,
         Off, OffMask, OffRelease, Ack, Wait, Interrupted

LEMMA VectorsInit == Init => BusInOrder /\ StoredOnce /\ GivenOnce
  BY DEF Init, BusInOrder, StoredOnce, GivenOnce, Stored, Queued

\* A vector read from the VME bus is given to at most one process, and once,
\* in whatever order get, acknowledge and the next interrupt come.
THEOREM GivenOnceHolds == Spec => []GivenOnce
<1> DEFINE Inv == TypeOK /\ BusInOrder /\ StoredOnce /\ GivenOnce
<1>1. Init => Inv
  BY TypesInit, VectorsInit
<1>2. Inv /\ [Next]_vars => Inv'
  BY TypesStep, VectorsStep
<1>3. Inv => GivenOnce
  OBVIOUS
<1> HIDE DEF Inv
<1> QED BY <1>1, <1>2, <1>3, PTL DEF Spec

-----------------------------------------------------------------------------
(* No vector is lost.  irq_get returns one vector, that of the highest      *)
(* level, but acknowledges all levels of autoack_mask: for this to be the   *)
(* same level, no other may be in the mask, and irq_get must ask for it.    *)

HighestLevel(h) == h \in Levels /\ \A k \in Levels : k =< h
MayAcknowledge(h) ==
    /\ \A A \in Automasks : A \subseteq {h}
    /\ \A S \in GetMasks : h \in S

LEMMA OnlyHighestStep ==
    ASSUME NEW h, MayAcknowledge(h), TypeOK, OnlyHighest(h), [Next]_vars
    PROVE  OnlyHighest(h)'
<1> USE UsersAssumption DEF TypeOK, UserType, OnlyHighest, MayAcknowledge
<1>1. ASSUME NEW t \in Threads, CallStep(t) PROVE OnlyHighest(h)'
  <2>1. CASE CtlAck(t) \/ OffMask(t)
    BY <2>1 DEF CtlAck, OffMask
  <2>2. CASE CtlEnable(t)
    BY <2>2 DEF CtlEnable, Return
  <2>3. CASE OffRelease(t)
    BY <2>3 DEF OffRelease, Return
  <2>4. CASE pc[t] = "look" /\ Wait(t, arg[t])
    BY <2>4 DEF Wait
  <2>5. CASE pc[t] = "get" /\ Get(t, arg[t])
    BY <2>5 DEF Get, Return
  <2> QED BY <1>1, <2>1, <2>2, <2>3, <2>4, <2>5 DEF CallStep
<1>2. ASSUME NEW t \in Threads, NewCall(t) PROVE OnlyHighest(h)'
  <2>1. ASSUME NEW S \in SUBSET Levels, NEW A \in Automasks, Ctl(t, S, A)
        PROVE  OnlyHighest(h)'
    BY <2>1 DEF Ctl
  <2>2. ASSUME NEW S \in SUBSET Levels, Off(t, S) PROVE OnlyHighest(h)'
    BY <2>2 DEF Off
  <2>3. ASSUME NEW S \in SUBSET Levels, Ack(t, S) PROVE OnlyHighest(h)'
    BY <2>3 DEF Ack, users
  <2>4. ASSUME NEW S \in GetMasks, Wait(t, S) PROVE OnlyHighest(h)'
    BY <2>4 DEF Wait
  <2>5. ASSUME NEW S \in GetMasks, Get(t, S) PROVE OnlyHighest(h)'
    BY <2>5 DEF Get, Return
  <2> QED BY <1>2, <2>1, <2>2, <2>3, <2>4, <2>5 DEF NewCall
<1>3. ASSUME NEW t \in Threads, Interrupted(t) PROVE OnlyHighest(h)'
  BY <1>3 DEF Interrupted, Return
<1>4. CASE ThreadPend
  BY <1>4 DEF ThreadPend
<1>5. CASE UNCHANGED <<autoack, users>>
  BY <1>5 DEF users
<1> QED
  BY <1>1, <1>2, <1>3, <1>4, <1>5
     DEF vars, Next, ThreadStep, Request, Ring, ThreadFetch, ThreadTake,
         ThreadHandle, Open, Cleanup, Release

\* The highest level that has a vector is the only one irq_get acknowledges.
LEMMA GetKeeps ==
    ASSUME NEW h, HighestLevel(h), TypeOK, OnlyHighest(h),
           NEW t \in Threads, NEW S, h \in S, Get(t, S),
           NEW l \in Levels, l \in pending, vects[l].valid
    PROVE  Kept(l)
<1> DEFINE V == Vectors(Mine(t) \cap S)
           high == Highest(V)
<1>1. V \subseteq Levels /\ Levels \subseteq Int
  <2>1. pending \subseteq Levels
    BY DEF TypeOK, DriverType
  <2>2. Levels \subseteq Int
    BY LevelsAssumption
  <2> QED BY <2>1, <2>2 DEF Vectors, Mine
<1>2. l \in pending' \/ (l = h /\ l \in Mine(t))
  BY DEF Get, OnlyHighest
<1>3. CASE V = {}
  <2>1. vects' = vects
    BY <1>3 DEF Get, Report
  <2>2. h \notin Mine(t) \/ ~vects[h].valid
    BY <1>3 DEF Vectors
  <2> QED BY <1>2, <2>1, <2>2 DEF Kept
<1>4. CASE V # {}
  <2>1. /\ given' = given \union {vects[high].vector}
        /\ vects' = [vects EXCEPT ![high].valid = FALSE]
    BY <1>4 DEF Get, Report
  <2>2. high \in V
    BY <1>1, <1>4, HighestIn
  <2>3. CASE l = high
    BY <2>1, <2>3 DEF Kept
  <2>4. CASE l # high
    <3>1. vects'[l] = vects[l]
      BY <2>1, <2>4 DEF TypeOK, VectorType
    <3>2. l # h \/ l \notin Mine(t)
      <4> SUFFICES ASSUME l = h, l \in Mine(t) PROVE high = h
        BY <2>4
      <4>1. h \in V /\ \A k \in V : k =< h
        BY <1>1 DEF Vectors, HighestLevel
      <4>2. \A k \in V : k =< high
        BY <4>1 DEF Highest
      <4>3. high =< h /\ h =< high /\ h \in Int /\ high \in Int
        BY <1>1, <2>2, <4>1, <4>2
      <4> HIDE DEF high
      <4> QED BY <4>3
    <3> QED BY <1>2, <3>1, <3>2 DEF Kept
  <2> QED BY <2>3, <2>4
<1> QED BY <1>3, <1>4

\* A vector that was read for a level stays until the process gets it, unless
\* the process gives it up with irq_ack or irq_ctl: neither the irq thread nor
\* the calls of other processes touch it.
THEOREM VectorKeptHolds ==
    ASSUME NEW h, HighestLevel(h), MayAcknowledge(h)
    PROVE  Spec => VectorKept
<1>1. Init => OnlyHighest(h)
  BY DEF Init, OnlyHighest
<1>2. TypeOK /\ OnlyHighest(h) /\ [Next]_vars => OnlyHighest(h)'
  BY OnlyHighestStep
<1>3. TypeOK /\ OnlyHighest(h) /\ [Next]_vars
          => [\A l \in Levels : l \in pending /\ vects[l].valid => Kept(l)]_vars
  <2> SUFFICES ASSUME TypeOK, OnlyHighest(h), Next,
                      NEW l \in Levels, l \in pending, vects[l].valid
               PROVE  Kept(l)
    OBVIOUS
  <2> USE UsersAssumption DEF TypeOK
  <2>1. ASSUME NEW t \in Threads, CallStep(t) PROVE Kept(l)
    <3>1. CASE CtlAck(t)
      BY <3>1 DEF Kept
    <3>2. CASE pc[t] = "get" /\ Get(t, arg[t])
      BY <3>2, GetKeeps DEF OnlyHighest
    <3>3. CASE \/ CtlEnable(t) \/ OffMask(t) \/ OffRelease(t)
               \/ pc[t] = "look" /\ Wait(t, arg[t])
      BY <3>3 DEF CtlEnable, OffMask, OffRelease, Wait, info, Kept
    <3> QED BY <2>1, <3>1, <3>2, <3>3 DEF CallStep
  <2>2. ASSUME NEW t \in Threads, NewCall(t) PROVE Kept(l)
    <3>1. ASSUME NEW S \in SUBSET Levels, Ack(t, S) PROVE Kept(l)
      BY <3>1 DEF Kept
    <3>2. ASSUME NEW S \in GetMasks, Get(t, S) PROVE Kept(l)
      BY <3>2, GetKeeps DEF MayAcknowledge
    <3>3. ASSUME NEW S, NEW A, Ctl(t, S, A) \/ Off(t, S) \/ Wait(t, S)
          PROVE  Kept(l)
      BY <3>3 DEF Ctl, Off, Wait, info, Kept
    <3> QED BY <2>2, <3>1, <3>2, <3>3 DEF NewCall
  <2>3. CASE ThreadHandle
    <3>1. l \notin hand' /\ UNCHANGED pending
      BY <2>3 DEF ThreadHandle
    <3>2. vects'[l] = vects[l]
      BY <2>3, <3>1 DEF ThreadHandle
    <3> QED BY <3>1, <3>2 DEF Kept
  <2>4. CASE ThreadPend
    BY <2>4 DEF ThreadPend, Kept
  <2>5. CASE UNCHANGED info
    BY <2>5 DEF info, Kept
  <2> QED
    BY <2>1, <2>2, <2>3, <2>4, <2>5
       DEF Next, ThreadStep, Request, Ring, ThreadFetch, ThreadTake, Open,
           Cleanup, Release, Interrupted
<1> QED BY <1>1, <1>2, <1>3, TypesHold, PTL DEF Spec, VectorKept

-----------------------------------------------------------------------------
\* The conjunction of all, which is what the runs check for one small instance.
THEOREM InvariantHolds ==
    ASSUME OneThreadPerFile
    PROVE  Spec => []IInv
<1>1. Init => IInv
  BY OwnershipInit, VectorsInit DEF Init, IInv, Ownership, SleepsRightly
<1>2. IInv /\ [Next]_vars => IInv'
  BY TypesStep, WorkingStep, ExclusiveStep, PartOwnedStep, HeldIsEnabledStep,
     SleepsRightlyStep, VectorsStep
     DEF IInv, Ownership
<1> QED BY <1>1, <1>2, PTL DEF Spec

=============================================================================
