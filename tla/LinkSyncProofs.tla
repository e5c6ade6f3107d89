--------------------------- MODULE LinkSyncProofs ---------------------------
(***************************************************************************)
(* Proofs about LinkSync for every set of files and front ends and any      *)
(* number of changes of the link: the types, that irq_synch_chg is never    *)
(* left disabled, and that the driver knows every supported front end       *)
(* whose link is up and has settled.                                       *)
(***************************************************************************)
EXTENDS LinkSync, TLAPS

-----------------------------------------------------------------------------
(* What the actions leave alone *)

\* The actions without the guard for a single processor.
LEMMA Actions ==
    ASSUME [Next]_vars
    PROVE  \/ LinkChange \/ IsrRead \/ IsrAct \/ TimerFires
           \/ ThreadFetch \/ SynchEnable \/ SynchLook \/ ThreadNotify
           \/ \E p \in {"thread", "caller"} : InitLock(p)
           \/ InitIdent \/ InitSetup \/ InitFail \/ InitSet
           \/ ResetCall \/ XferCall \/ (Runs /\ XferStart) \/ XferEnd
           \/ \E f \in Files : UserStep(f)
           \/ UNCHANGED vars
  BY DEF Next, IsrStep, TimerStep, ThreadStep, LockStep, InitStep, XferStep,
         XferDone

\* What a user does to his file touches nothing the link is followed with.
LEMMA UserKeeps ==
    ASSUME NEW f \in Files, UserStep(f)
    PROVE  UNCHANGED <<hardware, delay, irq_thread, caller, xfer, init,
                       remote_hw>>
  BY DEF UserStep, Open, Release, IrqCtl, IrqWait, IrqGet, Interrupted

-----------------------------------------------------------------------------
(* Types *)

LEMMA HardwareTypeStep == HardwareType /\ [Next]_vars => HardwareType'
<1> SUFFICES ASSUME HardwareType, [Next]_vars PROVE HardwareType'
  OBVIOUS
<1> USE EnvironmentAssumption DEF HardwareType
<1>1. CASE LinkChange
  <2>1. link' \in {"up", "down"} /\ remote' \in Remotes
    BY <1>1 DEF LinkChange
  <2>2. changes' \in 0..MaxChanges
    BY <1>1 DEF LinkChange
  <2>3. chg' \in BOOLEAN /\ chg_on' \in BOOLEAN
    BY <1>1 DEF LinkChange
  <2> QED BY <2>1, <2>2, <2>3
<1>2. CASE IsrRead \/ IsrAct
  BY <1>2 DEF IsrRead, IsrAct
<1>3. CASE SynchEnable \/ XferStart
  BY <1>3 DEF SynchEnable, XferStart, EnableChg
<1>4. CASE UNCHANGED hardware
  BY <1>4 DEF hardware
<1> QED
  <2>1. \/ LinkChange \/ IsrRead \/ IsrAct \/ SynchEnable \/ XferStart
        \/ UNCHANGED hardware
    BY Actions, UserKeeps
       DEF TimerFires, ThreadFetch, SynchLook, ThreadNotify, InitLock,
           InitIdent, InitSetup, InitFail, InitSet, ResetCall, XferCall,
           XferEnd, vars
  <2> QED BY <2>1, <1>1, <1>2, <1>3, <1>4

LEMMA DelayTypeStep ==
    HardwareType /\ DelayType /\ [Next]_vars => DelayType'
<1> SUFFICES ASSUME HardwareType, DelayType, [Next]_vars PROVE DelayType'
  OBVIOUS
<1> USE DEF DelayType
<1>1. CASE IsrRead
  BY <1>1 DEF IsrRead, HardwareType
<1>2. CASE IsrAct
  <2>1. command' \subseteq {"up", "down"}
    BY <1>2 DEF IsrAct
  <2> QED BY <1>2, <2>1 DEF IsrAct
<1>3. CASE TimerFires
  BY <1>3 DEF TimerFires
<1>4. CASE ThreadFetch
  BY <1>4 DEF ThreadFetch
<1>5. CASE UNCHANGED delay
  BY <1>5 DEF delay
<1> QED
  <2>1. \/ IsrRead \/ IsrAct \/ TimerFires \/ ThreadFetch
        \/ UNCHANGED delay
    BY Actions, UserKeeps
       DEF LinkChange, SynchEnable, SynchLook, ThreadNotify, InitLock,
           InitIdent, InitSetup, InitFail, InitSet, ResetCall, XferCall,
           XferStart, XferEnd, vars
  <2> QED BY <2>1, <1>1, <1>2, <1>3, <1>4, <1>5

LEMMA ProcessTypeStep == ProcessType /\ [Next]_vars => ProcessType'
<1> SUFFICES ASSUME ProcessType, [Next]_vars PROVE ProcessType'
  OBVIOUS
<1> USE DEF ProcessType
<1>1. CASE ThreadFetch \/ SynchEnable \/ SynchLook \/ ThreadNotify
  BY <1>1 DEF ThreadFetch, SynchEnable, SynchLook, ThreadNotify
<1>2. CASE InitFail \/ InitSet
  BY <1>2 DEF InitFail, InitSet, InitReturn
<1>3. CASE ResetCall \/ XferCall \/ XferStart \/ XferEnd
  BY <1>3 DEF ResetCall, XferCall, XferStart, XferEnd
<1>4. CASE UNCHANGED <<irq_thread, caller, xfer>>
  BY <1>4
<1> QED
  <2>1. \/ ThreadFetch \/ SynchEnable \/ SynchLook \/ ThreadNotify
        \/ InitFail \/ InitSet
        \/ ResetCall \/ XferCall \/ XferStart \/ XferEnd
        \/ UNCHANGED <<irq_thread, caller, xfer>>
    BY Actions, UserKeeps
       DEF LinkChange, IsrRead, IsrAct, TimerFires, InitLock, InitIdent,
           InitSetup, vars
  <2> QED BY <2>1, <1>1, <1>2, <1>3, <1>4

LEMMA InitTypeStep ==
    HardwareType /\ InitType /\ HolderOK /\ [Next]_vars => InitType'
<1> SUFFICES ASSUME HardwareType, InitType, HolderOK, [Next]_vars
             PROVE  InitType'
  OBVIOUS
<1> USE DEF InitType
<1>1. CASE IsrAct
  BY <1>1 DEF IsrAct, init
<1>2. ASSUME NEW p \in {"thread", "caller"}, InitLock(p) PROVE InitType'
  BY <1>2 DEF InitLock
<1>3. CASE InitIdent
  BY <1>3 DEF InitIdent, HardwareType
<1>4. CASE InitSetup
  BY <1>4 DEF InitSetup
<1>5. CASE InitFail
  BY <1>5 DEF InitFail, InitReturn
<1>6. CASE InitSet
  BY <1>6 DEF InitSet, InitReturn, HolderOK
<1>7. CASE XferStart \/ XferEnd
  BY <1>7 DEF XferStart, XferEnd
<1>8. CASE UNCHANGED <<init, remote_hw>>
  BY <1>8 DEF init
<1> QED
  <2>1. \/ IsrAct \/ \E p \in {"thread", "caller"} : InitLock(p)
        \/ InitIdent \/ InitSetup \/ InitFail \/ InitSet
        \/ XferStart \/ XferEnd
        \/ UNCHANGED <<init, remote_hw>>
    BY Actions, UserKeeps
       DEF LinkChange, IsrRead, TimerFires, ThreadFetch, SynchEnable,
           SynchLook, ThreadNotify, ResetCall, XferCall, vars
  <2> QED BY <2>1, <1>1, <1>2, <1>3, <1>4, <1>5, <1>6, <1>7, <1>8

LEMMA FileTypeStep ==
    InitType /\ FileType /\ [Next]_vars => FileType'
<1> SUFFICES ASSUME InitType, FileType, [Next]_vars PROVE FileType'
  OBVIOUS
<1>0. \/ ThreadNotify
      \/ \E f \in Files : UserStep(f)
      \/ UNCHANGED fdata
  BY Actions
     DEF LinkChange, IsrRead, IsrAct, TimerFires, ThreadFetch, SynchEnable,
         SynchLook, InitLock, InitIdent, InitSetup, InitFail, InitSet,
         ResetCall, XferCall, XferStart, XferEnd, vars
<1> USE DEF FileType, InitType
<1>1. CASE ThreadNotify
  <2>1. file' \in [Files -> {"closed", "idle", "asleep", "look", "get"}]
    BY <1>1 DEF ThreadNotify
  <2>2. signalled' \in [Files -> BOOLEAN]
    BY <1>1 DEF ThreadNotify
  <2> QED BY <1>1, <2>1, <2>2 DEF ThreadNotify
<1>2. ASSUME NEW f \in Files, UserStep(f) PROVE FileType'
  <2>1. CASE Open(f) BY <2>1 DEF Open
  <2>2. CASE Release(f) BY <2>2 DEF Release
  <2>3. CASE IrqCtl(f) BY <2>3 DEF IrqCtl
  <2>4. CASE IrqWait(f) BY <2>4 DEF IrqWait
  <2>5. CASE IrqGet(f) BY <2>5 DEF IrqGet
  <2>6. CASE Interrupted(f) BY <2>6 DEF Interrupted
  <2> QED BY <1>2, <2>1, <2>2, <2>3, <2>4, <2>5, <2>6 DEF UserStep
<1>3. CASE UNCHANGED fdata
  BY <1>3 DEF fdata
<1> QED BY <1>0, <1>1, <1>2, <1>3

\* Every step keeps the types.  That a *_rem_init() has accepted the front end
\* (HolderOK) is needed for remote_hw.
LEMMA TypeStep == TypeOK /\ HolderOK /\ [Next]_vars => TypeOK'
  BY HardwareTypeStep, DelayTypeStep, ProcessTypeStep, InitTypeStep,
     FileTypeStep
     DEF TypeOK

-----------------------------------------------------------------------------
(* irq_synch_chg is watched *)

\* Every step keeps irq_synch_chg watched: who disables it starts the timer, the
\* timer tells the irq thread, and the irq thread enables it.
LEMMA WatchedStep == TypeOK /\ HolderOK /\ Watched /\ [Next]_vars => Watched'
<1> SUFFICES ASSUME TypeOK, HolderOK, Watched, [Next]_vars PROVE Watched'
  OBVIOUS
<1>0. \/ IsrRead \/ IsrAct \/ TimerFires \/ ThreadFetch
      \/ SynchEnable \/ SynchLook \/ ThreadNotify \/ InitFail \/ InitSet
      \/ XferStart
      \/ UNCHANGED <<chg_on, delay, irq_thread>>
  BY Actions, UserKeeps
     DEF LinkChange, InitLock, InitIdent, InitSetup, ResetCall, XferCall,
         XferEnd, hardware, vars
<1> USE DEF Watched, Coming
<1>1. CASE IsrRead
  BY <1>1 DEF IsrRead, TypeOK, HardwareType
<1>2. CASE IsrAct
  BY <1>2 DEF IsrAct
<1>3. CASE TimerFires
  BY <1>3 DEF TimerFires, hardware
<1>4. CASE ThreadFetch
  BY <1>4 DEF ThreadFetch, hardware
<1>5. CASE SynchEnable \/ XferStart
  BY <1>5 DEF SynchEnable, XferStart, EnableChg
<1>6. CASE SynchLook \/ ThreadNotify
  BY <1>6 DEF SynchLook, ThreadNotify, hardware, delay
<1>7. CASE InitFail \/ InitSet
  <2>1. irq_thread = "enable" => irq_thread' = "enable"
    BY <1>7 DEF InitFail, InitSet, InitReturn, HolderOK
  <2> QED BY <1>7, <2>1 DEF InitFail, InitSet, hardware, delay
<1>8. CASE UNCHANGED <<chg_on, delay, irq_thread>>
  BY <1>8 DEF delay
<1> QED
  BY <1>0, <1>1, <1>2, <1>3, <1>4, <1>5, <1>6, <1>7, <1>8

-----------------------------------------------------------------------------
(* Who is in sis1100_init_remote() *)

LEMMA HolderStep == TypeOK /\ HolderOK /\ [Next]_vars => HolderOK'
<1> SUFFICES ASSUME TypeOK, HolderOK, [Next]_vars PROVE HolderOK'
  OBVIOUS
<1>0. \/ ThreadFetch \/ SynchEnable \/ SynchLook \/ ThreadNotify
      \/ \E p \in {"thread", "caller"} : InitLock(p)
      \/ InitIdent \/ InitSetup \/ InitFail \/ InitSet
      \/ ResetCall \/ XferCall \/ XferStart \/ XferEnd
      \/ UNCHANGED <<irq_thread, caller, xfer, init>>
  BY Actions, UserKeeps
     DEF LinkChange, IsrRead, IsrAct, TimerFires, vars
<1> USE DEF HolderOK
<1>1. CASE ThreadFetch \/ SynchEnable \/ SynchLook \/ ThreadNotify
  BY <1>1 DEF ThreadFetch, SynchEnable, SynchLook, ThreadNotify, init
<1>2. ASSUME NEW p \in {"thread", "caller"}, InitLock(p) PROVE HolderOK'
  BY <1>2 DEF InitLock, Wants
<1>3. CASE InitIdent \/ InitSetup
  BY <1>3 DEF InitIdent, InitSetup
<1>4. CASE InitFail \/ InitSet
  BY <1>4 DEF InitFail, InitSet, InitReturn
<1>5. CASE ResetCall
  BY <1>5 DEF ResetCall, init
<1>6. CASE XferCall \/ XferStart \/ XferEnd
  <2>1. CASE XferCall BY <2>1 DEF XferCall, init
  <2>2. CASE XferStart BY <2>2 DEF XferStart
  <2>3. CASE XferEnd
    BY <2>3 DEF XferEnd
  <2> QED BY <1>6, <2>1, <2>2, <2>3
<1>7. CASE UNCHANGED <<irq_thread, caller, xfer, init>>
  BY <1>7 DEF init
<1> QED
  BY <1>0, <1>1, <1>2, <1>3, <1>4, <1>5, <1>6, <1>7

-----------------------------------------------------------------------------
(* No link that came up is missed *)

\* Every step keeps UpChain if the initialisation of a front end whose link is
\* up does not fail, and no transfer can clear a change before the interrupt
\* handler has noticed it.
LEMMA UpChainStep ==
    ASSUME ~InitCanFail, ~Smp \/ ~Transfers, IInv, [Next]_vars
    PROVE  UpChain'
<1> USE DEF UpChain
<1> DEFINE Known == remote \in Supported => remote_hw = remote
<1>0. HolderOK /\ TypeOK
  BY DEF IInv
<1>1. CASE LinkChange
  <2>1. link' = "up" => Chain'
    BY <1>1 DEF LinkChange, Chain, Unnoticed, Coming, IInv, Watched, delay
  <2> QED BY <2>1
<1>2. CASE IsrRead \/ IsrAct
  <2>1. Chain'
    BY <1>2, <1>0
       DEF IsrRead, IsrAct, Chain, Coming, TypeOK, HardwareType
  <2> QED BY <2>1
<1>3. CASE TimerFires
  <2>1. Chain => Chain'
    BY <1>3 DEF TimerFires, Chain, Unnoticed, Coming, hardware
  <2> QED BY <1>3, <2>1 DEF TimerFires, IInv, Identified, hardware, init
<1>4. CASE ThreadFetch
  <2>1. Chain => Chain'
    BY <1>4 DEF ThreadFetch, Chain, Unnoticed, Coming, hardware
  <2> QED BY <1>4, <2>1 DEF ThreadFetch, IInv, Identified, hardware, init
<1>5. CASE SynchEnable
  BY <1>5 DEF SynchEnable, Chain
<1>6. CASE SynchLook
  BY <1>6, <1>0
     DEF SynchLook, HolderOK, Identified, hardware, init
<1>7. CASE ThreadNotify
  <2>1. Chain => Chain'
    BY <1>7 DEF ThreadNotify, Chain, Unnoticed, Coming, hardware, delay
  <2> QED BY <1>7, <2>1 DEF ThreadNotify, IInv, Identified, hardware, init
<1>8. ASSUME NEW p \in {"thread", "caller"}, InitLock(p) PROVE UpChain'
  <2>1. Chain => Chain'
    BY <1>8 DEF InitLock, Chain, Unnoticed, Coming, hardware, delay
  <2>2. Identified'
    BY <1>8 DEF InitLock, Identified
  <2> QED BY <1>8, <2>1, <2>2 DEF InitLock, IInv, hardware
<1>9. CASE InitIdent
  <2>1. Chain => Chain'
    BY <1>9 DEF InitIdent, Chain, Unnoticed, Coming, hardware, delay
  <2>2. Identified'
    BY <1>9 DEF InitIdent, Identified, hardware
  <2> QED BY <1>9, <2>1, <2>2 DEF InitIdent, IInv, hardware
<1>10. CASE InitSetup
  <2>1. Chain => Chain'
    BY <1>10 DEF InitSetup, Chain, Unnoticed, Coming, hardware, delay
  <2>2. Identified => Identified'
    BY <1>10 DEF InitSetup, Identified, hardware
  <2> QED BY <1>10, <2>1, <2>2 DEF InitSetup, IInv, hardware
<1>11. CASE InitFail
  <2>1. Chain => Chain'
    BY <1>11, <1>0
       DEF InitFail, InitReturn, HolderOK, Chain, Unnoticed, Coming, hardware,
           delay
  <2>2. Identified' /\ sem_hw' = "free" /\ (Known => Known')
    BY <1>11 DEF InitFail, InitReturn, Identified, hardware
  <2>3. link = "up" /\ Identified => Known'
    BY <1>11 DEF InitFail, Identified, hardware
  <2>4. /\ irq_thread = "init" => irq_thread' = "init" \/ sem_hw = "thread"
        /\ caller = "probe" => caller' = "probe" \/ sem_hw = "caller"
    BY <1>11 DEF InitFail, InitReturn
  <2>5. link' = link
    BY <1>11 DEF InitFail, hardware
  <2> QED BY <2>1, <2>2, <2>3, <2>4, <2>5 DEF IInv
<1>12. CASE InitSet
  <2>1. Chain => Chain'
    BY <1>12, <1>0
       DEF InitSet, InitReturn, HolderOK, Chain, Unnoticed, Coming, hardware,
           delay
  <2>2. Identified' /\ sem_hw' = "free"
    BY <1>12 DEF InitSet, InitReturn, Identified
  <2>3. Identified => Known'
    BY <1>12 DEF InitSet, Identified, hardware
  <2>4. /\ irq_thread = "init" => irq_thread' = "init" \/ sem_hw = "thread"
        /\ caller = "probe" => caller' = "probe" \/ sem_hw = "caller"
    BY <1>12 DEF InitSet, InitReturn
  <2>5. link' = link
    BY <1>12 DEF InitSet, hardware
  <2> QED BY <2>1, <2>2, <2>3, <2>4, <2>5 DEF IInv
<1>13. CASE ResetCall
  <2>1. Chain => Chain'
    BY <1>13 DEF ResetCall, Chain, Unnoticed, Coming, hardware, delay
  <2> QED
    BY <1>13, <1>0, <2>1
       DEF ResetCall, IInv, Identified, HolderOK, hardware, init
<1>14. CASE XferCall \/ XferEnd
  <2>1. Chain => Chain'
    BY <1>14 DEF XferCall, XferEnd, Chain, Unnoticed, Coming, hardware, delay
  <2>2. Identified' = Identified /\ (sem_hw' = "thread" => sem_hw = "thread")
        /\ (sem_hw' = "caller" => sem_hw = "caller")
    BY <1>14 DEF XferCall, XferEnd, Identified, hardware, init
  <2> QED BY <1>14, <2>1, <2>2 DEF XferCall, XferEnd, IInv, hardware
<1>15. CASE Runs /\ XferStart
  <2>1. ~Unnoticed
    BY <1>15, <1>0 DEF XferStart, Runs, HolderOK
  <2>2. Chain => Chain'
    BY <1>15, <2>1 DEF XferStart, Chain, Coming, delay
  <2>3. Identified' = Identified /\ sem_hw' = "xfer"
    BY <1>15 DEF XferStart, Identified
  <2> QED BY <1>15, <2>2, <2>3 DEF XferStart, IInv
<1>16. CASE (\E f \in Files : UserStep(f)) \/ UNCHANGED vars
  <2>1. UNCHANGED <<hardware, delay, irq_thread, caller, init, remote_hw>>
    BY <1>16, UserKeeps DEF vars
  <2>2. Chain => Chain'
    BY <2>1 DEF Chain, Unnoticed, Coming, hardware, delay
  <2> QED BY <2>1, <2>2 DEF IInv, Identified, hardware, init
<1> QED
  BY Actions, <1>1, <1>2, <1>3, <1>4, <1>5, <1>6, <1>7, <1>8, <1>9, <1>10,
     <1>11, <1>12, <1>13, <1>14, <1>15, <1>16

-----------------------------------------------------------------------------
(* The theorems *)

LEMMA InitOK == Init => TypeOK /\ Watched /\ HolderOK /\ UpChain
<1> SUFFICES ASSUME Init PROVE TypeOK /\ Watched /\ HolderOK /\ UpChain
  OBVIOUS
<1>1. HardwareType
  <2>1. changes \in 0..MaxChanges
    BY EnvironmentAssumption DEF Init
  <2>2. link \in {"up", "down"} /\ remote \in Remotes
    BY DEF Init
  <2>3. chg \in BOOLEAN /\ chg_on \in BOOLEAN
    BY DEF Init
  <2> QED BY <2>1, <2>2, <2>3 DEF HardwareType
<1>2. DelayType /\ ProcessType
  BY DEF Init, DelayType, ProcessType
<1>3. InitType
  BY DEF Init, InitType
<1>4. FileType
  BY DEF Init, FileType
<1>5. Watched /\ HolderOK /\ UpChain
  BY DEF Init, Watched, HolderOK, UpChain, Identified
<1> QED BY <1>1, <1>2, <1>3, <1>4, <1>5 DEF TypeOK

\* The variables have their types, and remote_hw is nothing but a front end that
\* one of the *_rem_init() has accepted.
THEOREM LinkTypes == Spec => []TypeOK
<1>1. Init => TypeOK /\ HolderOK
  BY InitOK
<1>2. TypeOK /\ HolderOK /\ [Next]_vars => (TypeOK /\ HolderOK)'
  BY TypeStep, HolderStep
<1> QED BY <1>1, <1>2, PTL DEF Spec

\* Whenever the interrupt handler has disabled irq_synch_chg, the handler, the
\* timer or the irq thread is on its way to enable it again.
THEOREM LinkIsWatched == Spec => []Watched
<1>1. Init => TypeOK /\ HolderOK /\ Watched
  BY InitOK
<1>2. TypeOK /\ HolderOK /\ Watched /\ [Next]_vars
         => (TypeOK /\ HolderOK /\ Watched)'
  BY TypeStep, HolderStep, WatchedStep
<1> QED BY <1>1, <1>2, PTL DEF Spec

\* IInv says more than UpIsKnown: when all has settled nothing is left that
\* could still bring the knowledge of the front end.
LEMMA IInvImpliesUpIsKnown == IInv => UpIsKnown
  BY DEF IInv, UpIsKnown, UpChain, Settled, Chain, Unnoticed, Coming

\* The inductive invariant holds, provided that the initialisation of a front
\* end whose link is up does not fail and that transfers, which clear
\* irq_synch_chg, do not run beside the interrupt handler.
THEOREM LinkInvariant ==
    ASSUME ~InitCanFail, ~Smp \/ ~Transfers
    PROVE  Spec => []IInv
<1>1. Init => IInv
  BY InitOK DEF IInv
<1>2. IInv /\ [Next]_vars => IInv'
  BY TypeStep, HolderStep, WatchedStep, UpChainStep DEF IInv
<1> QED BY <1>1, <1>2, PTL DEF Spec

\* Under the same conditions the driver knows every supported front end whose
\* link is up and has settled, however often and at whatever moments the link
\* went up and down and whatever was connected in between.
THEOREM UpIsAlwaysKnown ==
    ASSUME ~InitCanFail, ~Smp \/ ~Transfers
    PROVE  Spec => []UpIsKnown
<1>1. Spec => []IInv
  BY LinkInvariant
<1> QED BY <1>1, IInvImpliesUpIsKnown, PTL

=============================================================================
