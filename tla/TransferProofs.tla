---------------------------- MODULE TransferProofs ----------------------------
(***************************************************************************)
(* Proofs about Transfer for any number of threads, words, lost requests   *)
(* and losses of the link: the types, that sc->sem_hw has one holder, and, *)
(* where the abort of a DMA works, that a call finds the hardware settled  *)
(* and reports an error exactly when one of its own requests has failed.   *)
(***************************************************************************)
EXTENDS Transfer, TLAPS

-----------------------------------------------------------------------------
(* The inductive invariant. *)

Outside == {"idle", "lock"}

\* Who has left idle and lock is the holder of sem_hw, and nobody else is.
OneHolder == \A t \in Threads : pc[t] \notin Outside <=> sem_hw = t

\* Where a call of each kind can be.
Fits ==
    \A t \in Threads :
       /\ pc[t] = "send" => op[t].kind \notin Dma
       /\ pc[t] = "answer" => op[t].kind \in {"single", "rloop", "wpipe"}
       /\ pc[t] \in {"room", "fifo", "balance", "drain"} => op[t].kind = "wloop"
       /\ pc[t] \in {"listen", "check", "sleep"} => op[t].kind \in {"rpipe", "pipe"}
       /\ pc[t] = "collect" => op[t].kind \in {"rpipe", "pipe"} \cup Dma
       /\ pc[t] \in {"prepare", "clear", "enable", "start", "wait"} => op[t].kind \in Dma
       /\ pc[t] \in {"finish", "oops"} => op[t].kind = "rdma"

\* No call has more left to do than it was asked for, until a read that was
\* aborted has subtracted a _count_read nobody has set.
Bounded ==
    \A t \in Threads :
       /\ pc[t] # "leave" => op[t].left <= op[t].n
       /\ pc[t] = "send" => op[t].left > 0
       /\ pc[t] = "answer" /\ op[t].kind = "rloop" => op[t].left < op[t].n
       /\ pc[t] \notin Outside \cup {"leave"} /\ op[t].kind \in Dma
             => /\ op[t].size <= op[t].left \/ pc[t] = "prepare"
                /\ pc[t] # "prepare" => d0_bc <= op[t].size
       /\ op[t].kind = "rdma" => op[t].seen < SizeLimit
       /\ pc[t] = "finish" /\ ~op[t].aborted => op[t].seen <= op[t].size

TypeInv == TypeOK /\ OneHolder /\ Fits /\ Bounded

Calm == balance = 0 /\ prot_error = "none" /\ plx0 = "idle"

\* What a call has left behind in the hardware where it stands.
QuietAt(t) ==
    LET k == op[t].kind
    IN  /\ k \notin Dma => plx0 = "idle"
        /\ pc[t] = "send" /\ k # "wloop" => Calm
        /\ pc[t] = "answer" /\ k \in {"single", "rloop"} =>
              /\ balance <= 1
              /\ prot_error \notin {"none", "le_to"} => balance = 0
        /\ pc[t] = "drain" /\ op[t].seen = 0 => balance = 0
        /\ pc[t] = "collect" /\ k \notin Dma /\ op[t].res = "ok" => balance = 0
        /\ k \in Dma => balance = 0
        /\ pc[t] \in {"prepare", "clear", "enable", "start"} => Calm
        /\ pc[t] \in {"clear", "enable", "start"} => "dma0" \notin latched
        /\ pc[t] \in {"enable", "start"} /\ k = "rdma" => "dma0" \notin got_irqs
        /\ pc[t] \in {"wait", "collect"} /\ k = "rdma" =>
              ("dma0" \in latched \cup got_irqs => plx0 = "idle")
        /\ pc[t] = "finish" /\ ~op[t].aborted => plx0 = "idle"
        /\ pc[t] = "leave" /\ ~Cut(t) => Calm

Quiet ==
    ~dirty => /\ sem_hw = Nobody => Calm
              /\ \A t \in Threads : sem_hw = t => QuietAt(t)

IInv == TypeInv /\ Quiet

\* read_pipe_seq keeps its errors to itself, and nobody waits for a blind write.
Silent(t) == op[t].kind \in {"rpipe", "blind"}
Failed == prot_error \notin {"none", "le_dlock"}

\* Until the end a failed request is either still in prot_error or already in
\* the error of the call; at the end it is what the call reports.
ToldAt(t) ==
    LET k == op[t].kind
        e == op[t].error
    IN  /\ pc[t] \notin {"leave", "oops"} /\ e \notin Transient =>
              (fault # "no" <=> Failed \/ e # "none")
        /\ pc[t] \notin {"balance", "drain", "leave"} => e = "none"
        /\ prot_error \in Deadlocks => balance = 0
        /\ (k = "single" /\ pc[t] # "leave" /\ prot_error = "le_dlock_re") => fault = "hidden"
        /\ (pc[t] \in {"send", "room", "balance"} \/ k \in Dma) => prot_error \notin Deadlocks
        /\ (/\ pc[t] = "leave" /\ e \notin Transient /\ op[t].res = "ok"
            /\ ~op[t].aborted /\ ~Overlooked(t)) => (e # "none" <=> fault # "no")

Told ==
    /\ sem_hw = Nobody => fault = "no"
    /\ ~dirty => \A t \in Threads : sem_hw = t /\ ~Silent(t) => ToldAt(t)

\* What a call has asked for or moved in its earlier rounds.
Done(t) == op[t].n - op[t].left

\* What is known of the words where a call stands.
CountProgrammed(t) ==
    LET k == op[t].kind
    IN  /\ k = "single" => op[t].n = 1 /\ (pc[t] = "answer" => op[t].left = 0)
        /\ k \in {"single", "rloop"} /\ pc[t] = "send" => words = Done(t)
        /\ k \in {"single", "rloop"} /\ pc[t] = "answer" =>
              /\ words + 1 >= Done(t)
              /\ prot_error \in {"none", "le_dlock"} => words + balance = Done(t)
        /\ k = "single" /\ pc[t] = "leave" /\ op[t].error # "none" => op[t].count = 0
        /\ pc[t] \in {"send", "room", "fifo", "balance", "drain"} /\ k = "wloop"
                /\ fault = "no" /\ op[t].error = "none" =>
              /\ words + balance = Done(t)
              /\ pc[t] \in {"balance", "drain"} => op[t].left = 0
        /\ k = "wpipe" => op[t].count = 0

\* Of a DMA: the engine has moved the words of this round, and a write that is
\* woken by its end has moved all of them.
CountDma(t) ==
    LET wdma == op[t].kind = "wdma"
    IN  op[t].kind \in Dma =>
        /\ pc[t] = "prepare" => words = Done(t)
        /\ pc[t] \in {"clear", "enable", "start", "wait", "collect", "finish"} =>
              words = Done(t) + d0_bc
        /\ pc[t] = "finish" /\ ~op[t].aborted => op[t].seen = d0_bc
        /\ wdma /\ pc[t] = "clear" => {"end", "l_err"} \cap latched = {}
        /\ wdma /\ pc[t] = "start" => {"end", "l_err"} \cap (latched \cup got_irqs) = {}
        /\ wdma /\ pc[t] \in {"wait", "collect"} =>
              /\ "end" \in latched \cup got_irqs => d0_bc = op[t].size
              /\ "l_err" \in latched \cup got_irqs => prot_error # "none"
        /\ wdma /\ pc[t] = "collect" /\ op[t].res = "ok" => got_irqs \cap Wanted(t) # {}

CountEnd(t) ==
    pc[t] = "leave" /\ ~op[t].aborted /\ ~Overlooked(t) =>
        /\ op[t].count <= words
        /\ Whole(t) => op[t].count = words \/ op[t].kind = "wpipe"

CountAt(t) == CountProgrammed(t) /\ CountDma(t) /\ CountEnd(t)

CountInv ==
    /\ sem_hw = Nobody => words = 0
    /\ ~dirty => \A t \in Threads : sem_hw = t /\ ~Silent(t) => CountAt(t)

-----------------------------------------------------------------------------
(* Types *)

\* What an update of a call leaves: q is the calls after it, and the other
\* arguments are the fields of t's.
Updated(q, t, l, c, s, e, r, a) ==
    /\ q \in [Threads -> OpType]
    /\ \A u \in Threads : u # t => q[u] = op[u]
    /\ q[t].kind = op[t].kind /\ q[t].n = op[t].n /\ q[t].size = op[t].size
    /\ q[t].left = l /\ q[t].count = c /\ q[t].seen = s
    /\ q[t].error = e /\ q[t].res = r /\ q[t].aborted = a

\* size_t is closed under its subtraction, which is the usual one where the
\* result is not below zero.
LEMMA MinusIs ==
    ASSUME NEW a \in SizeT, NEW b \in SizeT
    PROVE  /\ Minus(a, b) \in SizeT
           /\ b <= a => Minus(a, b) = a - b /\ a - b <= a
BY BoundsAssumption DEF Minus, SizeT

\* The words of a call fit in a size_t.
LEMMA WordsFit == 0 \in SizeT /\ 1 \in SizeT /\ 0..MaxWords \subseteq SizeT /\ SizeT \subseteq Nat
BY BoundsAssumption DEF SizeT

\* The numbers of a call are numbers.
LEMMA OpNumbers ==
    ASSUME TypeInv, NEW t \in Threads
    PROVE  /\ op[t].n \in Nat /\ op[t].left \in Nat /\ op[t].count \in Nat
           /\ op[t].size \in Nat /\ op[t].seen \in Nat
           /\ words \in Nat /\ balance \in Nat /\ d0_bc \in Nat
           /\ op[t].n \in SizeT /\ op[t].left \in SizeT
           /\ pc[t] # "leave" => op[t].left <= op[t].n /\ Done(t) \in Nat
<1>1. /\ op[t].n \in 0..MaxWords /\ op[t].left \in SizeT /\ op[t].count \in Nat
      /\ op[t].size \in Nat /\ op[t].seen \in Nat
      /\ words \in Nat /\ balance \in Nat /\ d0_bc \in Nat
      /\ pc[t] # "leave" => op[t].left <= op[t].n
  BY DEF TypeInv, TypeOK, Bounded, OpType
<1>2. op[t].n \in SizeT
  BY <1>1, WordsFit
<1>3. op[t].n \in Nat /\ op[t].left \in Nat
  BY <1>1, <1>2, WordsFit
<1> QED BY <1>1, <1>2, <1>3 DEF Done

LEMMA WithErrorCount ==
    ASSUME op \in [Threads -> OpType], NEW t \in Threads,
           NEW e \in Verdicts, NEW c \in Nat
    PROVE  Updated([op EXCEPT ![t].error = e, ![t].count = c],
                   t, op[t].left, c, op[t].seen, e, op[t].res, op[t].aborted)
BY ZenonT(60) DEF OpType, Updated

LEMMA WithError ==
    ASSUME op \in [Threads -> OpType], NEW t \in Threads, NEW e \in Verdicts
    PROVE  Updated([op EXCEPT ![t].error = e],
                   t, op[t].left, op[t].count, op[t].seen, e, op[t].res, op[t].aborted)
BY ZenonT(60) DEF OpType, Updated

LEMMA WithErrorLeft ==
    ASSUME op \in [Threads -> OpType], NEW t \in Threads,
           NEW e \in Verdicts, NEW l \in SizeT
    PROVE  Updated([op EXCEPT ![t].error = e, ![t].left = l],
                   t, l, op[t].count, op[t].seen, e, op[t].res, op[t].aborted)
BY ZenonT(60) DEF OpType, Updated

LEMMA WithLeftSeen ==
    ASSUME op \in [Threads -> OpType], NEW t \in Threads,
           NEW l \in SizeT, NEW s \in Nat
    PROVE  Updated([op EXCEPT ![t].left = l, ![t].seen = s],
                   t, l, op[t].count, s, op[t].error, op[t].res, op[t].aborted)
BY ZenonT(60) DEF OpType, Updated

LEMMA WithSeenAborted ==
    ASSUME op \in [Threads -> OpType], NEW t \in Threads,
           NEW s \in Nat, NEW a \in BOOLEAN
    PROVE  Updated([op EXCEPT ![t].seen = s, ![t].aborted = a],
                   t, op[t].left, op[t].count, s, op[t].error, op[t].res, a)
BY ZenonT(60) DEF OpType, Updated

LEMMA WithEnd ==
    ASSUME op \in [Threads -> OpType], NEW t \in Threads,
           NEW r \in Results, NEW e \in Verdicts,
           NEW l \in SizeT, NEW c \in Nat
    PROVE  Updated([op EXCEPT ![t].res = r, ![t].error = e, ![t].left = l, ![t].count = c],
                   t, l, c, op[t].seen, e, r, op[t].aborted)
BY ZenonT(60) DEF OpType, Updated

LEMMA InitTypes == Init => TypeInv
<1> SUFFICES ASSUME Init PROVE TypeInv
  OBVIOUS
<1> USE ThreadsAssumption DEF Init
<1>1. NewOp("single", 0) \in OpType
  BY BoundsAssumption DEF NewOp, Kinds, OpType, SizeT, Verdicts, Results
<1>2. TypeOK
  BY <1>1 DEF TypeOK, Sources, Places, OpType
<1>3. OneHolder /\ Fits /\ Bounded
  BY DEF OneHolder, Fits, Bounded, NewOp, Outside, Dma
<1> QED BY <1>2, <1>3 DEF TypeInv

\* The call of a thread that is not in the critical section, and its start.
LEMMA EnterTypes ==
    ASSUME TypeInv, NEW t \in Threads, Call(t) \/ Lock(t)
    PROVE  TypeInv'
<1> USE ThreadsAssumption DEF TypeInv, TypeOK, OneHolder, Fits, Bounded, Outside
<1>1. CASE Call(t)
  BY <1>1 DEF Call, Goto, hardware, Places, Dma
<1>2. CASE Lock(t)
  <2>1. PICK n \in 1..MaxWords, k \in Kinds : Begin(t, k, n)
    BY <1>2, SettingsAssumption DEF Lock, Route, Direction, Kinds
  <2>2. op' = [op EXCEPT ![t] = NewOp(k, n)] /\ NewOp(k, n).kind = k
    BY <2>1 DEF Begin, NewOp
  <2>3. pc' = [pc EXCEPT ![t] = IF k \in {"rdma", "wdma"} THEN "prepare" ELSE "send"]
    BY <2>1 DEF Begin, Goto
  <2>4. UNCHANGED <<link, balance, prot_error, plx0, d0_bc, enabled, got_irqs,
                   remote_hw, words, fault, dirty, losses>> /\ sem_hw' = t /\ sem_hw = Nobody
    BY <1>2 DEF Lock
  <2>5. latched' \subseteq Sources
    BY <2>1 DEF Begin
  <2>6. n \in Nat /\ n > 0 /\ NewOp(k, n) \in OpType
    BY BoundsAssumption DEF NewOp, OpType, SizeT, Verdicts, Results
  <2>7. TypeOK'
    BY <2>2, <2>3, <2>4, <2>5, <2>6 DEF Places, OpType
  <2> QED BY <2>2, <2>3, <2>4, <2>6, <2>7, BoundsAssumption DEF NewOp, Dma
<1> QED BY <1>1, <1>2

\* The steps of programmed transfers, up to the end of the call.
Programmed(t) ==
    \/ Send(t) \/ Single(t) \/ ReadWord(t) \/ Room(t) \/ RoomError(t) \/ Balance(t) \/ Drain(t)
    \/ PipeOut(t) \/ PipeOutEnd(t) \/ PipeIn(t) \/ PipeListen(t) \/ PipeCheck(t)
    \/ PipeInterrupted(t) \/ PipeCollect(t)
BlockDma(t) ==
    \/ Prepare(t) \/ DmaClear(t) \/ DmaEnable(t) \/ DmaStart(t) \/ DmaWoken(t)
    \/ DmaKilled(t) \/ CollectRead(t) \/ FinishRead(t) \/ CopyOops(t) \/ CollectWrite(t)

-----------------------------------------------------------------------------
(* What the steps that change several fields of a call do with it. *)

LEMMA SendOp ==
    ASSUME TypeInv, NEW t \in Threads, Send(t)
    PROVE  /\ op[t].left \in Nat \ {0} /\ op[t].n \in Nat /\ op[t].left <= op[t].n
           /\ Updated(op', t, op[t].left - 1, op[t].count,
                      IF op[t].kind = "wloop" THEN op[t].seen + 1 ELSE op[t].seen,
                      op[t].error, op[t].res, op[t].aborted)
<1> USE DEF TypeInv, TypeOK, Bounded, At
<1> DEFINE l == op[t].left - 1
           s == IF op[t].kind = "wloop" THEN op[t].seen + 1 ELSE op[t].seen
<1>4. /\ op[t].left \in Nat \ {0} /\ op[t].n \in Nat /\ op[t].left <= op[t].n
      /\ op[t].left \in SizeT /\ op[t].seen \in Nat
  BY OpNumbers DEF Send
<1>1. l \in SizeT /\ s \in Nat
  BY <1>4, BoundsAssumption DEF SizeT
<1>2. op' = [op EXCEPT ![t].left = l, ![t].seen = s]
  BY DEF Send
<1>3. Updated(op', t, l, op[t].count, s, op[t].error, op[t].res, op[t].aborted)
  <2> HIDE DEF l, s
  <2> QED BY <1>1, <1>2, WithLeftSeen
<1> QED BY <1>3, <1>4

LEMMA SingleOp ==
    ASSUME TypeInv, NEW t \in Threads, Single(t)
    PROVE  \E e \in {SingleError, ConfirmedError}, c \in Nat :
              /\ c = IF e = "none" THEN 1 ELSE 0
              /\ Updated(op', t, op[t].left, c, op[t].seen, e, op[t].res, op[t].aborted)
<1>1. PICK e \in {SingleError, ConfirmedError} :
        op' = [op EXCEPT ![t].error = e, ![t].count = IF e = "none" THEN 1 ELSE 0]
  BY DEF Single
<1>2. e \in Verdicts /\ op \in [Threads -> OpType]
  BY DEF SingleError, ConfirmedError, Errors, Verdicts, TypeInv, TypeOK
<1>3. (IF e = "none" THEN 1 ELSE 0) \in Nat
  OBVIOUS
<1> QED BY <1>1, <1>2, <1>3, WithErrorCount

LEMMA RoomErrorOp ==
    ASSUME TypeInv, NEW t \in Threads, RoomError(t)
    PROVE  \E e \in Verdicts :
              /\ e \in {prot_error, "e_dlock"}
              /\ (e = "e_dlock") = ~Readable
              /\ Updated(op', t, op[t].left, op[t].count, op[t].seen, e, op[t].res, op[t].aborted)
              /\ pc' = [pc EXCEPT ![t] = IF e # "none" \/ op[t].left = 0 THEN "balance" ELSE "send"]
<1> DEFINE e == IF Readable THEN prot_error ELSE "e_dlock"
<1>1. /\ op' = [op EXCEPT ![t].error = e] /\ op \in [Threads -> OpType]
      /\ pc' = [pc EXCEPT ![t] = IF e # "none" \/ op[t].left = 0 THEN "balance" ELSE "send"]
  BY DEF RoomError, NextWord, Goto, TypeInv, TypeOK
<1>2. /\ e \in Verdicts /\ e \in {prot_error, "e_dlock"}
      /\ (e = "e_dlock") = ~Readable
  BY DEF Verdicts, TypeInv, TypeOK, Errors
<1> HIDE DEF e
<1>3. Updated(op', t, op[t].left, op[t].count, op[t].seen, e, op[t].res, op[t].aborted)
  BY <1>1, <1>2, WithError
<1> QED BY <1>1, <1>2, <1>3

LEMMA DrainOp ==
    ASSUME TypeInv, NEW t \in Threads, Drain(t)
    PROVE  \E e \in Verdicts, c \in Nat :
              /\ e = "none" => op[t].error = "none" /\ ConfirmedError = "none"
              /\ c = IF e = "none" THEN op[t].n ELSE 0
              /\ Updated(op', t, op[t].left, c, op[t].seen, e, op[t].res, op[t].aborted)
<1>1. /\ op[t].error \in Verdicts /\ op[t].n \in Nat
      /\ op \in [Threads -> OpType]
  BY OpNumbers DEF TypeInv, TypeOK, OpType
<1>2. ConfirmedError \in Verdicts
  BY DEF ConfirmedError, Errors, Verdicts, TypeInv, TypeOK
<1>3. PICK e \in Verdicts, c \in Nat :
        /\ e = "none" => op[t].error = "none" /\ ConfirmedError = "none"
        /\ c = IF e = "none" THEN op[t].n ELSE 0
        /\ op' = [op EXCEPT ![t].error = e, ![t].count = c]
  BY <1>1, <1>2 DEF Drain
<1> QED BY <1>1, <1>3, WithErrorCount

LEMMA PipeOutEndOp ==
    ASSUME TypeInv, NEW t \in Threads, PipeOutEnd(t)
    PROVE  Updated(op', t, 0, op[t].count, op[t].seen, prot_error, op[t].res, op[t].aborted)
<1>1. /\ prot_error \in Verdicts /\ 0 \in SizeT
      /\ op \in [Threads -> OpType]
  BY WordsFit DEF TypeInv, TypeOK, Verdicts
<1>2. op' = [op EXCEPT ![t].error = prot_error, ![t].left = 0]
  BY DEF PipeOutEnd
<1> QED BY <1>1, <1>2, WithErrorLeft

LEMMA PipeCollectOp ==
    ASSUME TypeInv, NEW t \in Threads, PipeCollect(t)
    PROVE  \E e \in Verdicts, c \in Nat :
              /\ op[t].kind = "pipe" => c = words
              /\ Updated(op', t, op[t].left, c, op[t].seen, e, op[t].res, op[t].aborted)
<1> DEFINE e == IF op[t].kind = "pipe" THEN prot_error ELSE "none"
           c == IF op[t].kind = "pipe" THEN words ELSE op[t].n
<1>1. op' = [op EXCEPT ![t].error = e, ![t].count = c] /\ op \in [Threads -> OpType]
  BY DEF PipeCollect, TypeInv, TypeOK
<1>2. e \in Verdicts /\ c \in Nat /\ (op[t].kind = "pipe" => c = words)
  BY OpNumbers DEF Verdicts, TypeInv, TypeOK
<1> HIDE DEF e, c
<1> QED BY <1>1, <1>2, WithErrorCount

LEMMA CollectReadOp ==
    ASSUME TypeInv, NEW t \in Threads, CollectRead(t)
    PROVE  \E n \in Nat : /\ n < SizeLimit /\ n \in ReadCount(t)
                          /\ ~ReadAborted(t) => n = d0_bc /\ n <= op[t].size
                          /\ Updated(op', t, op[t].left, op[t].count, n, op[t].error,
                                     op[t].res, ReadAborted(t))
<1>1. PICK n \in ReadCount(t) :
        op' = [op EXCEPT ![t].seen = n, ![t].aborted = ReadAborted(t)]
  BY DEF CollectRead
<1> DEFINE a == ReadAborted(t)
<1>2. /\ d0_bc \in Nat /\ d0_bc <= op[t].size /\ op[t].size <= op[t].left
      /\ op[t].left \in SizeT /\ op[t].seen \in Nat /\ op[t].seen < SizeLimit
      /\ op[t].size \in Nat /\ a \in BOOLEAN /\ op \in [Threads -> OpType]
  BY DEF CollectRead, ReadAborted, OpType, TypeInv, TypeOK, Bounded, At, Outside, Dma
<1>3. n \in Nat /\ n < SizeLimit
  BY <1>1, <1>2, BoundsAssumption DEF ReadCount, SizeT
<1>4. ~a => n = d0_bc /\ n <= op[t].size
  BY <1>1, <1>2 DEF ReadCount
<1> HIDE DEF a
<1>5. Updated(op', t, op[t].left, op[t].count, n, op[t].error, op[t].res, a)
  BY <1>1, <1>2, <1>3, WithSeenAborted DEF a
<1> QED BY <1>1, <1>3, <1>4, <1>5 DEF a

LEMMA FinishReadOp ==
    ASSUME TypeInv, NEW t \in Threads, FinishRead(t)
    PROVE  \E r \in SizeT, res \in Copied(t) :
              /\ Minus(op[t].n, r) \in SizeT
              /\ r = IF res = "ok" THEN Minus(op[t].left, op[t].seen) ELSE op[t].left
              /\ ~op[t].aborted =>
                    /\ r = IF res = "ok" THEN op[t].left - op[t].seen ELSE op[t].left
                    /\ r <= op[t].left /\ Minus(op[t].n, r) = op[t].n - r
              /\ Updated(op', t, r, Minus(op[t].n, r), op[t].seen, ReadError(t), res,
                         op[t].aborted)
              /\ \/ pc' = [pc EXCEPT ![t] = "leave"]
                 \/ pc' = [pc EXCEPT ![t] = "prepare"] /\ res = "ok" /\ ReadError(t) = "none"
<1>1. PICK res \in Copied(t) :
        LET rest == IF res = "ok" THEN Minus(op[t].left, op[t].seen) ELSE op[t].left
            more == /\ op[t].seen = op[t].size /\ rest # 0
                    /\ res = "ok" /\ ReadError(t) = "none"
        IN  /\ op' = [op EXCEPT ![t].res = res, ![t].error = ReadError(t),
                                ![t].left = rest, ![t].count = Minus(op[t].n, rest)]
            /\ Goto(t, IF more THEN "prepare" ELSE "leave")
  BY DEF FinishRead
<1> DEFINE r == IF res = "ok" THEN Minus(op[t].left, op[t].seen) ELSE op[t].left
           c == Minus(op[t].n, r)
<1>2. /\ op[t].left \in SizeT /\ op[t].seen \in Nat /\ op[t].seen < SizeLimit
      /\ op[t].n \in SizeT /\ op[t].left <= op[t].n /\ op[t].size \in Nat
      /\ op[t].size <= op[t].left /\ (~op[t].aborted => op[t].seen <= op[t].size)
      /\ op \in [Threads -> OpType]
  BY WordsFit DEF FinishRead, OpType, TypeInv, TypeOK, Bounded, Fits, At, Outside, Dma
<1>3. op[t].seen \in SizeT
  BY <1>2, BoundsAssumption DEF SizeT
<1>4. Minus(op[t].left, op[t].seen) \in SizeT
  BY <1>2, <1>3, MinusIs
<1>5. r \in SizeT
  BY <1>2, <1>4
<1>6. c \in SizeT
  <2> HIDE DEF r
  <2> QED BY <1>2, <1>5, MinusIs
<1>7. ASSUME ~op[t].aborted
      PROVE  /\ r = IF res = "ok" THEN op[t].left - op[t].seen ELSE op[t].left
             /\ r <= op[t].left /\ c = op[t].n - r
  <2>1. op[t].seen <= op[t].left
    BY <1>2, <1>7, OpNumbers
  <2>2. Minus(op[t].left, op[t].seen) = op[t].left - op[t].seen
        /\ op[t].left - op[t].seen <= op[t].left
    BY <1>2, <1>3, <2>1, MinusIs
  <2>3. r <= op[t].left
    BY <2>2, OpNumbers
  <2>4. r <= op[t].n
    BY <1>2, <1>5, <2>3, OpNumbers, BoundsAssumption DEF SizeT
  <2>5. c = op[t].n - r
    <3> HIDE DEF r
    <3> QED BY <1>2, <1>5, <2>4, MinusIs
  <2> QED BY <2>2, <2>3, <2>5
<1>8. res \in Results /\ ReadError(t) \in Verdicts
  BY DEF Copied, ReadRes, ReadError, OpType, TypeInv, TypeOK, Results, Verdicts
<1>9. op' = [op EXCEPT ![t].res = res, ![t].error = ReadError(t), ![t].left = r, ![t].count = c]
  BY <1>1
<1>10. Updated(op', t, r, c, op[t].seen, ReadError(t), res, op[t].aborted)
  <2> HIDE DEF r, c
  <2> QED BY <1>2, <1>5, <1>6, <1>8, <1>9, WithEnd, WordsFit
<1>11. \/ pc' = [pc EXCEPT ![t] = "leave"]
       \/ pc' = [pc EXCEPT ![t] = "prepare"] /\ res = "ok" /\ ReadError(t) = "none"
  BY <1>1 DEF Goto
<1> QED BY <1>5, <1>6, <1>7, <1>10, <1>11

\* The words write_dma may count as written in this round.
Written(t) == IF prot_error = "re" THEN {0, d0_bc} ELSE {op[t].size}

LEMMA CollectWriteOp ==
    ASSUME TypeInv, NEW t \in Threads, CollectWrite(t)
    PROVE  \E r \in SizeT :
              /\ r <= op[t].left /\ op[t].n - r \in SizeT
              /\ \E n \in Written(t) :
                    r = IF WriteRes(t) = "ok" THEN op[t].left - n ELSE op[t].left
              /\ Updated(op', t, r, op[t].n - r, op[t].seen, WriteError(t),
                         WriteRes(t), op[t].aborted)
              /\ pc' = [pc EXCEPT ![t] =
                    IF r # 0 /\ WriteRes(t) = "ok" /\ WriteError(t) = "none"
                    THEN "prepare" ELSE "leave"]
<1> USE DEF TypeInv, TypeOK, Bounded, At, Outside, Dma
<1>1. PICK n \in Written(t) :
        LET rest == IF WriteRes(t) = "ok" THEN op[t].left - n ELSE op[t].left
        IN  /\ op' = [op EXCEPT ![t].res = WriteRes(t), ![t].error = WriteError(t),
                                ![t].left = rest, ![t].count = op[t].n - rest]
            /\ Goto(t, IF rest # 0 /\ WriteRes(t) = "ok" /\ WriteError(t) = "none"
                       THEN "prepare" ELSE "leave")
  BY DEF CollectWrite, Written
<1> DEFINE r == IF WriteRes(t) = "ok" THEN op[t].left - n ELSE op[t].left
<1>2. r \in SizeT /\ r <= op[t].left /\ op[t].n - r \in SizeT
  BY <1>1, BoundsAssumption DEF CollectWrite, Written, OpType, SizeT
<1>3. WriteRes(t) \in Results /\ WriteError(t) \in Verdicts
  BY DEF WriteRes, WriteError, OpType, Results, Verdicts
<1>4. /\ op' = [op EXCEPT ![t].res = WriteRes(t), ![t].error = WriteError(t),
                         ![t].left = r, ![t].count = op[t].n - r]
      /\ pc' = [pc EXCEPT ![t] = IF r # 0 /\ WriteRes(t) = "ok" /\ WriteError(t) = "none"
                                THEN "prepare" ELSE "leave"]
  BY <1>1 DEF Goto
<1>5. \E m \in Written(t) : r = IF WriteRes(t) = "ok" THEN op[t].left - m ELSE op[t].left
  BY <1>1
<1> HIDE DEF r
<1>6. Updated(op', t, r, op[t].n - r, op[t].seen, WriteError(t), WriteRes(t), op[t].aborted)
  BY <1>2, <1>3, <1>4, WithEnd, WordsFit
<1> HIDE DEF TypeInv, TypeOK, Bounded, At, Outside, Dma
<1> QED BY <1>2, <1>4, <1>5, <1>6

-----------------------------------------------------------------------------
(* Types after the steps of a call. *)

LEMMA ProgrammedTypes ==
    ASSUME TypeInv, NEW t \in Threads, Programmed(t)
    PROVE  TypeInv'
<1> USE ThreadsAssumption, BoundsAssumption
        DEF TypeInv, TypeOK, OneHolder, Fits, Bounded, Outside, At, Goto, hardware, Dma, Places,
            SizeT, Verdicts, Results
<1>1. CASE Send(t)
  <2>1. prot_error' \in Errors \cup {"none"} /\ balance' \in Nat /\ latched' \subseteq Sources
        /\ fault' \in {"no", "yes", "hidden"}
    BY <1>1 DEF Send, Request, Errors, Sources
  <2>2. pc' \in [Threads -> Places]
    BY <1>1 DEF Send
  <2>3. /\ op[t].left \in Nat \ {0} /\ op[t].n \in Nat /\ op[t].left <= op[t].n
        /\ Updated(op', t, op[t].left - 1, op[t].count,
                   IF op[t].kind = "wloop" THEN op[t].seen + 1 ELSE op[t].seen,
                   op[t].error, op[t].res, op[t].aborted)
    BY <1>1, SendOp
  <2>4. TypeOK'
    BY <1>1, <2>1, <2>2, <2>3 DEF Send, Updated
  <2>5. op[t].kind \notin {"rdma", "wdma"} /\ op'[t].kind = op[t].kind
    BY <1>1, <2>3 DEF Send, Updated
  <2>6. op'[t].left <= op'[t].n
        /\ (pc'[t] = "answer" /\ op'[t].kind = "rloop" => op'[t].left < op'[t].n)
    BY <2>3 DEF Updated
  <2>7. pc'[t] \notin Outside \cup {"send"} /\ sem_hw' = sem_hw
        /\ \A u \in Threads : u # t => pc'[u] = pc[u] /\ op'[u] = op[u]
    BY <1>1, <2>3 DEF Send, Updated
  <2>8. Bounded'
    BY <1>1, <2>5, <2>6, <2>7 DEF Send
  <2> QED BY <1>1, <2>4, <2>5, <2>7, <2>8 DEF Send
<1>2. CASE Single(t)
  <2>1. PICK e \in {SingleError, ConfirmedError}, c \in Nat :
          Updated(op', t, op[t].left, c, op[t].seen, e, op[t].res, op[t].aborted)
    BY <1>2, SingleOp
  <2>2. TypeOK'
    BY <1>2, <2>1 DEF Single, Updated
  <2> QED BY <1>2, <2>1, <2>2 DEF Single, Updated, OpType
<1>3. CASE ReadWord(t)
  BY <1>3 DEF ReadWord, Errors, OpType
<1>4. CASE Room(t)
  BY <1>4, BoundsAssumption DEF Room, NextWord, OpType
<1>13. CASE RoomError(t)
  <2>1. PICK e \in Verdicts :
          /\ Updated(op', t, op[t].left, op[t].count, op[t].seen, e, op[t].res, op[t].aborted)
          /\ pc' = [pc EXCEPT ![t] = IF e # "none" \/ op[t].left = 0 THEN "balance" ELSE "send"]
    BY <1>13, RoomErrorOp
  <2>2. TypeOK'
    BY <1>13, <2>1 DEF RoomError, Updated
  <2> QED BY <1>13, <2>1, <2>2 DEF RoomError, Updated, OpType, SizeT
<1>5. CASE Balance(t)
  BY <1>5 DEF Balance, OpType
<1>6. CASE Drain(t)
  <2>1. PICK e \in Verdicts, c \in Nat :
          Updated(op', t, op[t].left, c, op[t].seen, e, op[t].res, op[t].aborted)
    BY <1>6, DrainOp
  <2>2. TypeOK'
    BY <1>6, <2>1 DEF Drain, Updated
  <2>3. pc' \in {[pc EXCEPT ![t] = "balance"], [pc EXCEPT ![t] = "leave"]}
        /\ pc[t] = "drain" /\ op[t].kind = "wloop" /\ sem_hw' = sem_hw /\ d0_bc' = d0_bc
    BY <1>6 DEF Drain
  <2> QED BY <2>1, <2>2, <2>3 DEF Updated
<1>7. CASE PipeOut(t)
  BY <1>7 DEF PipeOut, Request, Errors, Sources, OpType
<1>8. CASE PipeOutEnd(t)
  <2>1. Updated(op', t, 0, op[t].count, op[t].seen, prot_error, op[t].res, op[t].aborted)
    BY <1>8, PipeOutEndOp
  <2>2. TypeOK'
    BY <1>8, <2>1 DEF PipeOutEnd, Updated
  <2> QED BY <1>8, <2>1, <2>2 DEF PipeOutEnd, Updated, OpType
<1>9. CASE PipeIn(t)
  BY <1>9 DEF PipeIn, Request, Errors, Sources, OpType
<1>10. CASE PipeListen(t)
  BY <1>10 DEF PipeListen, Enable, Sources
<1>11. CASE PipeCheck(t) \/ PipeInterrupted(t)
  BY <1>11 DEF PipeCheck, PipeInterrupted, OpType
<1>12. CASE PipeCollect(t)
  <2>1. PICK e \in Verdicts, c \in Nat :
          Updated(op', t, op[t].left, c, op[t].seen, e, op[t].res, op[t].aborted)
    BY <1>12, PipeCollectOp
  <2>2. TypeOK'
    BY <1>12, <2>1 DEF PipeCollect, Updated
  <2>3. pc' = [pc EXCEPT ![t] = "leave"] /\ pc[t] = "collect"
        /\ op[t].kind \in {"rpipe", "pipe"} /\ sem_hw' = sem_hw /\ d0_bc' = d0_bc
    BY <1>12 DEF PipeCollect
  <2> QED BY <2>1, <2>2, <2>3 DEF Updated
<1> QED
  BY <1>1, <1>2, <1>3, <1>4, <1>5, <1>6, <1>7, <1>8, <1>9, <1>10, <1>11, <1>12, <1>13
     DEF Programmed

LEMMA BlockDmaTypes ==
    ASSUME TypeInv, NEW t \in Threads, BlockDma(t)
    PROVE  TypeInv'
<1> USE ThreadsAssumption, BoundsAssumption
        DEF TypeInv, TypeOK, OneHolder, Fits, Bounded, Outside, At, Goto, hardware, Dma, Places,
            SizeT, Verdicts, Results
<1>1. CASE Prepare(t)
  <2>1. op[t].left \in Nat /\ Min2(op[t].left, DmaMax) \in Nat
        /\ Min2(op[t].left, DmaMax) <= op[t].left
    BY BoundsAssumption DEF Min2, OpType
  <2> QED BY <1>1, <2>1 DEF Prepare, OpType, Sources
<1>2. CASE DmaClear(t)
  BY <1>2 DEF DmaClear
<1>3. CASE DmaEnable(t)
  BY <1>3 DEF DmaEnable, Enable, Wanted, Sources, Local
<1>4. CASE DmaStart(t)
  BY <1>4 DEF DmaStart, Request, Errors, Sources
<1>5. CASE DmaWoken(t)
  BY <1>5 DEF DmaWoken
<1>6. CASE DmaKilled(t)
  BY <1>6 DEF DmaKilled, OpType
<1>7. CASE CollectRead(t)
  <2>1. PICK n \in Nat : /\ n < SizeLimit /\ (~ReadAborted(t) => n <= op[t].size)
                         /\ Updated(op', t, op[t].left, op[t].count, n,
                                    op[t].error, op[t].res, ReadAborted(t))
    BY <1>7, CollectReadOp
  <2>2. TypeOK'
    BY <1>7, <2>1 DEF CollectRead, DmaStopped, Updated
  <2> QED BY <1>7, <2>1, <2>2 DEF CollectRead, Updated
<1>8. CASE FinishRead(t)
  <2>1. PICK r \in SizeT, res \in Copied(t) :
           /\ Minus(op[t].n, r) \in SizeT
           /\ ~op[t].aborted => r <= op[t].left
           /\ Updated(op', t, r, Minus(op[t].n, r), op[t].seen, ReadError(t), res,
                      op[t].aborted)
           /\ \/ pc' = [pc EXCEPT ![t] = "leave"]
              \/ pc' = [pc EXCEPT ![t] = "prepare"] /\ ReadError(t) = "none"
    BY <1>8, FinishReadOp
  <2>2. TypeOK'
    BY <1>8, <2>1 DEF FinishRead, Updated
  <2>3. pc' = [pc EXCEPT ![t] = "prepare"] => ~op[t].aborted
    BY <2>1 DEF ReadError
  <2>4. pc[t] = "finish" /\ sem_hw' = sem_hw /\ d0_bc' = d0_bc
    BY <1>8 DEF FinishRead
  <2> QED BY <2>1, <2>2, <2>3, <2>4, WordsFit DEF Updated, OpType
<1>10. CASE CopyOops(t)
  BY <1>10 DEF CopyOops
<1>9. CASE CollectWrite(t)
  <2>1. PICK r \in SizeT :
           /\ r <= op[t].left /\ op[t].n - r \in SizeT
           /\ Updated(op', t, r, op[t].n - r, op[t].seen, WriteError(t),
                      WriteRes(t), op[t].aborted)
           /\ pc' = [pc EXCEPT ![t] =
                 IF r # 0 /\ WriteRes(t) = "ok" /\ WriteError(t) = "none"
                 THEN "prepare" ELSE "leave"]
    BY <1>9, CollectWriteOp
  <2>2. TypeOK'
    BY <1>9, <2>1 DEF CollectWrite, Updated
  <2>3. pc[t] = "collect" /\ op[t].kind = "wdma" /\ sem_hw' = sem_hw /\ d0_bc' = d0_bc
    BY <1>9 DEF CollectWrite
  <2> QED BY <2>1, <2>2, <2>3 DEF Updated, OpType
<1> QED BY <1>1, <1>2, <1>3, <1>4, <1>5, <1>6, <1>7, <1>8, <1>9, <1>10 DEF BlockDma

\* The DMA that runs is the one of the call under way.
LEMMA SizeIs ==
    ASSUME TypeInv, NEW t \in Threads, sem_hw = t, op[t].kind \in Dma
    PROVE  Transferring = {t} /\ Size = op[t].size
<1>1. Transferring = {t}
  BY DEF Transferring
<1> QED BY <1>1 DEF Size

LEMMA NoSize ==
    ASSUME TypeInv, \A t \in Threads : sem_hw = t => op[t].kind \notin Dma
    PROVE  Transferring = {} /\ Size = 0
BY DEF Transferring, Size

\* The steps of the hardware, the interrupt handler and the irq thread.
Environment ==
    Confirm \/ Timeout \/ DmaMove \/ DmaEnd \/ DmaFail \/ LinkChange
    \/ Interrupt \/ SynchHandler \/ InitRemote

LEMMA EnvironmentTypes ==
    ASSUME TypeInv, Environment
    PROVE  TypeInv'
<1> USE ThreadsAssumption
        DEF TypeInv, TypeOK, OneHolder, Fits, Bounded, Outside, hardware, Dma, Places
<1>1. CASE Confirm
  BY <1>1 DEF Confirm, Blame, Errors, Sources
<1>2. CASE Timeout
  BY <1>2 DEF Timeout, Blame, Errors, Sources
<1>3. CASE DmaMove
  <2>1. d0_bc' \in Nat /\ words' \in Nat
    BY <1>3 DEF DmaMove
  <2>2. ASSUME NEW t \in Threads, pc[t] \notin Outside, op[t].kind \in Dma
        PROVE  d0_bc' <= op[t].size
    <3>1. Size = op[t].size
      BY <2>2, SizeIs
    <3> QED BY <1>3, <3>1 DEF DmaMove, OpType
  <2>3. TypeOK'
    BY <1>3, <2>1 DEF DmaMove
  <2> QED BY <1>3, <2>2, <2>3 DEF DmaMove
<1>4. CASE DmaEnd
  BY <1>4 DEF DmaEnd, Sources
<1>5. CASE DmaFail
  BY <1>5 DEF DmaFail, Blame, Errors, Sources
<1>6. CASE LinkChange
  BY <1>6 DEF LinkChange, Sources
<1>7. CASE Interrupt
  BY <1>7 DEF Interrupt, Sources, Local
<1>8. CASE SynchHandler
  BY <1>8 DEF SynchHandler, Enable, Sources, Local
<1>9. CASE InitRemote
  BY <1>9 DEF InitRemote
<1> QED
  BY <1>1, <1>2, <1>3, <1>4, <1>5, <1>6, <1>7, <1>8, <1>9 DEF Environment

LEMMA UnlockTypes ==
    ASSUME TypeInv, NEW t \in Threads, Unlock(t)
    PROVE  TypeInv'
<1> USE ThreadsAssumption
        DEF TypeInv, TypeOK, OneHolder, Fits, Bounded, Outside, Goto, Unlock, Dma, Places
<1>1. /\ NewOp("single", 0) \in OpType /\ NewOp("single", 0).left = 0
      /\ NewOp("single", 0).n = 0 /\ NewOp("single", 0).kind = "single"
  BY BoundsAssumption DEF NewOp, OpType, Kinds, SizeT, Verdicts, Results
<1>2. dirty' \in BOOLEAN
  BY DEF Cut
<1>3. op' = [op EXCEPT ![t] = NewOp("single", 0)]
  OBVIOUS
<1>4. TypeOK'
  BY <1>1, <1>2, <1>3
<1> QED BY <1>1, <1>3, <1>4

-----------------------------------------------------------------------------
(* All steps. *)

LEMMA Actions ==
    ASSUME [Next]_vars
    PROVE  \/ \E t \in Threads : \/ Call(t) \/ Lock(t) \/ Programmed(t) \/ BlockDma(t)
                                 \/ Unlock(t)
           \/ Environment
           \/ UNCHANGED vars
BY DEF Next, Step, Programmed, BlockDma, Environment, Halted

LEMMA TypeStep == TypeInv /\ [Next]_vars => TypeInv'
<1> SUFFICES ASSUME TypeInv, [Next]_vars PROVE TypeInv'
  OBVIOUS
<1>1. CASE UNCHANGED vars
  BY <1>1 DEF vars, hardware, TypeInv, TypeOK, OneHolder, Fits, Bounded
<1> QED
  BY <1>1, Actions, EnterTypes, ProgrammedTypes, BlockDmaTypes, EnvironmentTypes, UnlockTypes

\* The values of all variables have their types: no count of words, requests
\* or confirmations falls below zero.
THEOREM TypesHold == Spec => []TypeOK
<1>1. Init => TypeInv
  BY InitTypes
<1>2. TypeInv /\ [Next]_vars => TypeInv'
  BY TypeStep
<1>3. TypeInv => TypeOK
  BY DEF TypeInv
<1> QED BY <1>1, <1>2, <1>3, PTL DEF Spec

-----------------------------------------------------------------------------
(* What the calls leave behind in the hardware. *)

\* A step of the holder that keeps sem_hw has to keep only its own part.
LEMMA HolderStep ==
    ASSUME TypeInv, Quiet, NEW t \in Threads, pc[t] \notin Outside,
           sem_hw' = sem_hw, dirty' = dirty,
           ~dirty /\ QuietAt(t) => QuietAt(t)'
    PROVE  Quiet'
BY ThreadsAssumption DEF TypeInv, OneHolder, Quiet

LEMMA ProgrammedQuiet ==
    ASSUME TypeInv, Quiet, NEW t \in Threads, Programmed(t)
    PROVE  Quiet'
<1>1. pc[t] \notin Outside /\ sem_hw' = sem_hw /\ dirty' = dirty
  BY DEF Programmed, At, Send, Single, ReadWord, Room, RoomError, Balance, Drain, PipeOut, PipeOutEnd,
         PipeIn, PipeListen, PipeCheck, PipeInterrupted, PipeCollect, Outside
<1>2. SUFFICES ASSUME ~dirty, QuietAt(t) PROVE QuietAt(t)'
  BY <1>1, HolderStep
<1> USE <1>2 DEF TypeInv, TypeOK, Fits, At, Goto, QuietAt, Calm, Cut, Dma
<1>3. CASE Send(t)
  <2>1. op'[t].kind = op[t].kind
    BY <1>3, SendOp DEF Updated
  <2> QED BY <1>3, <2>1 DEF Send, Request
<1>4. CASE Single(t)
  <2>1. PICK e \in {SingleError, ConfirmedError}, c \in Nat :
          Updated(op', t, op[t].left, c, op[t].seen, e, op[t].res, op[t].aborted)
    BY <1>4, SingleOp
  <2> QED BY <1>4, <2>1 DEF Single, Updated, Readable, SingleError, ConfirmedError, Errors, Deadlocks
<1>5. CASE ReadWord(t)
  BY <1>5 DEF ReadWord, Readable, OpType
<1>6. CASE Room(t)
  BY <1>6 DEF Room, NextWord, OpType, hardware
<1>15. CASE RoomError(t)
  <2>1. PICK e \in Verdicts :
          /\ Updated(op', t, op[t].left, op[t].count, op[t].seen, e, op[t].res, op[t].aborted)
          /\ pc' = [pc EXCEPT ![t] = IF e # "none" \/ op[t].left = 0 THEN "balance" ELSE "send"]
    BY <1>15, RoomErrorOp
  <2> QED BY <1>15, <2>1 DEF RoomError, Updated
<1>7. CASE Balance(t)
  BY <1>7 DEF Balance, OpType, hardware
<1>8. CASE Drain(t)
  <2>1. PICK e \in Verdicts, c \in Nat :
          Updated(op', t, op[t].left, c, op[t].seen, e, op[t].res, op[t].aborted)
    BY <1>8, DrainOp
  <2> QED BY <1>8, <2>1 DEF Drain, Drained, Updated
<1>9. CASE PipeOut(t)
  BY <1>9 DEF PipeOut, Request
<1>10. CASE PipeOutEnd(t)
  <2>1. Updated(op', t, 0, op[t].count, op[t].seen, prot_error, op[t].res, op[t].aborted)
    BY <1>10, PipeOutEndOp
  <2> QED BY <1>10, <2>1 DEF PipeOutEnd, Updated, Readable
<1>11. CASE PipeIn(t)
  BY <1>11 DEF PipeIn, Request
<1>12. CASE PipeListen(t)
  BY <1>12 DEF PipeListen, Enable
<1>13. CASE PipeCheck(t) \/ PipeInterrupted(t)
  BY <1>13 DEF PipeCheck, PipeInterrupted, OpType, hardware
<1>14. CASE PipeCollect(t)
  <2>1. PICK e \in Verdicts, c \in Nat :
          Updated(op', t, op[t].left, c, op[t].seen, e, op[t].res, op[t].aborted)
    BY <1>14, PipeCollectOp
  <2> QED BY <1>14, <2>1 DEF PipeCollect, Updated
<1> QED
  BY <1>3, <1>4, <1>5, <1>6, <1>7, <1>8, <1>9, <1>10, <1>11, <1>12, <1>13, <1>14, <1>15
     DEF Programmed

LEMMA BlockDmaQuiet ==
    ASSUME ~AbortCanFail, TypeInv, Quiet, NEW t \in Threads, BlockDma(t)
    PROVE  Quiet'
<1>1. pc[t] \notin Outside /\ sem_hw' = sem_hw /\ dirty' = dirty
  BY DEF BlockDma, At, Prepare, DmaClear, DmaEnable, DmaStart, DmaWoken, DmaKilled,
         CollectRead, FinishRead, CopyOops, CollectWrite, Outside
<1>2. SUFFICES ASSUME ~dirty, QuietAt(t) PROVE QuietAt(t)'
  BY <1>1, HolderStep
<1> USE <1>2 DEF TypeInv, TypeOK, Fits, At, Goto, QuietAt, Calm, Cut, Dma
<1>3. CASE Prepare(t)
  BY <1>3 DEF Prepare, OpType
<1>4. CASE DmaClear(t)
  BY <1>4 DEF DmaClear, hardware
<1>5. CASE DmaEnable(t)
  BY <1>5 DEF DmaEnable, Enable
<1>6. CASE DmaStart(t)
  BY <1>6 DEF DmaStart, Request
<1>7. CASE DmaWoken(t)
  BY <1>7 DEF DmaWoken
<1>8. CASE DmaKilled(t)
  BY <1>8 DEF DmaKilled, OpType
<1>9. CASE CollectRead(t)
  <2>1. PICK n \in Nat : Updated(op', t, op[t].left, op[t].count, n, op[t].error, op[t].res,
                                ReadAborted(t))
    BY <1>9, CollectReadOp
  <2> QED BY <1>9, <2>1 DEF CollectRead, Updated, DmaStopped, ReadAborted
<1>10. CASE FinishRead(t)
  <2>1. PICK r \in SizeT, res \in Copied(t) :
           /\ Updated(op', t, r, Minus(op[t].n, r), op[t].seen, ReadError(t), res,
                      op[t].aborted)
           /\ \/ pc' = [pc EXCEPT ![t] = "leave"]
              \/ pc' = [pc EXCEPT ![t] = "prepare"] /\ res = "ok" /\ ReadError(t) = "none"
    BY <1>10, FinishReadOp
  <2> QED BY <1>10, <2>1 DEF FinishRead, Updated, ReadError
<1>12. CASE CopyOops(t)
  BY <1>12 DEF CopyOops
<1>11. CASE CollectWrite(t)
  <2>1. PICK r \in SizeT :
           /\ Updated(op', t, r, op[t].n - r, op[t].seen, WriteError(t), WriteRes(t),
                      op[t].aborted)
           /\ pc' = [pc EXCEPT ![t] =
                 IF r # 0 /\ WriteRes(t) = "ok" /\ WriteError(t) = "none"
                 THEN "prepare" ELSE "leave"]
    BY <1>11, CollectWriteOp
  <2> QED BY <1>11, <2>1 DEF CollectWrite, Updated, WriteRes, WriteError
<1> QED BY <1>3, <1>4, <1>5, <1>6, <1>7, <1>8, <1>9, <1>10, <1>11, <1>12 DEF BlockDma

LEMMA EnterQuiet ==
    ASSUME TypeInv, Quiet, NEW t \in Threads, Call(t) \/ Lock(t)
    PROVE  Quiet'
<1>1. CASE Call(t)
  <2>1. pc[t] = "idle" /\ sem_hw # t
    BY <1>1 DEF Call, TypeInv, OneHolder, Outside
  <2> QED
    BY <1>1, <2>1 DEF Call, Goto, Quiet, QuietAt, Calm, Cut, hardware, TypeInv, TypeOK
<1>2. CASE Lock(t)
  <2>1. PICK n \in 1..MaxWords, k \in Kinds : Begin(t, k, n)
    BY <1>2, SettingsAssumption DEF Lock, Route, Direction, Kinds
  <2>2. op'[t].kind = k /\ pc'[t] = IF k \in {"rdma", "wdma"} THEN "prepare" ELSE "send"
    BY <2>1 DEF Begin, NewOp, Goto, TypeInv, TypeOK
  <2>3. /\ balance' = balance /\ prot_error' = prot_error /\ plx0' = plx0
        /\ dirty' = dirty /\ sem_hw = Nobody /\ sem_hw' = t
    BY <1>2 DEF Lock
  <2>4. ~dirty => Calm /\ Calm'
    BY <2>3 DEF Quiet, Calm
  <2> QED BY <2>2, <2>3, <2>4, ThreadsAssumption DEF Quiet, QuietAt, Calm, Dma
<1> QED BY <1>1, <1>2

LEMMA UnlockQuiet ==
    ASSUME TypeInv, Quiet, NEW t \in Threads, Unlock(t)
    PROVE  Quiet'
<1>1. sem_hw = t /\ pc[t] = "leave"
  BY DEF Unlock, TypeInv, OneHolder, Outside
<1>2. ~dirty' => ~dirty /\ ~Cut(t)
  BY DEF Unlock
<1>3. ~dirty' => Calm
  BY <1>1, <1>2 DEF Quiet, QuietAt
<1> QED BY <1>3, ThreadsAssumption DEF Unlock, Quiet, Calm

LEMMA EnvironmentQuiet ==
    ASSUME TypeInv, Quiet, Environment
    PROVE  Quiet'
<1> USE DEF Quiet, QuietAt, Calm, Dma, TypeInv, TypeOK, OneHolder, Fits, Outside
<1>1. CASE Confirm
  BY <1>1 DEF Confirm, Cut
<1>2. CASE Timeout
  BY <1>2 DEF Timeout, Cut
<1>3. CASE DmaMove
  BY <1>3 DEF DmaMove, Cut
<1>4. CASE DmaEnd
  BY <1>4 DEF DmaEnd, Cut, Transferring
<1>5. CASE DmaFail
  BY <1>5 DEF DmaFail, Cut, Transferring
<1>6. CASE LinkChange
  BY <1>6 DEF LinkChange, Cut
<1>7. CASE Interrupt
  BY <1>7 DEF Interrupt, Cut, Local
<1>8. CASE SynchHandler
  BY <1>8 DEF SynchHandler, Enable, Cut
<1>9. CASE InitRemote
  BY <1>9, ThreadsAssumption DEF InitRemote
<1> QED
  BY <1>1, <1>2, <1>3, <1>4, <1>5, <1>6, <1>7, <1>8, <1>9 DEF Environment

LEMMA QuietStep ==
    ~AbortCanFail /\ TypeInv /\ Quiet /\ [Next]_vars => Quiet'
<1> SUFFICES ASSUME ~AbortCanFail, TypeInv, Quiet, [Next]_vars PROVE Quiet'
  OBVIOUS
<1>1. CASE UNCHANGED vars
  BY <1>1 DEF vars, hardware, Quiet, QuietAt, Calm, Cut
<1> QED
  BY <1>1, Actions, EnterQuiet, ProgrammedQuiet, BlockDmaQuiet, EnvironmentQuiet, UnlockQuiet

\* If the abort of a DMA does what it should, whoever takes sem_hw finds the
\* hardware as it must be for a transfer of its own, for any number of
\* threads and words, unless a call before was cut off.
THEOREM HardwareSettled ==
    ASSUME ~AbortCanFail
    PROVE  Spec => []Settled
<1>1. Init => IInv
  BY InitTypes, ThreadsAssumption DEF Init, IInv, Quiet, Calm
<1>2. IInv /\ [Next]_vars => IInv'
  BY TypeStep, QuietStep DEF IInv
<1>3. IInv => Settled
  BY DEF IInv, Quiet, Calm, Settled
<1> QED BY <1>1, <1>2, <1>3, PTL DEF Spec
-----------------------------------------------------------------------------
(* What becomes of the error of a request. *)

LEMMA HolderTells ==
    ASSUME TypeInv, Told, NEW t \in Threads, pc[t] \notin Outside,
           sem_hw' = sem_hw, dirty' = dirty, op'[t].kind = op[t].kind,
           ~dirty /\ ~Silent(t) /\ ToldAt(t) => ToldAt(t)'
    PROVE  Told'
BY ThreadsAssumption DEF TypeInv, OneHolder, Told, Silent

LEMMA ProgrammedTold ==
    ASSUME TypeInv, Quiet, Told, NEW t \in Threads, Programmed(t)
    PROVE  Told'
<1>1. pc[t] \notin Outside /\ sem_hw' = sem_hw /\ dirty' = dirty
  BY DEF Programmed, At, Send, Single, ReadWord, Room, RoomError, Balance, Drain, PipeOut, PipeOutEnd,
         PipeIn, PipeListen, PipeCheck, PipeInterrupted, PipeCollect, Outside
<1>2. ~dirty => QuietAt(t)
  BY <1>1 DEF Quiet, TypeInv, OneHolder
<1> DEFINE Kept == op'[t].kind = op[t].kind /\ (~dirty /\ ~Silent(t) /\ ToldAt(t) => ToldAt(t)')
<1>3. SUFFICES Kept
  BY <1>1, HolderTells
<1> USE <1>2 DEF TypeInv, TypeOK, Fits, At, Goto, Silent, Failed, ToldAt, Deadlocks, Transient, Dma
<1>4. CASE Send(t)
  <2>1. Updated(op', t, op[t].left - 1, op[t].count,
                IF op[t].kind = "wloop" THEN op[t].seen + 1 ELSE op[t].seen,
                op[t].error, op[t].res, op[t].aborted)
    BY <1>4, SendOp
  <2> QED BY <1>4, <2>1 DEF Send, Request, Updated
<1>5. CASE Single(t)
  <2>1. PICK e \in {SingleError, ConfirmedError}, c \in Nat :
          Updated(op', t, op[t].left, c, op[t].seen, e, op[t].res, op[t].aborted)
    BY <1>5, SingleOp
  <2> QED BY <1>5, <2>1 DEF Single, Updated, SingleError, ConfirmedError, Errors, Overlooked
<1>6. CASE ReadWord(t)
  BY <1>6 DEF ReadWord, OpType, Overlooked
<1>7. CASE Room(t)
  BY <1>7 DEF Room, NextWord, OpType, hardware
<1>16. CASE RoomError(t)
  <2>1. PICK e \in Verdicts :
          /\ e \in {prot_error, "e_dlock"}
          /\ Updated(op', t, op[t].left, op[t].count, op[t].seen, e, op[t].res, op[t].aborted)
          /\ pc' = [pc EXCEPT ![t] = IF e # "none" \/ op[t].left = 0 THEN "balance" ELSE "send"]
    BY <1>16, RoomErrorOp
  <2> QED BY <1>16, <2>1 DEF RoomError, Updated, Transient
<1>8. CASE Balance(t)
  BY <1>8 DEF Balance, OpType, hardware
<1>9. CASE Drain(t)
  BY <1>9 DEF Drain, ConfirmedError, Errors, OpType, Overlooked
<1>10. CASE PipeOut(t)
  BY <1>10 DEF PipeOut, Request
<1>11. CASE PipeOutEnd(t)
  <2>1. Updated(op', t, 0, op[t].count, op[t].seen, prot_error, op[t].res, op[t].aborted)
    BY <1>11, PipeOutEndOp
  <2> QED BY <1>11, <2>1 DEF PipeOutEnd, Updated, Overlooked
<1>12. CASE PipeIn(t)
  BY <1>12 DEF PipeIn, Request
<1>13. CASE PipeListen(t)
  BY <1>13 DEF PipeListen, Enable
<1>14. CASE PipeCheck(t) \/ PipeInterrupted(t)
  BY <1>14 DEF PipeCheck, PipeInterrupted, OpType, hardware
<1>15. CASE PipeCollect(t)
  BY <1>15 DEF PipeCollect, OpType, Overlooked
<1> QED
  BY <1>4, <1>5, <1>6, <1>7, <1>8, <1>9, <1>10, <1>11, <1>12, <1>13, <1>14, <1>15, <1>16
     DEF Programmed

LEMMA BlockDmaTold ==
    ASSUME TypeInv, Quiet, Told, NEW t \in Threads, BlockDma(t)
    PROVE  Told'
<1>1. pc[t] \notin Outside /\ sem_hw' = sem_hw /\ dirty' = dirty
  BY DEF BlockDma, At, Prepare, DmaClear, DmaEnable, DmaStart, DmaWoken, DmaKilled,
         CollectRead, FinishRead, CopyOops, CollectWrite, Outside
<1> DEFINE Kept == op'[t].kind = op[t].kind /\ (~dirty /\ ~Silent(t) /\ ToldAt(t) => ToldAt(t)')
<1>3. SUFFICES Kept
  BY <1>1, HolderTells
<1> USE DEF TypeInv, TypeOK, Fits, At, Goto, Silent, Failed, ToldAt, Deadlocks, Transient, Dma
<1>4. CASE Prepare(t)
  BY <1>4 DEF Prepare, OpType, Overlooked
<1>5. CASE DmaClear(t)
  BY <1>5 DEF DmaClear, hardware
<1>6. CASE DmaEnable(t)
  BY <1>6 DEF DmaEnable, Enable
<1>7. CASE DmaStart(t)
  BY <1>7 DEF DmaStart, Request
<1>8. CASE DmaWoken(t)
  BY <1>8 DEF DmaWoken
<1>9. CASE DmaKilled(t)
  BY <1>9 DEF DmaKilled, OpType
<1>10. CASE CollectRead(t)
  <2>1. PICK n \in Nat : Updated(op', t, op[t].left, op[t].count, n, op[t].error, op[t].res,
                                ReadAborted(t))
    BY <1>10, CollectReadOp
  <2> QED BY <1>10, <2>1 DEF CollectRead, Updated
<1>11. CASE FinishRead(t)
  <2>1. PICK r \in SizeT, res \in Copied(t) :
           /\ Updated(op', t, r, Minus(op[t].n, r), op[t].seen, ReadError(t), res,
                      op[t].aborted)
           /\ \/ pc' = [pc EXCEPT ![t] = "leave"]
              \/ pc' = [pc EXCEPT ![t] = "prepare"] /\ res = "ok" /\ ReadError(t) = "none"
    BY <1>11, FinishReadOp
  <2> QED BY <1>11, <2>1 DEF FinishRead, Updated, ReadError, ReadRes, Copied, Overlooked
<1>13. CASE CopyOops(t)
  BY <1>13 DEF CopyOops
<1>12. CASE CollectWrite(t)
  <2>1. PICK r \in SizeT :
           /\ Updated(op', t, r, op[t].n - r, op[t].seen, WriteError(t), WriteRes(t),
                      op[t].aborted)
           /\ pc' = [pc EXCEPT ![t] =
                 IF r # 0 /\ WriteRes(t) = "ok" /\ WriteError(t) = "none"
                 THEN "prepare" ELSE "leave"]
    BY <1>12, CollectWriteOp
  <2> QED BY <1>12, <2>1 DEF CollectWrite, Updated, WriteRes, WriteError, Overlooked
<1> QED BY <1>4, <1>5, <1>6, <1>7, <1>8, <1>9, <1>10, <1>11, <1>12, <1>13 DEF BlockDma

LEMMA EnterTold ==
    ASSUME TypeInv, Quiet, Told, NEW t \in Threads, Call(t) \/ Lock(t)
    PROVE  Told'
<1>1. CASE Call(t)
  <2>1. pc[t] = "idle" /\ sem_hw # t
    BY <1>1 DEF Call, TypeInv, OneHolder, Outside
  <2> QED
    BY <1>1, <2>1 DEF Call, Goto, Told, ToldAt, Silent, Failed, Overlooked, hardware, TypeInv, TypeOK
<1>2. CASE Lock(t)
  <2>1. PICK n \in 1..MaxWords, k \in Kinds : Begin(t, k, n)
    BY <1>2, SettingsAssumption DEF Lock, Route, Direction, Kinds
  <2>2. op'[t].error = "none" /\ pc'[t] \in {"prepare", "send"}
    BY <2>1 DEF Begin, NewOp, Goto, TypeInv, TypeOK
  <2>3. /\ prot_error' = prot_error /\ balance' = balance /\ fault' = fault
        /\ dirty' = dirty /\ sem_hw = Nobody /\ sem_hw' = t
    BY <1>2 DEF Lock
  <2>4. ~dirty => Calm
    BY <2>3 DEF Quiet
  <2> QED BY <2>2, <2>3, <2>4, ThreadsAssumption DEF Told, ToldAt, Failed, Calm, Deadlocks
<1> QED BY <1>1, <1>2

LEMMA EnvironmentTold ==
    ASSUME TypeInv, Quiet, Told, Environment
    PROVE  Told'
<1> USE DEF Told, ToldAt, Silent, Failed, Deadlocks, Transient, Overlooked, Dma, TypeInv, TypeOK
<1>1. \A t \in Threads : sem_hw = t /\ ~dirty => QuietAt(t)
  BY DEF Quiet
<1>2. CASE Confirm
  <2> SUFFICES ASSUME ~dirty, NEW t \in Threads, sem_hw = t, ~Silent(t)
               PROVE  ToldAt(t)'
    BY <1>2 DEF Confirm, Blame
  <2>1. Reading => pc[t] \in {"answer", "drain", "fifo"}
    BY DEF Reading, OneHolder, Outside
  <2>2. pc[t] = "leave" => Cut(t)
    BY <1>1, <1>2 DEF Confirm, QuietAt, Calm
  <2> QED BY <1>2, <2>1, <2>2, ThreadsAssumption DEF Confirm, Blame, Cut, Fits
<1>3. CASE Timeout
  <2> SUFFICES ASSUME ~dirty, NEW t \in Threads, sem_hw = t, ~Silent(t)
               PROVE  ToldAt(t)'
    BY <1>3 DEF Timeout, Blame
  <2>2. pc[t] = "leave" => Cut(t)
    BY <1>1, <1>3 DEF Timeout, QuietAt, Calm
  <2> QED BY <1>3, <2>2, ThreadsAssumption DEF Timeout, Blame, Cut
<1>4. CASE DmaMove
  BY <1>4 DEF DmaMove
<1>5. CASE DmaEnd
  BY <1>5 DEF DmaEnd
<1>6. CASE DmaFail
  <2> SUFFICES ASSUME ~dirty, NEW t \in Threads, sem_hw = t, ~Silent(t)
               PROVE  ToldAt(t)'
    BY <1>6 DEF DmaFail, Blame
  <2>2. pc[t] = "leave" => Cut(t)
    BY <1>1, <1>6 DEF DmaFail, QuietAt, Calm
  <2>3. op[t].kind \in Dma
    BY <1>6 DEF DmaFail, Transferring
  <2> QED BY <1>6, <2>2, <2>3, ThreadsAssumption DEF DmaFail, Blame, Cut, Dma, Fits
<1>7. CASE LinkChange
  BY <1>7 DEF LinkChange
<1>8. CASE Interrupt
  BY <1>8 DEF Interrupt
<1>9. CASE SynchHandler
  BY <1>9 DEF SynchHandler
<1>10. CASE InitRemote
  BY <1>10, ThreadsAssumption DEF InitRemote
<1> QED
  BY <1>2, <1>3, <1>4, <1>5, <1>6, <1>7, <1>8, <1>9, <1>10 DEF Environment

LEMMA UnlockTold ==
    ASSUME NEW t \in Threads, Unlock(t)
    PROVE  Told'
BY ThreadsAssumption DEF Unlock, Told

LEMMA ToldStep ==
    TypeInv /\ Quiet /\ Told /\ [Next]_vars => Told'
<1> SUFFICES ASSUME TypeInv, Quiet, Told, [Next]_vars PROVE Told'
  OBVIOUS
<1>1. CASE UNCHANGED vars
  BY <1>1 DEF vars, hardware, Told, ToldAt, Silent, Failed, Overlooked
<1> QED
  BY <1>1, Actions, EnterTold, ProgrammedTold, BlockDmaTold, EnvironmentTold, UnlockTold

\* A transfer that had a failed request says so, and it is never told the error
\* of a request of another call: ErrorTold, for any number of threads and
\* words, if the abort of a DMA works.
THEOREM ErrorsTold ==
    ASSUME ~AbortCanFail
    PROVE  Spec => []ErrorTold
<1>1. Init => IInv /\ Told
  BY InitTypes, ThreadsAssumption DEF Init, IInv, Quiet, Calm, Told
<1>2. IInv /\ Told /\ [Next]_vars => IInv' /\ Told'
  BY TypeStep, QuietStep, ToldStep DEF IInv
<1>3. Told => ErrorTold
  BY DEF Told, ToldAt, ErrorTold, Ends, Silent, Overlooked
<1> QED BY <1>1, <1>2, <1>3, PTL DEF Spec

-----------------------------------------------------------------------------
(* What a call reports as moved. *)

LEMMA HolderCounts ==
    ASSUME TypeInv, CountInv, NEW t \in Threads, pc[t] \notin Outside,
           sem_hw' = sem_hw, dirty' = dirty, op'[t].kind = op[t].kind,
           ~dirty /\ ~Silent(t) /\ CountAt(t) => CountAt(t)'
    PROVE  CountInv'
BY ThreadsAssumption DEF TypeInv, OneHolder, CountInv, Silent

\* A call that has not been cut off leaves nothing open.
LEMMA WholeIsCalm ==
    ASSUME NEW t \in Threads, ~Silent(t), QuietAt(t), pc[t] = "leave", Whole(t)
    PROVE  Calm
BY DEF QuietAt, Whole, Cut, Silent

LEMMA ProgrammedCounts ==
    ASSUME TypeInv, Quiet, Told, CountInv, NEW t \in Threads, Programmed(t)
    PROVE  CountInv'
<1>1. pc[t] \notin Outside /\ sem_hw' = sem_hw /\ dirty' = dirty
  BY DEF Programmed, At, Send, Single, ReadWord, Room, RoomError, Balance, Drain, PipeOut, PipeOutEnd,
         PipeIn, PipeListen, PipeCheck, PipeInterrupted, PipeCollect, Outside
<1> DEFINE Kept == op'[t].kind = op[t].kind /\ (~dirty /\ ~Silent(t) /\ CountAt(t) => CountAt(t)')
<1>2. SUFFICES Kept
  BY <1>1, HolderCounts
<1>3. /\ ~dirty => QuietAt(t)
      /\ ~dirty /\ ~Silent(t) => ToldAt(t)
  BY <1>1 DEF Quiet, Told, TypeInv, OneHolder
<1> USE DEF TypeInv, TypeOK, Fits, At, Goto, Silent, CountAt, CountProgrammed, CountDma,
            CountEnd, Done, Dma
<1>4. CASE Send(t)
  <2>1. Updated(op', t, op[t].left - 1, op[t].count,
                IF op[t].kind = "wloop" THEN op[t].seen + 1 ELSE op[t].seen,
                op[t].error, op[t].res, op[t].aborted)
    BY <1>4, SendOp
  <2>2. op[t].left \in Nat \ {0} /\ op[t].n \in Nat /\ op[t].left <= op[t].n
    BY <1>4, SendOp
  <2>3. CountAt(t) /\ op[t].kind = "single" => op'[t].left = 0
    BY <2>1, <2>2 DEF Updated
  <2> QED BY <1>3, <1>4, <2>1, <2>2, <2>3, OpNumbers DEF Send, Request, Updated, QuietAt, Calm
<1>5. CASE Single(t)
  <2>1. PICK e \in {SingleError, ConfirmedError}, c \in Nat :
          /\ c = IF e = "none" THEN 1 ELSE 0
          /\ Updated(op', t, op[t].left, c, op[t].seen, e, op[t].res, op[t].aborted)
    BY <1>5, SingleOp
  <2>2. /\ op[t].kind = "single" /\ op'[t].kind = "single" /\ pc'[t] = "leave" /\ words' = words
        /\ op'[t].n = op[t].n /\ op'[t].count = c /\ op'[t].error = e
        /\ fault' = fault
    BY <1>5, <2>1 DEF Single, Updated
  <2>3. SUFFICES ASSUME ~dirty, CountAt(t), ~Overlooked(t), e = "none"
                 PROVE  words = 1
    BY <2>1, <2>2, OpNumbers DEF Overlooked, Whole
  <2>4. prot_error # "none" => prot_error \in Deadlocks
    BY <2>3 DEF SingleError, ConfirmedError, Errors, Deadlocks
  <2>5. prot_error # "le_dlock_re"
    BY <1>3, <1>5, <2>2, <2>3 DEF Single, ToldAt, Overlooked
  <2>6. prot_error \in {"none", "le_dlock"} /\ balance = 0
    BY <1>3, <1>5, <2>3, <2>4, <2>5, OpNumbers DEF Single, Readable, QuietAt, Deadlocks
  <2> QED BY <1>5, <2>2, <2>3, <2>6, OpNumbers DEF Single, Bounded
<1>6. CASE ReadWord(t)
  BY <1>3, <1>6, OpNumbers DEF ReadWord, OpType, Overlooked, Whole, QuietAt, Readable
<1>7. CASE Room(t)
  BY <1>7, OpNumbers DEF Room, NextWord, OpType, hardware
<1>16. CASE RoomError(t)
  <2>1. PICK e \in Verdicts :
          /\ Updated(op', t, op[t].left, op[t].count, op[t].seen, e, op[t].res, op[t].aborted)
          /\ pc' = [pc EXCEPT ![t] = IF e # "none" \/ op[t].left = 0 THEN "balance" ELSE "send"]
    BY <1>16, RoomErrorOp
  <2> QED BY <1>3, <1>16, <2>1, OpNumbers DEF RoomError, Updated, ToldAt
<1>8. CASE Balance(t)
  BY <1>8 DEF Balance, OpType, hardware
<1>9. CASE Drain(t)
  <2>1. PICK e \in Verdicts, c \in Nat :
          /\ e = "none" => op[t].error = "none" /\ ConfirmedError = "none"
          /\ c = IF e = "none" THEN op[t].n ELSE 0
          /\ Updated(op', t, op[t].left, c, op[t].seen, e, op[t].res, op[t].aborted)
    BY <1>9, DrainOp
  <2>2. ASSUME ~dirty, ~Silent(t), CountAt(t), e = "none"
        PROVE  /\ fault = "no" /\ words + balance = Done(t) /\ op[t].left = 0
               /\ balance' = balance
               /\ op[t].seen = 0 => balance = 0
    <3>1. ToldAt(t) /\ QuietAt(t) /\ pc[t] = "drain" /\ op[t].kind = "wloop"
      BY <1>3, <1>9, <2>2 DEF Drain
    <3>2. op[t].error = "none" /\ prot_error \in {"none", "le_dlock"}
      BY <2>1, <2>2 DEF ConfirmedError, Errors
    <3>3. fault = "no"
      BY <3>1, <3>2 DEF ToldAt, Failed, Transient, Deadlocks
    <3> QED BY <1>9, <2>2, <3>1, <3>2, <3>3 DEF Drain, QuietAt
  <2>3. /\ op[t].kind = "wloop" /\ op'[t].kind = "wloop" /\ words' = words /\ fault' = fault
        /\ pc'[t] = IF op[t].seen = 0 THEN "leave" ELSE "balance"
        /\ op'[t].n = op[t].n /\ op'[t].left = op[t].left /\ op'[t].count = c
        /\ op'[t].error = e
    BY <1>9, <2>1 DEF Drain, Drained, Updated
  <2>4. e = "none" => c = op[t].n
    BY <2>1
  <2>5. e # "none" => c = 0
    BY <2>1
  <2> QED BY <2>2, <2>3, <2>4, <2>5, OpNumbers DEF Whole, Overlooked
<1>10. CASE PipeOut(t)
  BY <1>10 DEF PipeOut
<1>11. CASE PipeOutEnd(t)
  <2>1. Updated(op', t, 0, op[t].count, op[t].seen, prot_error, op[t].res, op[t].aborted)
    BY <1>11, PipeOutEndOp
  <2> QED BY <1>11, <2>1, OpNumbers DEF PipeOutEnd, Updated
<1>12. CASE PipeIn(t)
  BY <1>12 DEF PipeIn
<1>13. CASE PipeListen(t)
  BY <1>13 DEF PipeListen
<1>14. CASE PipeCheck(t) \/ PipeInterrupted(t)
  BY <1>14 DEF PipeCheck, PipeInterrupted, OpType, hardware
<1>15. CASE PipeCollect(t)
  <2>1. PICK e \in Verdicts, c \in Nat :
          /\ op[t].kind = "pipe" => c = words
          /\ Updated(op', t, op[t].left, c, op[t].seen, e, op[t].res, op[t].aborted)
    BY <1>15, PipeCollectOp
  <2> QED BY <1>15, <2>1, OpNumbers DEF PipeCollect, Updated
<1> QED
  BY <1>4, <1>5, <1>6, <1>7, <1>8, <1>9, <1>10, <1>11, <1>12, <1>13, <1>14, <1>15, <1>16
     DEF Programmed

LEMMA BlockDmaCounts ==
    ASSUME ~AbortCanFail, TypeInv, Quiet, CountInv, NEW t \in Threads, BlockDma(t)
    PROVE  CountInv'
<1>1. pc[t] \notin Outside /\ sem_hw' = sem_hw /\ dirty' = dirty
  BY DEF BlockDma, At, Prepare, DmaClear, DmaEnable, DmaStart, DmaWoken, DmaKilled,
         CollectRead, FinishRead, CopyOops, CollectWrite, Outside
<1> DEFINE Kept == op'[t].kind = op[t].kind /\ (~dirty /\ ~Silent(t) /\ CountAt(t) => CountAt(t)')
<1>2. SUFFICES Kept
  BY <1>1, HolderCounts
<1>3. ~dirty => QuietAt(t)
  BY <1>1 DEF Quiet, TypeInv, OneHolder
<1> USE DEF TypeInv, TypeOK, Fits, At, Goto, Silent, CountAt, CountProgrammed, CountDma,
            CountEnd, Done, Dma
<1>4. CASE Prepare(t)
  BY <1>3, <1>4, OpNumbers DEF Prepare, OpType, QuietAt, Calm
<1>5. CASE DmaClear(t)
  BY <1>5 DEF DmaClear, hardware
<1>6. CASE DmaEnable(t)
  BY <1>6 DEF DmaEnable, Enable, Wanted, Local
<1>7. CASE DmaStart(t)
  BY <1>7 DEF DmaStart, Request
<1>8. CASE DmaWoken(t)
  BY <1>8 DEF DmaWoken, Wanted
<1>9. CASE DmaKilled(t)
  BY <1>9 DEF DmaKilled, OpType
<1>10. CASE CollectRead(t)
  <2>1. PICK n \in Nat : /\ ~ReadAborted(t) => n = d0_bc
                         /\ Updated(op', t, op[t].left, op[t].count, n, op[t].error, op[t].res,
                                    ReadAborted(t))
    BY <1>10, CollectReadOp
  <2> QED BY <1>10, <2>1 DEF CollectRead, Updated
<1>11. CASE FinishRead(t)
  <2>1. PICK r \in SizeT, res \in Copied(t) :
           /\ ~op[t].aborted =>
                 /\ r = IF res = "ok" THEN op[t].left - op[t].seen ELSE op[t].left
                 /\ r <= op[t].left /\ Minus(op[t].n, r) = op[t].n - r
           /\ Updated(op', t, r, Minus(op[t].n, r), op[t].seen, ReadError(t), res,
                      op[t].aborted)
           /\ \/ pc' = [pc EXCEPT ![t] = "leave"]
              \/ pc' = [pc EXCEPT ![t] = "prepare"] /\ res = "ok" /\ ReadError(t) = "none"
    BY <1>11, FinishReadOp
  <2>2. /\ op[t].kind = "rdma" /\ pc[t] = "finish" /\ words' = words
        /\ pc'[t] = "prepare" => ~op[t].aborted
    BY <1>11, <2>1 DEF FinishRead, ReadError
  <2> QED BY <2>1, <2>2, OpNumbers, WordsFit DEF Updated, Whole, ReadError
<1>13. CASE CopyOops(t)
  BY <1>13 DEF CopyOops
<1>12. CASE CollectWrite(t)
  <2>1. PICK r \in SizeT :
           /\ r <= op[t].left
           /\ \E n \in Written(t) :
                 r = IF WriteRes(t) = "ok" THEN op[t].left - n ELSE op[t].left
           /\ Updated(op', t, r, op[t].n - r, op[t].seen, WriteError(t), WriteRes(t),
                      op[t].aborted)
           /\ pc' = [pc EXCEPT ![t] =
                 IF r # 0 /\ WriteRes(t) = "ok" /\ WriteError(t) = "none"
                 THEN "prepare" ELSE "leave"]
    BY <1>12, CollectWriteOp
  <2>2. /\ op[t].kind = "wdma" /\ pc[t] = "collect" /\ words' = words
        /\ pc'[t] \in {"prepare", "leave"}
        /\ pc'[t] = "prepare" => WriteRes(t) = "ok" /\ WriteError(t) = "none"
    BY <1>12, <2>1 DEF CollectWrite
  <2>3. ASSUME CountAt(t), WriteRes(t) = "ok", WriteError(t) = "none"
        PROVE  d0_bc = op[t].size /\ prot_error = "none"
    BY <2>2, <2>3 DEF WriteRes, WriteError, Wanted
  <2>4. ASSUME CountAt(t) PROVE \A n \in Written(t) : WriteRes(t) = "ok" => n <= d0_bc
    <3>1. CASE prot_error = "re"
      BY <3>1, OpNumbers DEF Written
    <3>2. CASE prot_error # "re" /\ WriteRes(t) = "ok"
      <4>1. prot_error = "none" /\ WriteError(t) = "none"
        BY <3>2 DEF WriteRes, WriteError, LocalErrors, Errors
      <4> QED BY <2>3, <2>4, <3>2, <4>1, OpNumbers DEF Written
    <3> QED BY <3>1, <3>2
  <2> QED BY <2>1, <2>2, <2>3, <2>4, OpNumbers DEF Updated, Whole, Written
<1> QED BY <1>4, <1>5, <1>6, <1>7, <1>8, <1>9, <1>10, <1>11, <1>12, <1>13 DEF BlockDma

LEMMA EnterCounts ==
    ASSUME TypeInv, Quiet, CountInv, NEW t \in Threads, Call(t) \/ Lock(t)
    PROVE  CountInv'
<1> USE DEF CountAt, CountProgrammed, CountDma, CountEnd, Done, Silent, Dma
<1>1. CASE Call(t)
  <2>1. pc[t] = "idle" /\ sem_hw # t
    BY <1>1 DEF Call, TypeInv, OneHolder, Outside
  <2>2. UNCHANGED <<hardware, got_irqs, sem_hw, op, words, fault, dirty>>
        /\ \A u \in Threads : u # t => pc'[u] = pc[u]
    BY <1>1 DEF Call, Goto, TypeInv, TypeOK
  <2> QED
    BY <2>1, <2>2 DEF CountInv, Overlooked, Whole, Wanted, hardware
<1>2. CASE Lock(t)
  <2>1. PICK n \in 1..MaxWords, k \in Kinds : Begin(t, k, n) /\ (k = "single" => n = 1)
    BY <1>2, SettingsAssumption DEF Lock, Route, Direction, Kinds
  <2>2. /\ op'[t].kind = k /\ op'[t].n = n /\ op'[t].left = n /\ op'[t].count = 0
        /\ pc'[t] = IF k \in {"rdma", "wdma"} THEN "prepare" ELSE "send"
    BY <2>1 DEF Begin, NewOp, Goto, TypeInv, TypeOK
  <2>3. /\ balance' = balance /\ words' = words /\ dirty' = dirty
        /\ sem_hw = Nobody /\ sem_hw' = t
    BY <1>2 DEF Lock
  <2>4. words = 0 /\ (~dirty => balance = 0)
    BY <2>3 DEF Quiet, Calm, CountInv
  <2>5. n \in Nat
    BY BoundsAssumption
  <2>6. CountDma(t)' /\ CountEnd(t)'
    BY <2>2, <2>3, <2>4, <2>5
  <2>7. ~dirty => CountProgrammed(t)'
    <3>1. k = "single" => n = 1
      BY <2>1
    <3> QED BY <2>2, <2>3, <2>4, <2>5, <3>1
  <2> QED BY <2>3, <2>6, <2>7, ThreadsAssumption DEF CountInv
<1> QED BY <1>1, <1>2

\* The engine has no more to move than the holder of sem_hw has asked for.
LEMMA MoveCounts ==
    ASSUME TypeInv, Quiet, CountInv, DmaMove
    PROVE  CountInv'
<1>1. /\ plx0 = "running" /\ d0_bc < Size /\ d0_bc' = d0_bc + 1 /\ words' = words + 1
      /\ UNCHANGED <<prot_error, balance, latched, got_irqs, sem_hw, pc, op, fault, dirty>>
  BY DEF DmaMove
<1>2. PICK t \in Threads : sem_hw = t /\ op[t].kind \in Dma
  <2>1. CASE Transferring = {}
    BY <1>1, <2>1 DEF Size, TypeInv, TypeOK
  <2> QED BY <2>1 DEF Transferring
<1>3. d0_bc < op[t].size
  BY <1>1, <1>2, SizeIs
<1>4. ASSUME ~dirty, ~Silent(t) PROVE CountAt(t)'
  <2>1. CountAt(t) /\ QuietAt(t)
    BY <1>2, <1>4 DEF CountInv, Quiet
  <2>2. pc[t] \notin {"prepare", "clear", "enable", "start"}
    BY <1>1, <1>2, <2>1 DEF QuietAt, Calm
  <2>3. pc[t] = "leave" => ~Whole(t)
    BY <1>1, <1>4, <2>1, WholeIsCalm DEF Calm
  <2>4. pc[t] = "finish" => op[t].aborted
    BY <1>1, <1>2, <2>1 DEF QuietAt
  <2>5. CountProgrammed(t)'
    BY <1>1, <1>2, <2>1 DEF CountAt, CountProgrammed, Dma, Done
  <2>6. CountDma(t)'
    BY <1>1, <1>3, <2>1, <2>2, <2>4, OpNumbers DEF CountAt, CountDma, Done, Wanted
  <2>7. CountEnd(t)'
    BY <1>1, <2>1, <2>3, OpNumbers DEF CountAt, CountEnd, Whole, Overlooked
  <2> QED BY <2>5, <2>6, <2>7 DEF CountAt
<1> QED BY <1>1, <1>2, <1>4, ThreadsAssumption DEF CountInv, Silent

LEMMA EnvironmentCounts ==
    ASSUME TypeInv, Quiet, Told, CountInv, Environment
    PROVE  CountInv'
<1>1. CASE DmaMove
  BY <1>1, MoveCounts
<1>2. CASE InitRemote
  BY <1>2, ThreadsAssumption DEF InitRemote, CountInv
<1>3. ASSUME ~DmaMove, ~InitRemote
      PROVE  /\ UNCHANGED <<sem_hw, op, dirty, d0_bc>>
             /\ sem_hw = Nobody => words' = words
             /\ \A t \in Threads : pc[t] # "sleep" => pc'[t] = pc[t]
             /\ \A t \in Threads : pc[t] = "sleep" => pc'[t] \in {"sleep", "check"}
  BY <1>3 DEF Environment, Confirm, Timeout, DmaEnd, DmaFail, LinkChange, Interrupt,
         SynchHandler, TypeInv, TypeOK
<1>4. SUFFICES ASSUME ~DmaMove, ~InitRemote, ~dirty, NEW t \in Threads, sem_hw = t, ~Silent(t)
               PROVE  CountAt(t)'
  BY <1>1, <1>2, <1>3 DEF CountInv, Silent
<1>5. CountAt(t) /\ QuietAt(t) /\ ToldAt(t)
  BY <1>4 DEF CountInv, Quiet, Told
<1>6. pc[t] = "leave" /\ Whole(t) => Calm
  BY <1>4, <1>5, WholeIsCalm
<1> USE <1>3, <1>4, <1>5, <1>6, OpNumbers
        DEF CountAt, CountProgrammed, CountDma, CountEnd, Done, Silent, Dma, Whole, Overlooked,
            Wanted
<1>14. ASSUME balance > 0
       PROVE  /\ op[t].kind \notin Dma
              /\ pc[t] = "send" => op[t].kind \notin {"single", "rloop"}
              /\ pc[t] = "leave" /\ op[t].kind = "single" /\ ~op[t].aborted => op[t].error # "none"
              /\ prot_error \notin Deadlocks
  BY <1>14 DEF QuietAt, ToldAt, Calm, Cut
<1>7. CASE Confirm
  <2>1. /\ balance > 0 /\ balance' = balance - 1 /\ words' \in {words, words + 1}
        /\ fault' = "no" => fault = "no" /\ words' = words + 1
        /\ prot_error' \in {"none", "le_dlock"} => words' = words + 1
        /\ prot_error' \in {"none", "le_dlock"} => prot_error \in {"none", "le_dlock"}
    BY <1>7, <1>14, ThreadsAssumption DEF Confirm, Blame, Deadlocks
  <2>2. pc' = pc
    BY <1>7 DEF Confirm
  <2>3. CountProgrammed(t)'
    BY <1>14, <2>1, <2>2 DEF Deadlocks
  <2>4. CountDma(t)'
    BY <1>14, <2>1
  <2>5. CountEnd(t)'
    BY <1>14, <2>1, <2>2 DEF Calm
  <2> QED BY <2>3, <2>4, <2>5
<1>8. CASE Timeout
  <2>1. /\ balance > 0 /\ balance' = balance /\ words' = words /\ pc' = pc
        /\ fault' = "no" => fault = "no"
        /\ prot_error' \notin {"none", "le_dlock"}
    BY <1>8, ThreadsAssumption DEF Timeout, Blame
  <2>2. CountProgrammed(t)'
    BY <1>14, <2>1
  <2>3. CountDma(t)'
    BY <1>14, <2>1
  <2>4. CountEnd(t)'
    BY <1>14, <2>1 DEF Calm
  <2> QED BY <2>2, <2>3, <2>4
<1>9. CASE DmaEnd
  BY <1>9, SizeIs DEF DmaEnd, Transferring
<1>10. CASE DmaFail
  BY <1>10 DEF DmaFail, Blame, Transferring, QuietAt, Calm
<1>11. CASE LinkChange
  BY <1>11 DEF LinkChange
<1>12. CASE Interrupt
  BY <1>12, ThreadsAssumption DEF Interrupt, Local
<1>13. CASE SynchHandler
  BY <1>13 DEF SynchHandler, Enable
<1> QED
  BY <1>4, <1>7, <1>8, <1>9, <1>10, <1>11, <1>12, <1>13 DEF Environment

LEMMA UnlockCounts ==
    ASSUME NEW t \in Threads, Unlock(t)
    PROVE  CountInv'
BY ThreadsAssumption DEF Unlock, CountInv

LEMMA CountStep ==
    ~AbortCanFail /\ TypeInv /\ Quiet /\ Told /\ CountInv /\ [Next]_vars => CountInv'
<1> SUFFICES ASSUME ~AbortCanFail, TypeInv, Quiet, Told, CountInv, [Next]_vars PROVE CountInv'
  OBVIOUS
<1>1. CASE UNCHANGED vars
  BY <1>1 DEF vars, hardware, CountInv, CountAt, CountProgrammed, CountDma, CountEnd, Done,
              Silent, Overlooked, Whole, Wanted
<1> QED
  BY <1>1, Actions, EnterCounts, ProgrammedCounts, BlockDmaCounts, EnvironmentCounts,
     UnlockCounts

\* A transfer never claims more words than were moved, and one that reports
\* success has moved all it reports: Counted, for every kind of transfer, any
\* number of threads and words and any size of a DMA, if the abort of a DMA
\* works.
THEOREM WordsCounted ==
    ASSUME ~AbortCanFail
    PROVE  Spec => []Counted
<1>1. Init => IInv /\ Told /\ CountInv
  BY InitTypes, ThreadsAssumption DEF Init, IInv, Quiet, Calm, Told, CountInv
<1>2. IInv /\ Told /\ CountInv /\ [Next]_vars => IInv' /\ Told' /\ CountInv'
  BY TypeStep, QuietStep, ToldStep, CountStep DEF IInv
<1>3. CountInv => Counted
  BY DEF CountInv, CountAt, CountEnd, Counted, Ends, Silent, Overlooked
<1> QED BY <1>1, <1>2, <1>3, PTL DEF Spec
=============================================================================
