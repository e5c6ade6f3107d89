----------------------------- MODULE CardProofs -----------------------------
(***************************************************************************)
(* Proofs about Card and Ioctl, for any number of threads and files, any   *)
(* requests and front ends, and any number of loads and link changes.      *)
(***************************************************************************)
EXTENDS CardInv, SequenceTheorems, TLAPS

-----------------------------------------------------------------------------
(* The orders in which resources are acquired and released. *)

LEMMA StepNumbers ==
    /\ Len(Steps) = 16 /\ DOMAIN Steps = 1..16
    /\ \A i \in 1..16 : Steps[i] \in DOMAIN StepNo /\ StepNo[Steps[i]] = i
<1>1. LoadSteps \in Seq(DOMAIN StepNo) /\ Len(LoadSteps) = 4
    BY DEF LoadSteps, StepNo
<1>2. ProbeSteps \in Seq(DOMAIN StepNo) /\ Len(ProbeSteps) = 12
    BY DEF ProbeSteps, StepNo
<1>3. /\ Steps \in Seq(DOMAIN StepNo) /\ Len(Steps) = 16
      /\ \A i \in 1..16 : Steps[i] = IF i <= 4 THEN LoadSteps[i] ELSE ProbeSteps[i - 4]
    <2>1. /\ Steps \in Seq(DOMAIN StepNo) /\ Len(Steps) = Len(LoadSteps) + Len(ProbeSteps)
          /\ \A i \in 1..(Len(LoadSteps) + Len(ProbeSteps)) :
                 Steps[i] = IF i <= Len(LoadSteps) THEN LoadSteps[i]
                            ELSE ProbeSteps[i - Len(LoadSteps)]
        BY <1>1, <1>2, ConcatProperties, Zenon DEF Steps
    <2> QED BY <1>1, <1>2, <2>1
<1>4. \A i \in 1..4 : LoadSteps[i] \in DOMAIN StepNo /\ StepNo[LoadSteps[i]] = i
    BY DEF LoadSteps, StepNo
<1>5. \A i \in 1..12 : ProbeSteps[i] \in DOMAIN StepNo /\ StepNo[ProbeSteps[i]] = i + 4
    BY DEF ProbeSteps, StepNo
<1>6. \A i \in 1..16 : i \in 1..4 \/ i - 4 \in 1..12
    OBVIOUS
<1> QED BY <1>3, <1>4, <1>5, <1>6

LEMMA StepNames ==
    {Steps[i] : i \in 1..16} = DOMAIN StepNo
<1>1. \A s \in DOMAIN StepNo : StepNo[s] \in 1..16
    BY DEF StepNo
<1>2. \A s, r \in DOMAIN StepNo : StepNo[s] = StepNo[r] => s = r
    BY DEF StepNo
<1>3. \A s \in DOMAIN StepNo : s = Steps[StepNo[s]]
    BY <1>1, <1>2, StepNumbers
<1> QED BY <1>1, <1>3, StepNumbers

LEMMA ResourceNames ==
    Resources = {"class", "version", "chrdev", "driver", "sc", "thread", "enable", "regions",
                 "plx", "regs", "irq", "dmaspace", "init", "cdev", "devices"}
BY StepNumbers, StepNames DEF Resources, StepNo

Released_(order) == order \in Seq(Resources \cup {"maps", "timer"})

\* What is left of an order after its first element.
LEMMA Pop ==
    ASSUME NEW order, Released_(order), NEW i \in 1..(Len(order) + 1)
    PROVE  /\ From(order, i) \in Seq(Resources \cup {"maps", "timer"})
           /\ From(order, i) = <<>> <=> i = Len(order) + 1
           /\ i = Len(order) + 1 => Gives(order, i) = {}
           /\ i # Len(order) + 1 =>
                  /\ Head(From(order, i)) = order[i]
                  /\ Tail(From(order, i)) = From(order, i + 1)
                  /\ i + 1 \in 1..(Len(order) + 1)
                  /\ Gives(order, i) = Frees(order[i]) \cup Gives(order, i + 1)
<1> DEFINE S == Resources \cup {"maps", "timer"}
<1>0. order \in Seq(S) /\ Len(order) \in Nat /\ \A k \in 1..Len(order) : order[k] \in S
    BY DEF Released_
<1> HIDE DEF S
<1>1. /\ From(order, i) \in Seq(S)
      /\ Len(From(order, i)) = IF i <= Len(order) THEN Len(order) - i + 1 ELSE 0
    <2>1. i \in Int /\ Len(order) \in Int /\ \A k \in i..Len(order) : order[k] \in S
        BY <1>0
    <2> QED BY <2>1, SubSeqProperties DEF From
<1>2. From(order, i) = <<>> <=> i = Len(order) + 1
    BY <1>0, <1>1
<1>3. CASE i = Len(order) + 1
    BY <1>0, <1>1, <1>2, <1>3 DEF Gives, S
<1>4. CASE i # Len(order) + 1
    <2>1. i \in 1..Len(order) /\ Len(order) \in i..Len(order)
        BY <1>0, <1>4
    <2>2. Head(From(order, i)) = order[i] /\ Tail(From(order, i)) = From(order, i + 1)
        BY <1>0, <2>1, HeadTailOfSubSeq DEF From
    <2>3. i..Len(order) = {i} \cup ((i + 1)..Len(order))
        BY <1>0, <2>1
    <2>4. Gives(order, i) = Frees(order[i]) \cup Gives(order, i + 1)
        BY <2>3 DEF Gives
    <2> QED BY <1>0, <1>1, <1>2, <1>4, <2>1, <2>2, <2>4 DEF S
<1> QED BY <1>3, <1>4

\* The place each resource has in an order.
LoadUndoNo == [chrdev |-> 1, version |-> 2, class |-> 3]
ProbeUndoNo == [cdev |-> 1, init |-> 2, dmaspace |-> 3, irq |-> 4, plx |-> 5, regs |-> 5,
                regions |-> 6, enable |-> 7, thread |-> 8, sc |-> 9]
RemoveNo == [devices |-> 1, cdev |-> 2, init |-> 3, dmaspace |-> 4, irq |-> 5, timer |-> 6,
             plx |-> 7, regs |-> 7, regions |-> 8, enable |-> 9, thread |-> 10, sc |-> 11]
UnloadNo == [driver |-> 1, chrdev |-> 2, version |-> 3, class |-> 4]

Places(order, no) ==
    /\ \A r \in DOMAIN no : no[r] \in 1..Len(order) /\ r \in Frees(order[no[r]])
    /\ \A k \in 1..Len(order) : \A r \in Frees(order[k]) : r \in DOMAIN no /\ no[r] = k

\* Nothing is released twice: every resource has one place in each order.
LEMMA OrdersPlace ==
    /\ Released_(LoadUndo) /\ Len(LoadUndo) = 3 /\ Places(LoadUndo, LoadUndoNo)
    /\ Released_(ProbeUndo) /\ Len(ProbeUndo) = 9 /\ Places(ProbeUndo, ProbeUndoNo)
    /\ Released_(RemoveOrder) /\ Len(RemoveOrder) = 11 /\ Places(RemoveOrder, RemoveNo)
    /\ Released_(UnloadOrder) /\ Len(UnloadOrder) = 4 /\ Places(UnloadOrder, UnloadNo)
<1>1. Released_(LoadUndo) /\ Len(LoadUndo) = 3 /\ Released_(UnloadOrder) /\ Len(UnloadOrder) = 4
    BY ResourceNames DEF Released_, LoadUndo, UnloadOrder
<1>2. Released_(ProbeUndo) /\ Len(ProbeUndo) = 9
    BY ResourceNames DEF Released_, ProbeUndo
<1>3. Released_(RemoveOrder) /\ Len(RemoveOrder) = 11
    BY ResourceNames DEF Released_, RemoveOrder
<1>4. Places(LoadUndo, LoadUndoNo)
    BY DEF Places, LoadUndo, LoadUndoNo, Frees
<1>5. Places(ProbeUndo, ProbeUndoNo)
    BY DEF Places, ProbeUndo, ProbeUndoNo, Frees
<1>6. Places(RemoveOrder, RemoveNo)
    BY DEF Places, RemoveOrder, RemoveNo, Frees
<1>7. Places(UnloadOrder, UnloadNo)
    BY DEF Places, UnloadOrder, UnloadNo, Frees
<1> QED BY <1>1, <1>2, <1>3, <1>4, <1>5, <1>6, <1>7

LEMMA GivesByPlace ==
    ASSUME NEW order, NEW no, Places(order, no), Len(order) \in Nat, NEW i \in 1..(Len(order) + 1)
    PROVE  /\ Gives(order, i) = {r \in DOMAIN no : no[r] >= i}
           /\ i # Len(order) + 1 =>
                  Frees(order[i]) \cap Gives(order, i + 1) = {}
<1>1. \A j \in 1..(Len(order) + 1) : \A r : r \in Gives(order, j) <=> r \in DOMAIN no /\ no[r] >= j
    <2> SUFFICES ASSUME NEW j \in 1..(Len(order) + 1), NEW r
                 PROVE  r \in Gives(order, j) <=> r \in DOMAIN no /\ no[r] >= j
        OBVIOUS
    <2>1. r \in Gives(order, j) <=> \E k \in j..Len(order) : r \in Frees(order[k])
        BY DEF Gives
    <2>2. r \in Gives(order, j) => r \in DOMAIN no /\ no[r] >= j
        BY <2>1 DEF Places
    <2>3. r \in DOMAIN no /\ no[r] >= j => r \in Gives(order, j)
        BY <2>1 DEF Places
    <2> QED BY <2>2, <2>3
<1>2. i # Len(order) + 1 => \A r \in Frees(order[i]) : no[r] = i
    BY DEF Places
<1> QED BY <1>1, <1>2

\* What is left at the i-th element of an order, the last of which is
\* the n-th: none.
Unrolls(order, no, n) ==
    \A i \in 1..n :
        /\ From(order, i) \in Seq(Resources \cup {"maps", "timer"})
        /\ Gives(order, i) = {r \in DOMAIN no : no[r] >= i}
        /\ From(order, i) = <<>> => Gives(order, i) = {}
        /\ From(order, i) # <<>> =>
               /\ i + 1 \in 1..n
               /\ Tail(From(order, i)) = From(order, i + 1)
               /\ Frees(Head(From(order, i))) \subseteq Gives(order, i)
               /\ Gives(order, i + 1) = Gives(order, i) \ Frees(Head(From(order, i)))

LEMMA OrdersUnroll ==
    /\ Unrolls(LoadUndo, LoadUndoNo, 4) /\ Unrolls(ProbeUndo, ProbeUndoNo, 10)
    /\ Unrolls(RemoveOrder, RemoveNo, 12) /\ Unrolls(UnloadOrder, UnloadNo, 5)
<1>1. ASSUME NEW order, NEW no, Released_(order), Places(order, no)
      PROVE  Unrolls(order, no, Len(order) + 1)
    <2>1. Len(order) \in Nat
        BY DEF Released_
    <2> SUFFICES ASSUME NEW i \in 1..(Len(order) + 1)
                 PROVE  /\ From(order, i) \in Seq(Resources \cup {"maps", "timer"})
                        /\ Gives(order, i) = {r \in DOMAIN no : no[r] >= i}
                        /\ From(order, i) = <<>> => Gives(order, i) = {}
                        /\ From(order, i) # <<>> =>
                               /\ i + 1 \in 1..(Len(order) + 1)
                               /\ Tail(From(order, i)) = From(order, i + 1)
                               /\ Frees(Head(From(order, i))) \subseteq Gives(order, i)
                               /\ Gives(order, i + 1)
                                      = Gives(order, i) \ Frees(Head(From(order, i)))
        BY DEF Unrolls
    <2>2. /\ Gives(order, i) = {r \in DOMAIN no : no[r] >= i}
          /\ i # Len(order) + 1 => Frees(order[i]) \cap Gives(order, i + 1) = {}
        BY <2>1, <1>1, GivesByPlace
    <2>3. /\ From(order, i) \in Seq(Resources \cup {"maps", "timer"})
          /\ From(order, i) = <<>> <=> i = Len(order) + 1
          /\ i = Len(order) + 1 => Gives(order, i) = {}
          /\ i # Len(order) + 1 =>
                 /\ Head(From(order, i)) = order[i]
                 /\ Tail(From(order, i)) = From(order, i + 1)
                 /\ i + 1 \in 1..(Len(order) + 1)
                 /\ Gives(order, i) = Frees(order[i]) \cup Gives(order, i + 1)
        BY <1>1, Pop, Zenon
    <2>4. i # Len(order) + 1 => Gives(order, i + 1) = Gives(order, i) \ Frees(order[i])
        BY <2>2, <2>3
    <2>5. i # Len(order) + 1 => Frees(order[i]) \subseteq Gives(order, i)
        BY <2>3
    <2> QED BY <2>2, <2>3, <2>4, <2>5, Zenon
<1>2. 3 + 1 = 4 /\ 9 + 1 = 10 /\ 11 + 1 = 12 /\ 4 + 1 = 5
    OBVIOUS
<1> QED BY <1>1, <1>2, OrdersPlace

\* Every label of an error path releases what the steps before the one that
\* failed have acquired, and no thread that has not been created.
LEMMA LabelsRelease ==
    /\ \A s \in DOMAIN LoadLabel :
           /\ LoadLabel[s] \in 1..4
           /\ Undo(s) = From(LoadUndo, LoadLabel[s])
           /\ Acquired(StepNo[s]) \subseteq Gives(LoadUndo, LoadLabel[s])
           /\ "thread" \notin Gives(LoadUndo, LoadLabel[s])
    /\ \A s \in DOMAIN ProbeLabel :
           /\ ProbeLabel[s] \in 1..10
           /\ Undo(s) = From(ProbeUndo, ProbeLabel[s])
           /\ LoadHeld \subseteq Acquired(StepNo[s])
           /\ Acquired(StepNo[s]) \subseteq LoadHeld \cup Gives(ProbeUndo, ProbeLabel[s])
           /\ "thread" \in Gives(ProbeUndo, ProbeLabel[s]) => StepNo["thread"] < StepNo[s]
    /\ DOMAIN StepNo = DOMAIN LoadLabel \cup DOMAIN ProbeLabel
    /\ DOMAIN LoadLabel \cap DOMAIN ProbeLabel = {}
<1>1. ASSUME NEW s \in DOMAIN LoadLabel
      PROVE  /\ LoadLabel[s] \in 1..4
             /\ Undo(s) = From(LoadUndo, LoadLabel[s])
             /\ Acquired(StepNo[s]) \subseteq Gives(LoadUndo, LoadLabel[s])
             /\ "thread" \notin Gives(LoadUndo, LoadLabel[s])
    <2>1. LoadLabel[s] \in 1..4
        BY DEF LoadLabel
    <2>2. Gives(LoadUndo, LoadLabel[s]) = {r \in DOMAIN LoadUndoNo : LoadUndoNo[r] >= LoadLabel[s]}
        BY <2>1, OrdersUnroll DEF Unrolls
    <2>3. \A r \in Core : StepNo[r] < StepNo[s] =>
              r \in DOMAIN LoadUndoNo /\ LoadUndoNo[r] >= LoadLabel[s]
        BY ResourceNames DEF Core, StepNo, LoadUndoNo, LoadLabel
    <2>4. "thread" \notin DOMAIN LoadUndoNo
        BY DEF LoadUndoNo
    <2> QED BY <2>1, <2>2, <2>3, <2>4 DEF Acquired, Undo, From
<1>2. ASSUME NEW s \in DOMAIN ProbeLabel
      PROVE  /\ ProbeLabel[s] \in 1..10
             /\ Undo(s) = From(ProbeUndo, ProbeLabel[s])
             /\ LoadHeld \subseteq Acquired(StepNo[s])
             /\ Acquired(StepNo[s]) \subseteq LoadHeld \cup Gives(ProbeUndo, ProbeLabel[s])
             /\ "thread" \in Gives(ProbeUndo, ProbeLabel[s]) => StepNo["thread"] < StepNo[s]
    <2>1. ProbeLabel[s] \in 1..10 /\ s \notin DOMAIN LoadLabel
        BY DEF ProbeLabel, LoadLabel
    <2>2. Gives(ProbeUndo, ProbeLabel[s])
              = {r \in DOMAIN ProbeUndoNo : ProbeUndoNo[r] >= ProbeLabel[s]}
        BY <2>1, OrdersUnroll DEF Unrolls
    <2>3. \A r \in Core \ LoadHeld : StepNo[r] < StepNo[s] =>
              r \in DOMAIN ProbeUndoNo /\ ProbeUndoNo[r] >= ProbeLabel[s]
        BY ResourceNames DEF Core, LoadHeld, StepNo, ProbeUndoNo, ProbeLabel
    <2>4. ProbeUndoNo["thread"] >= ProbeLabel[s] => StepNo["thread"] < StepNo[s]
        BY DEF StepNo, ProbeUndoNo, ProbeLabel
    <2>5. \A r \in LoadHeld : r \in Core /\ StepNo[r] < StepNo[s]
        BY ResourceNames DEF Core, LoadHeld, StepNo, ProbeLabel
    <2> QED BY <2>1, <2>2, <2>3, <2>4, <2>5 DEF Acquired, Undo, From
<1>3. /\ DOMAIN StepNo = DOMAIN LoadLabel \cup DOMAIN ProbeLabel
      /\ DOMAIN LoadLabel \cap DOMAIN ProbeLabel = {}
    BY DEF StepNo, LoadLabel, ProbeLabel
<1> QED BY <1>1, <1>2, <1>3

-----------------------------------------------------------------------------
(* What the invariant says of the card at each stage. *)

CardThere == Mapped /\ "thread" \in held

LEMMA Tables ==
    /\ {"sc", "thread", "plx", "regs", "irq", "init", "cdev"} \subseteq Core \ LoadHeld
    /\ StepNo["sc"] = 5 /\ StepNo["thread"] = 6 /\ StepNo["plx"] = 9 /\ StepNo["regs"] = 10
    /\ StepNo["irq"] = 11 /\ StepNo["init"] = 14 /\ StepNo["cdev"] = 15
    /\ {"sc", "thread", "plx", "regs", "irq", "init", "cdev"} \subseteq DOMAIN ProbeUndoNo
    /\ ProbeUndoNo["sc"] = 9 /\ ProbeUndoNo["thread"] = 8 /\ ProbeUndoNo["plx"] = 5
    /\ ProbeUndoNo["regs"] = 5 /\ ProbeUndoNo["irq"] = 4
    /\ {"sc", "thread", "plx", "regs", "irq", "init", "cdev"} \subseteq DOMAIN RemoveNo
    /\ RemoveNo["sc"] = 11 /\ RemoveNo["thread"] = 10 /\ RemoveNo["plx"] = 7
    /\ RemoveNo["regs"] = 7 /\ RemoveNo["irq"] = 5 /\ RemoveNo["timer"] = 6
    /\ DOMAIN UnloadNo = LoadHeld
    /\ DOMAIN ProbeUndoNo \cap LoadHeld = {} /\ DOMAIN RemoveNo \cap LoadHeld = {}
    /\ Core \ LoadHeld \subseteq DOMAIN RemoveNo
    /\ \A r \in DOMAIN RemoveNo : RemoveNo[r] >= 1
    /\ \A r \in DOMAIN UnloadNo : UnloadNo[r] >= 1
<1>1. {"sc", "thread", "plx", "regs", "irq", "init", "cdev"} \subseteq Core \ LoadHeld
    BY ResourceNames DEF Core, LoadHeld
<1>2. Core \ LoadHeld \subseteq DOMAIN RemoveNo
    BY ResourceNames DEF Core, LoadHeld, RemoveNo
<1>3. DOMAIN ProbeUndoNo \cap LoadHeld = {} /\ DOMAIN RemoveNo \cap LoadHeld = {}
    BY DEF ProbeUndoNo, RemoveNo, LoadHeld
<1>4. /\ \A r \in DOMAIN RemoveNo : RemoveNo[r] >= 1
      /\ \A r \in DOMAIN UnloadNo : UnloadNo[r] >= 1
    BY DEF RemoveNo, UnloadNo
<1> QED BY <1>1, <1>2, <1>3, <1>4 DEF StepNo, ProbeUndoNo, RemoveNo, UnloadNo, LoadHeld

LEMMA Present ==
    ASSUME IInv
    PROVE  /\ "irq" \in held => CardThere
           /\ stage = "starting" /\ "init" \in held => CardThere
           /\ stage = "bound" /\ failed = "none" => CardThere /\ "init" \in held
           /\ stage = "remove" /\ link_up_timer => CardThere
           /\ "init" \in held =>
                  \/ stage = "starting"
                  \/ stage = "bound" /\ failed = "none"
                  \/ stage = "remove"
                  \/ stage = "undo" /\ failed \in {"cdev", "devices"}
           /\ "cdev" \in held =>
                  \/ stage = "starting" /\ step = 16 /\ "init" \in held
                  \/ stage = "bound" /\ failed = "none"
                  \/ stage = "remove"
                  \/ stage = "undo" /\ failed = "devices"
           /\ "thread" \in held =>
                  \/ stage \in {"starting", "undo", "remove"}
                  \/ stage = "bound" /\ failed = "none"
           /\ "sc" \in held =>
                  \/ stage \in {"starting", "undo", "remove"}
                  \/ stage = "bound" /\ failed = "none"
<1>1. CASE stage \in {"unloaded", "loaded", "unloading"}
    <2>1. HeldCore \subseteq LoadHeld
        <3>1. \A i \in 1..5 : Gives(UnloadOrder, i) \subseteq LoadHeld
            <4>1. \A i \in 1..5 : Gives(UnloadOrder, i) \subseteq DOMAIN UnloadNo
                BY OrdersUnroll DEF Unrolls
            <4> QED BY <4>1, Tables
        <3> QED BY <1>1, <3>1 DEF IInv, ResourceInv, LoadHeld
    <2> QED BY <1>1, <2>1 DEF HeldCore, LoadHeld
<1>2. CASE stage = "bound"
    BY <1>2, ResourceNames DEF IInv, ResourceInv, HeldCore, LoadHeld, CardThere, Mapped
<1>3. CASE stage = "starting"
    <2>1. HeldCore = Acquired(step) /\ step \in 1..16
        BY <1>3, StepNumbers DEF IInv, ResourceInv, TypeOK
    <2>2. \A r \in Core : r \in held <=> StepNo[r] < step
        BY <2>1 DEF HeldCore, Acquired, Core
    <2>3. /\ "sc" \in held <=> 5 < step
          /\ "thread" \in held <=> 6 < step
          /\ "plx" \in held <=> 9 < step
          /\ "regs" \in held <=> 10 < step
          /\ "irq" \in held <=> 11 < step
          /\ "init" \in held <=> 14 < step
          /\ "cdev" \in held <=> 15 < step
        BY <2>2, Tables
    <2> QED BY <1>3, <2>1, <2>3 DEF CardThere, Mapped
<1>4. CASE stage = "undo"
    <2>1. CASE failed \in DOMAIN LoadLabel
        <3>1. \E i \in 1..4 : HeldCore \subseteq Gives(LoadUndo, i)
            BY <1>4, <2>1, LabelsRelease DEF IInv, ResourceInv, UndoHeld
        <3>2. HeldCore \subseteq LoadHeld
            BY <3>1, OrdersUnroll DEF Unrolls, LoadUndoNo, LoadHeld
        <3> QED BY <1>4, <3>2 DEF HeldCore, LoadHeld
    <2>2. CASE failed \in DOMAIN ProbeLabel
        <3>1. PICK i \in 1..10 :
                  HeldCore = LoadHeld \cup (Acquired(StepNo[failed]) \cap Gives(ProbeUndo, i))
            BY <1>4, <2>2, LabelsRelease DEF IInv, ResourceInv, UndoHeld
        <3>2. \A r \in Core \ LoadHeld : r \in held <=>
                  r \in DOMAIN ProbeUndoNo /\ ProbeUndoNo[r] >= i /\ StepNo[r] < StepNo[failed]
            BY <3>1, OrdersUnroll DEF Unrolls, HeldCore, Acquired, Core
        <3>3. StepNo[failed] \in Int /\ (StepNo[failed] > 14 => failed \in {"cdev", "devices"})
            BY <2>2 DEF ProbeLabel, StepNo
        <3>4. StepNo[failed] > 15 => failed = "devices"
            BY <2>2 DEF ProbeLabel, StepNo
        <3>5. /\ "sc" \in held <=> 9 >= i /\ 5 < StepNo[failed]
              /\ "thread" \in held <=> 8 >= i /\ 6 < StepNo[failed]
              /\ "plx" \in held <=> 5 >= i /\ 9 < StepNo[failed]
              /\ "regs" \in held <=> 5 >= i /\ 10 < StepNo[failed]
              /\ "irq" \in held <=> 4 >= i /\ 11 < StepNo[failed]
              /\ "init" \in held => 14 < StepNo[failed]
              /\ "cdev" \in held => 15 < StepNo[failed]
            BY <3>2, Tables
        <3> QED BY <1>4, <3>3, <3>4, <3>5 DEF CardThere, Mapped
    <2> QED BY <1>4, <2>1, <2>2 DEF IInv, ResourceInv
<1>5. CASE stage = "remove"
    <2>1. PICK i \in 1..12 : /\ HeldCore = LoadHeld \cup (Core \cap Gives(RemoveOrder, i))
                             /\ link_up_timer => "timer" \in Gives(RemoveOrder, i)
        BY <1>5 DEF IInv, ResourceInv
    <2>2. \A r \in Core \ LoadHeld : r \in held <=> r \in DOMAIN RemoveNo /\ RemoveNo[r] >= i
        BY <2>1, OrdersUnroll DEF Unrolls, HeldCore, Core
    <2>3. link_up_timer => RemoveNo["timer"] >= i
        BY <2>1, OrdersUnroll DEF Unrolls
    <2>4. /\ "sc" \in held <=> 11 >= i
          /\ "thread" \in held <=> 10 >= i
          /\ "plx" \in held <=> 7 >= i
          /\ "regs" \in held <=> 7 >= i
          /\ "irq" \in held <=> 5 >= i
          /\ link_up_timer => 6 >= i
        BY <2>2, <2>3, Tables
    <2> QED BY <1>5, <2>4 DEF CardThere, Mapped
<1> QED BY <1>1, <1>2, <1>3, <1>4, <1>5 DEF IInv, TypeOK

-----------------------------------------------------------------------------
(* What is held follows the stage. *)

\* A step of the start succeeds.
LEMMA AdvanceHeld ==
    ASSUME IInv, stage = "starting", Advance({Steps[step]})
    PROVE  ResourceInv'
<1> DEFINE s == Steps[step]
<1>1. step \in 1..16 /\ s \in DOMAIN StepNo /\ StepNo[s] = step /\ Len(Steps) = 16
    BY StepNumbers DEF IInv, TypeOK
<1>2. HeldCore = Acquired(step) /\ Idle /\ failed = "none"
    BY DEF IInv, ResourceInv
<1>3. \A r \in Core : StepNo[r] \in Int /\ (StepNo[r] = step => r = s)
    <2>1. \A r \in DOMAIN StepNo : StepNo[r] \in Int
        BY DEF StepNo
    <2>2. \A r, q \in DOMAIN StepNo : StepNo[r] = StepNo[q] => r = q
        BY DEF StepNo
    <2>3. Core \subseteq DOMAIN StepNo
        BY ResourceNames DEF Core, StepNo
    <2> QED BY <1>1, <2>1, <2>2, <2>3
<1>4. held' = held \cup ({s} \cap Resources) /\ UNCHANGED <<failed, todo>>
    BY DEF Advance
<1>5. CASE step # 16
    <2>1. step' = step + 1 /\ stage' = stage
        BY <1>1, <1>5 DEF Advance
    <2>2. HeldCore' = HeldCore \cup ({s} \cap Core)
        BY <1>4 DEF HeldCore, Core
    <2>3. \A r : r \in Acquired(step + 1) <=> r \in Acquired(step) \/ r \in {s} \cap Core
        BY <1>1, <1>3 DEF Acquired
    <2>4. HeldCore' = Acquired(step')
        BY <1>2, <2>1, <2>2, <2>3
    <2>5. Acquired(step') = Acquired(step)'
        BY DEF Acquired, Core, Resources
    <2> QED BY <1>2, <1>4, <2>1, <2>4, <2>5 DEF ResourceInv, Idle
<1>6. CASE step = 16
    <2>1. s = "devices"
        <3>1. StepNo["devices"] = 16 /\ "devices" \in DOMAIN StepNo
            BY DEF StepNo
        <3>2. \A r, q \in DOMAIN StepNo : StepNo[r] = StepNo[q] => r = q
            BY DEF StepNo
        <3> QED BY <1>1, <1>6, <3>1, <3>2
    <2>2. stage' = "bound"
        BY <1>1, <1>6 DEF Advance
    <2>3. \A r \in Core : StepNo[r] < 16
        BY ResourceNames DEF Core, StepNo
    <2>4. HeldCore = Core
        BY <1>2, <1>6, <2>3 DEF Acquired
    <2>5. "devices" \in Resources /\ held \subseteq Resources
        BY ResourceNames DEF IInv, TypeOK
    <2>6. held' = Resources
        BY <1>4, <2>1, <2>4, <2>5 DEF HeldCore, Core
    <2>7. held' = Resources'
        BY <2>6 DEF Resources
    <2> QED BY <1>2, <1>4, <2>2, <2>7 DEF ResourceInv, Idle
<1> QED BY <1>5, <1>6

\* A step of the start fails.
LEMMA FailHeld ==
    ASSUME IInv, stage = "starting", NEW s, s = Steps[step],
           stage' = "undo", failed' = s, todo' = Undo(s), HeldCore' = HeldCore
    PROVE  ResourceInv'
<1>1. step \in 1..16 /\ s \in DOMAIN StepNo /\ StepNo[s] = step
    BY StepNumbers DEF IInv, TypeOK
<1>2. HeldCore' = Acquired(StepNo[s])
    BY <1>1 DEF IInv, ResourceInv
<1>3. CASE s \in DOMAIN LoadLabel
    <2>1. HeldCore' = {} \cup (Acquired(StepNo[s]) \cap Gives(LoadUndo, LoadLabel[s]))
        BY <1>2, <1>3, LabelsRelease
    <2>2. LoadLabel[s] \in 1..4 /\ todo' = From(LoadUndo, LoadLabel[s])
        BY <1>3, LabelsRelease
    <2>3. "thread" \notin Gives(LoadUndo, LoadLabel[s])
        BY <1>3, LabelsRelease
    <2>4. UndoHeld(LoadUndo, {}, s, LoadLabel[s])'
        BY <2>1, <2>2, <2>3 DEF UndoHeld
    <2> QED BY <1>3, <2>2, <2>4 DEF ResourceInv
<1>4. CASE s \in DOMAIN ProbeLabel
    <2>1. HeldCore' = LoadHeld \cup (Acquired(StepNo[s]) \cap Gives(ProbeUndo, ProbeLabel[s]))
        BY <1>2, <1>4, LabelsRelease
    <2>2. ProbeLabel[s] \in 1..10 /\ todo' = From(ProbeUndo, ProbeLabel[s])
        BY <1>4, LabelsRelease
    <2>3. "thread" \in Gives(ProbeUndo, ProbeLabel[s]) => StepNo["thread"] < StepNo[s]
        BY <1>4, LabelsRelease
    <2>4. UndoHeld(ProbeUndo, LoadHeld, s, ProbeLabel[s])'
        BY <2>1, <2>2, <2>3 DEF UndoHeld
    <2> QED BY <1>4, <2>2, <2>4 DEF ResourceInv
<1> QED BY <1>1, <1>3, <1>4, LabelsRelease

\* Something is released.
LEMMA PopHeld ==
    ASSUME IInv, Releasing, todo # <<>>,
           todo' = Tail(todo), held' = held \ Frees(Head(todo)),
           stage' = stage, failed' = failed,
           link_up_timer' = IF Head(todo) = "timer" THEN FALSE ELSE link_up_timer
    PROVE  ResourceInv'
<1> DEFINE x == Head(todo)
<1>0. HeldCore' = HeldCore \ Frees(x)
    BY DEF HeldCore
<1>1. CASE stage = "undo" /\ failed \in DOMAIN LoadLabel
    <2>1. PICK i \in 1..4 : UndoHeld(LoadUndo, {}, failed, i)
        BY <1>1, LabelsRelease DEF IInv, ResourceInv
    <2>2. /\ i + 1 \in 1..4 /\ todo' = From(LoadUndo, i + 1)
          /\ Gives(LoadUndo, i + 1) = Gives(LoadUndo, i) \ Frees(x)
        BY <2>1, OrdersUnroll DEF Unrolls, UndoHeld
    <2>3. HeldCore' = {} \cup (Acquired(StepNo[failed]) \cap Gives(LoadUndo, i + 1))
        BY <1>0, <2>1, <2>2 DEF UndoHeld
    <2>4. UndoHeld(LoadUndo, {}, failed, i + 1)'
        BY <2>1, <2>2, <2>3 DEF UndoHeld
    <2> QED BY <1>1, <2>2, <2>4 DEF ResourceInv
<1>2. CASE stage = "undo" /\ failed \in DOMAIN ProbeLabel
    <2>1. PICK i \in 1..10 : UndoHeld(ProbeUndo, LoadHeld, failed, i)
        BY <1>2, LabelsRelease DEF IInv, ResourceInv
    <2>2. /\ i + 1 \in 1..10 /\ todo' = From(ProbeUndo, i + 1)
          /\ Gives(ProbeUndo, i + 1) = Gives(ProbeUndo, i) \ Frees(x)
          /\ Frees(x) \subseteq Gives(ProbeUndo, i)
        BY <2>1, OrdersUnroll DEF Unrolls, UndoHeld
    <2>3. Gives(ProbeUndo, i) \cap LoadHeld = {}
        BY OrdersUnroll, Tables DEF Unrolls
    <2>4. HeldCore' = LoadHeld \cup (Acquired(StepNo[failed]) \cap Gives(ProbeUndo, i + 1))
        BY <1>0, <2>1, <2>2, <2>3 DEF UndoHeld
    <2>5. UndoHeld(ProbeUndo, LoadHeld, failed, i + 1)'
        BY <2>1, <2>2, <2>4 DEF UndoHeld
    <2> QED BY <1>2, <2>2, <2>5 DEF ResourceInv
<1>3. CASE stage = "remove"
    <2>1. PICK i \in 1..12 : /\ todo = From(RemoveOrder, i)
                             /\ HeldCore = LoadHeld \cup (Core \cap Gives(RemoveOrder, i))
                             /\ link_up_timer => "timer" \in Gives(RemoveOrder, i)
        BY <1>3 DEF IInv, ResourceInv
    <2>2. /\ i + 1 \in 1..12 /\ todo' = From(RemoveOrder, i + 1)
          /\ Gives(RemoveOrder, i + 1) = Gives(RemoveOrder, i) \ Frees(x)
          /\ Frees(x) \subseteq Gives(RemoveOrder, i)
        BY <2>1, OrdersUnroll DEF Unrolls
    <2>3. Gives(RemoveOrder, i) \cap LoadHeld = {}
        BY OrdersUnroll, Tables DEF Unrolls
    <2>4. HeldCore' = LoadHeld \cup (Core \cap Gives(RemoveOrder, i + 1))
        BY <1>0, <2>1, <2>2, <2>3
    <2>5. link_up_timer' => "timer" \in Gives(RemoveOrder, i + 1)
        BY <2>1, <2>2 DEF Frees
    <2>6. Core' = Core
        BY DEF Core, Resources
    <2> QED BY <1>3, <2>2, <2>4, <2>5, <2>6 DEF ResourceInv, IInv
<1>4. CASE stage = "unloading"
    <2>1. PICK i \in 1..5 : todo = From(UnloadOrder, i) /\ HeldCore = Gives(UnloadOrder, i)
        BY <1>4 DEF IInv, ResourceInv
    <2>2. /\ i + 1 \in 1..5 /\ todo' = From(UnloadOrder, i + 1)
          /\ Gives(UnloadOrder, i + 1) = Gives(UnloadOrder, i) \ Frees(x)
        BY <2>1, OrdersUnroll DEF Unrolls
    <2>3. HeldCore' = Gives(UnloadOrder, i + 1)
        BY <1>0, <2>1, <2>2
    <2> QED BY <1>4, <2>2, <2>3 DEF ResourceInv
<1> QED BY <1>1, <1>2, <1>3, <1>4 DEF Releasing, IInv, ResourceInv

LEMMA WholeOrders ==
    /\ RemoveOrder = From(RemoveOrder, 1) /\ Gives(RemoveOrder, 1) = DOMAIN RemoveNo
    /\ UnloadOrder = From(UnloadOrder, 1) /\ Gives(UnloadOrder, 1) = LoadHeld
<1>1. RemoveOrder = From(RemoveOrder, 1) /\ UnloadOrder = From(UnloadOrder, 1)
    BY OrdersPlace, SubSeqFull, Zenon DEF From, Released_
<1>2. /\ Gives(RemoveOrder, 1) = {r \in DOMAIN RemoveNo : RemoveNo[r] >= 1}
      /\ Gives(UnloadOrder, 1) = {r \in DOMAIN UnloadNo : UnloadNo[r] >= 1}
    <2>1. 1 \in 1..12 /\ 1 \in 1..5
        OBVIOUS
    <2>2. \A i \in 1..12 : Gives(RemoveOrder, i) = {r \in DOMAIN RemoveNo : RemoveNo[r] >= i}
        BY OrdersUnroll DEF Unrolls
    <2>3. \A i \in 1..5 : Gives(UnloadOrder, i) = {r \in DOMAIN UnloadNo : UnloadNo[r] >= i}
        BY OrdersUnroll DEF Unrolls
    <2> QED BY <2>1, <2>2, <2>3, Zenon
<1> QED BY <1>1, <1>2, Tables

LEMMA RemoveHeldStep ==
    ASSUME IInv, Remove
    PROVE  ResourceInv'
<1>0. stage = "bound"
    BY DEF Remove
<1>1. CASE "sc" \notin held
    BY <1>0, <1>1 DEF Remove, IInv, ResourceInv, Idle, HeldCore, Core, Resources
<1>2. CASE "sc" \in held
    <2>1. failed = "none" /\ HeldCore = Core
        BY <1>0, <1>2 DEF IInv, ResourceInv, HeldCore, LoadHeld, Core
    <2>2. stage' = "remove" /\ todo' = From(RemoveOrder, 1) /\ UNCHANGED <<failed, held, link_up_timer>>
        BY <1>2, WholeOrders DEF Remove
    <2>3. HeldCore' = LoadHeld \cup (Core \cap Gives(RemoveOrder, 1))
        <3>1. LoadHeld \subseteq Core
            BY ResourceNames DEF LoadHeld, Core
        <3> QED BY <2>1, <2>2, <3>1, Tables, WholeOrders DEF HeldCore
    <2>4. "timer" \in Gives(RemoveOrder, 1)
        BY WholeOrders DEF RemoveNo
    <2>5. Core' = Core
        BY DEF Core, Resources
    <2> QED BY <2>1, <2>2, <2>3, <2>4, <2>5 DEF ResourceInv
<1> QED BY <1>1, <1>2

LEMMA UnloadHeldStep ==
    ASSUME IInv, Unload
    PROVE  ResourceInv'
<1>1. HeldCore = LoadHeld
    BY DEF Unload, IInv, ResourceInv
<1>2. stage' = "unloading" /\ todo' = From(UnloadOrder, 1) /\ held' = held
    BY WholeOrders DEF Unload
<1>3. HeldCore' = Gives(UnloadOrder, 1)
    BY <1>1, <1>2, WholeOrders DEF HeldCore
<1> QED BY <1>2, <1>3 DEF ResourceInv

LEMMA ReleasedHeld ==
    ASSUME IInv, Released
    PROVE  ResourceInv'
<1>1. Releasing /\ todo = <<>> /\ UNCHANGED <<failed, held>>
    BY DEF Released
<1>2. HeldCore' = HeldCore
    BY <1>1 DEF HeldCore
<1>3. CASE stage = "remove"
    <2>1. failed = "none"
        BY <1>3 DEF IInv, ResourceInv
    <2>2. stage' = "loaded" /\ todo' = <<>>
        BY <1>1, <1>3, <2>1 DEF Released, LoadLabel
    <2>3. PICK i \in 1..12 : /\ todo = From(RemoveOrder, i)
                             /\ HeldCore = LoadHeld \cup (Core \cap Gives(RemoveOrder, i))
        BY <1>3 DEF IInv, ResourceInv
    <2>4. Gives(RemoveOrder, i) = {}
        BY <1>1, <2>3, OrdersUnroll DEF Unrolls
    <2>5. HeldCore' = LoadHeld
        BY <1>2, <2>3, <2>4
    <2> QED BY <2>2, <2>5 DEF ResourceInv, Idle
<1>4. CASE stage = "unloading"
    <2>1. PICK i \in 1..5 : todo = From(UnloadOrder, i) /\ HeldCore = Gives(UnloadOrder, i)
        BY <1>4 DEF IInv, ResourceInv
    <2>2. Gives(UnloadOrder, i) = {}
        BY <1>1, <2>1, OrdersUnroll DEF Unrolls
    <2>3. stage' = "unloaded" /\ todo' = <<>>
        BY <1>1, <1>4 DEF Released
    <2> QED BY <1>2, <2>1, <2>2, <2>3 DEF ResourceInv, Idle
<1>5. CASE stage = "undo" /\ failed \in DOMAIN LoadLabel
    <2>1. PICK i \in 1..4 : UndoHeld(LoadUndo, {}, failed, i)
        BY <1>5, LabelsRelease DEF IInv, ResourceInv
    <2>2. HeldCore = {}
        BY <1>1, <2>1, OrdersUnroll DEF Unrolls, UndoHeld
    <2>3. stage' = "unloaded" /\ todo' = <<>>
        BY <1>1, <1>5 DEF Released
    <2> QED BY <1>2, <2>2, <2>3 DEF ResourceInv, Idle
<1>6. CASE stage = "undo" /\ failed \in DOMAIN ProbeLabel
    <2>1. PICK i \in 1..10 : UndoHeld(ProbeUndo, LoadHeld, failed, i)
        BY <1>6, LabelsRelease DEF IInv, ResourceInv
    <2>2. HeldCore = LoadHeld
        BY <1>1, <2>1, OrdersUnroll DEF Unrolls, UndoHeld
    <2>3. /\ stage' = IF failed = "dma_mask" THEN "bound" ELSE "loaded"
          /\ todo' = <<>>
        BY <1>1, <1>6, LabelsRelease DEF Released
    <2> QED BY <1>1, <1>2, <2>2, <2>3 DEF ResourceInv, Idle
<1> QED BY <1>1, <1>3, <1>4, <1>5, <1>6 DEF Releasing, IInv, ResourceInv

\* Nothing is acquired or released.
LEMMA SameHeld ==
    ASSUME IInv, UNCHANGED <<stage, step, failed, todo, held>>,
           link_up_timer' => link_up_timer \/ "irq" \in held
    PROVE  ResourceInv'
<1>1. HeldCore' = HeldCore /\ Core' = Core
    BY DEF HeldCore, Core, Resources
<1>2. CASE stage = "remove"
    <2>1. PICK i \in 1..12 : /\ todo = From(RemoveOrder, i)
                             /\ HeldCore = LoadHeld \cup (Core \cap Gives(RemoveOrder, i))
                             /\ link_up_timer => "timer" \in Gives(RemoveOrder, i)
        BY <1>2 DEF IInv, ResourceInv
    <2>2. Gives(RemoveOrder, i) = {r \in DOMAIN RemoveNo : RemoveNo[r] >= i}
        BY OrdersUnroll DEF Unrolls
    <2>3. "irq" \in held => "irq" \in Gives(RemoveOrder, i)
        BY <2>1, Tables DEF HeldCore
    <2>4. "irq" \in Gives(RemoveOrder, i) => "timer" \in Gives(RemoveOrder, i)
        BY <2>2 DEF RemoveNo
    <2> QED BY <1>1, <1>2, <2>1, <2>3, <2>4 DEF ResourceInv, IInv
<1>3. CASE stage # "remove"
    <2>1. \A order, base, s, i : UndoHeld(order, base, s, i) => UndoHeld(order, base, s, i)'
        BY <1>1 DEF UndoHeld
    <2> QED BY <1>1, <1>3, <2>1 DEF ResourceInv, IInv, Idle, Resources
<1> QED BY <1>2, <1>3

LEMMA ResourceStep == IInv /\ [Next]_vars => ResourceInv'
<1> SUFFICES ASSUME IInv, [Next]_vars PROVE ResourceInv'
    OBVIOUS
<1>1. CASE Load
    <2>1. stage' = "starting" /\ step' = 1 /\ failed' = "none" /\ UNCHANGED <<todo, held>>
        BY <1>1 DEF Load
    <2>2. HeldCore' = {} /\ todo = <<>>
        BY <1>1, <2>1 DEF Load, IInv, ResourceInv, HeldCore, Idle
    <2>3. \A r \in Core : ~(StepNo[r] < 1)
        BY ResourceNames DEF Core, StepNo
    <2>4. Acquired(step)' = {}
        BY <2>1, <2>3 DEF Acquired, Core, Resources
    <2> QED BY <2>1, <2>2, <2>4 DEF ResourceInv, Idle
<1>2. ASSUME NEW i \in DOMAIN Steps, Acquire(Steps[i]) PROVE ResourceInv'
    BY <1>2, AdvanceHeld DEF Acquire, Startable
<1>3. CASE CreateThread
    BY <1>3, AdvanceHeld DEF CreateThread, Startable
<1>4. CASE InitCard
    BY <1>4, AdvanceHeld DEF InitCard, Startable
<1>5. ASSUME NEW i \in DOMAIN Steps, Fail(Steps[i]) PROVE ResourceInv'
    <2>1. HeldCore' = HeldCore
        BY <1>5 DEF Fail, HeldCore
    <2> QED BY <1>5, <2>1, FailHeld DEF Fail, Startable
<1>6. CASE Remove \/ Unload
    BY <1>6, RemoveHeldStep, UnloadHeldStep
<1>7. CASE ReleaseNext
    BY <1>7, PopHeld DEF ReleaseNext, Frees
<1>8. CASE StopThread
    BY <1>8, SameHeld DEF StopThread, start
<1>9. CASE ThreadStopped
    BY <1>9, PopHeld DEF ThreadStopped, Next_, Frees
<1>10. CASE Released
    BY <1>10, ReleasedHeld
<1>11. CASE LinkChange
    BY <1>11, SameHeld DEF LinkChange, start
<1>12. CASE Interrupt
    BY <1>12, SameHeld DEF Interrupt, start
<1>13. CASE TimerFires
    BY <1>13, SameHeld DEF TimerFires, start
<1>14. CASE KernelThread
    <2>1. UNCHANGED <<start, link_up_timer>>
        BY <1>14 DEF KernelThread, ThreadBegin, ThreadSleep, ThreadRun, ThreadWakes, ThreadBack
    <2> QED BY <2>1, SameHeld DEF start
<1>15. ASSUME NEW p \in Actors, Proceed(p) PROVE ResourceInv'
    BY <1>15, SameHeld DEF Proceed, start
<1>16. ASSUME NEW t \in Threads, User(t) PROVE ResourceInv'
    BY <1>16, SameHeld DEF User, start
<1>17. CASE UserLate
    BY <1>17, SameHeld DEF UserLate, start
<1>18. CASE UNCHANGED vars
    BY <1>18, SameHeld DEF vars, start
<1> QED BY <1>1, <1>2, <1>3, <1>4, <1>5, <1>6, <1>7, <1>8, <1>9, <1>10, <1>11, <1>12, <1>13,
           <1>14, <1>15, <1>16, <1>17, <1>18 DEF Next, Startup, Shutdown

-----------------------------------------------------------------------------
(* The kernel thread, the timer and the files. *)

LEMMA ProceedActor ==
    ASSUME IInv, NEW p \in Actors, Proceed(p)
    PROVE  /\ at[p] # "idle"
           /\ \A q \in Actors : q # p => at'[q] = at[q]
           /\ fd' = fd
           /\ \A t \in Threads : t # p => call'[t] = call[t]
           /\ at'[p] # "idle" => UNCHANGED call
<1>1. at \in [Actors -> CallPlaces] /\ call \in [Threads -> Files \cup {NoCall}]
    BY DEF IInv, TypeOK, IoctlTypeOK
<1>2. ASSUME Done(p)
      PROVE  /\ \A q \in Actors : q # p => at'[q] = at[q]
             /\ \A t \in Threads : t # p => call'[t] = call[t]
             /\ at'[p] = "idle"
    BY <1>1, <1>2 DEF Done, Goto
<1>3. ASSUME NEW where, Goto(p, where), UNCHANGED call
      PROVE  /\ \A q \in Actors : q # p => at'[q] = at[q]
             /\ \A t \in Threads : t # p => call'[t] = call[t]
             /\ at'[p] # "idle" => UNCHANGED call
    BY <1>1, <1>3 DEF Goto
<1>4. CASE InitLock(p) \/ ReadEndian(p) \/ ReadWish(p) \/ WriteCr(p)
    BY <1>3, <1>4 DEF InitLock, ReadEndian, ReadWish, WriteCr
<1>5. CASE InitNoIdent(p) \/ InitDone(p)
    BY <1>2, <1>5 DEF InitNoIdent, InitDone, Return
<1>6. CASE WriteBigend(p)
    BY <1>2, <1>3, <1>6 DEF WriteBigend
<1>7. ASSUME NEW kind \in Connected, InitIdent(p, kind)
      PROVE  /\ at[p] # "idle" /\ fd' = fd
             /\ \/ Done(p)
                \/ Goto(p, "endian") /\ UNCHANGED call
    BY <1>7 DEF InitIdent, Return
<1>8. CASE UNCHANGED ioctlVars
    BY <1>8 DEF Proceed, ioctlVars, callVars
<1> QED BY <1>2, <1>3, <1>4, <1>5, <1>6, <1>7, <1>8 DEF Proceed, Update

LEMMA UserActor ==
    ASSUME IInv, NEW t \in Threads, User(t)
    PROVE  /\ \A q \in Actors : q # t => at'[q] = at[q]
           /\ \A q \in Threads : q # t => call'[q] = call[q]
BY DEF User, Open, Release, Set, RemoteReset, Goto, IInv, TypeOK, IoctlTypeOK, Actors, callVars

LEMMA ThreadStep == IInv /\ [Next]_vars => ThreadInv'
<1> SUFFICES ASSUME IInv, [Next]_vars PROVE ThreadInv'
    OBVIOUS
<1> USE ActorsAssumption
<1>0. ThreadInv /\ (~Releasing => stop = "no")
    BY DEF IInv, ThreadInv, Next_
<1>1. CASE Load
    BY <1>0, <1>1, Present DEF Load, ThreadInv, Releasing, kthread, ioctlVars, callVars
<1>2. ASSUME NEW i \in DOMAIN Steps, Acquire(Steps[i]) PROVE ThreadInv'
    <2>1. stage = "starting" /\ "thread" \in held' <=> "thread" \in held
        BY <1>2 DEF Acquire, Advance, Startable
    <2> QED BY <1>0, <1>2, <2>1
            DEF Acquire, Startable, Advance, ThreadInv, kthread, ioctlVars, callVars, Releasing
<1>3. CASE CreateThread
    <2>1. "thread" \in Resources
        BY ResourceNames
    <2>2. "thread" \notin held
        <3>1. stage = "starting" /\ Steps[step] = "thread" /\ step \in 1..16
            BY <1>3, StepNumbers DEF CreateThread, Startable, IInv, TypeOK
        <3>2. StepNo["thread"] = step
            BY <3>1, StepNumbers
        <3>3. "thread" \notin Acquired(step)
            BY <3>2, Tables DEF Acquired
        <3> QED BY <3>1, <3>3 DEF IInv, ResourceInv, HeldCore
    <2>3. thread = "none" /\ at[Handler] = "idle"
        BY <1>0, <2>2 DEF ThreadInv
    <2> QED BY <1>0, <1>3, <2>1, <2>3
            DEF CreateThread, Startable, Advance, ThreadInv, ioctlVars, callVars, Releasing
<1>4. CASE InitCard
    <2>1. "init" \in held' /\ ("thread" \in held' <=> "thread" \in held)
        BY <1>4, ResourceNames DEF InitCard, Advance
    <2>2. at'[Handler] = at[Handler]
        BY <1>4 DEF InitCard, Goto
    <2> QED BY <1>0, <1>4, <2>1, <2>2 DEF InitCard, Startable, ThreadInv, kthread, Releasing
<1>5. ASSUME NEW i \in DOMAIN Steps, Fail(Steps[i]) PROVE ThreadInv'
    <2>1. "thread" \in held' <=> "thread" \in held
        BY <1>5 DEF Fail
    <2> QED BY <1>0, <1>5, <2>1 DEF Fail, Startable, ThreadInv, kthread, ioctlVars, callVars, Releasing
<1>6. CASE Remove \/ Unload
    BY <1>0, <1>6 DEF Remove, Unload, ThreadInv, kthread, ioctlVars, callVars, Releasing
<1>7. CASE ReleaseNext
    <2>1. stop = "no" /\ ("thread" \in held' <=> "thread" \in held)
        BY <1>0, <1>7 DEF ReleaseNext, ThreadInv, Next_
    <2> QED BY <1>0, <1>7, <2>1 DEF ReleaseNext, ThreadInv, Releasing, callVars
<1>8. CASE StopThread
    BY <1>0, <1>8 DEF StopThread, ThreadInv, Next_, Releasing, start, ioctlVars, callVars
<1>9. CASE ThreadStopped
    BY <1>0, <1>9 DEF ThreadStopped, ThreadInv, Next_, Releasing, ioctlVars, callVars
<1>10. CASE Released
    <2>1. stop = "no"
        BY <1>0, <1>10 DEF Released, ThreadInv, Next_
    <2>2. stage' # "starting" /\ UNCHANGED <<held, kthread, ioctlVars>>
        BY <1>10, LabelsRelease DEF Released, IInv, ResourceInv, Releasing
    <2> QED BY <1>0, <2>1, <2>2 DEF ThreadInv, kthread, ioctlVars, callVars
<1>11. CASE LinkChange
    BY <1>0, <1>11 DEF LinkChange, ThreadInv, Next_, Releasing, start, ioctlVars, callVars, kthread
<1>12. CASE Interrupt
    BY <1>0, <1>12 DEF Interrupt, ThreadInv, Next_, Releasing, start, callVars
<1>13. CASE TimerFires
    <2>1. stage = "starting" => "init" \in held
        BY <1>13 DEF TimerFires, IInv, TimerInv
    <2> QED BY <1>0, <1>13, <2>1 DEF TimerFires, ThreadInv, Next_, Releasing, start, ioctlVars, callVars
<1>14. CASE KernelThread
    <2>1. UNCHANGED <<start, stop>>
        BY <1>14 DEF KernelThread, ThreadBegin, ThreadSleep, ThreadRun, ThreadWakes, ThreadBack
    <2>2. CASE ThreadRun
        <3>1. thread = "awake" /\ at[Handler] = "idle"
            BY <1>0, <2>2 DEF ThreadRun, ThreadWakes, ThreadInv
        <3>2. thread' # "none"
            BY <2>2 DEF ThreadRun, ThreadWakes, ThreadServe
        <3>3. at'[Handler] # "idle" => thread' = "busy"
            BY <2>2, <3>1 DEF ThreadRun, ThreadWakes, ThreadServe
        <3>4. stage = "starting" /\ "thread" \in held /\ (command' # {} \/ thread' = "busy")
                  => command # {}
            BY <2>2, <3>1 DEF ThreadRun, ThreadWakes, ThreadServe
        <3> QED BY <1>0, <2>1, <3>1, <3>2, <3>3, <3>4 DEF ThreadInv, Next_, Releasing, start
    <2>3. CASE ThreadBegin \/ ThreadSleep \/ ThreadBack
        BY <1>0, <2>1, <2>3
           DEF ThreadBegin, ThreadSleep, ThreadBack, ThreadInv, Next_, Releasing, start, ioctlVars, callVars
    <2> QED BY <1>14, <2>2, <2>3 DEF KernelThread
<1>15. ASSUME NEW p \in Actors, Proceed(p) PROVE ThreadInv'
    <2>1. at'[Handler] # "idle" => at[Handler] # "idle"
        BY <1>15, ProceedActor DEF Actors
    <2> QED BY <1>0, <1>15, <2>1
            DEF Proceed, ThreadInv, Next_, Releasing, start, kthread
<1>16. ASSUME NEW t \in Threads, User(t) PROVE ThreadInv'
    <2>1. at'[Handler] = at[Handler]
        BY <1>16, UserActor DEF Actors
    <2> QED BY <1>0, <1>16, <2>1 DEF User, ThreadInv, Next_, Releasing, start, kthread
<1>17. CASE UserLate
    BY <1>0, <1>17 DEF UserLate, ThreadInv, Next_, Releasing, start, ioctlVars, callVars, kthread
<1>18. CASE UNCHANGED vars
    BY <1>0, <1>18 DEF vars, ThreadInv, Next_, Releasing, start, ioctlVars, callVars, kthread
<1> QED BY <1>1, <1>2, <1>3, <1>4, <1>5, <1>6, <1>7, <1>8, <1>9, <1>10, <1>11, <1>12, <1>13,
           <1>14, <1>15, <1>16, <1>17, <1>18 DEF Next, Startup, Shutdown

LEMMA TimerStep == IInv /\ [Next]_vars => TimerInv'
<1> SUFFICES ASSUME IInv, [Next]_vars PROVE TimerInv'
    OBVIOUS
<1>0. TimerInv
    BY DEF IInv
<1>1. CASE Load
    BY <1>1 DEF Load, TimerInv
<1>2. ASSUME stage = "starting", NEW s, Advance({s}), UNCHANGED link_up_timer PROVE TimerInv'
    <2>1. failed' = "none" /\ held \subseteq held' /\ stage' \in {"starting", "bound"}
        BY <1>2 DEF Advance, IInv, ResourceInv
    <2> QED BY <1>0, <1>2, <2>1 DEF TimerInv
<1>3. ASSUME NEW i \in DOMAIN Steps, Fail(Steps[i]) PROVE TimerInv'
    <2>1. stage = "starting" /\ stage' = "undo" /\ failed' = Steps[step] /\ step \in 1..16
        BY <1>3, StepNumbers DEF Fail, Startable, IInv, TypeOK
    <2>2. link_up_timer => "init" \in held
        BY <1>0, <2>1 DEF TimerInv
    <2>3. "init" \in held => 14 < step
        BY <2>1, Tables DEF IInv, ResourceInv, HeldCore, Acquired, Core
    <2>4. 14 < step => Steps[step] \in {"cdev", "devices"}
        <3>1. Steps[step] \in DOMAIN StepNo /\ StepNo[Steps[step]] = step
            BY <2>1, StepNumbers
        <3>2. \A s \in DOMAIN StepNo : 14 < StepNo[s] => s \in {"cdev", "devices"}
            BY DEF StepNo
        <3> QED BY <3>1, <3>2
    <2> QED BY <1>3, <2>1, <2>2, <2>3, <2>4 DEF Fail, TimerInv
<1>4. CASE Remove \/ Unload
    BY <1>0, <1>4, LabelsRelease DEF Remove, Unload, TimerInv, IInv, ResourceInv
<1>5. CASE ReleaseNext
    BY <1>0, <1>5 DEF ReleaseNext, TimerInv, Releasing
<1>6. CASE StopThread \/ ThreadStopped
    BY <1>0, <1>6 DEF StopThread, ThreadStopped, TimerInv, Next_, Releasing, start
<1>7. CASE Released
    <2>1. CASE stage = "remove"
        <3>1. PICK i \in 1..12 : /\ todo = From(RemoveOrder, i)
                                 /\ link_up_timer => "timer" \in Gives(RemoveOrder, i)
            BY <2>1 DEF IInv, ResourceInv
        <3>2. ~link_up_timer
            BY <1>7, <3>1, OrdersUnroll DEF Unrolls, Released
        <3> QED BY <1>7, <3>2 DEF Released, TimerInv
    <2>2. CASE stage # "remove"
        <3>1. stage' \in {"unloaded", "loaded"} \/ failed = "dma_mask"
            BY <1>7, <2>2 DEF Released, Releasing
        <3>2. link_up_timer => failed \in {"cdev", "devices"}
            BY <1>0, <1>7, <2>2 DEF TimerInv, Released, Releasing
        <3> QED BY <1>7, <3>1, <3>2 DEF Released, TimerInv
    <2> QED BY <2>1, <2>2
<1>8. CASE Interrupt
    BY <1>8, Present DEF Interrupt, TimerInv, start
<1>9. CASE TimerFires
    BY <1>9 DEF TimerFires, TimerInv
<1>10. ASSUME UNCHANGED <<start, link_up_timer>> PROVE TimerInv'
    BY <1>0, <1>10 DEF TimerInv, start
<1>11. CASE LinkChange
    BY <1>10, <1>11 DEF LinkChange
<1>12. CASE KernelThread
    BY <1>10, <1>12 DEF KernelThread, ThreadBegin, ThreadSleep, ThreadRun, ThreadWakes, ThreadBack
<1>13. ASSUME NEW p \in Actors, Proceed(p) PROVE TimerInv'
    BY <1>10, <1>13 DEF Proceed
<1>14. ASSUME NEW t \in Threads, User(t) PROVE TimerInv'
    BY <1>10, <1>14 DEF User
<1>15. CASE UserLate
    BY <1>10, <1>15 DEF UserLate
<1>16. CASE UNCHANGED vars
    BY <1>10, <1>16 DEF vars
<1>17. CASE Startup
    BY <1>2, <1>17 DEF Startup, Acquire, CreateThread, InitCard, Startable
<1> QED BY <1>1, <1>3, <1>4, <1>5, <1>6, <1>7, <1>8, <1>9, <1>11, <1>12, <1>13, <1>14, <1>15,
           <1>16, <1>17 DEF Next, Shutdown

Settings == [am : Int, size : {1, 2, 4}, dma_r : Int, dma_w : Int,
             pipe_r : Int, pipe_w : Int, fifo : {0, 1}]

\* A request that is accepted leaves settings of their type.
LEMMA SettingsTyped ==
    /\ Defaults \in Settings /\ Closed \notin Settings
    /\ \A old \in Settings, q \in Requests : Valid(q) => NewSettings(old, q) \in Settings
<1>1. Defaults \in Settings
    BY DEF Defaults, Settings
<1>2. Closed \notin Settings
    <2>1. \A s \in Settings : s \in [FileFields -> Int]
        BY DEF Settings, FileFields
    <2> QED BY <2>1, ClosedAssumption
<1>3. ASSUME NEW old \in Settings, NEW q \in Requests, Valid(q)
      PROVE  NewSettings(old, q) \in Settings
    <2>1. q.cmd \in DOMAIN Args /\ q.arg \in [Args[q.cmd] -> Int]
        BY RequestsAssumption DEF Settable
    <2>2. \A x : Sets(q, x) => q.arg[x] \in Int
        BY <2>1 DEF Sets
    <2>3. Sets(q, "size") => q.arg["size"] \in {1, 2, 4}
        <3>1. "size" \in Args[q.cmd] => q.cmd = "setvmespace"
            BY <2>1 DEF Args
        <3> QED BY <1>3, <2>1, <3>1 DEF Sets, Valid
    <2>4. \A x \in FileFields : old[x] \in Int
        BY DEF Settings, FileFields
    <2>5. old["size"] \in {1, 2, 4} /\ old["fifo"] \in {0, 1}
        BY DEF Settings
    <2> DEFINE new == NewSettings(old, q)
    <2>6. \A x \in FileFields : new[x] \in Int
        BY <2>2, <2>4 DEF NewSettings
    <2>7. new["size"] \in {1, 2, 4}
        BY <2>3, <2>5 DEF NewSettings, FileFields
    <2>8. new["fifo"] \in {0, 1}
        BY <2>5 DEF NewSettings, FileFields
    <2>9. new = [x \in FileFields |-> new[x]]
        BY DEF NewSettings
    <2> HIDE DEF new
    <2>10. new \in Settings
        BY <2>6, <2>7, <2>8, <2>9 DEF Settings, FileFields
    <2> QED BY <2>10 DEF new
<1> QED BY <1>1, <1>2, <1>3

\* The settings of open files, and with them what is open.
LEMMA UserFiles ==
    ASSUME IInv, NEW t \in Threads, User(t)
    PROVE  /\ fd' \in [Files -> Settings \cup {Closed}]
           /\ ~NoFileOpen' => ~NoFileOpen \/ "cdev" \in held
           /\ \A q \in Threads : at'[q] # "idle" => call'[q] \in Files /\ fd'[call'[q]] # Closed
<1>1. /\ fd \in [Files -> Settings \cup {Closed}] /\ t \in Actors
      /\ at \in [Actors -> CallPlaces]
    BY DEF IInv, TypeOK, IoctlTypeOK, Settings, Actors
<1>2. call \in [Threads -> Files \cup {NoCall}]
    BY DEF IInv, TypeOK, IoctlTypeOK
<1>3. \A q \in Threads : at[q] # "idle" => call[q] \in Files /\ fd[call[q]] # Closed
    BY DEF IInv, FileInv, IsOpen
<1>4. PICK f \in Files : \/ "cdev" \in held /\ Open(f)
                         \/ Release(f)
                         \/ \E q \in Requests : Set(t, f, q)
                         \/ RemoteReset(t, f)
    BY DEF User
<1>5. CASE "cdev" \in held /\ Open(f)
    BY <1>1, <1>2, <1>3, <1>5, SettingsTyped DEF Open, IsOpen, callVars
<1>6. CASE Release(f)
    BY <1>1, <1>2, <1>3, <1>6 DEF Release, IsOpen, InUse, NoFileOpen, callVars
<1>7. ASSUME NEW q \in Requests, Set(t, f, q)
      PROVE  /\ fd' \in [Files -> Settings \cup {Closed}]
             /\ ~NoFileOpen
             /\ \A p \in Threads : at'[p] # "idle" =>
                    call'[p] \in Files /\ fd'[call'[p]] # Closed
    <2>1. /\ fd[f] \in Settings /\ Valid(q) /\ ~NoFileOpen
          /\ fd' = [fd EXCEPT ![f] = NewSettings(fd[f], q)]
          /\ \A p \in Threads : p # t => at'[p] = at[p] /\ call'[p] = call[p]
          /\ at'[t] # "idle" => call'[t] = f
        BY <1>1, <1>2, <1>7 DEF Set, IsOpen, NoFileOpen, Goto, Actors
    <2>2. NewSettings(fd[f], q) \in Settings
        BY <2>1, SettingsTyped
    <2>3. fd' \in [Files -> Settings \cup {Closed}] /\ fd'[f] # Closed
        BY <1>1, <2>1, <2>2, SettingsTyped
    <2>4. \A g \in Files : fd[g] # Closed => fd'[g] # Closed
        BY <1>1, <2>1, <2>3
    <2> QED BY <1>3, <2>1, <2>3, <2>4
<1>8. ASSUME RemoteReset(t, f)
      PROVE  /\ fd' = fd
             /\ \A p \in Threads : at'[p] # "idle" =>
                    call'[p] \in Files /\ fd'[call'[p]] # Closed
    BY <1>1, <1>2, <1>3, <1>8 DEF RemoteReset, Goto, IsOpen
<1>9. (fd' = fd) => (NoFileOpen' <=> NoFileOpen)
    BY DEF NoFileOpen, IsOpen
<1> QED BY <1>1, <1>4, <1>5, <1>6, <1>7, <1>8, <1>9

LEMMA FileStep == IInv /\ [Next]_vars => FileInv'
<1> SUFFICES ASSUME IInv, [Next]_vars PROVE FileInv'
    OBVIOUS
<1> USE ActorsAssumption
<1>0. FileInv
    BY DEF IInv
<1> DEFINE Calls == \A t \in Threads : at[t] # "idle" => call[t] \in Files /\ IsOpen(call[t])
           Where == ~NoFileOpen => \/ stage = "starting" /\ "cdev" \in held
                                   \/ stage \in {"bound", "remove", "loaded"} /\ failed = "none"
                                   \/ stage \in {"undo", "loaded"} /\ failed = "devices"
\* While no call moves and no file is opened only the stage matters.
<1>1. ASSUME UNCHANGED <<fd, at, call>>, Where', 
             at[Prober] # "idle" => stage' = "starting" /\ "init" \in held'
      PROVE  FileInv'
    BY <1>0, <1>1 DEF FileInv, IsOpen
<1>2. ASSUME UNCHANGED <<fd, at, call, stage, failed>>,
             stage = "starting" => held \subseteq held'
      PROVE  FileInv'
    BY <1>0, <1>1, <1>2 DEF FileInv, IsOpen, NoFileOpen
<1>3. CASE Load
    BY <1>0, <1>1, <1>3 DEF Load, FileInv, ioctlVars, callVars, NoFileOpen, IsOpen
<1>4. ASSUME stage = "starting", NEW s, Advance({s}), at[Prober] = "idle", fd' = fd PROVE Where'
    <2>1. failed' = "none" /\ held \subseteq held' /\ stage' \in {"starting", "bound"}
        BY <1>4 DEF Advance, IInv, ResourceInv
    <2> QED BY <1>0, <1>4, <2>1 DEF FileInv, NoFileOpen, IsOpen
<1>5. ASSUME NEW i \in DOMAIN Steps, Acquire(Steps[i]) PROVE FileInv'
    BY <1>1, <1>4, <1>5 DEF Acquire, Startable, ioctlVars, callVars
<1>6. CASE CreateThread
    BY <1>1, <1>4, <1>6 DEF CreateThread, Startable, ioctlVars, callVars
<1>7. CASE InitCard
    <2>1. stage = "starting" /\ Steps[step] = "init" /\ step \in 1..16 /\ Advance({"init"})
        BY <1>7, StepNumbers DEF InitCard, Startable, IInv, TypeOK
    <2>2. stage' = "starting" /\ "init" \in held'
        <3>1. step = 14
            BY <2>1, StepNumbers, Tables
        <3> QED BY <2>1, <3>1, ResourceNames, StepNumbers DEF Advance
    <2>3. Where'
        BY <1>4, <1>7, <2>1 DEF InitCard, Startable
    <2>4. \A t \in Threads : at'[t] = at[t]
        BY <1>7 DEF InitCard, Goto
    <2> QED BY <1>0, <1>7, <2>2, <2>3, <2>4 DEF FileInv, InitCard, IsOpen
<1>8. ASSUME NEW i \in DOMAIN Steps, Fail(Steps[i]) PROVE FileInv'
    <2>1. stage = "starting" /\ stage' = "undo" /\ failed' = Steps[step] /\ fd' = fd
        BY <1>8 DEF Fail, Startable, ioctlVars, callVars
    <2>2. ~NoFileOpen => step = 16
        BY <1>0, <2>1, Present DEF FileInv
    <2>3. Steps[16] = "devices"
        BY StepNumbers DEF Steps, LoadSteps, ProbeSteps
    <2>4. Where'
        BY <2>1, <2>2, <2>3 DEF NoFileOpen, IsOpen
    <2> QED BY <1>1, <1>8, <2>4 DEF Fail, Startable, ioctlVars, callVars
<1>9. CASE Remove \/ Unload
    <2>1. UNCHANGED <<fd, at, call, held, failed>> /\ at[Prober] = "idle"
        BY <1>0, <1>9 DEF Remove, Unload, FileInv, ioctlVars, callVars
    <2>2. CASE Remove
        <3>1. Where'
            BY <1>0, <2>1, <2>2 DEF Remove, FileInv, NoFileOpen, IsOpen
        <3> QED BY <1>1, <2>1, <3>1
    <2>3. CASE Unload
        <3>1. Where'
            BY <2>1, <2>3 DEF Unload, NoFileOpen, IsOpen
        <3> QED BY <1>1, <2>1, <3>1
    <2> QED BY <1>9, <2>2, <2>3
<1>10. CASE ReleaseNext
    BY <1>2, <1>10 DEF ReleaseNext, Releasing, callVars
<1>11. CASE StopThread \/ ThreadStopped
    BY <1>2, <1>11 DEF StopThread, ThreadStopped, Next_, Releasing, start, ioctlVars, callVars
<1>12. CASE Released
    <2>1. /\ stage \in {"undo", "remove", "unloading"} /\ UNCHANGED <<fd, at, call, failed>>
        BY <1>12 DEF Released, Releasing, ioctlVars, callVars
    <2>2. at[Prober] = "idle"
        BY <1>0, <2>1 DEF FileInv
    <2>3. ~NoFileOpen => \/ stage = "undo" /\ failed = "devices"
                         \/ stage = "remove" /\ failed = "none"
        BY <1>0, <2>1 DEF FileInv
    <2>4. stage # "unloading" /\ failed \in {"none", "devices"} => stage' = "loaded"
        BY <1>12 DEF Released, LoadLabel
    <2>5. Where'
        BY <2>1, <2>3, <2>4 DEF NoFileOpen, IsOpen
    <2> QED BY <1>1, <2>1, <2>2, <2>5
<1>13. CASE LinkChange
    BY <1>2, <1>13 DEF LinkChange, start, ioctlVars, callVars
<1>14. CASE Interrupt
    BY <1>2, <1>14 DEF Interrupt, start, callVars
<1>15. CASE TimerFires
    BY <1>2, <1>15 DEF TimerFires, start, ioctlVars, callVars
<1>16. CASE KernelThread
    <2>1. /\ UNCHANGED <<fd, call, start>> /\ at'[Prober] = at[Prober]
          /\ \A t \in Threads : at'[t] = at[t]
        <3>1. CASE ThreadRun
            <4>1. at' = at \/ at' = [at EXCEPT ![Handler] = "init"]
                BY <3>1 DEF ThreadRun, ThreadWakes, ThreadServe, Goto
            <4>2. UNCHANGED <<fd, call, start>>
                BY <3>1 DEF ThreadRun, ThreadWakes
            <4>3. at \in [Actors -> CallPlaces]
                BY DEF IInv, TypeOK, IoctlTypeOK
            <4> QED BY <4>1, <4>2, <4>3 DEF Actors
        <3>2. CASE ThreadBegin \/ ThreadSleep \/ ThreadBack
            BY <3>2 DEF ThreadBegin, ThreadSleep, ThreadBack, ioctlVars, callVars
        <3> QED BY <1>16, <3>1, <3>2 DEF KernelThread
    <2> QED BY <1>0, <2>1 DEF FileInv, start, NoFileOpen, IsOpen
<1>17. ASSUME NEW p \in Actors, Proceed(p) PROVE FileInv'
    <2>1. UNCHANGED <<fd, start>>
        BY <1>17, ProceedActor DEF Proceed
    <2>2. ASSUME NEW t \in Threads, at'[t] # "idle" PROVE at[t] # "idle" /\ call'[t] = call[t]
        BY <1>17, <2>2, ProceedActor DEF Actors
    <2>3. at'[Prober] # "idle" => at[Prober] # "idle"
        BY <1>17, ProceedActor DEF Actors
    <2> QED BY <1>0, <2>1, <2>2, <2>3 DEF FileInv, start, NoFileOpen, IsOpen
<1>18. ASSUME NEW t \in Threads, User(t) PROVE FileInv'
    <2>1. UNCHANGED start /\ at'[Prober] = at[Prober]
        BY <1>18, UserActor DEF User, Actors
    <2>2. Where'
        <3>1. ~NoFileOpen' => ~NoFileOpen \/ "cdev" \in held
            BY <1>18, UserFiles
        <3>2. stage = "remove" => failed = "none"
            BY DEF IInv, ResourceInv
        <3>3. ~NoFileOpen' => \/ stage = "starting" /\ "cdev" \in held
                              \/ stage \in {"bound", "remove", "loaded"} /\ failed = "none"
                              \/ stage \in {"undo", "loaded"} /\ failed = "devices"
            BY <1>0, <3>1, <3>2, Present DEF FileInv
        <3> QED BY <2>1, <3>3 DEF start
    <2>3. Calls'
        BY <1>18, UserFiles DEF IsOpen
    <2> QED BY <1>0, <2>1, <2>2, <2>3 DEF FileInv, start
<1>19. CASE UserLate
    BY <1>2, <1>19 DEF UserLate, start, ioctlVars, callVars
<1>20. CASE UNCHANGED vars
    BY <1>2, <1>20 DEF vars, start, ioctlVars, callVars
<1> QED BY <1>3, <1>5, <1>6, <1>7, <1>8, <1>9, <1>10, <1>11, <1>12, <1>13, <1>14, <1>15,
           <1>16, <1>17, <1>18, <1>19, <1>20 DEF Next, Startup, Shutdown

-----------------------------------------------------------------------------
(* Types. *)

LEMMA UserTyped ==
    ASSUME IInv, NEW t \in Threads, User(t)
    PROVE  IoctlTypeOK'
<1>1. /\ IoctlTypeOK /\ t \in Actors
    BY DEF IInv, TypeOK, Actors
<1>2. fd' \in [Files -> {Closed} \cup Settings]
    BY UserFiles
<1>3. PICK f \in Files : \/ Open(f) \/ Release(f)
                         \/ \E q \in Requests : Set(t, f, q)
                         \/ RemoteReset(t, f)
    BY DEF User
<1>4. CASE Open(f) \/ Release(f)
    BY <1>1, <1>2, <1>4 DEF Open, Release, IoctlTypeOK, Settings, shared, fields, registers, callVars
<1>5. ASSUME NEW q \in Requests, Set(t, f, q) PROVE IoctlTypeOK'
    <2>1. q.cmd \in DOMAIN Args /\ q.arg \in [Args[q.cmd] -> Int]
        BY RequestsAssumption DEF Settable
    <2>2. Sets(q, "swap") => q.arg["swap"] \in Int
        BY <2>1 DEF Sets
    <2>3. user_wants_swap' \in Int
        BY <1>1, <1>5, <2>2 DEF Set, IoctlTypeOK
    <2>4. at' \in [Actors -> CallPlaces] /\ call' \in [Threads -> Files \cup {NoCall}]
        BY <1>1, <1>5 DEF Set, Goto, IoctlTypeOK, CallPlaces, Updating
    <2>5. raced' \in BOOLEAN
        <3>1. raced' = raced \/ raced' = Within(t)
            BY <1>5 DEF Set
        <3>2. raced \in BOOLEAN /\ Within(t) \in BOOLEAN
            BY <1>1, Zenon DEF IoctlTypeOK, Within
        <3> QED BY <3>1, <3>2, Zenon
    <2>6. UNCHANGED <<remote_endian, remote_hw, remote_ident, registers, sem_hw, swap>>
        BY <1>5 DEF Set
    <2> QED BY <1>1, <1>2, <2>3, <2>4, <2>5, <2>6 DEF IoctlTypeOK, Settings, registers
<1>6. ASSUME RemoteReset(t, f) PROVE IoctlTypeOK'
    BY <1>1, <1>2, <1>6 DEF RemoteReset, IoctlTypeOK, Settings, shared, fields, registers, Goto,
                            CallPlaces
<1> QED BY <1>3, <1>4, <1>5, <1>6

LEMMA ProceedTyped ==
    ASSUME IInv, NEW p \in Actors, Proceed(p)
    PROVE  IoctlTypeOK'
<1> USE DEF CallPlaces, Updating
<1>1. IoctlTypeOK /\ FrontEnds \subseteq Kinds
    BY FrontEndsAssumption DEF IInv, TypeOK
<1>2. ASSUME Done(p)
      PROVE  at' \in [Actors -> CallPlaces] /\ call' \in [Threads -> Files \cup {NoCall}]
    BY <1>1, <1>2 DEF Done, Goto, IoctlTypeOK
<1>3. ASSUME NEW where \in CallPlaces, Goto(p, where) PROVE at' \in [Actors -> CallPlaces]
    BY <1>1, <1>3 DEF Goto, IoctlTypeOK
<1>4. CASE InitLock(p)
    BY <1>1, <1>3, <1>4 DEF InitLock, IoctlTypeOK, shared, fields, registers
<1>5. CASE InitNoIdent(p)
    BY <1>1, <1>2, <1>5 DEF InitNoIdent, Return, IoctlTypeOK, shared, fields, registers
<1>6. ASSUME NEW kind \in Connected, InitIdent(p, kind) PROVE IoctlTypeOK'
    <2>1. remote_ident' \in Kinds \cup {"invalid"}
        BY <1>1, <1>6 DEF InitIdent, Connected, IoctlTypeOK
    <2>2. remote_endian' \in BOOLEAN
        <3>1. remote_endian' = (kind \in BigEndian)
            BY <1>6, Zenon DEF InitIdent
        <3> QED BY <3>1
    <2>3. raced' \in BOOLEAN
        <3>1. raced' = (raced \/ Within(p)) \/ raced' = Within(p)
            BY <1>6 DEF InitIdent
        <3>2. (raced \/ Within(p)) \in BOOLEAN /\ Within(p) \in BOOLEAN
            BY Zenon DEF Within
        <3> QED BY <3>1, <3>2, Zenon
    <2>4. UNCHANGED <<fd, user_wants_swap, remote_hw, registers, swap>>
        BY <1>6 DEF InitIdent
    <2>5. /\ at' \in [Actors -> CallPlaces] /\ call' \in [Threads -> Files \cup {NoCall}]
          /\ sem_hw' \in Actors \cup {NoCall}
        BY <1>1, <1>2, <1>3, <1>6 DEF InitIdent, Return, IoctlTypeOK
    <2> QED BY <1>1, <2>1, <2>2, <2>3, <2>4, <2>5 DEF IoctlTypeOK, registers
<1>7. CASE Update(p)
    <2>1. \A b, w : Swap(b, w) \in {"on", "off"}
        BY DEF Swap
    <2>2. swap' \in [Actors -> {"on", "off"}] /\ swap[p] \in {"on", "off"}
        BY <1>1, <1>7, <2>1
           DEF Update, ReadEndian, ReadWish, WriteCr, WriteBigend, Flipped, IoctlTypeOK
    <2>3. cr_swap' \in {"on", "off"} /\ bigend' \in {"on", "off"}
        BY <1>1, <1>7, <2>2
           DEF Update, ReadEndian, ReadWish, WriteCr, WriteBigend, IoctlTypeOK, shared, registers
    <2>4. at' \in [Actors -> CallPlaces] /\ call' \in [Threads -> Files \cup {NoCall}]
        BY <1>1, <1>2, <1>3, <1>7
           DEF Update, ReadEndian, ReadWish, WriteCr, WriteBigend, IoctlTypeOK
    <2>5. UNCHANGED <<fd, fields, sem_hw, raced>>
        BY <1>7 DEF Update, ReadEndian, ReadWish, WriteCr, WriteBigend, shared
    <2> QED BY <1>1, <2>2, <2>3, <2>4, <2>5 DEF IoctlTypeOK, fields
<1>8. CASE InitDone(p)
    BY <1>1, <1>2, <1>8 DEF InitDone, Return, IoctlTypeOK, registers
<1>9. CASE UNCHANGED ioctlVars
    BY <1>1, <1>9 DEF IoctlTypeOK, ioctlVars, shared, fields, registers, callVars
<1> QED BY <1>4, <1>5, <1>6, <1>7, <1>8, <1>9 DEF Proceed

LEMMA ThreadIsHeld ==
    ASSUME IInv, Next_("thread")
    PROVE  "thread" \in held /\ thread # "none"
<1>1. Frees("thread") = {"thread"} /\ Head(todo) = "thread" /\ todo # <<>>
    BY DEF Frees, Next_
<1>2. CASE stage = "undo" /\ failed \in DOMAIN LoadLabel
    <2>1. PICK i \in 1..4 : UndoHeld(LoadUndo, {}, failed, i)
        BY <1>2, LabelsRelease DEF IInv, ResourceInv
    <2>2. "thread" \in Gives(LoadUndo, i) /\ "thread" \in DOMAIN LoadUndoNo
        BY <1>1, <2>1, OrdersUnroll DEF Unrolls, UndoHeld
    <2> QED BY <2>2 DEF LoadUndoNo
<1>3. CASE stage = "undo" /\ failed \in DOMAIN ProbeLabel
    <2>1. PICK i \in 1..10 : UndoHeld(ProbeUndo, LoadHeld, failed, i)
        BY <1>3, LabelsRelease DEF IInv, ResourceInv
    <2>2. "thread" \in Gives(ProbeUndo, i)
        BY <1>1, <2>1, OrdersUnroll DEF Unrolls, UndoHeld
    <2> QED BY <2>1, <2>2, Tables DEF UndoHeld, Acquired, HeldCore, IInv, ThreadInv
<1>4. CASE stage = "remove"
    <2>1. PICK i \in 1..12 : /\ todo = From(RemoveOrder, i)
                             /\ HeldCore = LoadHeld \cup (Core \cap Gives(RemoveOrder, i))
        BY <1>4 DEF IInv, ResourceInv
    <2>2. "thread" \in Gives(RemoveOrder, i)
        BY <1>1, <2>1, OrdersUnroll DEF Unrolls
    <2> QED BY <2>1, <2>2, Tables DEF HeldCore, IInv, ThreadInv
<1>5. CASE stage = "unloading"
    <2>1. PICK i \in 1..5 : todo = From(UnloadOrder, i) /\ HeldCore = Gives(UnloadOrder, i)
        BY <1>5 DEF IInv, ResourceInv
    <2>2. "thread" \in Gives(UnloadOrder, i)
        BY <1>1, <2>1, OrdersUnroll DEF Unrolls
    <2> QED BY <2>1, <2>2 DEF HeldCore, IInv, ThreadInv
<1> QED BY <1>2, <1>3, <1>4, <1>5 DEF Next_, Releasing, IInv, ResourceInv

\* The variables of Ioctl.
LEMMA IoctlTypeStep == IInv /\ [Next]_vars => IoctlTypeOK'
<1> SUFFICES ASSUME IInv, [Next]_vars PROVE IoctlTypeOK'
    OBVIOUS
<1>0. IoctlTypeOK
    BY DEF IInv, TypeOK
<1>1. ASSUME UNCHANGED ioctlVars PROVE IoctlTypeOK'
    BY <1>0, <1>1 DEF IoctlTypeOK, ioctlVars, shared, fields, registers, callVars
<1>2. CASE InitCard
    <2>1. at' \in [Actors -> CallPlaces]
        BY <1>0, <1>2 DEF InitCard, Goto, IoctlTypeOK, CallPlaces
    <2> QED BY <1>0, <1>2, <2>1 DEF InitCard, IoctlTypeOK
<1>3. CASE ReleaseNext
    <2>1. Forgotten \/ UNCHANGED fields
        BY <1>3 DEF ReleaseNext
    <2>2. UNCHANGED <<fd, registers, callVars>>
        BY <1>3 DEF ReleaseNext
    <2>3. CASE Forgotten
        <3>1. remote_endian' \in BOOLEAN
            <4>1. remote_endian' = FALSE
                BY <2>3 DEF Forgotten
            <4> QED BY <4>1
        <3>2. /\ user_wants_swap' \in Int
              /\ remote_hw' \in Kinds \cup {"invalid"} /\ remote_ident' \in Kinds \cup {"invalid"}
            BY <2>3 DEF Forgotten
        <3> QED BY <1>0, <2>2, <3>1, <3>2 DEF IoctlTypeOK, registers, callVars
    <2>4. CASE UNCHANGED fields
        BY <1>1, <2>2, <2>4 DEF ioctlVars, shared
    <2> QED BY <2>1, <2>3, <2>4
<1>4. CASE Interrupt
    <2>1. remote_hw' \in {remote_hw, "invalid"}
        BY <1>4 DEF Interrupt
    <2> QED BY <1>0, <1>4, <2>1 DEF Interrupt, IoctlTypeOK, registers, callVars
<1>5. CASE ThreadRun
    <2>1. at' = at \/ at' = [at EXCEPT ![Handler] = "init"]
        BY <1>5 DEF ThreadRun, ThreadWakes, ThreadServe, Goto
    <2>2. UNCHANGED <<fd, shared, sem_hw, swap, call, raced>>
        BY <1>5 DEF ThreadRun, ThreadWakes
    <2> QED BY <1>0, <2>1, <2>2 DEF IoctlTypeOK, shared, fields, registers, CallPlaces
<1>6. ASSUME NEW p \in Actors, Proceed(p) PROVE IoctlTypeOK'
    BY <1>6, ProceedTyped
<1>7. ASSUME NEW t \in Threads, User(t) PROVE IoctlTypeOK'
    BY <1>7, UserTyped
<1>8. Load \/ CreateThread \/ Remove \/ Unload \/ StopThread \/ ThreadStopped \/ Released \/ LinkChange
          \/ TimerFires \/ UserLate => UNCHANGED ioctlVars
    BY DEF Load, CreateThread, Remove, Unload, StopThread, ThreadStopped, Released, LinkChange,
           TimerFires, UserLate
<1>9. ThreadBegin \/ ThreadSleep \/ ThreadBack => UNCHANGED ioctlVars
    BY DEF ThreadBegin, ThreadSleep, ThreadBack
<1>10. \A s : Acquire(s) \/ Fail(s) => UNCHANGED ioctlVars
    BY DEF Acquire, Fail
<1>11. CASE UNCHANGED vars
    BY <1>1, <1>11 DEF vars
<1> QED BY <1>1, <1>2, <1>3, <1>4, <1>5, <1>6, <1>7, <1>8, <1>9, <1>10, <1>11
        DEF Next, Startup, Shutdown, KernelThread

\* The variables of the start and the removal.
LEMMA StartTypeStep ==
    ASSUME IInv, [Next]_vars
    PROVE  /\ stage' \in {"unloaded", "starting", "loaded", "bound", "undo", "remove", "unloading"}
           /\ step' \in DOMAIN Steps
           /\ failed' \in {Steps[i] : i \in DOMAIN Steps} \cup {"none"}
           /\ todo' \in Seq(Resources \cup {"maps", "timer"})
           /\ held' \subseteq Resources
           /\ loads' \in 0..MaxLoads
<1> DEFINE Stages == {"unloaded", "starting", "loaded", "bound", "undo", "remove", "unloading"}
           S == Resources \cup {"maps", "timer"}
           Failures == {Steps[i] : i \in DOMAIN Steps} \cup {"none"}
           Goal == /\ stage' \in Stages
                   /\ step' \in 1..16
                   /\ failed' \in Failures
                   /\ todo' \in Seq(S)
                   /\ held' \subseteq Resources
                   /\ loads' \in 0..MaxLoads
<1>0. /\ stage \in Stages /\ step \in 1..16 /\ todo \in Seq(S) /\ held \subseteq Resources
      /\ failed \in Failures /\ loads \in 0..MaxLoads
    BY StepNumbers DEF IInv, TypeOK
<1>1. RemoveOrder \in Seq(S) /\ UnloadOrder \in Seq(S)
    BY OrdersPlace DEF Released_
<1>2. \A s \in DOMAIN StepNo : Undo(s) \in Seq(S)
    <2>1. \A i \in 1..4 : From(LoadUndo, i) \in Seq(S)
        BY OrdersUnroll DEF Unrolls
    <2>2. \A i \in 1..10 : From(ProbeUndo, i) \in Seq(S)
        BY OrdersUnroll DEF Unrolls
    <2> QED BY <2>1, <2>2, LabelsRelease
<1>a. "none" \in Failures /\ \A i \in DOMAIN Steps : Steps[i] \in Failures
    OBVIOUS
<1>b. Len(Steps) = 16 /\ DOMAIN Steps = 1..16
    BY StepNumbers
<1> SUFFICES Goal
    BY <1>b
<1> HIDE DEF S, Failures
<1> USE <1>a, <1>b
<1>3. UNCHANGED start => Goal
    BY <1>0 DEF start
<1>4. CASE Load
    BY <1>0, <1>4, BoundsAssumption DEF Load
<1>5. ASSUME NEW s, Advance({s}) PROVE Goal
    BY <1>0, <1>5 DEF Advance
<1>6. ASSUME NEW i \in DOMAIN Steps, Fail(Steps[i]) PROVE Goal
    <2>1. Steps[i] \in DOMAIN StepNo /\ Undo(Steps[i]) \in Seq(S)
        BY <1>2, StepNumbers
    <2>2. held' \subseteq Resources
        <3>1. "devices" \in Resources
            BY ResourceNames
        <3> QED BY <1>0, <1>6, <3>1 DEF Fail
    <2> QED BY <1>0, <1>6, <2>1, <2>2 DEF Fail
<1>7. CASE Remove \/ Unload
    BY <1>0, <1>1, <1>7 DEF Remove, Unload
<1>8. CASE ReleaseNext \/ ThreadStopped
    <2>1. /\ todo' = Tail(todo) /\ todo # <<>> /\ held' \subseteq held
          /\ UNCHANGED <<stage, step, failed, loads>>
        BY <1>8 DEF ReleaseNext, ThreadStopped, Next_
    <2>2. Tail(todo) \in Seq(S)
        BY <1>0, <2>1
    <2> QED BY <1>0, <2>1, <2>2
<1>9. CASE Released
    BY <1>0, <1>1, <1>9 DEF Released, Releasing
<1>10. CASE Startup
    BY <1>5, <1>10 DEF Startup, Acquire, CreateThread, InitCard
<1>11. StopThread \/ LinkChange \/ Interrupt \/ TimerFires \/ UserLate => UNCHANGED start
    BY DEF StopThread, LinkChange, Interrupt, TimerFires, UserLate
<1>12. KernelThread => UNCHANGED start
    BY DEF KernelThread, ThreadBegin, ThreadSleep, ThreadRun, ThreadWakes, ThreadBack
<1>13. \A p : Proceed(p) \/ User(p) => UNCHANGED start
    BY DEF Proceed, User
<1>14. CASE UNCHANGED vars
    BY <1>3, <1>14 DEF vars
<1> QED BY <1>3, <1>4, <1>6, <1>7, <1>8, <1>9, <1>10, <1>11, <1>12, <1>13, <1>14
        DEF Next, Shutdown

\* The other variables.
LEMMA RunTypeStep ==
    ASSUME IInv, [Next]_vars
    PROVE  /\ thread' \in {"none", "new", "loop", "asleep", "awake", "busy", "done"}
           /\ stop' \in {"no", "new", "loop", "asleep", "awake", "busy", "done"}
           /\ command' \subseteq {"up", "down"}
           /\ link_up_timer' \in BOOLEAN /\ link' \in BOOLEAN
           /\ synch_chg' \in BOOLEAN /\ enabled' \in BOOLEAN
           /\ oops' \in {"none", "interrupt", "timer", "thread", "file", "remove"}
           /\ linkChanges' \in 0..MaxLinkChanges
<1> DEFINE Goal ==
        /\ thread' \in {"none", "new", "loop", "asleep", "awake", "busy", "done"}
        /\ stop' \in {"no", "new", "loop", "asleep", "awake", "busy", "done"}
        /\ command' \subseteq {"up", "down"}
        /\ link_up_timer' \in BOOLEAN /\ link' \in BOOLEAN
        /\ synch_chg' \in BOOLEAN /\ enabled' \in BOOLEAN
        /\ oops' \in {"none", "interrupt", "timer", "thread", "file", "remove"}
        /\ linkChanges' \in 0..MaxLinkChanges
<1>0. TypeOK
    BY DEF IInv
<1>a. ASSUME UNCHANGED <<kthread, line, link_up_timer, oops>> PROVE Goal
    BY <1>0, <1>a DEF kthread, line, TypeOK
<1>1. CASE Load \/ UNCHANGED vars
    BY <1>a, <1>1 DEF Load, vars
<1>2. ASSUME NEW s, Acquire(s) \/ Fail(s) PROVE Goal
    BY <1>a, <1>2 DEF Acquire, Fail
<1>3. CASE CreateThread \/ InitCard
    <2>1. CASE CreateThread
        BY <1>0, <2>1 DEF CreateThread, line, TypeOK
    <2>2. CASE InitCard
        <3>1. /\ enabled' = TRUE /\ synch_chg' = FALSE
              /\ UNCHANGED <<kthread, link, linkChanges, link_up_timer, oops>>
            BY <2>2 DEF InitCard
        <3>2. enabled' \in BOOLEAN /\ synch_chg' \in BOOLEAN
            BY <3>1
        <3> QED BY <1>0, <3>1, <3>2 DEF kthread, TypeOK
    <2> QED BY <1>3, <2>1, <2>2
<1>4. CASE Remove \/ Unload
    <2>1. UNCHANGED <<kthread, line, link_up_timer>> /\ (oops' = oops \/ oops' = "remove")
        BY <1>4 DEF Remove, Unload
    <2> QED BY <1>0, <2>1 DEF kthread, line, TypeOK
<1>5. CASE ReleaseNext
    BY <1>0, <1>5 DEF ReleaseNext, kthread, line, TypeOK
<1>6. CASE StopThread
    BY <1>0, <1>6, ThreadIsHeld DEF StopThread, line, TypeOK
<1>7. CASE ThreadStopped \/ Released
    <2>1. UNCHANGED <<command, line, link_up_timer, oops>>
        BY <1>7 DEF ThreadStopped, Released, kthread
    <2>2. (thread' = "none" /\ stop' = "no") \/ UNCHANGED <<thread, stop>>
        BY <1>7 DEF ThreadStopped, Released, kthread
    <2> QED BY <1>0, <2>1, <2>2 DEF line, TypeOK
<1>8. CASE LinkChange
    <2>1. /\ UNCHANGED <<kthread, enabled, link_up_timer, oops>>
          /\ link' = ~link /\ synch_chg' = TRUE
          /\ linkChanges' = linkChanges + 1 /\ linkChanges < MaxLinkChanges
        BY <1>0, <1>8 DEF LinkChange, TypeOK
    <2>2. link' \in BOOLEAN
        BY <2>1
    <2>3. linkChanges' \in 0..MaxLinkChanges
        BY <1>0, <2>1, BoundsAssumption DEF TypeOK
    <2> QED BY <1>0, <2>1, <2>2, <2>3 DEF kthread, TypeOK
<1>9. CASE Interrupt
    BY <1>0, <1>9 DEF Interrupt, TypeOK
<1>10. CASE TimerFires
    BY <1>0, <1>10 DEF TimerFires, line, TypeOK
<1>11. CASE ThreadBegin \/ ThreadSleep \/ ThreadBack
    BY <1>0, <1>11 DEF ThreadBegin, ThreadSleep, ThreadBack, line, TypeOK
<1>12. CASE ThreadRun
    BY <1>0, <1>12 DEF ThreadRun, ThreadWakes, ThreadServe, TypeOK
<1>13. ASSUME NEW p \in Actors, Proceed(p) PROVE Goal
    BY <1>0, <1>13 DEF Proceed, kthread, line, TypeOK
<1>14. ASSUME NEW t \in Threads, User(t) PROVE Goal
    BY <1>0, <1>14 DEF User, kthread, line, TypeOK
<1>15. CASE UserLate
    BY <1>0, <1>15 DEF UserLate, kthread, line, TypeOK
<1>16. Goal
    BY <1>1, <1>2, <1>3, <1>4, <1>5, <1>6, <1>7, <1>8, <1>9, <1>10, <1>11, <1>12, <1>13,
       <1>14, <1>15 DEF Next, Startup, Shutdown, KernelThread
<1> QED BY <1>16

-----------------------------------------------------------------------------
(* The invariant. *)

LEMMA InitInv == Init => IInv
<1> SUFFICES ASSUME Init PROVE IInv
    OBVIOUS
<1>1. IoctlTypeOK
    <2>1. fd \in [Files -> {Closed} \cup Settings]
        BY DEF Init, IoctlInit
    <2>2. remote_endian = FALSE /\ raced = FALSE
        BY DEF Init, IoctlInit
    <2>3. remote_endian \in BOOLEAN /\ raced \in BOOLEAN
        BY <2>2
    <2>4. /\ at \in [Actors -> CallPlaces]
          /\ call \in [Threads -> Files \cup {NoCall}] /\ sem_hw \in Actors \cup {NoCall}
        BY DEF Init, IoctlInit, CallPlaces
    <2>5. /\ user_wants_swap \in Int /\ cr_swap \in {"on", "off"} /\ bigend \in {"on", "off"}
          /\ swap \in [Actors -> {"on", "off"}]
          /\ remote_hw \in Kinds \cup {"invalid"} /\ remote_ident \in Kinds \cup {"invalid"}
        BY DEF Init, IoctlInit
    <2> QED BY <2>1, <2>3, <2>4, <2>5 DEF IoctlTypeOK, Settings
<1>2. TypeOK
    <2>1. step \in DOMAIN Steps
        BY StepNumbers DEF Init
    <2>2. todo \in Seq(Resources \cup {"maps", "timer"})
        BY DEF Init
    <2>3. link_up_timer \in BOOLEAN /\ link \in BOOLEAN /\ synch_chg \in BOOLEAN /\ enabled \in BOOLEAN
        <3>1. link_up_timer = FALSE /\ synch_chg = FALSE /\ enabled = FALSE /\ link \in BOOLEAN
            BY DEF Init
        <3> QED BY <3>1
    <2>4. loads \in 0..MaxLoads /\ linkChanges \in 0..MaxLinkChanges
        BY BoundsAssumption DEF Init
    <2> QED BY <1>1, <2>1, <2>2, <2>3, <2>4 DEF Init, TypeOK
<1>3. ResourceInv
    BY DEF Init, ResourceInv, Idle, HeldCore
<1>4. ThreadInv /\ TimerInv
    BY DEF Init, IoctlInit, ThreadInv, TimerInv, Actors
<1>5. FileInv
    BY DEF Init, IoctlInit, FileInv, NoFileOpen, IsOpen, Actors
<1> QED BY <1>2, <1>3, <1>4, <1>5 DEF IInv

LEMMA InvStep == IInv /\ [Next]_vars => IInv'
<1> SUFFICES ASSUME IInv, [Next]_vars PROVE IInv'
    OBVIOUS
<1>1. TypeOK'
    <2>1. Steps' = Steps /\ Resources' = Resources
        BY DEF Steps, Resources
    <2> QED BY IoctlTypeStep, StartTypeStep, RunTypeStep, <2>1 DEF TypeOK
<1> QED BY <1>1, ResourceStep, ThreadStep, TimerStep, FileStep DEF IInv

THEOREM InvHolds == Spec => []IInv
BY InitInv, InvStep, PTL DEF Spec

\* The variables keep their types: what the settings of a file may be,
\* whatever the requests, and that the thread is stopped only when there is
\* one.
THEOREM TypeOKHolds == Spec => []TypeOK
<1>1. IInv => TypeOK
    BY DEF IInv
<1> QED BY <1>1, InvHolds, PTL

\* Every error label releases what had been acquired, whichever step failed
\* and however often the module is loaded.
THEOREM AllReleasedHolds == Spec => []AllReleased
<1>1. IInv => AllReleased
    BY DEF IInv, ResourceInv, HeldCore, LoadHeld, AllReleased
<1> QED BY <1>1, InvHolds, PTL

LEMMA OopsStep == IInv /\ KnownOopses /\ [Next]_vars => KnownOopses'
<1> SUFFICES ASSUME IInv, KnownOopses, [Next]_vars PROVE KnownOopses'
    OBVIOUS
<1>1. ASSUME oops' = "none" PROVE KnownOopses'
    BY <1>1 DEF KnownOopses
<1>2. CASE UNCHANGED vars
    BY <1>2 DEF vars, start, KnownOopses, Releasing
<1>3. ASSUME oops = "none", Remove PROVE KnownOopses'
    <2>1. stage = "bound" /\ "sc" \notin held => failed = "dma_mask"
        BY ResourceNames DEF IInv, ResourceInv
    <2> QED BY <1>1, <1>3, <2>1 DEF Remove, KnownOopses
<1>4. ASSUME oops = "none", Interrupt PROVE KnownOopses'
    BY <1>1, <1>4, Present DEF Interrupt, CardThere
<1>5. ASSUME oops = "none", TimerFires PROVE KnownOopses'
    <2>1. \/ {"sc", "thread"} \subseteq held
          \/ stage # "starting" /\ failed \in {"cdev", "devices"}
        BY <1>5, Present DEF TimerFires, IInv, TimerInv, CardThere, Mapped
    <2> QED BY <1>1, <1>5, <2>1 DEF TimerFires, KnownOopses, start
\* The thread works only while it is held.
<1>6. ASSUME thread # "none", stage = "starting" => "init" \in held PROVE Mapped \/ Releasing
    BY <1>6, Present DEF IInv, ThreadInv, CardThere, Releasing
<1>7. ASSUME oops = "none", ThreadRun PROVE KnownOopses'
    <2>1. thread = "awake" /\ UNCHANGED stage
        BY <1>7 DEF ThreadRun, ThreadWakes, start
    <2>2. oops' = "none" \/ (oops' = "thread" /\ "up" \in command /\ ~Mapped)
        BY <1>7 DEF ThreadRun, ThreadWakes, ThreadServe
    <2>3. "up" \in command /\ stage = "starting" => "init" \in held
        BY <2>1 DEF IInv, ThreadInv
    <2> QED BY <1>1, <1>6, <2>1, <2>2, <2>3 DEF KnownOopses, Releasing
\* A file that is open is served unless its device nodes could not be created
\* or the card has been taken away.
<1>8. ~NoFileOpen => \/ Mapped
                     \/ failed = "devices"
                     \/ failed = "none" /\ stage \in {"remove", "loaded"}
    BY Present DEF IInv, FileInv, CardThere
<1>9. ASSUME oops = "none", NEW p \in Actors, Proceed(p) PROVE KnownOopses'
    <2>1. at[p] # "idle" /\ UNCHANGED <<stage, failed>>
        BY <1>9 DEF Proceed, start
    <2>2. CASE Mapped
        BY <1>1, <1>9, <2>2 DEF Proceed
    <2>3. CASE p = Handler
        <3>1. Mapped \/ Releasing
            BY <1>6, <2>1, <2>3 DEF IInv, ThreadInv
        <3> QED BY <1>9, <2>1, <2>2, <2>3, <3>1 DEF Proceed, KnownOopses, Releasing
    <2>4. CASE p = Prober
        BY <2>1, <2>2, <2>4, Present DEF IInv, FileInv, CardThere
    <2>5. CASE p \in Threads
        <3>1. ~NoFileOpen
            BY <2>1, <2>5 DEF IInv, FileInv, NoFileOpen
        <3> QED BY <1>8, <1>9, <2>1, <2>2, <2>5, <3>1, ActorsAssumption DEF Proceed, KnownOopses
    <2> QED BY <2>3, <2>4, <2>5 DEF Actors
<1>10. ASSUME oops = "none", UserLate PROVE KnownOopses'
    BY <1>8, <1>10 DEF UserLate, KnownOopses, start
<1>11. \A s : Acquire(s) \/ Fail(s) => UNCHANGED oops
    BY DEF Acquire, Fail
<1>12. Load \/ CreateThread \/ InitCard \/ Unload => UNCHANGED oops
    BY DEF Load, CreateThread, InitCard, Unload
<1>13. Shutdown \/ LinkChange => UNCHANGED oops
    BY DEF Shutdown, ReleaseNext, StopThread, ThreadStopped, Released, LinkChange
<1>14. ThreadBegin \/ ThreadSleep \/ ThreadBack => UNCHANGED oops
    BY DEF ThreadBegin, ThreadSleep, ThreadBack
<1>15. \A t : User(t) => UNCHANGED oops
    BY DEF User
<1> QED BY <1>1, <1>2, <1>3, <1>4, <1>5, <1>7, <1>9, <1>10, <1>11, <1>12, <1>13, <1>14, <1>15
        DEF Next, Startup, KernelThread

\* Nobody meets a card that is not there, except where KnownOopses says so:
\* not the interrupt handler at all, and the others only on the error paths
\* and the removal that leave them running.
THEOREM KnownOopsesHolds == Spec => []KnownOopses
<1>1. Init => KnownOopses
    BY DEF Init, KnownOopses
<1> QED BY <1>1, OopsStep, InvHolds, PTL DEF Spec

-----------------------------------------------------------------------------
(* The byte order. *)

\* Before the interrupts are enabled nobody is in init_remote().
LEMMA NobodyBeforeInit ==
    ASSUME IInv, stage = "starting", "init" \notin held
    PROVE  \A p \in Actors : at[p] = "idle"
<1>1. \A t \in Threads : at[t] = "idle"
    BY Present DEF IInv, FileInv, NoFileOpen
<1>2. at[Prober] = "idle"
    BY DEF IInv, FileInv
<1>3. at[Handler] = "idle"
    BY DEF IInv, ThreadInv
<1> QED BY <1>1, <1>2, <1>3 DEF Actors

\* Where neither the fields but remote_hw, nor the registers, nor a call
\* changes, and the card stays.
LEMMA SwapSame ==
    ASSUME SwapInv, UNCHANGED <<user_wants_swap, remote_endian, remote_ident, registers, callVars>>,
           remote_hw' \in {remote_hw, "invalid"},
           "sc" \in held' <=> "sc" \in held
    PROVE  SwapInv'
BY DEF SwapInv, Locks, FoundInv, Found, UpdateInv, Wanted, registers, callVars

\* Where nobody is in init_remote() or in an update.
LEMMA SwapQuiet ==
    ASSUME remote_hw' = "invalid",
           \A p \in Actors : at'[p] \in {"idle", "init"} /\ sem_hw' # p
    PROVE  SwapInv'
BY DEF SwapInv, Locks, FoundInv, UpdateInv, Updating

\* An actor calls init_remote().
LEMMA SwapCalls ==
    ASSUME SwapInv, at \in [Actors -> CallPlaces], NEW p \in Actors, at[p] = "idle", Goto(p, "init"),
           UNCHANGED <<shared, sem_hw, swap, raced, held>>
    PROVE  SwapInv'
<1>1. \A q \in Actors : at'[q] = IF q = p THEN "init" ELSE at[q]
    BY DEF Goto
<1>2. Locks'
    BY <1>1 DEF SwapInv, Locks, Updating
<1>3. FoundInv => FoundInv'
    BY <1>1 DEF SwapInv, Locks, Updating, FoundInv, Found, shared, fields
<1>4. UpdateInv => UpdateInv'
    BY <1>1 DEF UpdateInv, Updating, Wanted, shared, fields, registers
<1> QED BY <1>2, <1>3, <1>4 DEF SwapInv, shared, fields

LEMMA SwapFlips ==
    ASSUME NEW big \in BOOLEAN, NEW wanted \in Int
    PROVE  Swap(big, wanted) = IF wanted # 0 THEN Flipped(Swap(big, 0)) ELSE Swap(big, 0)
<1>1. CASE wanted = 0
    BY <1>1
<1>2. CASE wanted # 0 /\ big = TRUE
    BY <1>2 DEF Swap, Flipped
<1>3. CASE wanted # 0 /\ big = FALSE
    BY <1>3 DEF Swap, Flipped
<1> QED BY <1>1, <1>2, <1>3

\* The steps of update_swapping().
LEMMA UpdateKeeps ==
    ASSUME IInv, SwapInv, "sc" \in held, NEW p \in Actors, Update(p), UNCHANGED held
    PROVE  SwapInv'
<1> USE ActorsAssumption
<1>0. /\ at \in [Actors -> CallPlaces] /\ swap \in [Actors -> {"on", "off"}]
      /\ remote_endian \in BOOLEAN /\ user_wants_swap \in Int
    BY DEF IInv, TypeOK, IoctlTypeOK
<1>1. /\ at[p] \in Updating /\ UNCHANGED <<fields, sem_hw, raced>>
      /\ \A q \in Actors : q # p => at'[q] = at[q] /\ swap'[q] = swap[q]
    BY <1>0 DEF Update, ReadEndian, ReadWish, WriteCr, WriteBigend, Goto, Done, Updating, shared
<1>2. at'[p] \in (Updating \ {"endian"}) \cup {"hw", "idle"} /\ (at'[p] \notin Updating => at[p] = "bigend")
    BY <1>0 DEF Update, ReadEndian, ReadWish, WriteCr, WriteBigend, Goto, Done, Updating
<1>3. /\ at'[p] = "hw" => sem_hw = p
      /\ at'[p] = "idle" => sem_hw # p
    BY <1>0 DEF Update, ReadEndian, ReadWish, WriteCr, WriteBigend, Goto, Done
<1>4. Locks'
    BY <1>1, <1>2, <1>3 DEF SwapInv, Locks, Updating
<1>5. FoundInv'
    BY <1>1, <1>2 DEF SwapInv, FoundInv, Found, fields, Updating
<1>6. ASSUME ~raced PROVE UpdateInv'
    <2>1. UpdateInv /\ Wanted' = Wanted
        BY <1>1, <1>6 DEF SwapInv, Wanted, fields
    <2>2. \A q \in Actors : at'[q] \in Updating => q = p
        BY <1>1, <2>1 DEF UpdateInv
    <2>3. CASE ReadEndian(p)
        BY <1>0, <1>1, <2>1, <2>2, <2>3 DEF ReadEndian, Goto, UpdateInv, Updating, fields
    <2>4. CASE ReadWish(p)
        <3>1. swap[p] = Swap(remote_endian, 0)
            BY <2>1, <2>4 DEF ReadWish, UpdateInv
        <3>2. swap'[p] = Wanted
            BY <1>0, <2>4, <3>1, SwapFlips DEF ReadWish, Wanted
        <3>3. at'[p] = "cr"
            BY <1>0, <2>4 DEF ReadWish, Goto
        <3> QED BY <2>1, <2>2, <3>2, <3>3 DEF UpdateInv, Updating
    <2>5. CASE WriteCr(p)
        <3>1. swap[p] = Wanted /\ swap' = swap /\ cr_swap' = swap[p]
            BY <2>1, <2>5 DEF WriteCr, UpdateInv
        <3>2. at'[p] = "bigend"
            BY <1>0, <2>5 DEF WriteCr, Goto
        <3> QED BY <2>1, <2>2, <3>1, <3>2 DEF UpdateInv, Updating
    <2>6. CASE WriteBigend(p)
        <3>1. swap[p] = Wanted /\ cr_swap = swap[p] /\ bigend' = swap[p] /\ cr_swap' = cr_swap
            BY <2>1, <2>6 DEF WriteBigend, UpdateInv
        <3>2. at'[p] \notin Updating
            BY <1>0, <2>6 DEF WriteBigend, Goto, Done, Updating
        <3> QED BY <2>1, <2>2, <3>1, <3>2 DEF UpdateInv, Updating
    <2> QED BY <2>3, <2>4, <2>5, <2>6 DEF Update
<1> QED BY <1>1, <1>4, <1>5, <1>6 DEF SwapInv

\* The other steps of init_remote().
LEMMA InitKeeps ==
    ASSUME IInv, SwapInv, "sc" \in held, NEW p \in Actors, UNCHANGED held,
           \/ InitLock(p) \/ InitNoIdent(p) \/ InitDone(p)
           \/ \E kind \in Connected : InitIdent(p, kind)
    PROVE  SwapInv'
<1> USE ActorsAssumption
<1>0. at \in [Actors -> CallPlaces] /\ Locks /\ FoundInv
    BY DEF IInv, TypeOK, IoctlTypeOK, SwapInv
<1>1. ASSUME NEW where, Goto(p, where) PROVE \A q \in Actors : at'[q] = IF q = p THEN where ELSE at[q]
    BY <1>0, <1>1 DEF Goto
<1>2. ASSUME Return(p), at[p] \in {"ident", "hw"}
      PROVE  /\ \A q \in Actors : at'[q] = IF q = p THEN "idle" ELSE at[q]
             /\ sem_hw = p /\ sem_hw' = NoCall /\ Locks'
             /\ \A q \in Actors : at'[q] # "hw"
    <2>1. /\ \A q \in Actors : at'[q] = IF q = p THEN "idle" ELSE at[q]
          /\ sem_hw = p /\ sem_hw' = NoCall
        BY <1>0, <1>1, <1>2 DEF Return, Done, Locks
    <2> QED BY <1>0, <2>1 DEF Locks
<1>3. CASE InitLock(p)
    <2>1. \A q \in Actors : at'[q] = IF q = p THEN "ident" ELSE at[q]
        BY <1>1, <1>3 DEF InitLock
    <2>2. Locks'
        BY <1>0, <1>3, <2>1 DEF InitLock, Locks
    <2>3. FoundInv'
        BY <1>0, <1>3, <2>1 DEF InitLock, FoundInv, Found, shared, fields
    <2>4. UpdateInv => UpdateInv'
        BY <1>3, <2>1 DEF InitLock, UpdateInv, Updating, Wanted, shared, fields, registers
    <2> QED BY <1>3, <2>2, <2>3, <2>4 DEF SwapInv, InitLock
<1>4. CASE InitNoIdent(p)
    <2>1. at[p] = "ident" /\ UNCHANGED <<shared, swap, raced>>
        BY <1>4 DEF InitNoIdent
    <2>2. FoundInv'
        BY <1>0, <1>2, <1>4, <2>1 DEF InitNoIdent, FoundInv, Found, shared, fields
    <2>3. UpdateInv => UpdateInv'
        BY <1>2, <1>4, <2>1 DEF InitNoIdent, UpdateInv, Updating, Wanted, shared, fields, registers
    <2> QED BY <1>2, <1>4, <2>1, <2>2, <2>3 DEF SwapInv, InitNoIdent
<1>5. CASE InitDone(p)
    <2>1. at[p] = "hw" /\ Return(p) /\ remote_hw' = remote_ident
          /\ UNCHANGED <<user_wants_swap, remote_endian, remote_ident, registers, swap, raced>>
        BY <1>5 DEF InitDone
    <2>2. FoundInv'
        BY <1>0, <1>2, <2>1 DEF FoundInv, Found
    <2>3. UpdateInv => UpdateInv'
        BY <1>2, <2>1 DEF UpdateInv, Updating, Wanted, registers
    <2> QED BY <1>2, <2>1, <2>2, <2>3 DEF SwapInv
<1>6. ASSUME NEW kind \in Connected, InitIdent(p, kind) PROVE SwapInv'
    <2>1. /\ at[p] = "ident" /\ remote_ident' = kind /\ remote_endian' = (kind \in BigEndian)
          /\ UNCHANGED <<user_wants_swap, remote_hw, registers, swap>>
        BY <1>6, Zenon DEF InitIdent
    <2>2. Found' /\ (remote_hw # "invalid" => remote_endian' = remote_endian)
        BY <1>0, <2>1 DEF FoundInv, Found, Connected
    <2>3. FoundInv'
        BY <2>2 DEF FoundInv
    <2>4. ~Within(p) => \A q \in Actors : at[q] \notin Updating
        BY <2>1 DEF Within, Updating
    <2>5. CASE Return(p) /\ raced' = (raced \/ Within(p))
        <3>1. ASSUME ~raced' PROVE UpdateInv'
            <4>1. UpdateInv /\ \A q \in Actors : at[q] \notin Updating
                BY <2>4, <2>5, <3>1 DEF SwapInv
            <4>2. \A q \in Actors : at'[q] \notin Updating /\ at'[q] # "hw"
                BY <1>2, <2>1, <2>5, <4>1 DEF Updating
            <4>3. remote_hw # "invalid" => Wanted' = Wanted
                BY <2>1, <2>2 DEF Wanted
            <4> QED BY <2>1, <4>1, <4>2, <4>3 DEF UpdateInv, Updating, registers
        <3> QED BY <1>2, <2>1, <2>3, <2>5, <3>1 DEF SwapInv
    <2>6. CASE Goto(p, "endian") /\ raced' = Within(p) /\ sem_hw' = sem_hw
        <3>1. \A q \in Actors : at'[q] = IF q = p THEN "endian" ELSE at[q]
            BY <1>1, <2>6
        <3>2. Locks'
            BY <1>0, <2>1, <2>6, <3>1 DEF Locks, Updating
        <3>3. ASSUME ~raced' PROVE UpdateInv'
            <4>1. \A q \in Actors : at'[q] \in Updating => q = p
                BY <2>4, <2>6, <3>1, <3>3
            <4> QED BY <3>1, <4>1 DEF UpdateInv, Updating
        <3> QED BY <2>1, <2>3, <3>2, <3>3 DEF SwapInv
    <2> QED BY <1>6, <2>5, <2>6 DEF InitIdent
<1> QED BY <1>3, <1>4, <1>5, <1>6

LEMMA SetKeeps ==
    ASSUME IInv, SwapInv, NEW t \in Threads, NEW f \in Files, NEW q \in Requests, Set(t, f, q),
           UNCHANGED held
    PROVE  SwapInv'
<1>0. at \in [Actors -> CallPlaces] /\ t \in Actors /\ at[t] = "idle"
    BY DEF IInv, TypeOK, IoctlTypeOK, Set, Actors
<1>1. UNCHANGED <<remote_endian, remote_hw, remote_ident, registers, sem_hw, swap>>
    BY DEF Set
<1>2. CASE UNCHANGED <<user_wants_swap, call, at, raced>>
    BY <1>1, <1>2, SwapSame DEF callVars
<1>3. CASE Goto(t, "endian") /\ raced' = Within(t)
    <2>1. \A p \in Actors : at'[p] = IF p = t THEN "endian" ELSE at[p]
        BY <1>0, <1>3 DEF Goto
    <2>2. Locks'
        BY <1>0, <1>1, <2>1 DEF SwapInv, Locks, Updating
    <2>3. FoundInv => FoundInv'
        BY <1>0, <1>1, <2>1 DEF SwapInv, Locks, Updating, FoundInv, Found
    <2>4. ASSUME ~raced' PROVE UpdateInv'
        <3>1. \A p \in Actors : at'[p] \in Updating => p = t
            BY <1>3, <2>1, <2>4 DEF Within
        <3> QED BY <1>0, <2>1, <3>1 DEF UpdateInv, Updating
    <2> QED BY <1>1, <2>2, <2>3, <2>4 DEF SwapInv
<1> QED BY <1>2, <1>3 DEF Set

LEMMA SwapStep == IInv /\ SwapInv /\ [Next]_vars => SwapInv'
<1> SUFFICES ASSUME IInv, SwapInv, [Next]_vars PROVE SwapInv'
    OBVIOUS
<1> USE ActorsAssumption
<1>0. at \in [Actors -> CallPlaces]
    BY DEF IInv, TypeOK, IoctlTypeOK
<1>s. ASSUME UNCHANGED ioctlVars, "sc" \in held' <=> "sc" \in held PROVE SwapInv'
    BY <1>s, SwapSame DEF ioctlVars, shared, fields
<1>n. ASSUME stage = "starting", "init" \notin held
      PROVE  \A p \in Actors : at[p] = "idle" /\ sem_hw # p
    BY <1>n, NobodyBeforeInit DEF SwapInv, Locks, Updating
<1>1. CASE Load
    BY <1>1, <1>s DEF Load
<1>2. ASSUME NEW i \in DOMAIN Steps, Acquire(Steps[i]) PROVE SwapInv'
    <2>1. UNCHANGED ioctlVars /\ stage = "starting" /\ held \subseteq held'
        BY <1>2 DEF Acquire, Startable, Advance
    <2>2. CASE "sc" \notin held
        <3>1. "init" \notin held
            BY <2>1, <2>2, Present DEF CardThere, Mapped
        <3>2. remote_hw' = "invalid"
            BY <2>1, <2>2 DEF SwapInv, ioctlVars, shared, fields
        <3>3. \A p \in Actors : at'[p] = "idle" /\ sem_hw' # p
            BY <1>n, <2>1, <3>1 DEF ioctlVars, callVars
        <3> QED BY <3>2, <3>3, SwapQuiet
    <2> QED BY <1>s, <2>1, <2>2
<1>3. CASE CreateThread
    <2>1. "sc" \in held' <=> "sc" \in held
        BY <1>3 DEF CreateThread, Advance
    <2> QED BY <1>3, <1>s, <2>1 DEF CreateThread
<1>4. CASE InitCard
    <2>1. "init" \notin held /\ stage = "starting"
        <3>1. stage = "starting" /\ Steps[step] = "init" /\ step \in 1..16
            BY <1>4, StepNumbers DEF InitCard, Startable, IInv, TypeOK
        <3>2. StepNo["init"] = step
            BY <3>1, StepNumbers
        <3>3. "init" \notin Acquired(step)
            BY <3>2, Tables DEF Acquired
        <3> QED BY <3>1, <3>3 DEF IInv, ResourceInv, HeldCore
    <2>2. \A p \in Actors : at'[p] \in {"idle", "init"} /\ sem_hw' # p
        BY <1>0, <1>4, <1>n, <2>1 DEF InitCard, Goto
    <2> QED BY <1>4, <2>2, SwapQuiet DEF InitCard
<1>5. ASSUME NEW i \in DOMAIN Steps, Fail(Steps[i]) PROVE SwapInv'
    BY <1>5, <1>s DEF Fail
<1>6. CASE Remove \/ Unload \/ StopThread \/ Released
    BY <1>6, <1>s DEF Remove, Unload, StopThread, Released, start
<1>7. CASE ReleaseNext
    <2>1. UNCHANGED <<registers, callVars>>
        BY <1>7 DEF ReleaseNext
    <2>2. CASE Head(todo) = "sc"
        BY <1>7, <2>1, <2>2 DEF ReleaseNext, Forgotten, SwapInv, Locks, callVars
    <2>3. CASE Head(todo) # "sc"
        <3>1. UNCHANGED fields /\ ("sc" \in held' <=> "sc" \in held)
            BY <1>7, <2>3 DEF ReleaseNext
        <3> QED BY <2>1, <3>1, SwapSame DEF fields
    <2> QED BY <2>2, <2>3
<1>8. CASE ThreadStopped
    BY <1>8, <1>s DEF ThreadStopped
<1>9. CASE Interrupt
    BY <1>9, SwapSame DEF Interrupt, start
<1>10. CASE LinkChange \/ TimerFires \/ UserLate
    BY <1>10, <1>s DEF LinkChange, TimerFires, UserLate, start
<1>11. CASE ThreadBegin \/ ThreadSleep \/ ThreadBack
    BY <1>11, <1>s DEF ThreadBegin, ThreadSleep, ThreadBack, start
<1>12. CASE ThreadRun
    <2>1. UNCHANGED <<shared, sem_hw, swap, call, raced, held>> /\ at[Handler] = "idle"
        BY <1>12 DEF ThreadRun, ThreadWakes, IInv, ThreadInv, start
    <2>2. at' = at \/ Goto(Handler, "init")
        BY <1>12 DEF ThreadRun, ThreadWakes, ThreadServe
    <2>3. CASE at' = at
        BY <2>1, <2>3, SwapSame DEF shared, fields, callVars
    <2>4. CASE Goto(Handler, "init")
        BY <1>0, <2>1, <2>4, SwapCalls DEF Actors
    <2> QED BY <2>2, <2>3, <2>4
<1>13. ASSUME NEW p \in Actors, Proceed(p) PROVE SwapInv'
    <2>1. UNCHANGED held /\ (Mapped => "sc" \in held)
        BY <1>13 DEF Proceed, start, Mapped
    <2>2. CASE UNCHANGED ioctlVars
        BY <1>s, <2>1, <2>2
    <2>3. CASE Mapped /\ Update(p)
        BY <2>1, <2>3, UpdateKeeps
    <2>4. CASE Mapped /\ (InitLock(p) \/ InitNoIdent(p) \/ InitDone(p)
                           \/ \E kind \in Connected : InitIdent(p, kind))
        BY <2>1, <2>4, InitKeeps
    <2> QED BY <1>13, <2>2, <2>3, <2>4 DEF Proceed
<1>14. ASSUME NEW t \in Threads, User(t) PROVE SwapInv'
    <2>1. UNCHANGED held /\ t \in Actors
        BY <1>14 DEF User, start, Actors
    <2>2. PICK f \in Files : \/ Open(f) \/ Release(f)
                             \/ \E q \in Requests : Set(t, f, q)
                             \/ RemoteReset(t, f)
        BY <1>14 DEF User
    <2>3. CASE Open(f) \/ Release(f)
        BY <2>1, <2>3, SwapSame DEF Open, Release, shared, fields
    <2>4. ASSUME NEW q \in Requests, Set(t, f, q) PROVE SwapInv'
        BY <2>1, <2>4, SetKeeps
    <2>5. CASE RemoteReset(t, f)
        BY <1>0, <2>1, <2>5, SwapCalls DEF RemoteReset
    <2> QED BY <2>2, <2>3, <2>4, <2>5
<1>15. CASE UNCHANGED vars
    BY <1>15, <1>s DEF vars, start
<1> QED BY <1>1, <1>2, <1>3, <1>4, <1>5, <1>6, <1>7, <1>8, <1>9, <1>10, <1>11, <1>12, <1>13,
           <1>14, <1>15 DEF Next, Startup, Shutdown, KernelThread

\* While nobody is in update_swapping(), and unless two calls of it have
\* overlapped since the last one made alone, both registers of the card are set
\* to the byte order of the front end in use and of the last wish of a user,
\* whoever made the last update: for any number of threads, and through
\* initialisations of the front end that fail.
THEOREM SwapAgreesHolds == Spec => []SwapAgrees
<1>1. Init => SwapInv
    <2>1. ASSUME Init PROVE SwapInv
        <3>1. /\ remote_hw = "invalid" /\ "sc" \notin held
              /\ \A p \in Actors : at[p] = "idle" /\ sem_hw # p
            BY <2>1, ActorsAssumption DEF Init, IoctlInit
        <3> QED BY <3>1 DEF SwapInv, Locks
    <2> QED BY <2>1
<1>2. SwapInv => SwapAgrees
    BY DEF SwapInv, UpdateInv, Wanted, SwapAgrees
<1> QED BY <1>1, <1>2, SwapStep, InvHolds, PTL DEF Spec
=============================================================================
