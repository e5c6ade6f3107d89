-------------------------------- MODULE Ioctl --------------------------------
(***************************************************************************)
(* The ioctl layer of the sis1100 driver: the settings every open file has,*)
(* the byte order all files of a card share, and sis1100_init_remote(),    *)
(* which ioctls, the kernel thread and the initialisation of the card run  *)
(* under sc->sem_hw.                                                       *)
(*                                                                         *)
(* update_swapping() reads the two fields that decide the byte order and   *)
(* writes two registers, without a lock: an actor in it takes a step for   *)
(* each of them, and so do the others meanwhile.  What the other commands  *)
(* do is the subject of Transfer, DemandDma and VmeIrq.                    *)
(***************************************************************************)
EXTENDS Integers

CONSTANTS
    Threads,     \* user threads
    Handler,     \* the kernel thread sis1100_irq_thread
    Prober,      \* the thread that initialises the card
    Files,       \* device files, each of which is open at most once
    Requests,    \* arguments of the commands that change settings
    FrontEnds,   \* kinds of front ends that may be connected
    Closed       \* the settings of a file nobody has open

Actors == Threads \cup {Handler, Prober}
NoCall == "no call"
\* "other" is any type the driver does not know: big endian is its default
BigEndian == {"pci", "vme", "camac", "other"}
Kinds == BigEndian \cup {"lvd", "pandapixel", "psf4ad"}

FileFields == {"am", "size", "dma_r", "dma_w", "pipe_r", "pipe_w", "fifo"}
\* The commands that change settings, and what their arguments hold.
Args == [setvmespace |-> {"am", "size", "swap", "dma_r", "dma_w"}, fifomode |-> {"fifo"},
         mindmalen |-> {"dma_r", "dma_w"}, minpipelen |-> {"pipe_r", "pipe_w"},
         swap |-> {"swap"}]
Settable == DOMAIN Args
\* The places in update_swapping(): before remote_endian is read, before
\* user_wants_swap is read, before cr and before BIGEND is written.
Updating == {"endian", "wish", "cr", "bigend"}
CallPlaces == {"idle", "init", "ident", "hw"} \cup Updating

ASSUME ActorsAssumption ==
    /\ Handler # Prober /\ Handler \notin Threads /\ Prober \notin Threads
    /\ NoCall \notin Actors
ASSUME ClosedAssumption == Closed \notin [FileFields -> Int]
ASSUME FrontEndsAssumption == FrontEnds \subseteq Kinds
ASSUME RequestsAssumption ==
    \A q \in Requests : /\ q.cmd \in Settable
                        /\ q.arg \in [Args[q.cmd] -> Int]
                        \* vmespace has one threshold for both directions
                        /\ q.cmd = "setvmespace" => q.arg["dma_r"] = q.arg["dma_w"]

VARIABLES
    fd,               \* files: their settings (sc->fdata), or Closed
    user_wants_swap,  \* sc->user_wants_swap
    remote_endian,    \* sc->remote_endian: the front end is big endian
    cr_swap, bigend,  \* the registers cr and BIGEND swap: "on" or "off"
    remote_hw,        \* sc->remote_hw
    remote_ident,     \* sc->remote_ident: the front end found last
    sem_hw,           \* holder of sc->sem_hw, or NoCall
    at,               \* actors: where they are
    swap,             \* actors: the swap of their update_swapping(), else "off"
    call,             \* threads: the file whose call they are in, or NoCall
    raced             \* history: an update has begun within another, and
                      \* none has begun alone since

fields == <<user_wants_swap, remote_endian, remote_hw, remote_ident>>
registers == <<cr_swap, bigend>>
shared == <<fields, registers>>
callVars == <<sem_hw, at, swap, call, raced>>
ioctlVars == <<fd, shared, callVars>>

Defaults == [am |-> 9, size |-> 4, dma_r |-> 16, dma_w |-> 16,
             pipe_r |-> 0, pipe_w |-> 0, fifo |-> 0]

IoctlInit ==
    /\ fd = [f \in Files |-> Closed]
    /\ user_wants_swap = 0 /\ remote_endian = FALSE
    /\ cr_swap = "off" /\ bigend = "off"
    /\ remote_hw = "invalid" /\ remote_ident = "invalid"
    /\ sem_hw = NoCall
    /\ at = [p \in Actors |-> "idle"]
    /\ swap = [p \in Actors |-> "off"]
    /\ call = [t \in Threads |-> NoCall]
    /\ raced = FALSE

Goto(p, where) == at' = [at EXCEPT ![p] = where]
IsOpen(f) == fd[f] # Closed

-----------------------------------------------------------------------------
(* The byte order. *)

\* swap=local_endian^remote_endian^user_wants_swap, on a little endian host.
Swap(big, wanted) == IF big # (wanted # 0) THEN "on" ELSE "off"

-----------------------------------------------------------------------------
(* open(), release() and the settings. *)

Open(f) ==
    /\ ~IsOpen(f)
    /\ fd' = [fd EXCEPT ![f] = Defaults]
    /\ UNCHANGED <<shared, callVars>>

InUse(f) == \E t \in Threads : call[t] = f

Release(f) ==
    /\ IsOpen(f) /\ ~InUse(f)
    /\ fd' = [fd EXCEPT ![f] = Closed]
    /\ UNCHANGED <<shared, callVars>>

\* The data size is stored as it is given.
ValidAny(q) == TRUE
Valid(q) == q.cmd = "setvmespace" => q.arg["size"] \in {1, 2, 4}

\* -1 leaves the old value, except for am and datasize, and except for
\* SIS1100_SWAP, which takes what it is given.
Keeps(q, x) == q.arg[x] < 0 /\ x \notin {"am", "size"} /\ q.cmd # "swap"
Sets(q, x) == x \in DOMAIN q.arg /\ ~Keeps(q, x)

NewSettings(old, q) ==
    [x \in FileFields |->
        IF ~Sets(q, x) THEN old[x]
        ELSE IF x = "fifo" THEN IF q.arg[x] = 0 THEN 0 ELSE 1
        ELSE q.arg[x]]

\* Somebody else is in update_swapping().
Within(p) == \E q \in Actors \ {p} : at[q] \in Updating

\* A call that changes settings, by either layer: the code is the same.  A
\* call whose argument is refused (EINVAL) or cannot be copied in (EFAULT)
\* changes nothing; that the answer cannot be copied out undoes nothing.  The
\* settings that are stored after the update are stored with the others:
\* nothing in the update reads them.
Set(t, f, q) ==
    /\ at[t] = "idle" /\ IsOpen(f) /\ Valid(q)
    /\ fd' = [fd EXCEPT ![f] = NewSettings(@, q)]
    /\ IF Sets(q, "swap") THEN
           /\ user_wants_swap' = q.arg["swap"]
           /\ call' = [call EXCEPT ![t] = f]
           /\ Goto(t, "endian") /\ raced' = Within(t)
       ELSE UNCHANGED <<user_wants_swap, call, at, raced>>
    /\ UNCHANGED <<remote_endian, remote_hw, remote_ident, registers, sem_hw, swap>>

\* Of the other commands only this one changes the variables of this module.
RemoteReset(t, f) ==
    /\ at[t] = "idle" /\ IsOpen(f)
    /\ call' = [call EXCEPT ![t] = f]
    /\ Goto(t, "init")
    /\ UNCHANGED <<fd, shared, sem_hw, swap, raced>>

-----------------------------------------------------------------------------
(* update_swapping(), called by an ioctl or within init_remote(). *)

ReadEndian(p) ==
    /\ at[p] = "endian" /\ Goto(p, "wish")
    /\ swap' = [swap EXCEPT ![p] = Swap(remote_endian, 0)]
    /\ UNCHANGED <<fd, shared, sem_hw, call, raced>>

Flipped(s) == IF s = "on" THEN "off" ELSE "on"

ReadWish(p) ==
    /\ at[p] = "wish" /\ Goto(p, "cr")
    /\ swap' = [swap EXCEPT ![p] = IF user_wants_swap # 0 THEN Flipped(@) ELSE @]
    /\ UNCHANGED <<fd, shared, sem_hw, call, raced>>

WriteCr(p) ==
    /\ at[p] = "cr" /\ Goto(p, "bigend")
    /\ cr_swap' = swap[p]
    /\ UNCHANGED <<fd, fields, bigend, sem_hw, swap, call, raced>>

Done(p) ==
    /\ Goto(p, "idle")
    /\ call' = [t \in Threads |-> IF t = p THEN NoCall ELSE call[t]]

\* Nobody else writes BIGEND, so that only these bits of it are ever
\* different from what was read before.
WriteBigend(p) ==
    /\ at[p] = "bigend"
    /\ bigend' = swap[p] /\ swap' = [swap EXCEPT ![p] = "off"]
    /\ IF sem_hw = p THEN Goto(p, "hw") /\ UNCHANGED call ELSE Done(p)
    /\ UNCHANGED <<fd, fields, cr_swap, sem_hw, raced>>

Update(p) == ReadEndian(p) \/ ReadWish(p) \/ WriteCr(p) \/ WriteBigend(p)

-----------------------------------------------------------------------------
(* sis1100_init_remote(). *)

InitLock(p) ==
    /\ at[p] = "init" /\ sem_hw = NoCall
    /\ sem_hw' = p /\ Goto(p, "ident")
    /\ UNCHANGED <<fd, shared, swap, call, raced>>

Return(p) == sem_hw' = NoCall /\ Done(p)

\* The front end cannot be read: nothing is changed.
InitNoIdent(p) ==
    /\ at[p] = "ident"
    /\ Return(p)
    /\ UNCHANGED <<fd, shared, swap, raced>>

\* A front end that keeps the byte order of the one before needs no update.
InitIdentSkips(p, kind) ==
    /\ at[p] = "ident"
    /\ remote_ident' = kind
    /\ remote_endian' = (kind \in BigEndian)
    /\ \/ Return(p) /\ raced' = (raced \/ Within(p))
       \/ /\ kind # "other" /\ raced' = Within(p) /\ UNCHANGED <<sem_hw, call>>
          /\ Goto(p, IF remote_endian' = remote_endian THEN "hw" ELSE "endian")
    /\ UNCHANGED <<fd, user_wants_swap, remote_hw, registers, swap>>

\* The front end is recognised, and its own initialisation succeeds or not.
\* remote_endian is set either way, and may be set within another update.
InitIdent(p, kind) ==
    /\ at[p] = "ident"
    /\ remote_ident' = kind
    /\ remote_endian' = (kind \in BigEndian)
    /\ \/ Return(p) /\ raced' = (raced \/ Within(p))
       \/ kind # "other" /\ Goto(p, "endian") /\ raced' = Within(p) /\ UNCHANGED <<sem_hw, call>>
    /\ UNCHANGED <<fd, user_wants_swap, remote_hw, registers, swap>>

InitDone(p) ==
    /\ at[p] = "hw"
    /\ remote_hw' = remote_ident
    /\ Return(p)
    /\ UNCHANGED <<fd, user_wants_swap, remote_endian, remote_ident, registers, swap, raced>>

-----------------------------------------------------------------------------
(* Properties. *)

\* Whenever nobody is in update_swapping() and no two calls of it have
\* overlapped, both registers of the card are set to the byte order that the
\* front end in use and the user's last wish ask for
\* (sis1100_init.c:167-209).  The fields it is computed from are changed by
\* threads that know nothing of each other: ioctls, which take no lock
\* (sis1100_ioctl.c:316-317, 332-333), and init_remote(), which may fail
\* between the change and the update (sis1100_init_remote.c:103-137).
\* Updates that overlap may leave one register for each of the two orders, or
\* both for the older one, until an update is made alone.
SwapAgrees ==
    remote_hw # "invalid" /\ ~raced /\ (\A p \in Actors : at[p] \notin Updating)
        => cr_swap = bigend /\ bigend = Swap(remote_endian, user_wants_swap)

IoctlTypeOK ==
    /\ fd \in [Files -> {Closed} \cup [am : Int, size : {1, 2, 4}, dma_r : Int, dma_w : Int,
                                      pipe_r : Int, pipe_w : Int, fifo : {0, 1}]]
    /\ user_wants_swap \in Int
    /\ remote_endian \in BOOLEAN
    /\ cr_swap \in {"on", "off"} /\ bigend \in {"on", "off"}
    /\ remote_hw \in Kinds \cup {"invalid"}
    /\ remote_ident \in Kinds \cup {"invalid"}
    /\ sem_hw \in Actors \cup {NoCall}
    /\ at \in [Actors -> CallPlaces]
    /\ swap \in [Actors -> {"on", "off"}]
    /\ call \in [Threads -> Files \cup {NoCall}]
    /\ raced \in BOOLEAN
=============================================================================
