------------------------------ MODULE DmaPages ------------------------------
(***************************************************************************)
(* The ring of DemandDma together with the memory behind its blocks: the   *)
(* user pages that ddma_map pins, their scatter list, the mapping for the  *)
(* PCI bus, and the chain of PLX descriptors the engine follows when it    *)
(* fills a block.  A call of ddma_map acquires these block by block and    *)
(* may fail at every step of every block; unmap_block gives them back.     *)
(*                                                                         *)
(* The kernel (external): get_user_pages() pins all pages of the block or  *)
(* none that stay pinned, pci_map_sg() may merge neighbours into one entry *)
(* or refuse, and releasing a page that is not there is an oops.           *)
(***************************************************************************)
EXTENDS DemandDma

CONSTANTS
    Pages,    \* pages of a block (nr_pages)
    PerPage   \* descriptors that fit in one page (dpseg)

ASSUME PagesAssumption == Pages \in Nat \ {0} /\ PerPage \in Nat \ {0}

VARIABLES
    dmablock, \* what dma->block[i] says of the memory, and what is true of it
    left,     \* what blocks that are forgotten have left behind
    oops      \* a page was released that was not there

memory == <<dmablock, left, oops>>
pagesVars == <<vars, memory>>

-----------------------------------------------------------------------------
(* The descriptors of a block of n entries. *)

\* A descriptor page is a row of places; block->dsegs rows are allocated.
DescPages(n) == n \div PerPage + 1

First == <<0, 0>>
End == <<>>   \* no place: the last descriptor has the end-of-chain bit

\* Mutation: a row takes one descriptor too many.
FollowingLate(place) ==
    IF place[2] + 1 > PerPage THEN <<place[1] + 1, 0>> ELSE <<place[1], place[2] + 1>>

\* ii++; if (ii>=dpseg) {ip++; ii=0;}
Following(place) ==
    IF place[2] + 1 >= PerPage THEN <<place[1] + 1, 0>> ELSE <<place[1], place[2] + 1>>

\* Where ip and ii stand at each of the entries 1..n.
Places(n) ==
    LET at[i \in 1..n] == IF i = 1 THEN First ELSE Following(at[i - 1]) IN at

\* The descriptors the code writes for the entries 1..n, each at its place.
Chain(n) ==
    LET at == Places(n)
    IN  {[at |-> at[i], entry |-> i, next |-> IF i < n THEN Following(at[i]) ELSE End] :
            i \in 1..n}

-----------------------------------------------------------------------------
(* One block: sis1100_ddma_zero, sis1100_ddma_map_block and                  *)
(* sis1100_ddma_unmap_block.                                                 *)

\* table and nents are table.orig_nents and table.nents, pages what its
\* entries name; pinned and mapped are what the kernel knows.
Zero == [table |-> 0, nents |-> 0, pages |-> "unset", pinned |-> 0,
         mapped |-> FALSE, desc |-> 0, chain |-> {}]

\* sg_alloc_table() has succeeded.
Allocated == [Zero EXCEPT !.table = Pages, !.nents = Pages]

\* sgl_map_user_pages() has returned nr_pages.  It does so too when
\* get_user_pages() has returned an errno, which is negative and, compared
\* with an unsigned number, not less than nr_pages.
Wired == {[Allocated EXCEPT !.pages = "user", !.pinned = Pages],
          [Allocated EXCEPT !.pages = "null"]}

\* pci_map_sg() has succeeded; n pieces are left.
Merged(b, n) == [b EXCEPT !.nents = n, !.mapped = TRUE]
Mapped == {Merged(b, n) : b \in Wired, n \in 1..Pages}

Complete ==
    {[b EXCEPT !.desc = DescPages(b.nents), !.chain = Chain(b.nents)] : b \in Mapped}

\* What map_block leaves when it fails: at the table, at the user pages, in
\* pci_map_sg, or at a descriptor page.
Partial ==
    {Zero, Allocated} \cup {[b EXCEPT !.nents = 0] : b \in Wired}
    \cup UNION {{[b EXCEPT !.desc = k] : k \in 0..(DescPages(b.nents) - 1)} : b \in Mapped}

\* unmap_block: the pages of the entries that are left after merging are
\* released, and nothing is unmapped when there is no entry.
Unmapped(b) ==
    [b EXCEPT !.desc = 0, !.chain = {}, !.table = 0,
              !.mapped = b.mapped /\ b.nents = 0,
              !.pinned = IF b.table # 0 /\ b.pages = "user" THEN b.pinned - b.nents ELSE b.pinned]

ReleasesNull(b) == b.table # 0 /\ b.nents # 0 /\ b.pages # "user"

HoldsNothing(b) == b.table = 0 /\ b.pinned = 0 /\ ~b.mapped /\ b.desc = 0

-----------------------------------------------------------------------------
(* A ring of blocks. *)

\* Mutation: only the blocks that have been mapped are unmapped.
CleanupBelow(n, i) == 0..(i - 1)

\* The blocks that are unmapped when block i cannot be mapped: all of them.
CleanupAfter(n, i) == 0..(n - 1)

\* The array dma->block is freed, after those of its blocks in which have been
\* unmapped: what stays behind, and whether that releases a page not there.
LeftBy(blocks, which) ==
    {b \in {Unmapped(blocks[i]) : i \in which} \cup {blocks[i] : i \in DOMAIN blocks \ which} :
        ~HoldsNothing(b)}
NullIn(blocks, which) == \E i \in which : ReleasesNull(blocks[i])

\* The mapping that is there, and what a new one of n blocks has tried when
\* block i fails.
Current == [b \in {x \in Blocks : dmaStatus = "ready" /\ x < numblocks} |-> dmablock[b]]
Tried(n, i) ==
    {[b \in 0..(n - 1) |-> IF b < i THEN done[b] ELSE IF b = i THEN failed ELSE Zero] :
        done \in [0..(i - 1) -> Complete], failed \in Partial}
Nothing == [b \in Blocks |-> Zero]

UnmapAll ==
    /\ left' = left \cup LeftBy(Current, DOMAIN Current)
    /\ oops' = NullIn(Current, DOMAIN Current)

MapAll(n) ==
    /\ \E new \in [0..(n - 1) -> Complete] :
         dmablock' = [b \in Blocks |-> IF b < n THEN new[b] ELSE Zero]
    /\ UnmapAll

MapSome(n) ==
    /\ dmablock' = Nothing
    /\ \E i \in 0..(n - 1) : \E blocks \in Tried(n, i) :
         /\ left' = left \cup LeftBy(Current, DOMAIN Current)
                         \cup LeftBy(blocks, CleanupAfter(n, i))
         /\ oops' = (NullIn(Current, DOMAIN Current) \/ NullIn(blocks, CleanupAfter(n, i)))

MapPages(t, n) ==
    /\ CpuFree /\ Map(t, n)
    /\ \/ dmaStatus' = "ready" /\ MapAll(n)
       \/ dmaStatus' = "invalid" /\ n > 0 /\ MapSome(n)
       \/ dmaStatus' = "invalid" /\ dmablock' = Nothing /\ UnmapAll

\* A DMA that still runs keeps its memory.
ReleasePages(t) ==
    /\ CpuFree /\ ReleaseUnmap(t)
    /\ dmablock' = IF dmaStatus = "ready" THEN Nothing ELSE dmablock
    /\ UnmapAll

-----------------------------------------------------------------------------
\* The steps of DemandDma that leave the memory alone.
RingCall(t) ==
    /\ CpuFree
    /\ \/ OpenFile(t) \/ Release(t) \/ ReleaseClose(t)
       \/ StartReset(t) \/ StartEngine(t) \/ StartDone(t)
       \/ StopDisable(t) \/ StopAbort(t) \/ StopDone(t)
       \/ WaitFinished(t) \/ WaitSleep(t)
       \/ \E b \in Blocks : Mark(t, b)
       \/ MarkFree(t) \/ MarkRestart(t) \/ MarkEngine(t)
       \/ IrqWait(t) \/ IrqGet(t) \/ IrqTake(t)
       \/ \E mask \in SUBSET Bits : IrqAck(t, mask)
       \/ Signal(t)

PagesInit == Init /\ dmablock = Nothing /\ left = {} /\ oops = FALSE

\* After an oops nothing is said.
PagesNext ==
    /\ ~oops
    /\ \/ \E t \in Threads : \/ \E n \in BlockCounts \cup {0} : MapPages(t, n)
                             \/ ReleasePages(t)
       \/ /\ HwFill \/ HwDoorbell \/ IsrStep \/ IrqThreadStep
             \/ \E t \in Threads : RingCall(t)
          /\ UNCHANGED memory

PagesSpec == PagesInit /\ [][PagesNext]_pagesVars

-----------------------------------------------------------------------------
(* Properties *)

\* The engine's way through a chain: the places of its first n descriptors, each
\* of which names the next.
DescAt(chain, p) == CHOOSE d \in chain : d.at = p
Way(chain, n) ==
    LET place[i \in 1..n] == IF i = 1 THEN First ELSE DescAt(chain, place[i - 1]).next
    IN  place

\* It fills the entries 1..n in their order, and then stops.
Walk(chain, n) ==
    LET place == Way(chain, n)
    IN  /\ \A i \in 1..n : place[i] # End /\ DescAt(chain, place[i]).entry = i
        /\ DescAt(chain, place[n]).next = End

\* Wherever the engine is, it fills all of a block and nothing else: the pages
\* of the block are pinned and mapped, the chain visits all their entries in
\* their order, and its descriptors lie within descriptor pages that are there.
\* Not so if get_user_pages() has failed altogether.
EngineInUserPages ==
    active =>
        LET b == dmablock[target]
        IN  b.pages = "null" \/ /\ b.pinned = Pages /\ b.mapped
                                /\ Walk(b.chain, b.nents)
                                /\ \A d \in b.chain : d.at[1] < b.desc /\ d.at[2] < PerPage

\* Whichever step of ddma_map fails at whichever block, and however a mapping
\* ends, all that was acquired is given back; except for user pages that
\* pci_map_sg() has merged with their neighbours or has refused
\* (sis1100_ddma_map_linux.c:68, sis1100_sgl_map_user_linux.c:127).  Blocks
\* hold memory as long as the ring has them.
Returned ==
    ~oops => /\ \A b \in left : /\ b.table = 0 /\ ~b.mapped /\ b.desc = 0
                                /\ b.nents # Pages
             /\ \A b \in Blocks : (dmaStatus # "invalid" /\ b < numblocks) <=> dmablock[b] # Zero
=============================================================================
