---------------------------- MODULE DmaPagesProofs ----------------------------
(***************************************************************************)
(* Proofs about DmaPages: it is the ring of DemandDma, so that all that is *)
(* proved of the ring holds of it; the chain of descriptors leads the      *)
(* engine through the user pages of its block; and whatever step of        *)
(* ddma_map fails, nothing stays behind but pages that were merged or      *)
(* refused.                                                                *)
(***************************************************************************)
EXTENDS DmaPages, DemandDmaMemoryProofs, WellFoundedInduction

-----------------------------------------------------------------------------
(* The ring *)

\* The steps that leave the memory alone.
OtherStep ==
    \/ HwFill \/ HwDoorbell \/ IsrStep \/ IrqThreadStep
    \/ \E t \in Threads : RingCall(t)

LEMMA PagesStepIsRingStep == [PagesNext]_pagesVars => [Next]_vars
<1>1. ASSUME NEW t \in Threads, NEW n \in BlockCounts \cup {0}, MapPages(t, n)
      PROVE  Next
  BY <1>1 DEF MapPages, Next, UserCall
<1>2. ASSUME NEW t \in Threads, ReleasePages(t)
      PROVE  Next
  BY <1>2 DEF ReleasePages, Next, CallStep
<1>3. ASSUME NEW t \in Threads, RingCall(t)
      PROVE  Next
  <2>1. RingCall(t) => UserCall(t) \/ CallStep(t) \/ (CpuFree /\ Signal(t))
    BY DEF RingCall, UserCall, CallStep, StopDisable, WaitFinished, IrqWait, IrqGet, Enter, At
  <2> QED
    BY <1>3, <2>1 DEF Next
<1>4. CASE UNCHANGED pagesVars
  BY <1>4 DEF pagesVars
<1> QED
  BY <1>1, <1>2, <1>3, <1>4 DEF PagesNext, Next

\* The ring with its memory is the ring: every property of DemandDma that is
\* proved or checked holds of it.
LEMMA PagesAreRing == PagesSpec => Spec
<1>1. PagesInit => Init
  BY DEF PagesInit
<1> QED
  BY <1>1, PagesStepIsRingStep, PTL DEF PagesSpec, Spec

-----------------------------------------------------------------------------
(* The chain of descriptors.  Its places, and those the engine visits, are  *)
(* defined by recursion; the lemmas find them with the least place at which *)
(* the recursion would differ from the closed form.                         *)

\* Every nonempty set of numbers has a least element.
LEMMA LeastNumber ==
    ASSUME NEW S, S \subseteq Nat, S # {}
    PROVE  \E m \in S : \A k \in S : m <= k
<1>1. PICK m \in S : \A k \in S : <<k, m>> \notin OpToRel(<, Nat)
  BY WFMin, NatLessThanWellFounded, Zenon
<1>2. \A k \in S : ~(k < m)
  BY <1>1, Zenon DEF OpToRel
<1> QED
  BY <1>2

\* Division by the number of descriptors in a page.
LEMMA RowAndColumn ==
    ASSUME NEW i \in Nat
    PROVE  /\ i \div PerPage \in Nat /\ i % PerPage \in 0..(PerPage - 1)
           /\ i = (PerPage * (i \div PerPage)) + (i % PerPage)
BY PagesAssumption

LEMMA RowsGrow ==
    ASSUME NEW p \in Nat, NEW q \in Nat, p < q
    PROVE  PerPage * p + PerPage <= PerPage * q
<1>1. PICK c \in Nat : q = p + 1 + c
  <2>1. q - p - 1 \in Nat /\ q = p + 1 + (q - p - 1)
    OBVIOUS
  <2> QED
    BY <2>1
<1>2. PerPage * q = PerPage * p + PerPage + PerPage * c
  BY <1>1, PagesAssumption
<1>3. PerPage * c \in Nat /\ PerPage * p \in Nat
  BY PagesAssumption
<1> QED
  BY <1>2, <1>3, PagesAssumption

LEMMA RowIsUnique ==
    ASSUME NEW i, NEW q \in Nat, NEW r \in 0..(PerPage - 1), i = PerPage * q + r
    PROVE  i \in Nat /\ i \div PerPage = q /\ i % PerPage = r
<1> DEFINE d == i \div PerPage
           e == i % PerPage
<1>1. PerPage * q \in Nat /\ i \in Nat
  BY PagesAssumption
<1>2. d \in Nat /\ e \in 0..(PerPage - 1) /\ i = PerPage * d + e /\ PerPage * d \in Nat
  BY <1>1, RowAndColumn, PagesAssumption
<1> HIDE DEF d, e
<1>3. ~(d < q)
  <2> SUFFICES ASSUME d < q PROVE FALSE
    OBVIOUS
  <2>1. PerPage * d + PerPage <= PerPage * q
    BY <1>2, RowsGrow
  <2> QED
    BY <2>1, <1>1, <1>2, PagesAssumption
<1>4. ~(q < d)
  <2> SUFFICES ASSUME q < d PROVE FALSE
    OBVIOUS
  <2>1. PerPage * q + PerPage <= PerPage * d
    BY <1>2, RowsGrow
  <2> QED
    BY <2>1, <1>1, <1>2, PagesAssumption
<1>5. d = q
  BY <1>2, <1>3, <1>4
<1>6. e = r
  BY <1>1, <1>2, <1>5, PagesAssumption
<1> QED
  BY <1>1, <1>5, <1>6 DEF d, e

\* The place of the descriptor of entry i: page and index in the page.
Place(i) == <<(i - 1) \div PerPage, (i - 1) % PerPage>>

LEMMA FirstPlace == Place(1) = First
<1>1. 0 \div PerPage = 0 /\ 0 % PerPage = 0
  BY RowIsUnique, PagesAssumption
<1> QED
  BY <1>1 DEF Place, First

LEMMA FollowingPlace ==
    ASSUME NEW i \in Nat \ {0}
    PROVE  Following(Place(i)) = Place(i + 1)
<1> DEFINE q == (i - 1) \div PerPage
           r == (i - 1) % PerPage
<1>1. q \in Nat /\ r \in 0..(PerPage - 1) /\ i - 1 = PerPage * q + r
  BY RowAndColumn
<1>2. CASE r + 1 >= PerPage
  <2>1. i = PerPage * (q + 1) + 0 /\ q + 1 \in Nat /\ 0 \in 0..(PerPage - 1)
    BY <1>1, <1>2, PagesAssumption
  <2>2. i \div PerPage = q + 1 /\ i % PerPage = 0
    BY <2>1, RowIsUnique
  <2> QED
    BY <1>2, <2>2 DEF Following, Place
<1>3. CASE ~(r + 1 >= PerPage)
  <2>1. i = PerPage * q + (r + 1) /\ r + 1 \in 0..(PerPage - 1)
    BY <1>1, <1>3, PagesAssumption
  <2>2. i \div PerPage = q /\ i % PerPage = r + 1
    BY <1>1, <2>1, RowIsUnique
  <2> QED
    BY <1>3, <2>2 DEF Following, Place
<1> QED
  BY <1>2, <1>3

\* No two entries share a place.
LEMMA PlaceIsUnique ==
    ASSUME NEW i \in Nat \ {0}, NEW j \in Nat \ {0}, Place(i) = Place(j)
    PROVE  i = j
<1>1. (i - 1) \div PerPage = (j - 1) \div PerPage /\ (i - 1) % PerPage = (j - 1) % PerPage
  BY DEF Place
<1>2. i - 1 = (PerPage * ((i - 1) \div PerPage)) + ((i - 1) % PerPage)
      /\ j - 1 = (PerPage * ((j - 1) \div PerPage)) + ((j - 1) % PerPage)
  BY RowAndColumn
<1>3. i - 1 = j - 1
  BY <1>1, <1>2
<1> QED
  BY <1>3

\* The descriptors of n entries lie within the pages the code allocates.
LEMMA PlaceWithin ==
    ASSUME NEW n \in Nat, NEW i \in 1..n
    PROVE  Place(i)[1] < DescPages(n) /\ Place(i)[2] < PerPage
<1> DEFINE q == (i - 1) \div PerPage
           p == n \div PerPage
<1>1. /\ q \in Nat /\ (i - 1) % PerPage \in 0..(PerPage - 1)
      /\ i - 1 = (PerPage * q) + ((i - 1) % PerPage)
  BY RowAndColumn
<1>2. /\ p \in Nat /\ n % PerPage \in 0..(PerPage - 1)
      /\ n = (PerPage * p) + (n % PerPage)
  BY RowAndColumn
<1>3. PerPage * p \in Nat /\ PerPage * q \in Nat
  BY <1>1, <1>2, PagesAssumption
<1> HIDE DEF p, q
<1>4. ~(p < q)
  <2> SUFFICES ASSUME p < q PROVE FALSE
    OBVIOUS
  <2>1. PerPage * p + PerPage <= PerPage * q
    BY <1>1, <1>2, RowsGrow
  <2> QED
    BY <2>1, <1>1, <1>2, <1>3, PagesAssumption
<1>5. Place(i)[1] = q /\ DescPages(n) = p + 1
  BY DEF Place, DescPages, p, q
<1>6. Place(i)[2] < PerPage
  BY <1>1, PagesAssumption DEF Place
<1> QED
  BY <1>1, <1>2, <1>4, <1>5, <1>6

\* A function agrees with Place everywhere if it does so at each entry that
\* comes first or after one at which it does: the least entry at which it does
\* not would contradict that.
LEMMA PlacesByInduction ==
    ASSUME NEW n \in Nat, NEW f,
           \A i \in 1..n : (i # 1 => f[i - 1] = Place(i - 1)) => f[i] = Place(i)
    PROVE  \A i \in 1..n : f[i] = Place(i)
<1> DEFINE Wrong == {i \in 1..n : f[i] # Place(i)}
<1> SUFFICES ASSUME Wrong # {} PROVE FALSE
  OBVIOUS
<1>1. Wrong \subseteq Nat
  OBVIOUS
<1>2. PICK m \in Wrong : \A k \in Wrong : m <= k
  <2> HIDE DEF Wrong
  <2> QED
    BY <1>1, LeastNumber
<1>3. m \in 1..n /\ m # 1 /\ f[m - 1] # Place(m - 1)
  BY <1>2
<1>4. m - 1 \in Wrong
  BY <1>3
<1> QED
  BY <1>2, <1>3, <1>4

\* What the recursion of the code computes.
LEMMA PlacesAre ==
    ASSUME NEW n \in Nat
    PROVE  \A i \in 1..n : Places(n)[i] = Place(i)
<1> DEFINE IsRow(g) == g = [i \in 1..n |-> IF i = 1 THEN First ELSE Following(g[i - 1])]
           row == [i \in 1..n |-> Place(i)]
<1>1. IsRow(row)
  <2>1. \A i \in 1..n : row[i] = IF i = 1 THEN First ELSE Following(row[i - 1])
    <3>1. \A i \in 1..n : i # 1 => i - 1 \in 1..n /\ i - 1 \in Nat \ {0} /\ (i - 1) + 1 = i
      OBVIOUS
    <3> QED
      BY <3>1, FirstPlace, FollowingPlace
  <2>2. row = [i \in 1..n |-> row[i]]
    OBVIOUS
  <2> HIDE DEF row
  <2> QED
    BY <2>1, <2>2
<1>2. Places(n) = CHOOSE g : IsRow(g)
  BY Zenon DEF Places
<1>3. IsRow(Places(n))
  <2> HIDE DEF IsRow, row
  <2> QED
    BY <1>1, <1>2, Zenon
<1>4. \A i \in 1..n : Places(n)[i] = IF i = 1 THEN First ELSE Following(Places(n)[i - 1])
  <2> DEFINE at == Places(n)
  <2> HIDE DEF at
  <2>1. at = [i \in 1..n |-> IF i = 1 THEN First ELSE Following(at[i - 1])]
    BY <1>3 DEF at
  <2>2. \A i \in 1..n : at[i] = IF i = 1 THEN First ELSE Following(at[i - 1])
    BY <2>1
  <2> QED
    BY <2>2 DEF at
<1>5. \A i \in 1..n :
          (i # 1 => Places(n)[i - 1] = Place(i - 1)) => Places(n)[i] = Place(i)
  <2> SUFFICES ASSUME NEW i \in 1..n, i # 1 => Places(n)[i - 1] = Place(i - 1)
               PROVE  Places(n)[i] = Place(i)
    OBVIOUS
  <2>1. CASE i = 1
    BY <1>4, <2>1, FirstPlace
  <2>2. CASE i # 1
    <3>1. i - 1 \in Nat \ {0} /\ (i - 1) + 1 = i
      BY <2>2
    <3> QED
      BY <1>4, <2>2, <3>1, FollowingPlace
  <2> QED
    BY <2>1, <2>2
<1> QED
  BY <1>5, PlacesByInduction

\* The descriptor of entry i.
Descriptor(n, i) ==
    [at |-> Place(i), entry |-> i, next |-> IF i < n THEN Place(i + 1) ELSE End]

LEMMA ChainIs ==
    ASSUME NEW n \in Nat
    PROVE  Chain(n) = {Descriptor(n, i) : i \in 1..n}
<1>1. \A i \in 1..n : i \in Nat \ {0}
  OBVIOUS
<1> QED
  BY <1>1, PlacesAre, FollowingPlace DEF Chain, Descriptor

\* The engine finds at the place of an entry its descriptor and no other.
LEMMA DescAtPlace ==
    ASSUME NEW n \in Nat, NEW i \in 1..n
    PROVE  DescAt(Chain(n), Place(i)) = Descriptor(n, i)
<1>1. Descriptor(n, i) \in Chain(n) /\ Descriptor(n, i).at = Place(i)
  BY ChainIs DEF Descriptor
<1>2. ASSUME NEW d \in Chain(n), d.at = Place(i)
      PROVE  d = Descriptor(n, i)
  <2>1. PICK j \in 1..n : d = Descriptor(n, j)
    BY ChainIs
  <2>2. Place(j) = Place(i)
    BY <1>2, <2>1 DEF Descriptor
  <2>3. j = i
    BY <2>2, PlaceIsUnique
  <2> QED
    BY <2>1, <2>3
<1> QED
  BY <1>1, <1>2 DEF DescAt

\* It goes through all entries in their order.
LEMMA WayIs ==
    ASSUME NEW n \in Nat
    PROVE  \A i \in 1..n : Way(Chain(n), n)[i] = Place(i)
<1> DEFINE chain == Chain(n)
           IsWay(g) == g = [i \in 1..n |-> IF i = 1 THEN First
                                           ELSE DescAt(chain, g[i - 1]).next]
           row == [i \in 1..n |-> Place(i)]
<1>1. \A i \in 1..n : i # 1 => /\ i - 1 \in 1..n
                               /\ DescAt(chain, Place(i - 1)).next = Place(i)
  <2> SUFFICES ASSUME NEW i \in 1..n, i # 1
               PROVE  i - 1 \in 1..n /\ DescAt(chain, Place(i - 1)).next = Place(i)
    OBVIOUS
  <2>1. i - 1 \in 1..n /\ i - 1 < n /\ (i - 1) + 1 = i
    OBVIOUS
  <2> QED
    BY <2>1, DescAtPlace DEF Descriptor
<1> HIDE DEF chain
<1>2. IsWay(row)
  <2>1. \A i \in 1..n : row[i] = IF i = 1 THEN First ELSE DescAt(chain, row[i - 1]).next
    BY <1>1, FirstPlace
  <2>2. row = [i \in 1..n |-> row[i]]
    OBVIOUS
  <2> HIDE DEF row
  <2> QED
    BY <2>1, <2>2
<1>3. Way(chain, n) = CHOOSE g : IsWay(g)
  BY Zenon DEF Way
<1>4. IsWay(Way(chain, n))
  <2> HIDE DEF IsWay, row
  <2> QED
    BY <1>2, <1>3, Zenon
<1> DEFINE way == Way(chain, n)
<1>5. way = [i \in 1..n |-> IF i = 1 THEN First ELSE DescAt(chain, way[i - 1]).next]
  BY <1>4
<1> HIDE DEF way
<1>6. \A i \in 1..n : way[i] = IF i = 1 THEN First ELSE DescAt(chain, way[i - 1]).next
  BY <1>5
<1>7. \A i \in 1..n : (i # 1 => way[i - 1] = Place(i - 1)) => way[i] = Place(i)
  BY <1>1, <1>6, FirstPlace
<1>8. \A i \in 1..n : way[i] = Place(i)
  BY <1>7, PlacesByInduction
<1> QED
  BY <1>8 DEF way, chain

\* The chain of n entries leads the engine through all of them and no others,
\* within the pages that have been allocated for it.
LEMMA ChainIsWalked ==
    ASSUME NEW n \in Nat \ {0}
    PROVE  /\ Walk(Chain(n), n)
           /\ \A d \in Chain(n) : d.at[1] < DescPages(n) /\ d.at[2] < PerPage
<1>1. \A i \in 1..n : /\ Way(Chain(n), n)[i] # End
                      /\ DescAt(Chain(n), Way(Chain(n), n)[i]).entry = i
  <2> SUFFICES ASSUME NEW i \in 1..n
               PROVE  /\ Way(Chain(n), n)[i] # End
                      /\ DescAt(Chain(n), Way(Chain(n), n)[i]).entry = i
    OBVIOUS
  <2>1. Place(i) # End
    BY DEF Place, End
  <2> QED
    BY <2>1, WayIs, DescAtPlace DEF Descriptor
<1>2. DescAt(Chain(n), Way(Chain(n), n)[n]).next = End
  <2>1. n \in 1..n /\ ~(n < n)
    OBVIOUS
  <2> QED
    BY <2>1, WayIs, DescAtPlace DEF Descriptor
<1>3. \A d \in Chain(n) : d.at[1] < DescPages(n) /\ d.at[2] < PerPage
  BY ChainIs, PlaceWithin DEF Descriptor
<1> QED
  BY <1>1, <1>2, <1>3 DEF Walk

-----------------------------------------------------------------------------
(* What a block leaves behind *)

\* Only user pages, and only if pci_map_sg() has merged or refused them.
PagesOnly(b) == b.table = 0 /\ ~b.mapped /\ b.desc = 0 /\ b.nents # Pages

\* What map_block may make of a block.
Chains == {{}} \cup {Chain(n) : n \in 1..Pages}
Descs == Int \cup {DescPages(n) : n \in 1..Pages}
BlockType ==
    [table : {0, Pages}, nents : 0..Pages, pages : {"unset", "user", "null"},
     pinned : {0, Pages}, mapped : BOOLEAN, desc : Descs, chain : Chains]

\* No page is pinned but those the table names.
Fits(b) == b.pinned = IF b.pages = "user" THEN Pages ELSE 0

LEMMA ZeroFacts ==
    Zero \in BlockType /\ Zero.pinned = 0 /\ Zero.table = 0 /\ ~Zero.mapped
<1>1. 0 \in Descs /\ {} \in Chains /\ 0 \in 0..Pages
  BY PagesAssumption DEF Descs, Chains
<1> QED
  BY <1>1 DEF Zero, BlockType

LEMMA AllocatedFacts ==
    /\ Allocated \in BlockType /\ Allocated.table = Pages /\ Allocated.nents = Pages
    /\ Allocated.pages = "unset" /\ Allocated.pinned = 0
    /\ ~Allocated.mapped /\ Allocated.desc = 0
<1>1. Pages \in 0..Pages
  BY PagesAssumption
<1>2. Zero.pages = "unset" /\ Zero.desc = 0
  BY DEF Zero
<1> QED
  BY <1>1, <1>2, ZeroFacts DEF Allocated, BlockType

LEMMA WiredFacts ==
    \A w \in Wired : /\ w \in BlockType /\ Fits(w)
                     /\ w.table = Pages /\ w.nents = Pages /\ ~w.mapped /\ w.desc = 0
                     /\ w.pages # "unset"
BY AllocatedFacts DEF Wired, BlockType, Fits

LEMMA MappedFacts ==
    \A m \in Mapped : /\ m \in BlockType /\ Fits(m)
                      /\ m.table = Pages /\ m.nents \in 1..Pages /\ m.mapped
<1>1. ASSUME NEW w \in Wired, NEW n \in 1..Pages
      PROVE  LET m == Merged(w, n)
             IN  /\ m \in BlockType /\ Fits(m)
                 /\ m.table = Pages /\ m.nents \in 1..Pages /\ m.mapped
  <2>1. n \in 0..Pages
    BY PagesAssumption
  <2>2. Merged(w, n) \in BlockType
    BY <2>1, WiredFacts DEF BlockType, Merged
  <2>3. LET m == Merged(w, n)
        IN  /\ m.table = w.table /\ m.nents = n /\ m.mapped
            /\ m.pages = w.pages /\ m.pinned = w.pinned
    BY WiredFacts DEF BlockType, Merged
  <2> QED
    BY <2>2, <2>3, WiredFacts DEF Fits
<1>2. \A m \in Mapped : \E w \in Wired, n \in 1..Pages : m = Merged(w, n)
  BY DEF Mapped
<1> QED
  BY <1>1, <1>2

LEMMA CompleteFacts ==
    \A b \in Complete : /\ b \in BlockType /\ Fits(b)
                        /\ b.table = Pages /\ b.nents \in 1..Pages /\ b.mapped
<1> USE PagesAssumption DEF Fits
<1>1. ASSUME NEW m \in Mapped
      PROVE  LET b == [m EXCEPT !.desc = DescPages(m.nents), !.chain = Chain(m.nents)]
             IN  /\ b \in BlockType /\ Fits(b)
                 /\ b.table = Pages /\ b.nents \in 1..Pages /\ b.mapped
  <2>1. Chain(m.nents) \in Chains /\ DescPages(m.nents) \in Descs
    BY MappedFacts DEF Chains, Descs
  <2> QED
    BY <2>1, MappedFacts DEF BlockType
<1> QED
  BY <1>1 DEF Complete

\* What unmap_block makes of a block, field by field.
LEMMA UnmappedFields ==
    ASSUME NEW b \in BlockType
    PROVE  LET u == Unmapped(b)
           IN  /\ u.desc = 0 /\ u.table = 0 /\ u.nents = b.nents
               /\ u.mapped = (b.mapped /\ b.nents = 0)
               /\ u.pinned = IF b.table # 0 /\ b.pages = "user" THEN b.pinned - b.nents
                                                               ELSE b.pinned
BY DEF Unmapped, BlockType

\* What unmap_block makes of a block holds nothing, or pages only.
LEMMA UnmappedHoldsPagesOnly ==
    ASSUME NEW b \in Complete \cup Partial, ~HoldsNothing(Unmapped(b))
    PROVE  PagesOnly(Unmapped(b))
<1> USE PagesAssumption DEF HoldsNothing, PagesOnly, Fits
<1>1. CASE b = Zero
  <2>1. b \in BlockType /\ b.pinned = 0 /\ b.table = 0 /\ ~b.mapped
    BY <1>1, ZeroFacts
  <2> QED
    BY <2>1, UnmappedFields
<1>2. CASE b = Allocated
  <2>1. b \in BlockType /\ b.pinned = 0 /\ b.pages = "unset" /\ ~b.mapped
    BY <1>2, AllocatedFacts
  <2> QED
    BY <2>1, UnmappedFields
<1>3. CASE \E w \in Wired : b = [w EXCEPT !.nents = 0]
  <2>1. b \in BlockType /\ ~b.mapped /\ b.nents = 0
    BY <1>3, WiredFacts DEF BlockType
  <2> QED
    BY <2>1, UnmappedFields
<1>4. CASE b \in Complete \/ \E m \in Mapped : \E k \in 0..(DescPages(m.nents) - 1) :
                                 b = [m EXCEPT !.desc = k]
  <2>1. b \in BlockType /\ Fits(b) /\ b.table = Pages /\ b.nents \in 1..Pages
    <3>1. CASE b \in Complete
      BY <3>1, CompleteFacts
    <3>2. ASSUME NEW m \in Mapped, NEW k \in 0..(DescPages(m.nents) - 1),
                 b = [m EXCEPT !.desc = k]
          PROVE  b \in BlockType /\ Fits(b) /\ b.table = Pages /\ b.nents \in 1..Pages
      <4>1. k \in Descs
        BY DEF Descs
      <4> QED
        BY <3>2, <4>1, MappedFacts DEF BlockType
    <3> QED
      BY <1>4, <3>1, <3>2
  <2>2. b.nents # 0 /\ b.table # 0 /\ b.nents \in Nat
    BY <2>1
  <2>3. CASE b.pages = "user"
    <3>1. Unmapped(b).pinned = Pages - b.nents
      BY <2>1, <2>2, <2>3, UnmappedFields
    <3>2. LET u == Unmapped(b)
          IN  u.table = 0 /\ ~u.mapped /\ u.desc = 0 /\ u.nents = b.nents
      BY <2>1, <2>2, UnmappedFields
    <3>3. Unmapped(b).pinned # 0
      BY <3>2
    <3>4. b.nents # Pages
      BY <3>1, <3>3
    <3> QED
      BY <3>2, <3>4
  <2>4. CASE b.pages # "user"
    <3>1. Unmapped(b).pinned = 0
      BY <2>1, <2>4, UnmappedFields
    <3> QED
      BY <2>1, <2>2, <3>1, UnmappedFields
  <2> QED
    BY <2>3, <2>4
<1> QED
  BY <1>1, <1>2, <1>3, <1>4 DEF Partial

\* When all blocks of a ring are unmapped.
LEMMA LeftByOK ==
    ASSUME NEW blocks, \A i \in DOMAIN blocks : blocks[i] \in Complete \cup Partial
    PROVE  \A b \in LeftBy(blocks, DOMAIN blocks) : PagesOnly(b)
BY UnmappedHoldsPagesOnly DEF LeftBy

LEMMA ZeroIsPartial == Zero \in Partial
BY DEF Partial

LEMMA CompleteIsNotZero == Zero \notin Complete
BY CompleteFacts, PagesAssumption DEF Zero

-----------------------------------------------------------------------------
(* The invariant *)

\* The memory of a block is complete or nothing, and the mapped blocks have it.
MemoryInv ==
    /\ dmablock \in [Blocks -> Complete \cup {Zero}]
    /\ \A b \in Blocks : (dmaStatus # "invalid" /\ b < numblocks) <=> dmablock[b] # Zero
    /\ \A b \in left : PagesOnly(b)

PagesInv == TypeOK /\ LockInv /\ CallInv /\ MemoryInv

\* No other step creates or removes a mapping.
LEMMA OtherKeepsMapping ==
    ASSUME TypeOK, LockInv, CallInv, OtherStep
    PROVE  numblocks' = numblocks /\ (dmaStatus' = "invalid" <=> dmaStatus = "invalid")
<1> USE DEF TypeOK, DataOK, LockInv, CallInv, MuxLabels, At
<1> USE DEF ring, plx, config, history, irqs, handler, user, locks
<1>1. CASE HwFill \/ HwDoorbell
  BY <1>1 DEF HwFill, HwDoorbell
<1>2. CASE IsrStep
  BY <1>2 DEF IsrStep, IsrEnter, IsrFill, IsrBlock, IsrRestart, IsrEngine, IsrPost
<1>3. CASE IrqThreadStep
  BY <1>3 DEF IrqThreadStep, ThreadFetch, ThreadUpdate, ThreadWake
<1>4. ASSUME NEW t \in Threads, RingCall(t)
      PROVE  numblocks' = numblocks /\ (dmaStatus' = "invalid" <=> dmaStatus = "invalid")
  <2>1. CASE OpenFile(t) \/ Release(t) \/ ReleaseClose(t)
    BY <2>1 DEF OpenFile, Release, ReleaseClose
  <2>2. CASE StartReset(t) \/ StartEngine(t) \/ StartDone(t)
    BY <2>2 DEF StartReset, StartEngine, StartDone
  <2>3. CASE StopDisable(t) \/ StopAbort(t) \/ StopDone(t)
    BY <2>3 DEF StopDisable, StopAbort, StopDone
  <2>4. CASE WaitFinished(t) \/ WaitSleep(t) \/ Signal(t)
    BY <2>4 DEF WaitFinished, WaitSleep, Signal
  <2>5. CASE (\E b \in Blocks : Mark(t, b)) \/ MarkFree(t) \/ MarkRestart(t) \/ MarkEngine(t)
    BY <2>5 DEF Mark, MarkFree, MarkRestart, MarkEngine
  <2>6. CASE IrqWait(t) \/ IrqGet(t) \/ IrqTake(t) \/ \E mask \in SUBSET Bits : IrqAck(t, mask)
    BY <2>6 DEF IrqWait, IrqGet, IrqTake, IrqAck
  <2> QED
    BY <1>4, <2>1, <2>2, <2>3, <2>4, <2>5, <2>6 DEF RingCall
<1> QED
  BY <1>1, <1>2, <1>3, <1>4 DEF OtherStep

\* What the mapping that is given up leaves behind.
LEMMA CurrentLeaves ==
    ASSUME MemoryInv
    PROVE  \A b \in LeftBy(Current, DOMAIN Current) : PagesOnly(b)
<1>1. \A i \in DOMAIN Current : Current[i] \in Complete \cup Partial
  BY ZeroIsPartial DEF MemoryInv, Current
<1> QED
  BY <1>1, LeftByOK

\* What a mapping that fails leaves behind.
LEMMA TriedLeaves ==
    ASSUME NEW n \in Nat \ {0}, NEW i \in 0..(n - 1), NEW blocks \in Tried(n, i)
    PROVE  \A b \in LeftBy(blocks, CleanupAfter(n, i)) : PagesOnly(b)
<1>1. PICK done \in [0..(i - 1) -> Complete], failed \in Partial :
          blocks = [b \in 0..(n - 1) |->
                       IF b < i THEN done[b] ELSE IF b = i THEN failed ELSE Zero]
  BY DEF Tried
<1>2. \A b \in 0..(n - 1) : b < i => b \in 0..(i - 1)
  OBVIOUS
<1>3. DOMAIN blocks = CleanupAfter(n, i)
  BY <1>1 DEF CleanupAfter
<1>4. \A b \in DOMAIN blocks : blocks[b] \in Complete \cup Partial
  BY <1>1, <1>2, ZeroIsPartial
<1> QED
  BY <1>3, <1>4, LeftByOK

LEMMA MapKeepsMemory ==
    ASSUME TypeOK, MemoryInv,
           NEW t \in Threads, NEW n \in BlockCounts \cup {0}, MapPages(t, n)
    PROVE  MemoryInv'
<1>1. Map(t, n)
  BY DEF MapPages
<1>2. Blocks \subseteq Nat /\ n \in Nat
  BY BlocksFacts
<1>3. CASE dmaStatus' = "ready" /\ MapAll(n)
  <2>1. n > 0 /\ numblocks' = n
    BY <1>1, <1>2, <1>3 DEF Map
  <2>2. PICK new \in [0..(n - 1) -> Complete] :
            dmablock' = [b \in Blocks |-> IF b < n THEN new[b] ELSE Zero]
    BY <1>3 DEF MapAll
  <2>3. \A b \in Blocks : b < n => b \in 0..(n - 1)
    BY <1>2
  <2>4. \A b \in Blocks : dmablock'[b] \in Complete \cup {Zero} /\ (b < n <=> dmablock'[b] # Zero)
    BY <2>2, <2>3, CompleteIsNotZero
  <2>5. \A b \in left' : PagesOnly(b)
    BY <1>3, CurrentLeaves DEF MapAll, UnmapAll, MemoryInv
  <2> QED
    BY <1>3, <2>1, <2>2, <2>4, <2>5 DEF MemoryInv, PagesOnly
<1>4. CASE dmaStatus' = "invalid" /\ n > 0 /\ MapSome(n)
  <2>1. \A b \in left' : PagesOnly(b)
    <3>1. PICK i \in 0..(n - 1) : \E blocks \in Tried(n, i) :
              left' = left \cup LeftBy(Current, DOMAIN Current)
                           \cup LeftBy(blocks, CleanupAfter(n, i))
      BY <1>4 DEF MapSome
    <3> QED
      BY <1>2, <1>4, <3>1, CurrentLeaves, TriedLeaves DEF MemoryInv
  <2>2. dmablock' = Nothing
    BY <1>4 DEF MapSome
  <2> QED
    BY <1>4, <2>1, <2>2 DEF MemoryInv, Nothing, PagesOnly
<1>5. CASE dmaStatus' = "invalid" /\ dmablock' = Nothing /\ UnmapAll
  <2>1. \A b \in left' : PagesOnly(b)
    BY <1>5, CurrentLeaves DEF UnmapAll, MemoryInv
  <2> QED
    BY <1>5, <2>1 DEF MemoryInv, Nothing, PagesOnly
<1> QED
  BY <1>3, <1>4, <1>5 DEF MapPages

LEMMA ReleaseKeepsMemory ==
    ASSUME TypeOK, MemoryInv, NEW t \in Threads, ReleasePages(t)
    PROVE  MemoryInv'
<1>1. numblocks' = numblocks
      /\ dmaStatus' = IF dmaStatus = "ready" THEN "invalid" ELSE dmaStatus
  BY DEF ReleasePages, ReleaseUnmap
<1>2. \A b \in left' : PagesOnly(b)
  BY CurrentLeaves DEF ReleasePages, UnmapAll, MemoryInv
<1>3. dmablock' = IF dmaStatus = "ready" THEN Nothing ELSE dmablock
  BY DEF ReleasePages
<1> QED
  BY <1>1, <1>2, <1>3 DEF MemoryInv, Nothing, PagesOnly

LEMMA MemoryInvStep ==
    ASSUME TypeOK, LockInv, CallInv, MemoryInv, [PagesNext]_pagesVars
    PROVE  MemoryInv'
<1>1. CASE OtherStep /\ UNCHANGED memory
  BY <1>1, OtherKeepsMapping DEF MemoryInv, memory, PagesOnly
<1>2. CASE UNCHANGED pagesVars
  BY <1>2 DEF pagesVars, memory, vars, config, MemoryInv, PagesOnly
<1> QED
  BY <1>1, <1>2, MapKeepsMemory, ReleaseKeepsMemory DEF PagesNext, OtherStep

\* The memory of the blocks, on one CPU or many.
LEMMA PagesInvHolds == PagesSpec => []PagesInv
<1>1. PagesInit => PagesInv
  <2>1. PagesInit => TypeOK
    BY BlocksFacts, FilesAssumption DEF PagesInit, Init, TypeOK, FlagsOK, DataOK, Labels
  <2>2. PagesInit => LockInv /\ CallInv
    BY FilesAssumption DEF PagesInit, Init, LockInv, CallInv, MuxLabels
  <2>3. PagesInit => MemoryInv
    BY DEF PagesInit, Init, MemoryInv, Nothing
  <2> QED
    BY <2>1, <2>2, <2>3 DEF PagesInv
<1>2. PagesInv /\ [PagesNext]_pagesVars => PagesInv'
  <2> SUFFICES ASSUME PagesInv, [PagesNext]_pagesVars PROVE PagesInv'
    OBVIOUS
  <2>1. TypeOK /\ LockInv /\ CallInv /\ MemoryInv /\ [Next]_vars
    BY PagesStepIsRingStep DEF PagesInv
  <2>2. TypeOK'
    BY <2>1, FlagsStep, DataStep DEF TypeOK
  <2> QED
    BY <2>1, <2>2, LockStep, CallInvStep, MemoryInvStep DEF PagesInv
<1> QED
  BY <1>1, <1>2, PTL DEF PagesSpec

\* Whatever step of ddma_map fails at whatever block, everything acquired is
\* given back, but for pages that pci_map_sg() has merged or refused, and the
\* blocks of a mapping have their memory until it is given up; for rings and
\* blocks of any size, any number of threads and files, on one CPU or many.
THEOREM ReturnedHolds == PagesSpec => []Returned
<1>1. PagesInv => Returned
  BY DEF PagesInv, MemoryInv, Returned, PagesOnly
<1> QED
  BY <1>1, PagesInvHolds, PTL

-----------------------------------------------------------------------------
(* The engine and the memory of its block *)

LEMMA CompleteWalks ==
    ASSUME NEW b \in Complete
    PROVE  b.pages = "null" \/ /\ b.pinned = Pages /\ b.mapped
                               /\ Walk(b.chain, b.nents)
                               /\ \A d \in b.chain : d.at[1] < b.desc /\ d.at[2] < PerPage
<1>1. PICK m \in Mapped :
          b = [m EXCEPT !.desc = DescPages(m.nents), !.chain = Chain(m.nents)]
  BY DEF Complete
<1>2. m \in BlockType /\ Fits(m) /\ m.nents \in 1..Pages /\ m.mapped
  BY MappedFacts
<1>3. /\ b.desc = DescPages(m.nents) /\ b.chain = Chain(m.nents)
      /\ b.nents = m.nents /\ b.pages = m.pages /\ b.pinned = m.pinned /\ b.mapped
  BY <1>1, <1>2 DEF BlockType
<1>4. m.pages \in {"user", "null"}
  <2>1. PICK w \in Wired, n \in 1..Pages : m = Merged(w, n)
    BY DEF Mapped
  <2>2. m.pages = w.pages
    BY <2>1, WiredFacts DEF Merged, BlockType
  <2>3. w.pages \in {"user", "null"}
    BY WiredFacts DEF BlockType
  <2> QED
    BY <2>2, <2>3
<1>5. m.nents \in Nat \ {0}
  BY <1>2, PagesAssumption
<1>6. /\ Walk(b.chain, b.nents)
      /\ \A d \in b.chain : d.at[1] < b.desc /\ d.at[2] < PerPage
  BY <1>3, <1>5, ChainIsWalked
<1> QED
  BY <1>2, <1>3, <1>4, <1>6 DEF Fits

\* On a uniprocessor, with any number of processes that compete for the DMA:
\* as long as the engine runs, the user pages of its block are pinned and
\* mapped, and its chain leads through all of them and no others, for blocks and
\* descriptor pages of any size, whatever pci_map_sg() has merged.
THEOREM EngineInUserPagesHolds ==
    ASSUME PrivateFiles
    PROVE  PagesSpec => []EngineInUserPages
<1>1. TypeOK /\ EngineInv /\ PagesInv => EngineInUserPages
  <2> SUFFICES ASSUME TypeOK, EngineInv, PagesInv, active
               PROVE  EngineInUserPages
    BY DEF EngineInUserPages
  <2>1. dmaStatus # "invalid" /\ target < numblocks /\ target \in Blocks
    BY DEF EngineInv, TypeOK, DataOK
  <2>2. dmablock[target] \in Complete
    BY <2>1 DEF PagesInv, MemoryInv
  <2> QED
    BY <2>2, CompleteWalks DEF EngineInUserPages
<1> QED
  BY <1>1, PagesAreRing, EngineHolds, PagesInvHolds, PTL
=============================================================================
