------------------------------- MODULE GcSpace -------------------------------
(***************************************************************************)
(* The memory layout of mudlle's collector (alloc.c).                      *)
(*                                                                         *)
(* One block, gcblock, holds both generations.  Generation 1 (immutable    *)
(* data) grows upwards from the start of the block, generation 0 is        *)
(* allocated downwards from its end:                                       *)
(*                                                                         *)
(*   0 ....... endgen1 ........ startgen0 ... posgen0 ........ endgen0     *)
(*   | gen 1    |    to-space     |   free      |  gen 0 in use   |        *)
(*                                                                         *)
(* Addresses are byte offsets from gcblock.  What a collection keeps is    *)
(* decided by reachability, which this module leaves open: survivors are   *)
(* any sizes no larger than what was there.  GcHeap models reachability.   *)
(***************************************************************************)
EXTENDS Integers

CONSTANTS
  InitialBlocksize, \* INITIAL_BLOCKSIZE
  Requests,         \* byte counts passed to gc_allocate()
  CollectArgs,      \* byte counts the garbage_collect() primitive is given
  SaveSizes,        \* scratch sizes gc_save() reserves
  MeasureSizes,     \* scratch sizes gc_size() reserves
  Grain,            \* every object's size is a multiple of Grain
  HasMcode,         \* FALSE for NOCOMPILER builds: no 16-byte aligned code
  Memory            \* the largest block alloc_gc_block() can obtain

WORD == 8                                          \* sizeof (value)

ASSUME SpaceAssumption ==
  /\ InitialBlocksize \in Nat /\ InitialBlocksize > 0
  /\ InitialBlocksize % WORD = 0
  /\ Requests \subseteq Nat /\ CollectArgs \subseteq Nat
  /\ SaveSizes \subseteq Nat /\ MeasureSizes \subseteq Nat
  /\ Grain \in Nat /\ Grain > 0 /\ Grain % WORD = 0
  /\ HasMcode \in BOOLEAN
  /\ Memory \in Nat

VARIABLES
  gcblocksize, \* size of the block
  endgen1,     \* end of generation 1; startgen1 is always 0
  startgen0,   \* lower limit of generation 0
  posgen0,     \* start of the last allocation
  endgen0,     \* end of generation 0
  oldsize1,    \* size of generation 1 after the last major collection
  spilled,     \* bytes of generation 1 survivors when tempblock1 # NULL, or 0
  want,        \* argument n of garbage_collect()
  client,      \* the routine that asked for memory
  pc           \* where the running C code is

space == <<gcblocksize, endgen1, startgen0, posgen0, endgen0, oldsize1, spilled>>
vars  == <<gcblocksize, endgen1, startgen0, posgen0, endgen0, oldsize1,
           spilled, want, client, pc>>

(***************************************************************************)
(* Sizes.                                                                  *)
(***************************************************************************)
Floor8(x) == x - (x % WORD)                  \* x & ~(sizeof (value) - 1)
Align8(x) == Floor8(x + (WORD - 1))          \* MUDLLE_ALIGN(x, sizeof (value))

InUse0 == endgen0 - posgen0
Size0  == endgen0 - startgen0
Used0  == InUse0 + want                      \* endgen0 - (posgen0 - n)

\* Sizes of the survivors of a region in which at most 'bytes' are in use.
\* Objects are whole words; Grain lets an instance be coarser.
Survivors(bytes) == {s \in 0..bytes : s % WORD = 0 /\ s % Grain = 0}

\* struct mcode is aligned so that its code starts on a 16-byte boundary; the
\* hole before it is 0 or 8 bytes and may appear when objects are reordered.
\* An mcode object is at least 16 bytes long.
NewHoles(bytes) == IF HasMcode THEN {h \in 0..(bytes \div 2) : h % WORD = 0}
                               ELSE {0}

\* Mutants of Half: a misplaced division, and wrong shares.
Half_Doubled(limit0, limit1)       == Floor8((limit0 - limit1) * 2)
Half_Precedence(limit0, limit1)    == Floor8(limit0 - (limit1 \div 2))
Half_Quarter(limit0, limit1)       == Floor8((limit0 - limit1) \div 4)
Half_ThreeQuarters(limit0, limit1) == Floor8(((limit0 - limit1) * 3) \div 4)

Half(limit0, limit1) == Floor8((limit0 - limit1) \div 2)

Init ==
  /\ gcblocksize = InitialBlocksize
  /\ endgen1 = 0
  /\ endgen0 = gcblocksize
  /\ posgen0 = endgen0
  /\ startgen0 = endgen0 - Floor8(gcblocksize \div 2)
  /\ oldsize1 = 0
  /\ spilled = 0
  /\ want = 0
  /\ client = "none"
  /\ pc = "run"

(***************************************************************************)
(* Clients.  gc_allocate(), gc_save() and gc_size() go through             *)
(* gc_reserve(), which rounds the size up to words and collects only when  *)
(* it does not fit; the garbage_collect() primitive passes its argument on *)
(* as it is.                                                               *)
(***************************************************************************)
gc_reserve(who, n) ==
  /\ pc = "run"
  /\ client' = who
  /\ want' = Align8(n)
  /\ pc' = IF posgen0 >= startgen0 + Align8(n) THEN "reserved" ELSE "minor"
  /\ UNCHANGED space

code_garbage_collect(n) ==
  /\ pc = "run"
  /\ client' = "collect"
  /\ want' = n
  /\ pc' = "minor"
  /\ UNCHANGED space

fast_gc_allocate ==
  /\ pc = "reserved" /\ client = "allocate"
  /\ posgen0' = posgen0 - want
  /\ want' = 0 /\ client' = "none" /\ pc' = "run"
  /\ UNCHANGED <<gcblocksize, endgen1, startgen0, endgen0, oldsize1, spilled>>

\* gc_save() and gc_size() only use [posgen0 - want, posgen0) as scratch space.
use_scratch ==
  /\ pc = "reserved" /\ client \in {"save", "size"}
  /\ want' = 0 /\ client' = "none" /\ pc' = "run"
  /\ UNCHANGED space

(***************************************************************************)
(* garbage_collect(n), one action per collection it runs.                  *)
(***************************************************************************)
\* A collection that is enough ends garbage_collect(); otherwise 'next' runs.
Return(done, next) ==
  /\ pc' = IF ~done THEN next
           ELSE IF client = "collect" THEN "run" ELSE "reserved"
  /\ want' = IF done /\ client = "collect" THEN 0 ELSE want
  /\ client' = IF done /\ client = "collect" THEN "none" ELSE client

\* The test after the minor collection (first a mutant of it).  The right-hand side of the second
\* conjunct is an unsigned subtraction: it wraps when Used0 > gcblocksize.
NoMajorNeeded_ForgetsRequest ==
  /\ startgen0' < posgen0'
  /\ 2 * endgen1' < gcblocksize - (endgen0 - posgen0')
  /\ endgen1' < 2 * oldsize1
  /\ (endgen0 - posgen0') * 5 < (endgen0 - startgen0') * 4

NoMajorNeeded ==
  /\ startgen0' < posgen0'
  /\ \/ 2 * endgen1' < gcblocksize - (endgen0 - (posgen0' - want))
     \/ endgen0 - (posgen0' - want) > gcblocksize
  /\ endgen1' < 2 * oldsize1
  /\ (endgen0 - (posgen0' - want)) * 5 < (endgen0 - startgen0') * 4

\* Mutable survivors stay in generation 0, immutable ones are appended to
\* generation 1.  Code objects are allocated with room for their alignment
\* hole (support.c), so the holes are part of what was in use.
minor_collection ==
  /\ pc = "minor"
  /\ \E mut \in Survivors(InUse0) : \E imm \in Survivors(InUse0 - mut) :
       /\ posgen0' = endgen0 - mut
       /\ endgen1' = endgen1 + imm
       /\ startgen0' = endgen0 - Half(endgen0, endgen1')
  /\ Return(NoMajorNeeded, "major")
  /\ UNCHANGED <<gcblocksize, endgen0, oldsize1, spilled>>

\* The test after the major collection (a mutant first); size1 is the size of generation 1.
NoGrowthNeeded_IgnoresSpill(size1) ==
  /\ size1 * 2 + Used0 < gcblocksize
  /\ Used0 * 3 < (endgen0 - startgen0') * 2

NoGrowthNeeded(size1) ==
  /\ spilled' = 0
  /\ size1 * 2 + Used0 < gcblocksize
  /\ startgen0' < posgen0
  /\ Used0 * 3 < (endgen0 - startgen0') * 2

\* Generation 1 is compacted through the space [endgen1, posgen0).  If that is
\* too small the survivors spill to a temporary block and the block is grown.
major_collection ==
  /\ pc = "major"
  /\ \E live \in Survivors(endgen1) : \E hole \in NewHoles(live) :
       LET size1 == live + hole IN
       /\ IF size1 > posgen0 - endgen1
            THEN /\ spilled' = size1
                 /\ UNCHANGED <<endgen1, oldsize1, startgen0>>
            ELSE /\ spilled' = 0
                 /\ endgen1' = size1
                 /\ oldsize1' = size1
                 /\ startgen0' = endgen0 - Half(endgen0, size1)
       /\ Return(NoGrowthNeeded(size1), "grow")
  /\ UNCHANGED <<gcblocksize, posgen0, endgen0>>

\* The new block size garbage_collect() asks for.
Max2(a, b) == IF a >= b THEN a ELSE b
Size1   == IF spilled # 0 THEN spilled ELSE endgen1
\* Mutants: the 1.4 times is not rounded; the threshold is forgotten.
NewSize_Unaligned ==
  Max2(Max2((gcblocksize * 14) \div 10, Size1 + 2 * ((3 * Used0) \div 2)),
       3 * Size1 + Used0)
NewSize_NoThreshold ==
  Max2(Max2(Align8((gcblocksize * 14) \div 10), Size1 + 2 * Used0), 3 * Size1 + Used0)

NewSize == Max2(Max2(Align8((gcblocksize * 14) \div 10),
                     Size1 + 2 * ((3 * Used0) \div 2)),
                3 * Size1 + Used0)

new_major_collection ==
  /\ pc = "grow" /\ NewSize <= Memory
  /\ \E mut \in Survivors(InUse0) : \E live \in Survivors(Size1) :
     \E hole \in NewHoles(live) :
       /\ gcblocksize' = NewSize
       /\ endgen0' = NewSize
       /\ posgen0' = NewSize - mut
       /\ endgen1' = live + hole
       /\ oldsize1' = live + hole
       /\ startgen0' = NewSize - Half(NewSize, live + hole)
  /\ spilled' = 0
  /\ Return(TRUE, "run")

\* alloc_gc_block() fails.  It is the first thing new_major_collection() does.
\* Under gc_size() (alloc_can_fail) it jumps straight back there and gc_size()
\* reports failure; otherwise the process aborts.
alloc_gc_block_fails ==
  /\ pc = "grow" /\ NewSize > Memory
  /\ pc' = IF client = "size" THEN "run" ELSE "aborted"
  /\ want' = 0 /\ client' = "none"
  /\ UNCHANGED space

Next ==
  \/ \E n \in Requests : gc_reserve("allocate", n)
  \/ \E n \in SaveSizes : gc_reserve("save", n)
  \/ \E n \in MeasureSizes : gc_reserve("size", n)
  \/ \E n \in CollectArgs : code_garbage_collect(n)
  \/ fast_gc_allocate
  \/ use_scratch
  \/ minor_collection
  \/ major_collection
  \/ new_major_collection
  \/ alloc_gc_block_fails

Spec == Init /\ [][Next]_vars

(***************************************************************************)
(* Properties.                                                             *)
(***************************************************************************)
\* Types of the variables.
TypeOK ==
  /\ gcblocksize \in Nat /\ endgen1 \in Nat /\ oldsize1 \in Nat
  /\ startgen0 \in Nat /\ posgen0 \in Nat /\ endgen0 \in Nat
  /\ spilled \in Nat /\ want \in Nat
  /\ client \in {"none", "allocate", "save", "size", "collect"}
  /\ pc \in {"run", "reserved", "minor", "major", "grow", "aborted"}

\* The two generations never overlap and both lie inside the block.
Layout ==
  /\ endgen0 = gcblocksize
  /\ endgen1 <= startgen0 /\ startgen0 <= endgen0
  /\ endgen1 <= posgen0 /\ posgen0 <= endgen0

\* gc_reserve() keeps its promise on every path through garbage_collect():
\* when the client resumes, the bytes below posgen0 are there, which is the
\* assertion of fast_gc_allocate() and what gc_save() and gc_size() rely on.
RequestSatisfied == pc = "reserved" => posgen0 - want >= startgen0

\* What makes Layout and RequestSatisfied inductive: a rounded request.
RequestRounded ==
  /\ client # "collect" => want % WORD = 0
  /\ pc = "reserved" => client # "collect"
SpaceInv == TypeOK /\ Layout /\ RequestSatisfied /\ RequestRounded

\* Without compiled code generation 0 never outgrows its half of the block.
HalfInv ==
  /\ SpaceInv
  /\ startgen0 = endgen0 - Half(endgen0, endgen1)
  /\ startgen0 <= posgen0

\* minor_collection() copies mutable survivors down from startgen0 and
\* immutable ones up from endgen1 without checking that they do not meet: the
\* space between must hold everything that may survive.
ToSpaceFits == pc = "minor" => InUse0 <= startgen0 - endgen1

\* minor_forward_weak_refs() and major_forward_weak_refs() assert that every
\* weak reference object lies in [startgen0, endgen0): when a collection
\* starts, that range must cover all of generation 0.
WeakRefsInRange == pc \in {"minor", "major", "grow"} => startgen0 <= posgen0

\* Objects are word aligned: gccheck_qdebug() asserts that no object pointer
\* has one of its low bits set.
HeapAligned == InUse0 > 0 => posgen0 % WORD = 0

\* The assertion "Only once !" of major_forward(): a collection never spills
\* while the temporary block of an earlier one is still in use.
SpillOnlyOnce == pc = "major" => spilled = 0

\* Growing the block leaves generation 0 no fuller than THRESHOLD_INCREASE
\* (up to the rounding of its size to a word), request included, so the next
\* collection does not have to grow the block at once.
GrowthLeavesRoom ==
  [][new_major_collection
       => 3 * (endgen0' - (posgen0' - want)) <= 2 * (Size0' + WORD)]_vars
=============================================================================
