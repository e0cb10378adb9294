---------------------------- MODULE GcSpaceProofs ----------------------------
EXTENDS GcSpace, TLAPS

(***************************************************************************)
(* Arithmetic of the rounding macros.                                      *)
(***************************************************************************)
LEMMA Floor8Facts ==
  ASSUME NEW x \in Int
  PROVE  /\ Floor8(x) \in Int
         /\ Floor8(x) <= x /\ x < Floor8(x) + 8
         /\ Floor8(x) % 8 = 0
BY DEF Floor8, WORD

LEMMA Floor8Greatest ==
  ASSUME NEW x \in Int, NEW y \in Int, y % 8 = 0, y <= x
  PROVE  y <= Floor8(x)
BY DEF Floor8, WORD

LEMMA Align8Facts ==
  ASSUME NEW n \in Nat
  PROVE  Align8(n) \in Nat /\ Align8(n) % 8 = 0 /\ n <= Align8(n)
BY DEF Align8, Floor8, WORD

LEMMA HalfFacts ==
  ASSUME NEW a \in Int, NEW b \in Int, b <= a
  PROVE  Half(a, b) \in Nat /\ 2 * Half(a, b) <= a - b
BY DEF Half, Floor8, WORD

LEMMA HalfWords ==
  ASSUME NEW a \in Int, NEW b \in Int
  PROVE  Half(a, b) % 8 = 0
BY DEF Half, Floor8, WORD

\* Half() is the largest such number of whole words.
LEMMA HalfGreatest ==
  ASSUME NEW a \in Int, NEW b \in Int, b <= a,
         NEW y \in Int, y % 8 = 0, 2 * y <= a - b
  PROVE  y <= Half(a, b)
BY DEF Half, Floor8, WORD

LEMMA SurvivorFacts ==
  ASSUME NEW b \in Nat, NEW s \in Survivors(b)
  PROVE  s \in Nat /\ s <= b /\ s % 8 = 0
BY DEF Survivors, WORD

LEMMA NewHoleFacts ==
  ASSUME NEW b \in Nat, NEW h \in NewHoles(b)
  PROVE  /\ h \in Nat /\ 2 * h <= b
         /\ ~HasMcode => h = 0
BY DEF NewHoles, WORD

\* The three lower bounds garbage_collect() puts on the new block size.
LEMMA NewSizeFacts ==
  ASSUME TypeOK, Layout
  PROVE  /\ NewSize \in Nat /\ Size1 \in Nat /\ Used0 \in Nat
         /\ NewSize >= 3 * Size1 + Used0
         /\ NewSize + 1 >= Size1 + 3 * Used0
<1>1. Size1 \in Nat /\ Used0 \in Nat
  BY DEF Size1, Used0, InUse0, TypeOK, Layout
<1>2. Align8((gcblocksize * 14) \div 10) \in Nat
  <2>1. (gcblocksize * 14) \div 10 \in Nat
    BY DEF TypeOK
  <2> QED BY <2>1, Align8Facts
<1>3. 2 * ((3 * Used0) \div 2) + 1 >= 3 * Used0
  BY <1>1
<1> QED BY <1>1, <1>2, <1>3 DEF NewSize, Max2

-----------------------------------------------------------------------------
LEMMA SpaceInit == Init => HalfInv
<1> SUFFICES ASSUME Init PROVE HalfInv
  OBVIOUS
<1>1. gcblocksize \in Nat /\ gcblocksize > 0
  BY SpaceAssumption DEF Init
<1>2. /\ Half(endgen0, endgen1) \in Nat
      /\ 2 * Half(endgen0, endgen1) <= gcblocksize
  BY <1>1, HalfFacts DEF Init
<1>3. startgen0 = endgen0 - Half(endgen0, endgen1)
  BY <1>1 DEF Init, Half
<1> QED
  BY <1>1, <1>2, <1>3
  DEF Init, HalfInv, SpaceInv, TypeOK, Layout, RequestSatisfied,
      RequestRounded, WORD

LEMMA MinorStep ==
  ASSUME SpaceInv, minor_collection
  PROVE  /\ SpaceInv'
         /\ HalfInv => HalfInv'
<1>1. PICK mut \in Survivors(InUse0) : \E imm \in Survivors(InUse0 - mut) :
        /\ posgen0' = endgen0 - mut
        /\ endgen1' = endgen1 + imm
        /\ startgen0' = endgen0 - Half(endgen0, endgen1')
  BY DEF minor_collection
<1>2. PICK imm \in Survivors(InUse0 - mut) :
        /\ posgen0' = endgen0 - mut
        /\ endgen1' = endgen1 + imm
        /\ startgen0' = endgen0 - Half(endgen0, endgen1')
  BY <1>1
<1>3. InUse0 \in Nat /\ InUse0 <= endgen0 - endgen1
  BY DEF SpaceInv, TypeOK, Layout, InUse0
<1>4. mut \in Nat /\ mut <= InUse0 /\ mut % 8 = 0
  BY <1>3, SurvivorFacts
<1>5. imm \in Nat /\ imm <= InUse0 - mut
  BY <1>3, <1>4, SurvivorFacts
<1>6. endgen1' \in Nat /\ endgen1' <= endgen0 - mut /\ endgen0 \in Nat
  BY <1>2, <1>3, <1>4, <1>5 DEF SpaceInv, TypeOK
<1>7. Half(endgen0, endgen1') \in Nat /\ 2 * Half(endgen0, endgen1') <= endgen0 - endgen1'
  <2>1. ASSUME NEW e \in Nat, e <= endgen0
        PROVE  Half(endgen0, e) \in Nat /\ 2 * Half(endgen0, e) <= endgen0 - e
    <3> e \in Int /\ endgen0 \in Int
      BY <1>6
    <3> QED BY <2>1, HalfFacts
  <2>2. endgen1' \in Nat /\ endgen1' <= endgen0
    BY <1>6, <1>4
  <2> QED BY <2>1, <2>2
<1>8. TypeOK' /\ Layout' /\ RequestRounded' 
  BY <1>2, <1>4, <1>6, <1>7
  DEF SpaceInv, TypeOK, Layout, RequestRounded, minor_collection, Return, WORD
<1>9. RequestSatisfied'
  <2> SUFFICES ASSUME pc' = "reserved" PROVE posgen0' - want' >= startgen0'
    BY DEF RequestSatisfied
  <2>1. NoMajorNeeded /\ want' = want
    BY DEF minor_collection, Return, SpaceInv, TypeOK
  <2> QED BY <2>1, <1>8 DEF NoMajorNeeded, TypeOK, Layout, SpaceInv, minor_collection
<1>10. ASSUME HalfInv PROVE HalfInv'
  <2>1. 2 * InUse0 <= endgen0 - endgen1
    <3>1. endgen0 \in Int /\ endgen1 \in Int /\ endgen1 <= endgen0
      BY DEF SpaceInv, TypeOK, Layout
    <3>2. Half(endgen0, endgen1) \in Nat /\ 2 * Half(endgen0, endgen1) <= endgen0 - endgen1
      BY <3>1, HalfFacts
    <3> QED BY <3>1, <3>2, <1>10 DEF HalfInv, InUse0, SpaceInv, TypeOK
  <2>2. 2 * mut <= endgen0 - endgen1'
    BY <2>1, <1>2, <1>3, <1>4, <1>5, <1>6 DEF SpaceInv, TypeOK
  <2>3. mut <= Half(endgen0, endgen1')
    <3>1. ASSUME NEW e \in Nat, 2 * mut <= endgen0 - e
          PROVE  mut <= Half(endgen0, e)
      BY <3>1, <1>4, <1>6, HalfGreatest
    <3> QED BY <3>1, <2>2, <1>6
  <2>4. startgen0' <= posgen0'
    BY <2>3, <1>2, <1>4, <1>6, <1>7
  <2>5. endgen0' = endgen0
    BY DEF minor_collection
  <2>6. startgen0' = endgen0' - Half(endgen0', endgen1')
    BY <2>5, <1>2
  <2> QED BY <2>4, <2>6, <1>8, <1>9 DEF HalfInv, SpaceInv
<1> QED BY <1>8, <1>9, <1>10 DEF SpaceInv

LEMMA MajorStep ==
  ASSUME SpaceInv, major_collection
  PROVE  /\ SpaceInv'
         /\ HalfInv /\ ~HasMcode => HalfInv'
<1>1. endgen1 \in Nat /\ endgen0 \in Nat /\ posgen0 \in Int /\ posgen0 <= endgen0
      /\ endgen1 <= endgen0
  BY DEF SpaceInv, TypeOK, Layout
<1>2A. PICK live \in Survivors(endgen1) : \E hole \in NewHoles(live) :
         LET size1 == live + hole IN
         /\ IF size1 > posgen0 - endgen1
              THEN /\ spilled' = size1
                   /\ UNCHANGED <<endgen1, oldsize1, startgen0>>
              ELSE /\ spilled' = 0
                   /\ endgen1' = size1
                   /\ oldsize1' = size1
                   /\ startgen0' = endgen0 - Half(endgen0, size1)
         /\ Return(NoGrowthNeeded(size1), "grow")
  BY DEF major_collection
<1>2. PICK hole \in NewHoles(live) :
        /\ IF live + hole > posgen0 - endgen1
             THEN /\ spilled' = live + hole
                  /\ UNCHANGED <<endgen1, oldsize1, startgen0>>
             ELSE /\ spilled' = 0
                  /\ endgen1' = live + hole
                  /\ oldsize1' = live + hole
                  /\ startgen0' = endgen0 - Half(endgen0, live + hole)
        /\ Return(NoGrowthNeeded(live + hole), "grow")
  BY <1>2A
<1>3. live \in Nat /\ live <= endgen1
  BY <1>1, SurvivorFacts
<1>4. hole \in Nat /\ (~HasMcode => hole = 0)
  BY <1>3, NewHoleFacts
<1>5. CASE live + hole > posgen0 - endgen1
  <2>1. live + hole # 0 /\ ~NoGrowthNeeded(live + hole)
    BY <1>5, <1>1, <1>2, <1>3, <1>4 DEF SpaceInv, Layout, NoGrowthNeeded
  <2>2. pc' = "grow" /\ want' = want /\ client' = client
    BY <2>1, <1>2 DEF Return
  <2>3. SpaceInv'
    BY <2>2, <1>5, <1>2, <1>3, <1>4
    DEF SpaceInv, TypeOK, Layout, RequestSatisfied, RequestRounded,
        major_collection
  <2>4. endgen0' = endgen0 /\ endgen1' = endgen1 /\ startgen0' = startgen0 /\ posgen0' = posgen0
    BY <1>5, <1>2 DEF major_collection
  <2> QED BY <2>3, <2>4 DEF HalfInv
<1>6. CASE ~(live + hole > posgen0 - endgen1)
  <2>1. /\ endgen1' = live + hole /\ oldsize1' = live + hole /\ spilled' = 0
        /\ startgen0' = endgen0 - Half(endgen0, endgen1')
        /\ endgen0' = endgen0 /\ posgen0' = posgen0 /\ gcblocksize' = gcblocksize
    BY <1>6, <1>2 DEF major_collection
  <2>2. endgen1' \in Nat /\ endgen1' <= posgen0
    BY <2>1, <1>1, <1>3, <1>4, <1>6
  <2>3. Half(endgen0, endgen1') \in Nat /\ 2 * Half(endgen0, endgen1') <= endgen0 - endgen1'
    <3>1. ASSUME NEW e \in Nat, e <= endgen0
          PROVE  Half(endgen0, e) \in Nat /\ 2 * Half(endgen0, e) <= endgen0 - e
      <4> e \in Int /\ endgen0 \in Int
        BY <1>1
      <4> QED BY <3>1, HalfFacts
    <3> QED BY <3>1, <2>2, <1>1
  <2>4. TypeOK' /\ Layout' /\ RequestRounded'
    BY <2>1, <2>2, <2>3, <1>1, <1>2
    DEF SpaceInv, TypeOK, Layout, RequestRounded, Return, major_collection, WORD
  <2>5. RequestSatisfied'
    <3> SUFFICES ASSUME pc' = "reserved" PROVE posgen0' - want' >= startgen0'
      BY DEF RequestSatisfied
    <3>1. NoGrowthNeeded(live + hole) /\ want' = want
      BY <1>2 DEF Return
    <3> QED BY <3>1, <2>1, <2>4 DEF NoGrowthNeeded, Used0, InUse0, TypeOK, Layout
  <2>6. ASSUME HalfInv, ~HasMcode PROVE HalfInv'
    <3>1. endgen1' <= endgen1
      BY <2>6, <2>1, <1>1, <1>3, <1>4
    <3>2. 2 * Half(endgen0, endgen1) <= endgen0 - endgen1 /\ Half(endgen0, endgen1) \in Nat
          /\ Half(endgen0, endgen1) % 8 = 0
      <4>1. endgen0 \in Int /\ endgen1 \in Int
        BY <1>1
      <4>2. Half(endgen0, endgen1) % 8 = 0
        BY <4>1, HalfWords
      <4> QED BY <4>1, <4>2, <1>1, HalfFacts
    <3>3. Half(endgen0, endgen1) <= Half(endgen0, endgen1')
      <4>1. ASSUME NEW e \in Nat, e <= endgen1
            PROVE  Half(endgen0, endgen1) <= Half(endgen0, e)
        BY <4>1, <3>2, <1>1, HalfGreatest
      <4> QED BY <4>1, <3>1, <2>2
    <3>4. startgen0' <= posgen0'
      BY <3>2, <3>3, <2>1, <2>3, <1>1, <2>6 DEF HalfInv, SpaceInv, TypeOK
    <3> QED BY <3>4, <2>1, <2>4, <2>5 DEF HalfInv, SpaceInv
  <2> QED BY <2>4, <2>5, <2>6 DEF SpaceInv
<1> QED BY <1>5, <1>6

LEMMA NewMajorStep ==
  ASSUME SpaceInv, new_major_collection
  PROVE  /\ SpaceInv'
         /\ HalfInv'
<1>1. /\ NewSize \in Nat /\ Size1 \in Nat /\ Used0 \in Nat
      /\ NewSize >= 3 * Size1 + Used0
      /\ NewSize + 1 >= Size1 + 3 * Used0
  BY NewSizeFacts DEF SpaceInv
<1>2. InUse0 \in Nat /\ Used0 = InUse0 + want /\ want \in Nat
  BY DEF SpaceInv, TypeOK, Layout, InUse0, Used0
<1>3A. PICK mut \in Survivors(InUse0) :
         \E live \in Survivors(Size1) : \E hole \in NewHoles(live) :
       /\ gcblocksize' = NewSize
       /\ endgen0' = NewSize
       /\ posgen0' = NewSize - mut
       /\ endgen1' = live + hole
       /\ oldsize1' = live + hole
       /\ startgen0' = NewSize - Half(NewSize, live + hole)
  BY DEF new_major_collection
<1>3B. PICK live \in Survivors(Size1) : \E hole \in NewHoles(live) :
       /\ gcblocksize' = NewSize
       /\ endgen0' = NewSize
       /\ posgen0' = NewSize - mut
       /\ endgen1' = live + hole
       /\ oldsize1' = live + hole
       /\ startgen0' = NewSize - Half(NewSize, live + hole)
  BY <1>3A
<1>3. PICK hole \in NewHoles(live) :
       /\ gcblocksize' = NewSize
       /\ endgen0' = NewSize
       /\ posgen0' = NewSize - mut
       /\ endgen1' = live + hole
       /\ oldsize1' = live + hole
       /\ startgen0' = NewSize - Half(NewSize, live + hole)
  BY <1>3B
<1>4. mut \in Nat /\ mut <= InUse0 /\ mut % 8 = 0
  BY <1>2, SurvivorFacts
<1>5. live \in Nat /\ live <= Size1
  BY <1>1, SurvivorFacts
<1>6. hole \in Nat /\ 2 * hole <= live
  BY <1>5, NewHoleFacts
<1>7. 2 * (mut + want) <= NewSize - (live + hole)
  BY <1>1, <1>2, <1>4, <1>5, <1>6
<1>8. live + hole \in Nat /\ live + hole <= NewSize
  BY <1>7, <1>1, <1>2, <1>4, <1>5, <1>6
<1>9. /\ Half(NewSize, live + hole) \in Nat
      /\ 2 * Half(NewSize, live + hole) <= NewSize - (live + hole)
  BY <1>1, <1>8, HalfFacts
<1>10. mut <= Half(NewSize, live + hole)
  <2>1. 2 * mut <= NewSize - (live + hole)
    BY <1>7, <1>1, <1>2, <1>4, <1>8
  <2> QED BY <2>1, <1>1, <1>4, <1>8, HalfGreatest
<1>11. spilled' = 0 /\ (want' = want \/ want' = 0)
       /\ pc' = (IF client = "collect" THEN "run" ELSE "reserved")
       /\ client' = (IF client = "collect" THEN "none" ELSE client)
       /\ (client = "collect" => want' = 0) /\ (client # "collect" => want' = want)
  BY DEF new_major_collection, Return
<1>12. TypeOK' /\ Layout' /\ RequestRounded'
  BY <1>3, <1>4, <1>7, <1>8, <1>9, <1>11, <1>2, <1>1
  DEF SpaceInv, TypeOK, Layout, RequestRounded, WORD
<1>13. RequestSatisfied'
  <2> SUFFICES ASSUME pc' = "reserved" PROVE posgen0' - want' >= startgen0'
    BY DEF RequestSatisfied
  <2>1. client # "collect" /\ want' = want /\ want % 8 = 0
    BY <1>11 DEF SpaceInv, RequestRounded, WORD
  <2>2. (mut + want) % 8 = 0
    BY <2>1, <1>2, <1>4
  <2>3. mut + want <= Half(NewSize, live + hole)
    BY <2>2, <1>7, <1>8, <1>1, <1>2, <1>4, HalfGreatest
  <2> QED BY <2>1, <2>3, <1>1, <1>2, <1>3, <1>4, <1>9
<1>14. startgen0' <= posgen0'
  BY <1>10, <1>3, <1>1, <1>4, <1>9
<1>15. startgen0' = endgen0' - Half(endgen0', endgen1')
  BY <1>3
<1> QED BY <1>12, <1>13, <1>14, <1>15 DEF HalfInv, SpaceInv

\* The steps that leave the layout alone, and allocation itself.
LEMMA ClientStep ==
  ASSUME SpaceInv,
         \/ \E n \in Requests : gc_reserve("allocate", n)
         \/ \E n \in SaveSizes : gc_reserve("save", n)
         \/ \E n \in MeasureSizes : gc_reserve("size", n)
         \/ \E n \in CollectArgs : code_garbage_collect(n)
         \/ fast_gc_allocate
         \/ use_scratch
         \/ alloc_gc_block_fails
         \/ UNCHANGED vars
  PROVE  /\ SpaceInv'
         /\ HalfInv => HalfInv'
<1>1. ASSUME NEW who \in {"allocate", "save", "size"}, NEW n \in Nat,
             gc_reserve(who, n)
      PROVE  SpaceInv' /\ (HalfInv => HalfInv')
  <2>1. Align8(n) \in Nat /\ Align8(n) % 8 = 0
    BY Align8Facts
  <2>2. SpaceInv'
    BY <1>1, <2>1
    DEF gc_reserve, space, SpaceInv, TypeOK, Layout, RequestSatisfied,
        RequestRounded, WORD
  <2> QED BY <1>1, <2>2 DEF gc_reserve, space, HalfInv
<1>2. ASSUME NEW n \in CollectArgs, code_garbage_collect(n)
      PROVE  SpaceInv' /\ (HalfInv => HalfInv')
  BY <1>2, SpaceAssumption
  DEF code_garbage_collect, space, SpaceInv, HalfInv, TypeOK, Layout,
      RequestSatisfied, RequestRounded
<1>3. ASSUME fast_gc_allocate
      PROVE  SpaceInv' /\ (HalfInv => HalfInv')
  BY <1>3
  DEF fast_gc_allocate, SpaceInv, HalfInv, TypeOK, Layout, RequestSatisfied,
      RequestRounded, WORD
<1>4. ASSUME use_scratch
      PROVE  SpaceInv' /\ (HalfInv => HalfInv')
  BY <1>4
  DEF use_scratch, space, SpaceInv, HalfInv, TypeOK, Layout, RequestSatisfied,
      RequestRounded, WORD
<1>5. ASSUME alloc_gc_block_fails
      PROVE  SpaceInv' /\ (HalfInv => HalfInv')
  BY <1>5
  DEF alloc_gc_block_fails, space, SpaceInv, HalfInv, TypeOK, Layout,
      RequestSatisfied, RequestRounded, WORD
<1>6. ASSUME UNCHANGED vars
      PROVE  SpaceInv' /\ (HalfInv => HalfInv')
  BY <1>6
  DEF vars, SpaceInv, HalfInv, TypeOK, Layout, RequestSatisfied, RequestRounded
<1> QED BY <1>1, <1>2, <1>3, <1>4, <1>5, <1>6, SpaceAssumption

-----------------------------------------------------------------------------
\* The generations never overlap and gc_reserve() always delivers, for every
\* sequence of requests, block size and survivor sizes, with or without
\* compiled code (alloc.c: garbage_collect(), gc_reserve()).
THEOREM SpaceSafety == Spec => [](TypeOK /\ Layout /\ RequestSatisfied)
<1>1. Init => SpaceInv
  BY SpaceInit DEF HalfInv
<1>2. SpaceInv /\ [Next]_vars => SpaceInv'
  BY MinorStep, MajorStep, NewMajorStep, ClientStep DEF Next
<1>3. SpaceInv => TypeOK /\ Layout /\ RequestSatisfied
  BY DEF SpaceInv
<1> QED BY <1>1, <1>2, <1>3, PTL DEF Spec

\* The space argument.  Without compiled code the start of generation 0 is
\* always the middle of what generation 1 leaves, and generation 0 stays above
\* it: so a minor collection has room for whatever survives, and every weak
\* reference object passes the range assertion of the collector.
THEOREM HalfSafety ==
  ASSUME HasMcode = FALSE
  PROVE  Spec => [](WeakRefsInRange /\ ToSpaceFits)
<1>1. HalfInv /\ [Next]_vars => HalfInv'
  <2>1. HalfInv => SpaceInv
    BY DEF HalfInv
  <2> QED BY <2>1, MinorStep, MajorStep, NewMajorStep, ClientStep DEF Next
<1>2. HalfInv => WeakRefsInRange /\ ToSpaceFits
  <2> SUFFICES ASSUME HalfInv PROVE WeakRefsInRange /\ ToSpaceFits
    OBVIOUS
  <2>1. endgen0 \in Int /\ endgen1 \in Int /\ endgen1 <= endgen0 /\ posgen0 \in Int
    BY DEF HalfInv, SpaceInv, TypeOK, Layout
  <2>2. Half(endgen0, endgen1) \in Nat /\ 2 * Half(endgen0, endgen1) <= endgen0 - endgen1
    BY <2>1, HalfFacts
  <2>3. startgen0 = endgen0 - Half(endgen0, endgen1) /\ startgen0 <= posgen0
    BY DEF HalfInv
  <2> QED BY <2>1, <2>2, <2>3 DEF WeakRefsInRange, ToSpaceFits, InUse0
<1> QED BY <1>1, <1>2, SpaceInit, PTL DEF Spec

-----------------------------------------------------------------------------
\* Half() loses no more than what rounding to words takes.
LEMMA HalfLoss ==
  ASSUME NEW a \in Int, NEW b \in Int, b <= a
  PROVE  Half(a, b) \in Int /\ a - b <= 2 * Half(a, b) + 15
BY DEF Half, Floor8, WORD

\* Without the holes that align compiled code, growing the block leaves
\* generation 0, the request included, no fuller than THRESHOLD_INCREASE: the
\* second of the three bounds in garbage_collect() is the one that sees to it.
THEOREM GrowthSafety ==
  ASSUME HasMcode = FALSE
  PROVE  Spec => GrowthLeavesRoom
<1>1. SpaceInv /\ [Next]_vars =>
        [new_major_collection
           => 3 * (endgen0' - (posgen0' - want)) <= 2 * (Size0' + WORD)]_vars
  <2> SUFFICES ASSUME SpaceInv, new_major_collection
               PROVE  3 * (endgen0' - (posgen0' - want)) <= 2 * (Size0' + WORD)
    OBVIOUS
  <2>1. NewSize \in Nat /\ Size1 \in Nat /\ Used0 \in Nat /\ NewSize >= 3 * Size1 + Used0
        /\ NewSize + 1 >= Size1 + 3 * Used0
    BY NewSizeFacts DEF SpaceInv
  <2>2. InUse0 \in Nat /\ Used0 = InUse0 + want /\ want \in Nat
    BY DEF SpaceInv, TypeOK, Layout, InUse0, Used0
  <2>3. PICK mut \in Survivors(InUse0), live \in Survivors(Size1) :
          \E hole \in NewHoles(live) :
             /\ endgen0' = NewSize /\ posgen0' = NewSize - mut
             /\ startgen0' = NewSize - Half(NewSize, live + hole)
    BY DEF new_major_collection
  <2>4. live \in Nat /\ live <= Size1 /\ mut \in Nat /\ mut <= InUse0
    BY <2>1, <2>2, SurvivorFacts
  <2>5. PICK hole \in NewHoles(live) : startgen0' = NewSize - Half(NewSize, live + hole)
    BY <2>3
  <2>6. hole = 0
    BY <2>4, <2>5, NewHoleFacts
  <2>7. /\ startgen0' = NewSize - Half(NewSize, live) /\ live <= NewSize
        /\ endgen0' = NewSize /\ posgen0' = NewSize - mut
    BY <2>1, <2>3, <2>4, <2>5, <2>6
  <2>8. Half(NewSize, live) \in Int /\ NewSize - live <= 2 * Half(NewSize, live) + 15
    BY <2>1, <2>4, <2>7, HalfLoss
  <2>9. Size0' = Half(NewSize, live)
    BY <2>1, <2>7, <2>8 DEF Size0
  <2> QED BY <2>1, <2>2, <2>4, <2>7, <2>8, <2>9 DEF WORD
<1>2. Init => SpaceInv
  BY SpaceInit DEF HalfInv
<1>3. SpaceInv /\ [Next]_vars => SpaceInv'
  BY MinorStep, MajorStep, NewMajorStep, ClientStep DEF Next
<1> QED BY <1>1, <1>2, <1>3, PTL DEF Spec, GrowthLeavesRoom

-----------------------------------------------------------------------------
\* A collection runs with the temporary block in use only on its way to
\* growing the block, unless gc_size() can abandon it there.
SpillInv ==
  /\ client # "size"
  /\ spilled # 0 => pc \in {"grow", "aborted"}

\* gc_save() and allocation never leave a temporary block behind: the "Only
\* once !" assertion of major_forward() can only fail after gc_size().
THEOREM SpillSafety ==
  ASSUME MeasureSizes = {}
  PROVE  Spec => []SpillOnlyOnce
<1>1. Init => SpillInv
  BY DEF Init, SpillInv
<1>2. SpillInv /\ [Next]_vars => SpillInv'
  <2> SUFFICES ASSUME SpillInv, [Next]_vars PROVE SpillInv'
    OBVIOUS
  <2>1. ASSUME NEW who \in {"allocate", "save"}, NEW n, gc_reserve(who, n)
        PROVE  SpillInv'
    BY <2>1 DEF gc_reserve, space, SpillInv
  <2>2. ASSUME NEW n, code_garbage_collect(n) PROVE SpillInv'
    BY <2>2 DEF code_garbage_collect, space, SpillInv
  <2>3. CASE fast_gc_allocate
    BY <2>3 DEF fast_gc_allocate, SpillInv
  <2>4. CASE use_scratch
    BY <2>4 DEF use_scratch, space, SpillInv
  <2>5. CASE minor_collection
    BY <2>5 DEF minor_collection, Return, SpillInv
  <2>6. CASE major_collection
    <3>1. PICK size1 : /\ \/ spilled' = 0
                          \/ spilled' = size1
                       /\ Return(NoGrowthNeeded(size1), "grow")
      BY <2>6 DEF major_collection
    <3>2. spilled' # 0 => pc' = "grow"
      BY <3>1 DEF Return, NoGrowthNeeded
    <3>3. client' # "size"
      BY <3>1 DEF Return, SpillInv
    <3> QED BY <3>2, <3>3 DEF SpillInv
  <2>7. CASE new_major_collection
    BY <2>7 DEF new_major_collection, Return, SpillInv
  <2>8. CASE alloc_gc_block_fails
    BY <2>8 DEF alloc_gc_block_fails, space, SpillInv
  <2>9. CASE UNCHANGED vars
    BY <2>9 DEF vars, SpillInv
  <2> QED BY <2>1, <2>2, <2>3, <2>4, <2>5, <2>6, <2>7, <2>8, <2>9 DEF Next
<1>3. SpillInv => SpillOnlyOnce
  BY DEF SpillInv, SpillOnlyOnce
<1> QED BY <1>1, <1>2, <1>3, PTL DEF Spec

-----------------------------------------------------------------------------
\* Every boundary that objects are packed against is a whole number of words.
Words == gcblocksize % 8 = 0 /\ endgen1 % 8 = 0 /\ posgen0 % 8 = 0 /\ spilled % 8 = 0
WordsInv == SpaceInv /\ Words /\ want % 8 = 0

LEMMA HoleWords ==
  ASSUME NEW b \in Nat, NEW h \in NewHoles(b)
  PROVE  h % 8 = 0
BY DEF NewHoles, WORD

LEMMA NewSizeWords ==
  ASSUME WordsInv
  PROVE  NewSize % 8 = 0
<1>1. Size1 \in Nat /\ Size1 % 8 = 0
  BY DEF Size1, WordsInv, Words, SpaceInv, TypeOK
<1>2. Used0 \in Nat /\ Used0 % 8 = 0
  BY DEF Used0, InUse0, WordsInv, Words, SpaceInv, TypeOK, Layout
<1>3. (Size1 + 2 * ((3 * Used0) \div 2)) % 8 = 0
  <2>1. 2 * ((3 * Used0) \div 2) = 3 * Used0
    BY <1>2
  <2> QED BY <2>1, <1>1, <1>2
<1>4. (3 * Size1 + Used0) % 8 = 0
  BY <1>1, <1>2
<1>5. Align8((gcblocksize * 14) \div 10) % 8 = 0
  <2>1. (gcblocksize * 14) \div 10 \in Nat
    BY DEF WordsInv, SpaceInv, TypeOK
  <2> QED BY <2>1, Align8Facts
<1> QED BY <1>3, <1>4, <1>5 DEF NewSize, Max2

\* As long as the garbage_collect() primitive is given whole words, every
\* collection and every growth of the block keeps the heap word aligned.
THEOREM AlignmentSafety ==
  ASSUME \A n \in CollectArgs : n % 8 = 0
  PROVE  Spec => []HeapAligned
<1>1. Init => WordsInv
  BY SpaceInit, SpaceAssumption DEF Init, WordsInv, Words, HalfInv, WORD
<1>2. WordsInv /\ [Next]_vars => WordsInv'
  <2> SUFFICES ASSUME WordsInv, [Next]_vars PROVE WordsInv'
    OBVIOUS
  <2>1. SpaceInv'
    BY MinorStep, MajorStep, NewMajorStep, ClientStep DEF Next, WordsInv
  <2>2. TypeOK /\ Layout /\ Words /\ want % 8 = 0
    BY DEF WordsInv, SpaceInv
  <2>3. ASSUME NEW who, NEW n \in Nat, gc_reserve(who, n)
        PROVE  Words' /\ want' % 8 = 0
    BY <2>2, <2>3, Align8Facts DEF gc_reserve, space, Words
  <2>4. ASSUME NEW n \in CollectArgs, code_garbage_collect(n)
        PROVE  Words' /\ want' % 8 = 0
    BY <2>2, <2>4 DEF code_garbage_collect, space, Words
  <2>5. ASSUME fast_gc_allocate
        PROVE  Words' /\ want' % 8 = 0
    BY <2>2, <2>5 DEF fast_gc_allocate, Words, TypeOK
  <2>6. ASSUME use_scratch
        PROVE  Words' /\ want' % 8 = 0
    BY <2>2, <2>6 DEF use_scratch, space, Words
  <2>7. ASSUME minor_collection
        PROVE  Words' /\ want' % 8 = 0
    <3>1. PICK mut \in Survivors(InUse0) : \E imm \in Survivors(InUse0 - mut) :
             posgen0' = endgen0 - mut /\ endgen1' = endgen1 + imm
      BY <2>7 DEF minor_collection
    <3>2. PICK imm \in Survivors(InUse0 - mut) :
             posgen0' = endgen0 - mut /\ endgen1' = endgen1 + imm
      BY <3>1
    <3>3. InUse0 \in Nat
      BY <2>2 DEF InUse0, TypeOK, Layout
    <3>4. mut \in Nat /\ mut <= InUse0 /\ mut % 8 = 0
      BY <3>3, SurvivorFacts
    <3>5. imm \in Nat /\ imm % 8 = 0
      BY <3>3, <3>4, SurvivorFacts
    <3>6. posgen0' % 8 = 0 /\ endgen1' % 8 = 0
      BY <3>2, <3>4, <3>5, <2>2 DEF TypeOK, Layout, Words
    <3>7. want' % 8 = 0
      <4>1. want' = want \/ want' = 0
        BY <2>7 DEF minor_collection, Return
      <4> QED BY <4>1, <2>2
    <3> QED BY <3>6, <3>7, <2>2, <2>7 DEF minor_collection, Words
  <2>8. ASSUME major_collection
        PROVE  Words' /\ want' % 8 = 0
    <3>1. PICK live \in Survivors(endgen1) : \E hole \in NewHoles(live) :
             /\ \/ spilled' = live + hole /\ endgen1' = endgen1
                \/ spilled' = 0 /\ endgen1' = live + hole
             /\ want' = want \/ want' = 0
      BY <2>8 DEF major_collection, Return
    <3>2. PICK hole \in NewHoles(live) :
             /\ \/ spilled' = live + hole /\ endgen1' = endgen1
                \/ spilled' = 0 /\ endgen1' = live + hole
             /\ want' = want \/ want' = 0
      BY <3>1
    <3>3. live \in Nat /\ live % 8 = 0
      BY <2>2, SurvivorFacts DEF TypeOK
    <3>4. hole \in Nat /\ hole % 8 = 0
      BY <3>3, NewHoleFacts, HoleWords
    <3>5. spilled' % 8 = 0 /\ endgen1' % 8 = 0 /\ want' % 8 = 0
      BY <3>2, <3>3, <3>4, <2>2 DEF Words
    <3> QED BY <3>5, <2>2, <2>8 DEF major_collection, Words
  <2>9. ASSUME new_major_collection
        PROVE  Words' /\ want' % 8 = 0
    <3>1. PICK mut \in Survivors(InUse0) :
             \E live \in Survivors(Size1) : \E hole \in NewHoles(live) :
               posgen0' = NewSize - mut /\ endgen1' = live + hole
      BY <2>9 DEF new_major_collection
    <3>2. PICK live \in Survivors(Size1) : \E hole \in NewHoles(live) :
               posgen0' = NewSize - mut /\ endgen1' = live + hole
      BY <3>1
    <3>3. PICK hole \in NewHoles(live) :
               posgen0' = NewSize - mut /\ endgen1' = live + hole
      BY <3>2
    <3>4. InUse0 \in Nat /\ Size1 \in Nat /\ NewSize \in Nat
      BY <2>2, NewSizeFacts DEF InUse0, TypeOK, Layout
    <3>5. mut \in Nat /\ mut % 8 = 0
      BY <3>4, SurvivorFacts
    <3>6. live \in Nat /\ live % 8 = 0
      BY <3>4, SurvivorFacts
    <3>7. hole \in Nat /\ hole % 8 = 0
      BY <3>6, NewHoleFacts, HoleWords
    <3>8. NewSize % 8 = 0
      BY NewSizeWords
    <3>9. posgen0' % 8 = 0 /\ endgen1' % 8 = 0
      BY <3>3, <3>4, <3>5, <3>6, <3>7, <3>8
    <3>10. gcblocksize' = NewSize /\ spilled' = 0 /\ (want' = want \/ want' = 0)
      BY <2>9 DEF new_major_collection, Return
    <3> QED BY <3>8, <3>9, <3>10, <2>2 DEF Words
  <2>10. ASSUME alloc_gc_block_fails
        PROVE  Words' /\ want' % 8 = 0
    BY <2>2, <2>10 DEF alloc_gc_block_fails, space, Words
  <2>11. ASSUME UNCHANGED vars
        PROVE  Words' /\ want' % 8 = 0
    BY <2>2, <2>11 DEF vars, Words
  <2>12. Words' /\ want' % 8 = 0
    BY <2>3, <2>4, <2>5, <2>6, <2>7, <2>8, <2>9, <2>10, <2>11, SpaceAssumption
    DEF Next
  <2> QED BY <2>1, <2>12 DEF WordsInv
<1>3. WordsInv => HeapAligned
  BY DEF WordsInv, Words, HeapAligned, WORD
<1> QED BY <1>1, <1>2, <1>3, PTL DEF Spec
=============================================================================
