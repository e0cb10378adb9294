------------------------- MODULE ModuleSystemProofs -------------------------
(***************************************************************************)
(* Proofs about ModuleSystem, for any files, headers and variables.        *)
(***************************************************************************)
EXTENDS ModuleSystem, SequenceTheorems, TLAPS

(***************************************************************************)
(* The inductive invariant.  A call of interpret() remembers the status    *)
(* that it found; it is "loading" exactly in the calls that are inside     *)
(* another one for the same module, and such a call never runs a body.  A  *)
(* module that was not there when its load began owns nothing until the    *)
(* body begins.                                                            *)
(***************************************************************************)
FoundLoading ==
  \A i \in 1..Depth : frames[i].file \in Modules =>
    (frames[i].old = "loading" <=> \E j \in 1..(i - 1) : frames[j].file = frames[i].file)

BodyIsOutermost ==
  \A i \in 1..Depth :
    frames[i].phase = "body" /\ frames[i].file \in Modules => CanUnload(frames[i].old)

NothingYet ==
  \A i \in 1..Depth : frames[i].phase = "requires" /\ frames[i].old = "unloaded"
                        => \A v \in Vars : vstatus[v] # frames[i].file

ModuleInv == /\ TypeOK /\ LoadingOnStack /\ OwnersThere /\ DefineOwned
             /\ FoundLoading /\ BodyIsOutermost /\ NothingYet

-----------------------------------------------------------------------------
(***************************************************************************)
(* The stack of calls.                                                     *)
(***************************************************************************)
LEMMA TopFacts ==
  ASSUME TypeOK, frames # <<>>
  PROVE  /\ Depth \in Nat \ {0} /\ Top \in Frame /\ Top.file \in Files
         /\ Popped \in Seq(Frame) /\ Len(Popped) = Depth - 1
         /\ \A i \in 1..(Depth - 1) : Popped[i] = frames[i]
<1>1. Depth \in Nat \ {0}
  BY EmptySeq DEF TypeOK, Depth
<1>2. \A i \in 1..Depth : frames[i] \in Frame
  BY ElementOfSeq DEF TypeOK, Depth
<1>3. \A i \in 1..(Depth - 1) : frames[i] \in Frame
  BY <1>1, <1>2
<1>4. Popped \in Seq(Frame) /\ Len(Popped) = Depth - 1
      /\ \A i \in 1..(Depth - 1) : Popped[i] = frames[i]
  <2> DEFINE n == Depth - 1
  <2>1. n \in Int /\ 1 \in Int /\ \A i \in 1..n : frames[i] \in Frame
    BY <1>1, <1>3
  <2>2. /\ SubSeq(frames, 1, n) \in Seq(Frame)
        /\ Len(SubSeq(frames, 1, n)) = IF 1 <= n THEN n - 1 + 1 ELSE 0
        /\ \A i \in 1..(n - 1 + 1) : SubSeq(frames, 1, n)[i] = frames[1 + i - 1]
    <3> HIDE DEF n
    <3> QED BY <2>1, SubSeqProperties
  <2> QED BY <1>1, <2>2 DEF Popped
<1>5. Top \in Frame
  BY <1>1, <1>2 DEF Top
<1> QED BY <1>1, <1>4, <1>5 DEF Frame

LEMMA FrameFacts ==
  ASSUME TypeOK
  PROVE  /\ Depth \in Nat
         /\ \A i \in 1..Depth :
              /\ frames[i] \in Frame /\ frames[i].file \in Files
              /\ frames[i].phase \in {"requires", "body"} /\ frames[i].old \in Statuses
              /\ frames[i].next \in Nat /\ Len(Requires[frames[i].file]) \in Nat
<1>1. Depth \in Nat
  BY LenProperties DEF TypeOK, Depth
<1>2. \A i \in 1..Depth : frames[i] \in Frame
  BY ElementOfSeq DEF TypeOK, Depth
<1>3. \A f \in Files : Len(Requires[f]) \in Nat
  BY HeaderAssumption, LenProperties
<1> QED BY <1>1, <1>2, <1>3 DEF Frame

LEMMA DefinesFacts ==
  ASSUME NEW f \in Files, NEW v \in Defines[f]
  PROVE  f \in Modules /\ v \in Vars
BY HeaderAssumption DEF Modules

(***************************************************************************)
(* interpret() returns: the status of its file becomes s, and variables    *)
(* that nobody owns may have become writable.                              *)
(***************************************************************************)
OwnersSame ==
  /\ vstatus' \in [Vars -> Modules \cup {"normal", "write", "system_write"}]
  /\ \A v \in Vars : IF GCONSTANT(v) THEN vstatus'[v] = vstatus[v]
                                     ELSE vstatus'[v] \in {"normal", "write"}

LEMMA WritableFacts ==
  ASSUME TypeOK, NEW S, vstatus' = Writable(S)
  PROVE  OwnersSame
BY DEF TypeOK, Writable, OwnersSame, GCONSTANT

LEMMA SameOwners ==
  ASSUME TypeOK, vstatus' = vstatus
  PROVE  OwnersSame
BY DEF TypeOK, OwnersSame, GCONSTANT

LEMMA ReturnStep ==
  ASSUME ModuleInv, frames # <<>>, NEW s \in Statuses,
         module_set(Top.file, s), frames' = Popped, OwnersSame,
         gvar' = gvar, erred' \in BOOLEAN, unexplained' \in BOOLEAN, pc' = pc,
         Top.file \in Modules => (Top.old = "loading" <=> s = "loading"),
         s = "unloaded" => Top.phase = "requires" /\ Top.old = "unloaded"
  PROVE  ModuleInv'
<1> DEFINE f == Top.file
<1>1. /\ Depth \in Nat \ {0} /\ Top = frames[Depth] /\ f \in Files
      /\ frames' \in Seq(Frame) /\ Depth' = Depth - 1
      /\ \A i \in 1..(Depth - 1) : frames'[i] = frames[i] /\ i \in 1..Depth
  BY TopFacts DEF ModuleInv, Depth, Top
<1>2. \A m \in Modules : status'[m] = IF m = f THEN s ELSE status[m]
  BY DEF module_set, ModuleInv, TypeOK
<1>3. \A v \in Vars : vstatus[v] \in Modules \/ vstatus'[v] \in Modules => vstatus'[v] = vstatus[v]
  BY HeaderAssumption DEF OwnersSame, GCONSTANT, Modules
<1>4. TypeOK'
  <2>1. status' \in [Modules -> Statuses]
    BY DEF module_set, ModuleInv, TypeOK
  <2>2. frames' \in Seq(Frame) /\ Depth' <= MaxFrames
    BY <1>1, HeaderAssumption DEF ModuleInv, TypeOK
  <2>3. \A i \in 1..Depth' : LET required == Len(Requires[frames'[i].file]) IN
          /\ frames'[i].next <= required + 1
          /\ frames'[i].phase = "body" => frames'[i].next = required + 1
    BY <1>1 DEF ModuleInv, TypeOK
  <2> QED BY <2>1, <2>2, <2>3 DEF ModuleInv, TypeOK, OwnersSame
<1>5. LoadingOnStack'
  <2> SUFFICES ASSUME NEW m \in Modules
               PROVE  status'[m] = "loading" <=> \E i \in 1..(Depth - 1) : frames[i].file = m
    BY <1>1 DEF LoadingOnStack
  <2>1. CASE m # f
    BY <2>1, <1>1, <1>2 DEF ModuleInv, LoadingOnStack
  <2>2. CASE m = f
    BY <2>2, <1>1, <1>2 DEF ModuleInv, FoundLoading
  <2> QED BY <2>1, <2>2
<1>6. OwnersThere'
  <2> SUFFICES ASSUME NEW v \in Vars, vstatus'[v] \in Modules
               PROVE  status'[vstatus[v]] # "unloaded" /\ v \in Defines[vstatus[v]]
    BY <1>3 DEF OwnersThere
  <2>1. vstatus[v] \in Modules /\ status[vstatus[v]] # "unloaded" /\ v \in Defines[vstatus[v]]
    BY <1>3 DEF ModuleInv, OwnersThere
  <2>2. vstatus[v] = f => s # "unloaded"
    BY <1>1 DEF ModuleInv, NothingYet
  <2> QED BY <2>1, <2>2, <1>2
<1>7. DefineOwned'
  <2> SUFFICES ASSUME NEW i \in 1..(Depth - 1), frames[i].phase = "body",
                      NEW v \in Defines[frames[i].file]
               PROVE  vstatus'[v] = frames[i].file
    BY <1>1 DEF DefineOwned
  <2>1. frames[i].file \in Modules /\ v \in Vars
    BY <1>1, DefinesFacts, FrameFacts DEF ModuleInv
  <2>2. vstatus[v] = frames[i].file
    BY <1>1 DEF ModuleInv, DefineOwned
  <2> QED BY <2>1, <2>2, <1>3
<1>8. FoundLoading'
  BY <1>1 DEF ModuleInv, FoundLoading
<1>9. BodyIsOutermost'
  BY <1>1 DEF ModuleInv, BodyIsOutermost
<1>10. NothingYet'
  <2> SUFFICES ASSUME NEW i \in 1..(Depth - 1), frames[i].phase = "requires",
                      frames[i].old = "unloaded", NEW v \in Vars, vstatus'[v] = frames[i].file
               PROVE  FALSE
    BY <1>1 DEF NothingYet
  <2>1. vstatus'[v] \in Modules
    BY <1>1, FrameFacts, HeaderAssumption DEF ModuleInv, OwnersSame
  <2> QED BY <2>1, <1>1, <1>3 DEF ModuleInv, NothingYet
<1> QED BY <1>4, <1>5, <1>6, <1>7, <1>8, <1>9, <1>10 DEF ModuleInv

-----------------------------------------------------------------------------
(***************************************************************************)
(* Steps that only move on in the innermost call.                          *)
(***************************************************************************)
SameCall(g, h) == g.file = h.file /\ g.phase = h.phase /\ g.old = h.old

LEMMA ChangedTop ==
  ASSUME TypeOK, frames # <<>>, NEW g \in Frame
  PROVE  /\ [frames EXCEPT ![Depth] = g] \in Seq(Frame)
         /\ Len([frames EXCEPT ![Depth] = g]) = Depth
         /\ \A i \in 1..Depth :
              [frames EXCEPT ![Depth] = g][i] = IF i = Depth THEN g ELSE frames[i]
<1>1. Depth \in 1..Depth /\ frames \in Seq(Frame) /\ Depth = Len(frames)
  BY TopFacts DEF TypeOK, Depth
<1> QED BY <1>1, ExceptSeq

LEMMA AskedFacts ==
  ASSUME TypeOK
  PROVE  /\ Asked \in Seq(Frame) /\ Len(Asked) = Depth
         /\ \A i \in 1..Depth : SameCall(Asked[i], frames[i]) /\ Asked[i].next = frames[i].next
<1>1. CASE ~(frames # <<>> /\ Top.phase = "requires")
  BY <1>1 DEF Asked, TypeOK, Depth, SameCall
<1>2. CASE frames # <<>> /\ Top.phase = "requires"
  <2> DEFINE g == [Top EXCEPT !.asked = TRUE]
  <2>1. g \in Frame /\ SameCall(g, Top) /\ g.next = Top.next
    BY <1>2, TopFacts DEF Frame, SameCall
  <2>2. Asked = [frames EXCEPT ![Depth] = g]
    BY <1>2 DEF Asked, Top
  <2>3. Top = frames[Depth]
    BY DEF Top
  <2> HIDE DEF g
  <2> QED BY <1>2, <2>1, <2>2, <2>3, ChangedTop DEF SameCall
<1> QED BY <1>1, <1>2

LEMMA MovesOn ==
  ASSUME ModuleInv, frames' \in Seq(Frame), Len(frames') = Depth,
         \A i \in 1..Depth : SameCall(frames'[i], frames[i]),
         \A i \in 1..Depth : LET required == Len(Requires[frames[i].file]) IN
           /\ frames'[i].next <= required + 1
           /\ frames'[i].phase = "body" => frames'[i].next = required + 1,
         status' = status, vstatus' = vstatus, gvar' \in [Vars -> Files \cup {NULL}],
         erred' \in BOOLEAN, unexplained' \in BOOLEAN, pc' \in {"run", "abort"}
  PROVE  ModuleInv'
<1>1. Depth' = Depth /\ Depth \in Nat
  BY FrameFacts DEF ModuleInv, Depth
<1>2. TypeOK'
  BY <1>1 DEF ModuleInv, TypeOK, SameCall
<1>3. LoadingOnStack' /\ OwnersThere' /\ DefineOwned'
  BY <1>1 DEF ModuleInv, LoadingOnStack, OwnersThere, DefineOwned, SameCall
<1>4. FoundLoading'
  BY <1>1 DEF ModuleInv, FoundLoading, SameCall
<1>5. BodyIsOutermost' /\ NothingYet'
  BY <1>1 DEF ModuleInv, BodyIsOutermost, NothingYet, SameCall
<1> QED BY <1>2, <1>3, <1>4, <1>5 DEF ModuleInv

LEMMA SameStack ==
  ASSUME ModuleInv, UNCHANGED <<frames, status, vstatus>>,
         gvar' \in [Vars -> Files \cup {NULL}],
         erred' \in BOOLEAN, unexplained' \in BOOLEAN, pc' \in {"run", "abort"}
  PROVE  ModuleInv'
<1>1. \A i \in 1..Depth : SameCall(frames'[i], frames[i])
  BY DEF SameCall
<1> QED BY <1>1, MovesOn DEF ModuleInv, TypeOK, Depth

LEMMA AskedStep ==
  ASSUME ModuleInv, frames' = Asked, UNCHANGED <<status, vstatus, gvar, unexplained, pc>>,
         erred' \in BOOLEAN
  PROVE  ModuleInv'
BY AskedFacts, MovesOn DEF ModuleInv, TypeOK, SameCall

LEMMA RequireSucceedsStep ==
  ASSUME ModuleInv, require_succeeds
  PROVE  ModuleInv'
<1> DEFINE g == [Top EXCEPT !.next = @ + 1, !.asked = FALSE]
<1>1. frames # <<>> /\ Top.phase = "requires" /\ Top.next <= Len(Requires[Top.file])
  <2>1. frames # <<>> /\ Top.phase = "requires" /\ ~(Top.next > Len(Requires[Top.file]))
    BY DEF require_succeeds, RequireDone, InRequires, AllRequired
  <2>2. Top.next \in Nat /\ Len(Requires[Top.file]) \in Nat
    BY <2>1, TopFacts, FrameFacts DEF ModuleInv, Top
  <2> QED BY <2>1, <2>2
<1>2. g \in Frame /\ SameCall(g, Top) /\ g.next = Top.next + 1
  <2> DEFINE h == [Top EXCEPT !.next = Top.next + 1]
  <2>1. Top \in Frame /\ Top.next + 1 \in Nat \ {0}
    BY <1>1, TopFacts DEF ModuleInv, Frame
  <2>2. h \in Frame /\ SameCall(h, Top) /\ h.next = Top.next + 1
    BY <2>1 DEF Frame, SameCall
  <2>3. g = [h EXCEPT !.asked = FALSE]
    BY <2>1 DEF Frame
  <2> HIDE DEF h
  <2> QED BY <2>2, <2>3 DEF Frame, SameCall
<1>3. frames' = [frames EXCEPT ![Depth] = g] /\ Top = frames[Depth]
  BY <1>1, TopFacts DEF require_succeeds, Top, ModuleInv, Frame
<1> HIDE DEF g
<1>4. /\ frames' \in Seq(Frame) /\ Len(frames') = Depth
      /\ \A i \in 1..Depth : frames'[i] = IF i = Depth THEN g ELSE frames[i]
  BY <1>1, <1>2, <1>3, ChangedTop DEF ModuleInv
<1>5. \A i \in 1..Depth : SameCall(frames'[i], frames[i])
  BY <1>2, <1>3, <1>4 DEF SameCall
<1>6. \A i \in 1..Depth : LET required == Len(Requires[frames[i].file]) IN
        /\ frames'[i].next <= required + 1
        /\ frames'[i].phase = "body" => frames'[i].next = required + 1
  BY <1>1, <1>2, <1>3, <1>4, FrameFacts DEF ModuleInv, TypeOK, SameCall
<1> QED BY <1>4, <1>5, <1>6, MovesOn DEF ModuleInv, TypeOK, require_succeeds

-----------------------------------------------------------------------------
(***************************************************************************)
(* interpret() begins.                                                     *)
(***************************************************************************)
LEMMA StartStep ==
  ASSUME ModuleInv, NEW f \in Files, interpret_starts(f)
  PROVE  ModuleInv'
<1> DEFINE old == IF f \in Modules THEN status[f] ELSE "unloaded"
           g == [file |-> f, phase |-> "requires", next |-> 1, asked |-> FALSE, old |-> old]
<1>1. g \in Frame /\ old \in Statuses
  BY DEF Frame, ModuleInv, TypeOK, Statuses
<1>2. /\ Depth' = Depth + 1 /\ Depth \in Nat /\ frames' \in Seq(Frame)
      /\ frames'[Depth + 1] = g
      /\ \A i \in 1..Depth : SameCall(frames'[i], frames[i]) /\ frames'[i].next = frames[i].next
  <2>1. frames' = Append(Asked, g) /\ g \in Frame
    BY <1>1 DEF interpret_starts
  <2>2. /\ Asked \in Seq(Frame) /\ Len(Asked) = Depth
        /\ \A i \in 1..Depth : SameCall(Asked[i], frames[i]) /\ Asked[i].next = frames[i].next
    BY AskedFacts DEF ModuleInv
  <2> HIDE DEF g
  <2>3. /\ frames' \in Seq(Frame) /\ Len(frames') = Depth + 1
        /\ \A i \in 1..Depth : frames'[i] = Asked[i]
        /\ frames'[Depth + 1] = g
    BY <2>1, <2>2, AppendProperties
  <2>4. Depth \in Nat
    BY FrameFacts DEF ModuleInv
  <2> QED BY <2>2, <2>3, <2>4 DEF Depth
<1>3. /\ \A m \in Modules : status'[m] = IF m = f THEN "loading" ELSE status[m]
      /\ f \in Modules => status[f] # "protected"
      /\ vstatus' = vstatus
  BY DEF interpret_starts, module_set, ModuleInv, TypeOK, Refuses
<1>4. TypeOK'
  <2>1. status' \in [Modules -> Statuses]
    BY DEF interpret_starts, module_set, ModuleInv, TypeOK, Statuses
  <2>2. Depth' <= MaxFrames
    BY <1>2, HeaderAssumption DEF interpret_starts
  <2>3. \A i \in 1..Depth' : LET required == Len(Requires[frames'[i].file]) IN
          /\ frames'[i].next <= required + 1
          /\ frames'[i].phase = "body" => frames'[i].next = required + 1
    <3> SUFFICES ASSUME NEW i \in 1..(Depth + 1)
                 PROVE  LET required == Len(Requires[frames'[i].file]) IN
                          /\ frames'[i].next <= required + 1
                          /\ frames'[i].phase = "body" => frames'[i].next = required + 1
      BY <1>2
    <3>1. CASE i = Depth + 1
      <4>1. Len(Requires[f]) \in Nat
        BY HeaderAssumption, LenProperties
      <4> QED BY <3>1, <4>1, <1>2
    <3>2. CASE i \in 1..Depth
      BY <3>2, <1>2 DEF ModuleInv, TypeOK, SameCall
    <3> QED BY <3>1, <3>2, <1>2
  <2> QED BY <1>2, <2>1, <2>2, <2>3 DEF ModuleInv, TypeOK, interpret_starts
<1>5. LoadingOnStack'
  <2> SUFFICES ASSUME NEW m \in Modules
               PROVE  status'[m] = "loading" <=> \E i \in 1..(Depth + 1) : frames'[i].file = m
    BY <1>2 DEF LoadingOnStack
  <2>1. CASE m = f
    BY <2>1, <1>2, <1>3
  <2>2. CASE m # f
    BY <2>2, <1>2, <1>3 DEF ModuleInv, LoadingOnStack, SameCall
  <2> QED BY <2>1, <2>2
<1>6. OwnersThere'
  BY <1>3 DEF ModuleInv, OwnersThere
<1>7. DefineOwned'
  BY <1>2, <1>3 DEF ModuleInv, DefineOwned, SameCall
<1>8. FoundLoading'
  <2> SUFFICES ASSUME NEW i \in 1..(Depth + 1), frames'[i].file \in Modules
               PROVE  frames'[i].old = "loading" <=>
                        \E j \in 1..(i - 1) : frames'[j].file = frames'[i].file
    BY <1>2 DEF FoundLoading
  <2>1. CASE i = Depth + 1
    BY <2>1, <1>2 DEF ModuleInv, LoadingOnStack, SameCall
  <2>2. CASE i \in 1..Depth
    BY <2>2, <1>2 DEF ModuleInv, FoundLoading, SameCall
  <2> QED BY <2>1, <2>2, <1>2
<1>9. BodyIsOutermost'
  BY <1>2 DEF ModuleInv, BodyIsOutermost, SameCall
<1>10. NothingYet'
  <2> SUFFICES ASSUME NEW i \in 1..(Depth + 1), frames'[i].phase = "requires",
                      frames'[i].old = "unloaded", NEW v \in Vars
               PROVE  vstatus[v] # frames'[i].file
    BY <1>2, <1>3 DEF NothingYet
  <2>1. CASE i = Depth + 1
    <3>1. CASE f \in Modules
      BY <2>1, <3>1, <1>2 DEF ModuleInv, OwnersThere
    <3>2. CASE f \notin Modules
      BY <2>1, <3>2, <1>2, HeaderAssumption DEF ModuleInv, TypeOK
    <3> QED BY <3>1, <3>2
  <2>2. CASE i \in 1..Depth
    BY <2>2, <1>2 DEF ModuleInv, NothingYet, SameCall
  <2> QED BY <2>1, <2>2, <1>2
<1> QED BY <1>4, <1>5, <1>6, <1>7, <1>8, <1>9, <1>10 DEF ModuleInv

(***************************************************************************)
(* The header applies and the body begins.                                 *)
(***************************************************************************)
LEMMA NoConflict ==
  ASSUME ModuleInv, run_body
  PROVE  /\ \A v \in Defines[Top.file] : vstatus[v] = Top.file \/ ~GCONSTANT(v)
         /\ Top.file \in Modules => CanUnload(Top.old)
         /\ frames # <<>> /\ Top.phase = "requires"
         /\ Top.next = Len(Requires[Top.file]) + 1
<1>1. /\ frames # <<>> /\ Top.phase = "requires" /\ Top.next > Len(Requires[Top.file])
      /\ \A v \in Defines[Top.file] : MayDefine(Top.file, v)
      /\ Top.file \in Plain \/ CanUnload(Top.old)
  BY DEF run_body, Proceeds, Ready, InRequires, AllRequired, Conflict
<1>2. Top.next <= Len(Requires[Top.file]) + 1 /\ Top.next \in Nat /\ Len(Requires[Top.file]) \in Nat
  BY <1>1, TopFacts, FrameFacts DEF ModuleInv, TypeOK, Top
<1> QED BY <1>1, <1>2 DEF MayDefine, Modules

LEMMA PrerunFacts ==
  ASSUME ModuleInv, run_body
  PROVE  /\ vstatus' \in [Vars -> Modules \cup {"normal", "write", "system_write"}]
         /\ \A v \in Vars :
              /\ v \in Defines[Top.file] => vstatus'[v] = Top.file
              /\ vstatus'[v] \in Modules /\ v \notin Defines[Top.file] => vstatus'[v] = vstatus[v]
              /\ vstatus[v] \in Modules \ {Top.file} => vstatus'[v] = vstatus[v]
<1>1. frames # <<>> /\ Top.file \in Files
  BY NoConflict, TopFacts DEF ModuleInv
<1>2. \A v \in Defines[Top.file] : Top.file \in Modules /\ v \in Vars
  BY <1>1, DefinesFacts
<1>3. vstatus' = Prerun(Top.file) /\ vstatus \in [Vars -> Modules \cup {"normal", "write", "system_write"}]
  BY DEF run_body, ModuleInv, TypeOK
<1>4. \A v \in Vars : vstatus'[v] =
        IF v \in Defines[Top.file] THEN Top.file
        ELSE IF v \in Released(Top.file) THEN "normal"
        ELSE IF v \in Writes[Top.file] /\ ~GCONSTANT(v) THEN "write" ELSE vstatus[v]
  BY <1>3 DEF Prerun, Writable
<1>5. \A v \in Released(Top.file) : vstatus[v] = Top.file
  BY DEF Released, Owned
<1>6. vstatus' \in [Vars -> Modules \cup {"normal", "write", "system_write"}]
  <2>1. vstatus' = [v \in Vars |-> vstatus'[v]]
    BY <1>3 DEF Prerun
  <2>2. \A v \in Vars : vstatus'[v] \in Modules \cup {"normal", "write", "system_write"}
    BY <1>2, <1>3, <1>4
  <2> QED BY <2>1, <2>2
<1>7. \A v \in Vars : vstatus'[v] \in Modules /\ v \notin Defines[Top.file] => vstatus'[v] = vstatus[v]
  BY <1>4, HeaderAssumption DEF Modules
<1>8. \A v \in Vars : vstatus[v] \in Modules \ {Top.file} => vstatus'[v] = vstatus[v]
  BY <1>4, <1>5, NoConflict DEF GCONSTANT
<1> QED BY <1>4, <1>6, <1>7, <1>8

LEMMA RunBodyStep ==
  ASSUME ModuleInv, run_body
  PROVE  ModuleInv'
<1> DEFINE f == Top.file
           g == [Top EXCEPT !.phase = "body"]
<1>1. /\ frames # <<>> /\ Top = frames[Depth] /\ Top.phase = "requires"
      /\ f \in Files /\ Depth \in Nat \ {0}
      /\ f \in Modules => CanUnload(Top.old)
      /\ Top.next = Len(Requires[f]) + 1
  BY NoConflict, TopFacts DEF ModuleInv, Top
<1>2. /\ g \in Frame /\ g.file = f /\ g.old = Top.old /\ g.next = Top.next /\ g.phase = "body"
      /\ frames' = [frames EXCEPT ![Depth] = g]
  BY <1>1, TopFacts DEF ModuleInv, Frame, run_body, Top
<1> HIDE DEF g
<1>3. /\ frames' \in Seq(Frame) /\ Depth' = Depth
      /\ frames'[Depth] = g
      /\ \A i \in 1..(Depth - 1) : frames'[i] = frames[i]
      /\ \A i \in 1..Depth : frames'[i].file = frames[i].file /\ frames'[i].old = frames[i].old
                             /\ frames'[i].next = frames[i].next
  <2>1. /\ frames' \in Seq(Frame) /\ Len(frames') = Depth
        /\ \A i \in 1..Depth : frames'[i] = IF i = Depth THEN g ELSE frames[i]
    BY <1>1, <1>2, ChangedTop DEF ModuleInv
  <2>2. Depth' = Depth
    BY <2>1 DEF Depth
  <2> QED BY <2>1, <2>2, <1>1, <1>2
\* No other call is loading this module: such a call would have found it loading.
<1>4. f \in Modules => status[f] = "loading" /\ \A i \in 1..(Depth - 1) : frames[i].file # f
  BY <1>1 DEF ModuleInv, FoundLoading, LoadingOnStack, CanUnload
<1>5. status' = status
  BY <1>4 DEF run_body, module_set, ModuleInv, TypeOK
<1>6. TypeOK'
  <2>1. \A i \in 1..Depth' : LET required == Len(Requires[frames'[i].file]) IN
          /\ frames'[i].next <= required + 1
          /\ frames'[i].phase = "body" => frames'[i].next = required + 1
    BY <1>1, <1>2, <1>3 DEF ModuleInv, TypeOK
  <2>2. gvar' \in [Vars -> Files \cup {NULL}]
    BY DEF run_body, ModuleInv, TypeOK
  <2> QED BY <2>1, <2>2, <1>3, <1>5, PrerunFacts DEF ModuleInv, TypeOK, run_body
<1>7. LoadingOnStack'
  BY <1>3, <1>5 DEF ModuleInv, LoadingOnStack
<1>8. OwnersThere'
  <2> SUFFICES ASSUME NEW v \in Vars, vstatus'[v] \in Modules
               PROVE  status[vstatus'[v]] # "unloaded" /\ v \in Defines[vstatus'[v]]
    BY <1>5 DEF OwnersThere
  <2>1. CASE v \in Defines[f]
    BY <2>1, PrerunFacts, <1>4
  <2>2. CASE v \notin Defines[f]
    BY <2>2, PrerunFacts DEF ModuleInv, OwnersThere
  <2> QED BY <2>1, <2>2
<1>9. DefineOwned'
  <2> SUFFICES ASSUME NEW i \in 1..Depth, frames'[i].phase = "body",
                      NEW v \in Defines[frames[i].file]
               PROVE  vstatus'[v] = frames[i].file
    BY <1>3 DEF DefineOwned
  <2>1. frames[i].file \in Modules /\ v \in Vars
    BY DefinesFacts, FrameFacts DEF ModuleInv
  <2>2. CASE i = Depth
    BY <2>1, <2>2, <1>1, PrerunFacts
  <2>3. CASE i # Depth
    <3>1. vstatus[v] = frames[i].file /\ frames[i].file # f
      BY <2>1, <2>3, <1>1, <1>3, <1>4 DEF ModuleInv, DefineOwned
    <3> QED BY <3>1, <2>1, PrerunFacts
  <2> QED BY <2>2, <2>3
<1>10. FoundLoading'
  BY <1>1, <1>3 DEF ModuleInv, FoundLoading
<1>11. BodyIsOutermost'
  BY <1>1, <1>2, <1>3 DEF ModuleInv, BodyIsOutermost
<1>12. NothingYet'
  <2> SUFFICES ASSUME NEW i \in 1..Depth, frames'[i].phase = "requires",
                      frames'[i].old = "unloaded", NEW v \in Vars,
                      vstatus'[v] = frames'[i].file
               PROVE  FALSE
    BY <1>3 DEF NothingYet
  <2>1. i \in 1..(Depth - 1) /\ frames'[i] = frames[i] /\ frames[i].file \in Files
    BY <1>1, <1>2, <1>3, FrameFacts DEF ModuleInv
  <2>2. frames[i].file \in Modules
    BY <2>1, PrerunFacts, HeaderAssumption
  <2>3. frames[i].file # f
    BY <2>1, <2>2, <1>4
  <2>4. vstatus'[v] = vstatus[v]
    BY <2>1, <2>2, <2>3, PrerunFacts
  <2> QED BY <2>1, <2>4, <1>1 DEF ModuleInv, NothingYet
<1> QED BY <1>6, <1>7, <1>8, <1>9, <1>10, <1>11, <1>12 DEF ModuleInv

-----------------------------------------------------------------------------
(***************************************************************************)
(* What a body does.                                                       *)
(***************************************************************************)
LEMMA UnloadStep ==
  ASSUME ModuleInv, NEW m \in Modules, module_unload(m)
  PROVE  ModuleInv'
<1>1. /\ status[m] # "loading"
      /\ status' = [status EXCEPT ![m] = "unloaded"]
      /\ \A v \in Vars : vstatus'[v] = IF vstatus[v] = m THEN "normal" ELSE vstatus[v]
      /\ UNCHANGED <<frames, erred, unexplained, pc>>
  BY DEF module_unload, module_set, CanUnload, Owned
<1>2. Depth' = Depth /\ \A i \in 1..Depth : frames[i].file # m
  BY <1>1 DEF ModuleInv, LoadingOnStack, Depth
<1>3. TypeOK'
  <2>1. vstatus' \in [Vars -> Modules \cup {"normal", "write", "system_write"}]
    BY DEF ModuleInv, TypeOK, module_unload
  <2>2. gvar' \in [Vars -> Files \cup {NULL}]
    BY DEF ModuleInv, TypeOK, module_unload
  <2> QED BY <1>1, <1>2, <2>1, <2>2 DEF ModuleInv, TypeOK, Statuses
<1>4. LoadingOnStack'
  BY <1>1, <1>2 DEF ModuleInv, LoadingOnStack, TypeOK
<1>5. OwnersThere'
  BY <1>1, HeaderAssumption DEF ModuleInv, OwnersThere, TypeOK, Modules
<1>6. DefineOwned'
  <2> SUFFICES ASSUME NEW i \in 1..Depth, frames[i].phase = "body",
                      NEW v \in Defines[frames[i].file]
               PROVE  vstatus'[v] = frames[i].file
    BY <1>1, <1>2 DEF DefineOwned
  <2>1. v \in Vars
    BY DefinesFacts, FrameFacts DEF ModuleInv
  <2> QED BY <2>1, <1>1, <1>2 DEF ModuleInv, DefineOwned
<1>7. FoundLoading' /\ BodyIsOutermost'
  BY <1>1, <1>2 DEF ModuleInv, FoundLoading, BodyIsOutermost
<1>8. NothingYet'
  <2>1. \A i \in 1..Depth : frames[i].file # "normal"
    BY FrameFacts, HeaderAssumption DEF ModuleInv
  <2> QED BY <1>1, <1>2, <2>1 DEF ModuleInv, NothingYet
<1> QED BY <1>3, <1>4, <1>5, <1>6, <1>7, <1>8 DEF ModuleInv

LEMMA ProtectStep ==
  ASSUME ModuleInv, protect_compiler_libs
  PROVE  ModuleInv'
<1>1. /\ \A m \in Modules : status'[m] = IF status[m] = "loaded" THEN "protected" ELSE status[m]
      /\ status' \in [Modules -> Statuses]
      /\ UNCHANGED <<vstatus, gvar, frames, erred, unexplained, pc, Depth>>
  BY DEF protect_compiler_libs, ModuleInv, TypeOK, Statuses, Depth
<1>2. TypeOK'
  BY <1>1 DEF ModuleInv, TypeOK
<1>3. LoadingOnStack' /\ OwnersThere'
  BY <1>1 DEF ModuleInv, LoadingOnStack, OwnersThere
<1>4. DefineOwned' /\ FoundLoading' /\ BodyIsOutermost' /\ NothingYet'
  BY <1>1 DEF ModuleInv, DefineOwned, FoundLoading, BodyIsOutermost, NothingYet
<1> QED BY <1>2, <1>3, <1>4 DEF ModuleInv

LEMMA AssignStep ==
  ASSUME ModuleInv, NEW v \in Vars, define(v) \/ assign(v)
  PROVE  ModuleInv'
<1>1. Top.file \in Files
  BY TopFacts DEF ModuleInv, define, assign, InBody
<1>2. gvar' \in [Vars -> Files \cup {NULL}]
  BY <1>1 DEF define, assign, ModuleInv, TypeOK
<1> QED BY <1>2, SameStack DEF define, assign, ModuleInv, TypeOK

LEMMA BodyEndsStep ==
  ASSUME ModuleInv, NEW s \in {"loaded", "error"}, body_ends(s)
  PROVE  ModuleInv'
<1>1. frames # <<>> /\ Top.phase = "body" /\ Top = frames[Depth] /\ Depth \in 1..Depth
  BY TopFacts DEF body_ends, InBody, ModuleInv, Top
<1>2. Top.file \in Modules => Top.old # "loading"
  BY <1>1 DEF ModuleInv, BodyIsOutermost, CanUnload
<1> QED BY <1>1, <1>2, SameOwners, ReturnStep DEF body_ends, ModuleInv, TypeOK, Statuses

(***************************************************************************)
(* mstart(), compile_code() or a required module fails.                    *)
(***************************************************************************)
LEMMA FailStep ==
  ASSUME ModuleInv, require_fails \/ mstart_fails \/ compile_fails
  PROVE  ModuleInv'
<1>1. frames # <<>> /\ Top.phase = "requires" /\ Top.old \in Statuses
  BY TopFacts DEF require_fails, mstart_fails, compile_fails, RequireDone, Ready, Proceeds,
                  InRequires, ModuleInv, Frame
<1>2. CASE require_fails
  BY <1>1, <1>2, SameOwners, ReturnStep DEF require_fails, ModuleInv, TypeOK
<1>3. CASE mstart_fails
  <2> DEFINE s == IF Top.old = "unloaded" THEN "error" ELSE Top.old
  <2>1. /\ module_set(Top.file, s) /\ frames' = Popped
        /\ UNCHANGED <<vstatus, gvar, pc>> /\ erred' \in BOOLEAN /\ unexplained' \in BOOLEAN
    BY <1>3 DEF mstart_fails, ModuleInv, TypeOK
  <2>2. s \in Statuses /\ (Top.old = "loading" <=> s = "loading") /\ s # "unloaded"
    BY <1>1 DEF Statuses
  <2> HIDE DEF s
  <2> QED BY <1>1, <2>1, <2>2, SameOwners, ReturnStep DEF ModuleInv
<1>4. CASE compile_fails
  <2>1. PICK S \in SUBSET Writes[Top.file] : vstatus' = Writable(S)
    BY <1>4 DEF compile_fails
  <2>2. OwnersSame
    BY <2>1, WritableFacts DEF ModuleInv
  <2> QED BY <1>1, <1>4, <2>2, ReturnStep DEF compile_fails, ModuleInv, TypeOK
<1> QED BY <1>2, <1>3, <1>4

-----------------------------------------------------------------------------
LEMMA ModuleInit == Init => ModuleInv
<1> SUFFICES ASSUME Init PROVE ModuleInv
  OBVIOUS
<1>1. Depth = 0 /\ frames \in Seq(Frame)
  BY EmptySeq DEF Init, Depth
<1>2. TypeOK
  <2>1. status \in [Modules -> Statuses] /\ gvar \in [Vars -> Files \cup {NULL}]
    BY DEF Init, Statuses
  <2>2. vstatus \in [Vars -> Modules \cup {"normal", "write", "system_write"}]
    BY DEF Init
  <2>3. erred \in BOOLEAN /\ unexplained \in BOOLEAN /\ pc \in {"run", "abort"}
    BY DEF Init
  <2>4. 0 <= MaxFrames
    BY HeaderAssumption
  <2>5. 1..Depth = {}
    BY <1>1
  <2> QED BY <1>1, <2>1, <2>2, <2>3, <2>4, <2>5 DEF TypeOK
<1>3. LoadingOnStack /\ OwnersThere
  BY <1>1, HeaderAssumption DEF Init, LoadingOnStack, OwnersThere, Modules
<1>4. DefineOwned /\ FoundLoading /\ BodyIsOutermost /\ NothingYet
  BY <1>1 DEF DefineOwned, FoundLoading, BodyIsOutermost, NothingYet
<1> QED BY <1>2, <1>3, <1>4 DEF ModuleInv

LEMMA ModuleStep == ModuleInv /\ [Next]_vars => ModuleInv'
<1> SUFFICES ASSUME ModuleInv, [Next]_vars PROVE ModuleInv'
  OBVIOUS
<1>1. CASE UNCHANGED vars
  BY <1>1, SameStack DEF vars, ModuleInv, TypeOK
<1>2. ASSUME NEW f \in Files, interpret_starts(f) PROVE ModuleInv'
  BY <1>2, StartStep
<1>3. ASSUME NEW f \in Files, interpret_rejects(f) PROVE ModuleInv'
  BY <1>3, AskedStep DEF interpret_rejects
<1>4. CASE library_missing
  BY <1>4, AskedStep DEF library_missing, ModuleInv, TypeOK
<1>5. CASE require_succeeds
  BY <1>5, RequireSucceedsStep
<1>6. CASE require_fails \/ mstart_fails \/ compile_fails
  BY <1>6, FailStep
<1>7. CASE mprerun_aborts
  BY <1>7, SameStack DEF mprerun_aborts, ModuleInv, TypeOK
<1>8. CASE run_body
  BY <1>8, RunBodyStep
<1>9. ASSUME NEW v \in Vars, define(v) \/ assign(v) PROVE ModuleInv'
  BY <1>9, AssignStep
<1>10. ASSUME NEW m \in Modules, module_unload(m) PROVE ModuleInv'
  BY <1>10, UnloadStep
<1>11. CASE protect_compiler_libs
  BY <1>11, ProtectStep
<1>12. ASSUME NEW s \in {"loaded", "error"}, body_ends(s) PROVE ModuleInv'
  BY <1>12, BodyEndsStep
<1>13. CASE Load
  BY <1>2, <1>3, <1>13 DEF Load
<1>14. CASE Body
  BY <1>9, <1>10, <1>11, <1>12, <1>14 DEF Body
<1> QED BY <1>1, <1>4, <1>5, <1>6, <1>7, <1>8, <1>13, <1>14 DEF Next, Header

\* interpret() keeps its records: every variable has its type, a module is
\* marked as loading exactly while a call loads it, and variables belong to
\* modules that are there and define them (compile.c:1108-1150, mcompile.c:125-290).
THEOREM ModuleSafety == Spec => [](TypeOK /\ OwnerActive)
<1>1. ModuleInv => TypeOK /\ OwnerActive
  BY DEF ModuleInv, OwnerActive
<1> QED BY <1>1, ModuleInit, ModuleStep, PTL DEF Spec

\* What the header of a library defines is its own while its body runs
\* (interpret.c:661, which checks nothing).
THEOREM DefineSafety == Spec => []DefineOwned
<1>1. ModuleInv => DefineOwned
  BY DEF ModuleInv
<1> QED BY <1>1, ModuleInit, ModuleStep, PTL DEF Spec

-----------------------------------------------------------------------------
(***************************************************************************)
(* What is compiled into code stays.  No call loads a protected module, as *)
(* it would be marked as loading.                                          *)
(***************************************************************************)
Keeps == KeepsSettled /\ KeepsProtected

LEMMA LoadingNotProtected ==
  ASSUME ModuleInv, frames # <<>>, Top.file \in Modules
  PROVE  status[Top.file] = "loading"
<1>1. Depth \in 1..Depth /\ Top = frames[Depth]
  BY TopFacts DEF ModuleInv, Top
<1> QED BY <1>1 DEF ModuleInv, LoadingOnStack

\* A step that neither reassigns nor gives away what modules own.
LEMMA KeepsOwned ==
  ASSUME ModuleInv, \A v \in Vars : vstatus[v] \in Modules => vstatus'[v] = vstatus[v]
                                                           /\ gvar'[v] = gvar[v],
         \A m \in Modules : status[m] = "protected" => status'[m] = "protected"
  PROVE  Keeps
BY DEF Keeps, KeepsSettled, KeepsProtected, Untouched, Owned

LEMMA KeepsOnReturn ==
  ASSUME ModuleInv, frames # <<>>, NEW s, module_set(Top.file, s), OwnersSame, gvar' = gvar
  PROVE  Keeps
<1>1. \A m \in Modules : status[m] = "protected" => status'[m] = "protected"
  BY LoadingNotProtected DEF module_set, ModuleInv, TypeOK
<1>2. \A v \in Vars : vstatus[v] \in Modules => vstatus'[v] = vstatus[v] /\ gvar'[v] = gvar[v]
  BY DEF OwnersSame, GCONSTANT
<1> QED BY <1>1, <1>2, KeepsOwned

LEMMA KeepsOnStart ==
  ASSUME ModuleInv, NEW f \in Files, interpret_starts(f)
  PROVE  Keeps
BY KeepsOwned DEF interpret_starts, module_set, Refuses, ModuleInv, TypeOK

LEMMA KeepsOnRun ==
  ASSUME ModuleInv, run_body
  PROVE  Keeps
<1> DEFINE f == Top.file
<1>1. frames # <<>> /\ f \in Files /\ Depth \in 1..Depth /\ Top = frames[Depth]
  BY NoConflict, TopFacts DEF ModuleInv, Top
<1>2. status' = status
  BY <1>1, LoadingNotProtected DEF run_body, module_set, ModuleInv, TypeOK
<1>3. \A v \in Vars : vstatus[v] \in Modules \ {f} => vstatus'[v] = vstatus[v] /\ gvar'[v] = gvar[v]
  BY PrerunFacts DEF run_body, Released, Owned
<1>4. \A m \in Modules : m = f => BodyRuns(m)'
  <2>1. frames' = [frames EXCEPT ![Depth] = [Top EXCEPT !.phase = "body"]]
    BY <1>1 DEF run_body
  <2>2. [Top EXCEPT !.phase = "body"] \in Frame /\ [Top EXCEPT !.phase = "body"].phase = "body"
        /\ [Top EXCEPT !.phase = "body"].file = f
    BY <1>1, TopFacts DEF ModuleInv, Frame
  <2>3. Depth' = Depth /\ frames'[Depth].phase = "body" /\ frames'[Depth].file = f
    BY <1>1, <2>1, <2>2, ChangedTop DEF ModuleInv, Depth
  <2> QED BY <1>1, <2>3 DEF BodyRuns
<1>5. KeepsSettled
  BY <1>3, <1>4 DEF KeepsSettled, Settled, Untouched, Owned
<1>6. KeepsProtected
  BY <1>1, <1>2, <1>3, LoadingNotProtected DEF KeepsProtected, Untouched, Owned
<1> QED BY <1>5, <1>6 DEF Keeps

LEMMA KeepsOnUnload ==
  ASSUME ModuleInv, NEW m \in Modules, module_unload(m)
  PROVE  Keeps
<1>1. /\ status[m] # "protected" /\ status' = [status EXCEPT ![m] = "unloaded"]
      /\ \A v \in Vars : vstatus[v] # m => vstatus'[v] = vstatus[v] /\ gvar'[v] = gvar[v]
  BY DEF module_unload, module_set, CanUnload, Owned
<1>2. status'[m] = "unloaded" /\ \A n \in Modules \ {m} : status'[n] = status[n]
  BY <1>1 DEF ModuleInv, TypeOK
<1>3. \A n \in Modules \ {m} : Untouched(n)
  BY <1>1 DEF Untouched, Owned
<1> QED BY <1>1, <1>2, <1>3 DEF Keeps, KeepsSettled, KeepsProtected, Settled

LEMMA KeepsOnDefine ==
  ASSUME ModuleInv, NEW v \in Vars, define(v)
  PROVE  Keeps
<1>1. /\ frames # <<>> /\ Top.phase = "body" /\ v \in Defines[Top.file]
      /\ UNCHANGED <<status, vstatus, frames>>
      /\ gvar' = [gvar EXCEPT ![v] = Top.file]
  BY DEF define, InBody
<1>2. Top.file \in Modules /\ Depth \in 1..Depth /\ Top = frames[Depth]
  BY <1>1, TopFacts, DefinesFacts DEF ModuleInv, Top
<1>3. vstatus[v] = Top.file /\ BodyRuns(Top.file)
  BY <1>1, <1>2 DEF ModuleInv, DefineOwned, BodyRuns
<1>4. \A m \in Modules \ {Top.file} : Untouched(m)
  BY <1>1, <1>3 DEF Untouched, Owned, ModuleInv, TypeOK
<1>5. status[Top.file] = "loading"
  BY <1>1, <1>2, LoadingNotProtected
<1> QED BY <1>1, <1>2, <1>3, <1>4, <1>5 DEF Keeps, KeepsSettled, KeepsProtected, Settled

LEMMA KeepsOnAssign ==
  ASSUME ModuleInv, NEW v \in Vars, assign(v)
  PROVE  Keeps
BY KeepsOwned DEF assign, check_global_write, GCONSTANT, ModuleInv, TypeOK

LEMMA KeepsStep == ModuleInv /\ [Next]_vars => [Keeps]_vars
<1> SUFFICES ASSUME ModuleInv, Next PROVE Keeps
  OBVIOUS
<1>1. ASSUME NEW f \in Files, interpret_starts(f) PROVE Keeps
  BY <1>1, KeepsOnStart
<1>2. ASSUME NEW f \in Files, interpret_rejects(f) PROVE Keeps
  BY <1>2, KeepsOwned DEF interpret_rejects
<1>3. CASE library_missing \/ require_succeeds \/ mprerun_aborts
  BY <1>3, KeepsOwned DEF library_missing, require_succeeds, mprerun_aborts
<1>4. CASE require_fails \/ mstart_fails
  BY <1>4, KeepsOnReturn, SameOwners
     DEF require_fails, mstart_fails, RequireDone, Ready, InRequires, ModuleInv
<1>5. CASE compile_fails
  <2>1. PICK S \in SUBSET Writes[Top.file] : vstatus' = Writable(S)
    BY <1>5 DEF compile_fails
  <2>2. OwnersSame
    BY <2>1, WritableFacts DEF ModuleInv
  <2> QED BY <1>5, <2>2, KeepsOnReturn DEF compile_fails, Proceeds, Ready, InRequires
<1>6. CASE run_body
  BY <1>6, KeepsOnRun
<1>7. ASSUME NEW v \in Vars, define(v) \/ assign(v) PROVE Keeps
  BY <1>7, KeepsOnDefine, KeepsOnAssign
<1>8. ASSUME NEW m \in Modules, module_unload(m) PROVE Keeps
  BY <1>8, KeepsOnUnload
<1>9. CASE protect_compiler_libs
  BY <1>9, KeepsOwned DEF protect_compiler_libs, ModuleInv, TypeOK
<1>10. ASSUME NEW s \in {"loaded", "error"}, body_ends(s) PROVE Keeps
  BY <1>10, KeepsOnReturn, SameOwners DEF body_ends, InBody, ModuleInv
<1>11. CASE Load
  BY <1>1, <1>2, <1>11 DEF Load
<1>12. CASE Body
  BY <1>7, <1>8, <1>9, <1>10, <1>12 DEF Body
<1> QED BY <1>3, <1>4, <1>5, <1>6, <1>11, <1>12 DEF Next, Header

\* What a library defines never changes under the code that was compiled with
\* it: from the end of its body to its next load, and for good once it is
\* protected (mcompile.c:135-290, 349-360).
THEOREM ConstantsSafety == Spec => ConstantsKept
<1>1. [Keeps]_vars => [KeepsSettled /\ KeepsProtected]_vars
  BY DEF Keeps
<1> QED BY <1>1, ModuleInit, ModuleStep, KeepsStep, PTL DEF Spec, ConstantsKept
=============================================================================
