--------------------------- MODULE RuntimeProofs ----------------------------
(***************************************************************************)
(* Proofs about what watches over a program as it runs: LoopCount, for a   *)
(* word of any width; Profile, for any number of profiles and nested       *)
(* calls; and CallTrace, for any calls, catches, errors and observers.     *)
(***************************************************************************)
EXTENDS LoopCount, Profile, CallTrace, Loops, FiniteSetTheorems, SequenceTheorems, TLAPS

(***************************************************************************)
(* The parts of the word.                                                  *)
(***************************************************************************)
F == XCOUNT_PROFILE_FLAG
Word == 0..(2 * F - 1)
Count == 0..(F - 1)

LEMMA FlagFacts ==
  /\ F \in Nat /\ F >= 4 /\ MAX_TAGGED_INT \in Nat
  /\ 2 * MAX_TAGGED_INT + 2 = F /\ MAX_LOOP_COUNT \in 1..MAX_TAGGED_INT
BY LoopAssumption DEF F, MAX_TAGGED_INT

LEMMA ModFlag ==
  ASSUME NEW w \in Word
  PROVE  w % F = IF w < F THEN w ELSE w - F
<1>1. F \in Nat /\ F >= 4
  BY FlagFacts
<1>2. w \in Nat /\ w < 2 * F
  BY <1>1 DEF Word
<1> HIDE DEF F
<1> QED BY <1>1, <1>2

LEMMA CountFacts ==
  ASSUME NEW w \in Word
  PROVE  /\ get_xcount(w) \in Count
         /\ get_xcount(w) = IF w < F THEN w ELSE w - F
         /\ Flag(w) = IF w < F THEN 0 ELSE F
<1> QED BY ModFlag, FlagFacts DEF get_xcount, Flag, Word, Count, F

LEMMA SetFacts ==
  ASSUME NEW w \in Word, NEW v \in Count
  PROVE  set_xcount(w, v) \in Word /\ get_xcount(set_xcount(w, v)) = v
<1>1. v % F = v
  BY ModFlag, FlagFacts DEF Word, Count
<1>2. set_xcount(w, v) = (IF w < F THEN 0 ELSE F) + v
  BY <1>1, CountFacts DEF set_xcount, F
<1>3. set_xcount(w, v) \in Word
  BY <1>2, FlagFacts DEF Word, Count
<1> QED BY <1>2, <1>3, CountFacts, FlagFacts DEF Word, Count

LEMMA ReserveFacts ==
  ASSUME NEW n \in Nat
  PROVE  Reserve(n) \in 0..n
<1>1. n \div ReserveShare \in Nat
  BY LoopAssumption
<1> QED BY <1>1, LoopAssumption DEF Reserve, Smaller

(***************************************************************************)
(* The inductive invariant.  Each frame knows of the one below it: inside  *)
(* with_unlimited_execution() the limit is not in force, and a session     *)
(* around another one stays within its limit with the count that the inner *)
(* one saved for it.  The count that C code has read is one that the       *)
(* session could go on with, so that it may be written back whatever a     *)
(* signal has written meanwhile.                                           *)
(***************************************************************************)
Counting == [kind : {"session", "unlimited"}, old : Count, aside : Nat, session : Nat]
Trapping == [kind : {"trap_error"}, saved : Count, aside : Nat, session : Nat]
CountCalls == Counting \cup Trapping
Amounts == Nat \cup {LIFTED}

\* a session that has spent s, with n left and a set aside
Affords(s, n, a) == s # LIFTED => s + n + a <= MAX_LOOP_COUNT

Above(f, below, sp) ==
  /\ f.kind = "session" => /\ f.aside = 0 /\ f.session = below.session + 1
                           /\ Affords(sp[below.session], f.old, below.aside)
  /\ f.kind = "trap_error" => f.aside = below.aside + f.saved /\ f.session = below.session
  /\ f.kind = "unlimited" => /\ f.aside = below.aside /\ f.session = below.session
                             /\ sp[f.session] = LIFTED

Ordered(cs) == \A j \in 1..Len(cs) : \A i \in 1..j : cs[i].session <= cs[j].session

Chained(cs, sp) ==
  /\ Ordered(cs)
  /\ cs = <<>> => sp = <<>>
  /\ cs # <<>> => /\ cs[1].kind = "session" /\ cs[1].session = 1
               /\ cs[Len(cs)].session = Len(sp)
  /\ \A i \in 1..Len(cs) : cs[i].session \in 1..Len(sp)
  /\ \A i \in 2..Len(cs) : Above(cs[i], cs[i - 1], sp)

Within(n) == calls # <<>> => Affords(spent[Session], n, Aside)

\* what C code is doing when it has read the count
Pending == /\ mode # "run" => calls # <<>>
           /\ read.by \notin {"nobody", "give_back"} => mode = "run"
           /\ read.by \notin {"nobody", "session_start"} => calls # <<>>
           /\ read.by = "give_back" => Innermost.kind = "trap_error" /\ mode # "caught"
           /\ read.by # "nobody" => Within(read.count)

LoopInv == LoopTypeOK /\ Chained(calls, spent) /\ Pending /\ Within(count)

LEMMA AmountFacts == LIFTED \notin Nat /\ LIFTED \in Int
BY DEF LIFTED

LEMMA TypeFacts ==
  ASSUME LoopTypeOK
  PROVE  /\ word \in Word /\ calls \in Seq(CountCalls) /\ Nesting \in Nat
         /\ spent \in Seq(Amounts) /\ Session \in Nat
         /\ count = get_xcount(word) /\ count \in Count /\ count \in Nat
         /\ read.count \in Count /\ read.count \in Nat /\ read.cost \in Nat
         /\ read.by \in Readers \cup {"nobody"}
<1>1. Word = 0..(2 * XCOUNT_PROFILE_FLAG - 1) /\ Count = 0..XCOUNT_MASK
  BY DEF Word, Count, F, XCOUNT_MASK
<1>2. word \in Word /\ calls \in Seq(CountCalls) /\ spent \in Seq(Amounts)
  BY <1>1 DEF LoopTypeOK, CountCalls, Counting, Trapping, Amounts
<1>3. read.count \in Count /\ read.cost \in Nat /\ read.by \in Readers \cup {"nobody"}
  BY <1>1 DEF LoopTypeOK
<1>4. Nesting \in Nat /\ Session \in Nat
  BY <1>2, LenProperties DEF Nesting, Session
<1>5. count \in Count
  BY <1>2, CountFacts DEF count
<1> QED BY <1>2, <1>3, <1>4, <1>5, FlagFacts DEF count, Count

\* The types of what a step leaves.
LEMMA StaysTyped ==
  ASSUME word' \in Word, calls' \in Seq(CountCalls), spent' \in Seq(Amounts),
         read' = Nobody \/ (LoopTypeOK /\ read' = read)
           \/ (\E by \in Readers, n \in Count, c \in Nat : read' = [by |-> by, count |-> n, cost |-> c]),
         mode' \in {"run", "throw", "caught"}, error' \in BOOLEAN, ranOut' \in BOOLEAN
  PROVE  LoopTypeOK'
<1>1. Word = 0..(2 * XCOUNT_PROFILE_FLAG - 1) /\ Count = 0..XCOUNT_MASK /\ 0 \in Count
  BY FlagFacts DEF Word, Count, F, XCOUNT_MASK
<1>2. read' \in [by : Readers \cup {"nobody"}, count : 0..XCOUNT_MASK, cost : Nat]
  BY <1>1 DEF Nobody, LoopTypeOK
<1> QED BY <1>1, <1>2 DEF LoopTypeOK, CountCalls, Counting, Trapping, Amounts

LEMMA FrameTypes ==
  ASSUME NEW f \in CountCalls
  PROVE  /\ f.aside \in Nat /\ f.session \in Nat
         /\ f.kind \in {"session", "unlimited", "trap_error"}
         /\ f.kind = "trap_error" => f.saved \in Count
         /\ f.kind # "trap_error" => f.old \in Count
BY DEF CountCalls, Counting, Trapping

\* The innermost frame, and what its session has spent.
LEMMA InnermostFacts ==
  ASSUME LoopTypeOK, Chained(calls, spent), calls # <<>>
  PROVE  /\ Nesting \in Nat \ {0} /\ Innermost \in CountCalls
         /\ Innermost.session = Session /\ Session \in Nat \ {0}
         /\ spent[Session] \in Amounts
         /\ Aside = Innermost.aside /\ Aside \in Nat
         /\ Innermost.kind \in {"session", "unlimited", "trap_error"}
         /\ Innermost.kind = "trap_error" => Innermost.saved \in Count
         /\ Innermost.kind # "trap_error" => Innermost.old \in Count
         /\ Nesting = 1 => Innermost.kind = "session"
         /\ Nesting > 1 => Above(Innermost, calls[Nesting - 1], spent)
<1>1. Nesting \in Nat \ {0}
  BY TypeFacts, EmptySeq DEF Nesting
<1>2. Innermost \in CountCalls
  BY <1>1, TypeFacts, ElementOfSeq DEF Nesting, Innermost
<1>3. Innermost.session = Session /\ Innermost.session \in 1..Session
  BY <1>1 DEF Chained, Innermost, Nesting, Session
<1>4. spent[Session] \in Amounts
  BY <1>3, TypeFacts, ElementOfSeq DEF Session
<1>5. Nesting = 1 => Innermost.kind = "session"
  BY DEF Chained, Innermost
<1>6. Nesting > 1 => Above(Innermost, calls[Nesting - 1], spent)
  BY <1>1 DEF Chained, Innermost, Nesting
<1> QED BY <1>1, <1>2, <1>3, <1>4, <1>5, <1>6, FrameTypes, TypeFacts DEF Aside

-----------------------------------------------------------------------------
(***************************************************************************)
(* The chain of frames as loops are spent, frames entered and left.        *)
(***************************************************************************)

\* only what the innermost session has spent changes, and a limit stays lifted
SpentOn(sp, new) == /\ new \in Seq(Amounts) /\ Len(new) = Len(sp)
                    /\ \A k \in 1..(Len(sp) - 1) : new[k] = sp[k]
                    /\ sp # <<>> /\ sp[Len(sp)] = LIFTED => new[Len(sp)] = LIFTED

LEMMA SpendingFacts ==
  ASSUME LoopTypeOK, Chained(calls, spent), calls # <<>>, NEW n \in Nat, Spends(n)
  PROVE  /\ SpentOn(spent, spent') /\ Session' = Session
         /\ spent'[Session] = IF spent[Session] = LIFTED THEN LIFTED ELSE spent[Session] + n
<1>1. Session \in 1..Len(spent) /\ spent \in Seq(Amounts) /\ spent[Session] \in Amounts
  BY TypeFacts, InnermostFacts DEF Session
<1>2. CASE spent[Session] = LIFTED
  BY <1>1, <1>2 DEF Spends, SpentOn, Session
<1>3. CASE spent[Session] # LIFTED
  <2> DEFINE v == spent[Session] + n
  <2>1. v \in Nat
    BY <1>1, <1>3, AmountFacts DEF Amounts
  <2>2. spent' = [spent EXCEPT ![Session] = v]
    BY <1>3 DEF Spends
  <2> HIDE DEF v
  <2>3. /\ spent' \in Seq(Amounts) /\ Len(spent') = Len(spent)
        /\ \A k \in 1..Len(spent) : spent'[k] = IF k = Session THEN v ELSE spent[k]
    BY <1>1, <2>1, <2>2, ExceptSeq DEF Amounts
  <2>4. v # LIFTED
    BY <2>1, AmountFacts
  <2> QED BY <1>1, <1>3, <2>3, <2>4 DEF SpentOn, Session, v
<1> QED BY <1>2, <1>3

LEMMA LiftingFacts ==
  ASSUME LoopTypeOK, Chained(calls, spent), Lifts
  PROVE  /\ SpentOn(spent, spent') /\ Session' = Session
         /\ calls # <<>> => spent'[Session] = LIFTED
<1>1. spent \in Seq(Amounts)
  BY TypeFacts
<1>2. CASE calls = <<>>
  BY <1>1, <1>2 DEF Lifts, SpentOn, Session
<1>3. CASE calls # <<>>
  <2>1. Session \in 1..Len(spent)
    BY <1>3, InnermostFacts DEF Session
  <2>2. /\ spent' \in Seq(Amounts) /\ Len(spent') = Len(spent)
        /\ \A k \in 1..Len(spent) : spent'[k] = IF k = Session THEN LIFTED ELSE spent[k]
    BY <1>1, <1>3, <2>1, ExceptSeq DEF Lifts, Amounts
  <2> QED BY <2>1, <2>2 DEF SpentOn, Session
<1> QED BY <1>2, <1>3

LEMMA KeepsSpent ==
  ASSUME LoopTypeOK, UNCHANGED spent
  PROVE  SpentOn(spent, spent') /\ Session' = Session
BY TypeFacts DEF SpentOn, Session

LEMMA AboveSpent ==
  ASSUME NEW f, NEW below, NEW sp, NEW new, SpentOn(sp, new), Above(f, below, sp),
         sp \in Seq(Amounts), f.session \in 1..Len(sp), below.session \in 1..Len(sp),
         f.kind = "session" => below.session < Len(sp)
  PROVE  Above(f, below, new)
<1>1. Len(sp) \in Nat /\ (sp # <<>>)
  BY LenProperties, EmptySeq
<1>2. \A k \in 1..Len(sp) : sp[k] = LIFTED => new[k] = LIFTED
  BY <1>1 DEF SpentOn
<1>3. f.kind = "session" => new[below.session] = sp[below.session]
  BY <1>1 DEF SpentOn
<1> QED BY <1>2, <1>3 DEF Above

LEMMA ChainedSpent ==
  ASSUME NEW cs \in Seq(CountCalls), NEW sp \in Seq(Amounts), NEW new,
         Chained(cs, sp), SpentOn(sp, new)
  PROVE  Chained(cs, new)
<1>1. Len(new) = Len(sp) /\ Len(sp) \in Nat /\ new \in Seq(Amounts) /\ Len(cs) \in Nat
  BY LenProperties DEF SpentOn
<1>2. cs = <<>> => new = <<>>
  BY <1>1, EmptySeq DEF Chained
<1>3. ASSUME NEW i \in 2..Len(cs) PROVE Above(cs[i], cs[i - 1], new)
  <2>1. i \in 1..Len(cs) /\ i - 1 \in 1..Len(cs)
    BY <1>1
  <2>2. cs[i].session \in 1..Len(sp) /\ cs[i - 1].session \in 1..Len(sp)
    BY <2>1 DEF Chained
  <2>3. Above(cs[i], cs[i - 1], sp)
    BY DEF Chained
  <2>4. cs[i].kind = "session" => cs[i - 1].session < Len(sp)
    BY <1>1, <2>2, <2>3 DEF Above
  <2> QED BY <2>2, <2>3, <2>4, AboveSpent
<1> QED BY <1>1, <1>2, <1>3 DEF Chained

LEMMA OrderedEntered ==
  ASSUME NEW cs \in Seq(CountCalls), NEW f \in CountCalls, NEW n \in Nat, f.session >= n,
         Ordered(cs), \A i \in 1..Len(cs) : cs[i].session \in 1..n
  PROVE  Ordered(Append(cs, f))
<1> DEFINE new == Append(cs, f)
<1>1. /\ Len(new) = Len(cs) + 1 /\ Len(cs) \in Nat /\ new[Len(cs) + 1] = f
      /\ \A i \in 1..Len(cs) : new[i] = cs[i]
  BY AppendProperties, LenProperties
<1>2. f.session \in Nat
  BY FrameTypes
<1> HIDE DEF new
<1>3. ASSUME NEW j \in 1..Len(new), NEW i \in 1..j PROVE new[i].session <= new[j].session
  <2>1. CASE j = Len(cs) + 1
    <3>1. CASE i = j
      BY <1>1, <1>2, <2>1, <3>1
    <3>2. CASE i # j
      <4>1. i \in 1..Len(cs)
        BY <1>1, <2>1, <3>2
      <4>2. new[i].session \in 1..n /\ new[j] = f
        BY <1>1, <2>1, <4>1
      <4> QED BY <1>2, <4>2
    <3> QED BY <3>1, <3>2
  <2>2. CASE j # Len(cs) + 1
    <3>1. j \in 1..Len(cs) /\ i \in 1..Len(cs)
      BY <1>1, <2>2
    <3> QED BY <1>1, <3>1 DEF Ordered
  <2> QED BY <2>1, <2>2
<1> QED BY <1>3 DEF Ordered, new

LEMMA ChainedEntered ==
  ASSUME NEW cs \in Seq(CountCalls), NEW sp \in Seq(Amounts), NEW f \in CountCalls,
         Chained(cs, sp), f.session = Len(sp), cs # <<>>, Above(f, cs[Len(cs)], sp)
  PROVE  Chained(Append(cs, f), sp)
<1> DEFINE new == Append(cs, f)
<1>1. /\ new # <<>> /\ Len(new) = Len(cs) + 1 /\ Len(cs) \in Nat \ {0} /\ new[Len(cs) + 1] = f
      /\ \A i \in 1..Len(cs) : new[i] = cs[i]
      /\ Len(sp) \in Nat
  BY AppendProperties, LenProperties, EmptySeq
<1>0. \A i \in 1..Len(cs) : cs[i].session \in 1..Len(sp)
  BY DEF Chained
<1>6. Ordered(new)
  <2>1. f.session >= Len(sp) /\ Ordered(cs)
    BY <1>1 DEF Chained
  <2> QED BY <1>0, <1>1, <2>1, OrderedEntered
<1> HIDE DEF new
<1>2. new[1].kind = "session" /\ new[1].session = 1
  <2>1. 1 \in 1..Len(cs)
    BY <1>1
  <2> QED BY <1>1, <2>1 DEF Chained
<1>3. \A i \in 1..Len(new) : new[i].session \in 1..Len(sp)
  <2> TAKE i \in 1..Len(new)
  <2>1. CASE i = Len(cs) + 1
    <3>1. 1 \in 1..Len(cs)
      BY <1>1
    <3>2. Len(sp) \in 1..Len(sp)
      BY <1>0, <1>1, <3>1
    <3> QED BY <1>1, <2>1, <3>2
  <2>2. CASE i # Len(cs) + 1
    <3>1. i \in 1..Len(cs)
      BY <1>1, <2>2
    <3> QED BY <1>0, <1>1, <3>1
  <2> QED BY <2>1, <2>2
<1>4. \A i \in 2..Len(new) : Above(new[i], new[i - 1], sp)
  <2> TAKE i \in 2..Len(new)
  <2>1. CASE i = Len(cs) + 1
    <3>1. Len(cs) \in 1..Len(cs) /\ i - 1 = Len(cs)
      BY <1>1, <2>1
    <3> QED BY <1>1, <2>1, <3>1
  <2>2. CASE i # Len(cs) + 1
    <3>1. i \in 2..Len(cs) /\ i \in 1..Len(cs) /\ i - 1 \in 1..Len(cs)
      BY <2>2, <1>1
    <3> QED BY <1>1, <3>1 DEF Chained
  <2> QED BY <2>1, <2>2
<1>5. new[Len(new)].session = Len(sp)
  BY <1>1
<1> QED BY <1>1, <1>2, <1>3, <1>4, <1>5, <1>6 DEF Chained, new

\* A session inside another one: the outer ones keep what they have spent.
LEMMA ChainedOpened ==
  ASSUME NEW cs \in Seq(CountCalls), NEW sp \in Seq(Amounts), Chained(cs, sp)
  PROVE  /\ Append(sp, 0) \in Seq(Amounts) /\ Append(sp, 0) # <<>>
         /\ Len(Append(sp, 0)) = Len(sp) + 1
         /\ \A k \in 1..Len(sp) : Append(sp, 0)[k] = sp[k]
         /\ Append(sp, 0)[Len(sp) + 1] = 0
BY AppendProperties, EmptySeq DEF Amounts

-----------------------------------------------------------------------------
(***************************************************************************)
(* The invariant as frames are entered and left.                           *)
(***************************************************************************)
LEMMA WritesFacts ==
  ASSUME LoopTypeOK, NEW by \in Readers, NEW v \in Count, WriteBack(by, v)
  PROVE  /\ word' \in Word /\ count' = v /\ read.by = by /\ read' = Nobody
         /\ error' \in BOOLEAN /\ ranOut' \in BOOLEAN
<1>1. word' \in Word /\ get_xcount(word') = v
  BY TypeFacts, SetFacts DEF WriteBack
<1> QED BY <1>1 DEF WriteBack, count, LoopTypeOK

LEMMA NobodyFacts == Nobody.by = "nobody" /\ "nobody" \notin Readers
BY DEF Nobody, Readers

\* Leaving the innermost frame for one of the same session.
LEMMA LeftFacts ==
  ASSUME LoopTypeOK, Chained(calls, spent), calls # <<>>, calls' = Outer
  PROVE  /\ calls' \in Seq(CountCalls) /\ Nesting' = Nesting - 1
         /\ \A i \in 1..(Nesting - 1) : calls'[i] = calls[i]
         /\ calls' # <<>> <=> Nesting > 1
         /\ Nesting > 1 => /\ Innermost' = calls[Nesting - 1] /\ Aside' = calls[Nesting - 1].aside
                           /\ calls[Nesting - 1] \in CountCalls
<1>1. Nesting \in Nat \ {0} /\ \A i \in 1..Nesting : calls[i] \in CountCalls
  BY InnermostFacts, TypeFacts, ElementOfSeq DEF Nesting
<1>2. /\ calls' \in Seq(CountCalls) /\ Len(calls') = Nesting - 1
      /\ \A i \in 1..(Nesting - 1) : calls'[i] = calls[i]
  <2> DEFINE n == Nesting - 1
  <2>1. n \in Int /\ 1 \in Int /\ \A i \in 1..n : calls[i] \in CountCalls
    BY <1>1
  <2>2. /\ SubSeq(calls, 1, n) \in Seq(CountCalls)
        /\ Len(SubSeq(calls, 1, n)) = IF 1 <= n THEN n - 1 + 1 ELSE 0
        /\ \A i \in 1..(n - 1 + 1) : SubSeq(calls, 1, n)[i] = calls[1 + i - 1]
    <3> HIDE DEF n
    <3> QED BY <2>1, SubSeqProperties
  <2> QED BY <1>1, <2>2 DEF Outer
<1>3. calls' # <<>> <=> Nesting > 1
  BY <1>1, <1>2, EmptySeq
<1>4. Nesting > 1 => calls'[Nesting - 1] = calls[Nesting - 1] /\ calls[Nesting - 1] \in CountCalls
  BY <1>1, <1>2
<1> QED BY <1>1, <1>2, <1>3, <1>4 DEF Nesting, Innermost, Aside

LEMMA ChainedLeft ==
  ASSUME LoopTypeOK, Chained(calls, spent), calls # <<>>, calls' = Outer,
         Innermost.kind # "session", UNCHANGED spent
  PROVE  /\ Chained(calls', spent') /\ calls' # <<>> /\ Session' = Session
         /\ calls' \in Seq(CountCalls) /\ Nesting > 1 /\ Aside' = calls[Nesting - 1].aside
         /\ Aside' \in Nat
<1>1. Nesting > 1 /\ Nesting \in Nat
  BY InnermostFacts
<1>2. calls[Nesting - 1].session = Session /\ calls[Nesting - 1].aside \in Nat
  BY <1>1, InnermostFacts, LeftFacts, FrameTypes DEF Above
<1>3. \A i \in 2..Nesting' : Above(calls'[i], calls'[i - 1], spent)
  <2> SUFFICES ASSUME NEW i \in 2..(Nesting - 1)
               PROVE  Above(calls'[i], calls'[i - 1], spent)
    BY LeftFacts
  <2>1. calls'[i] = calls[i] /\ calls'[i - 1] = calls[i - 1] /\ i \in 2..Nesting
    BY <1>1, LeftFacts
  <2> QED BY <2>1 DEF Chained, Nesting
<1>4. \A i \in 1..Nesting' : calls'[i].session \in 1..Session
  <2>1. \A i \in 1..Nesting : calls[i].session \in 1..Session
    BY DEF Chained, Nesting, Session
  <2>2. Nesting' = Nesting - 1 /\ \A i \in 1..(Nesting - 1) : calls'[i] = calls[i]
    BY LeftFacts
  <2> QED BY <1>1, <2>1, <2>2
<1>5. calls'[1].kind = "session" /\ calls'[1].session = 1
  <2>1. 1 \in 1..(Nesting - 1)
    BY <1>1
  <2> QED BY <2>1, LeftFacts DEF Chained
<1>6. calls'[Nesting'].session = Session
  BY <1>1, <1>2, LeftFacts
<1>7. Ordered(calls')
  <2>1. Ordered(calls) /\ Len(calls') = Nesting - 1 /\ Len(calls) = Nesting
        /\ \A i \in 1..(Nesting - 1) : calls'[i] = calls[i]
    BY LeftFacts DEF Chained, Nesting
  <2> QED BY <1>1, <2>1 DEF Ordered
<1> QED BY <1>1, <1>2, <1>3, <1>4, <1>5, <1>6, <1>7, LeftFacts DEF Chained, Nesting, Session

\* A session inside another one, which can go on with what the new one saves.
LEMMA SessionChained ==
  ASSUME NEW cs \in Seq(CountCalls), NEW sp \in Seq(Amounts), NEW new \in Seq(Amounts),
         NEW f \in CountCalls, Chained(cs, sp), cs # <<>>,
         Len(new) = Len(sp) + 1, \A k \in 1..Len(sp) : new[k] = sp[k],
         f.kind = "session", f.aside = 0, f.session = Len(sp) + 1,
         Affords(sp[Len(sp)], f.old, cs[Len(cs)].aside)
  PROVE  Chained(Append(cs, f), new)
<1> DEFINE all == Append(cs, f)
<1>1. /\ all # <<>> /\ Len(all) = Len(cs) + 1 /\ Len(cs) \in Nat \ {0} /\ all[Len(cs) + 1] = f
      /\ \A i \in 1..Len(cs) : all[i] = cs[i]
      /\ Len(sp) \in Nat
  BY AppendProperties, LenProperties, EmptySeq
<1> HIDE DEF all
<1>2. \A i \in 1..Len(cs) : cs[i].session \in 1..Len(sp)
  BY DEF Chained
<1>3. all[1].kind = "session" /\ all[1].session = 1
  BY <1>1 DEF Chained
<1>4. \A i \in 1..Len(all) : all[i].session \in 1..Len(new)
  <2> TAKE i \in 1..Len(all)
  <2>1. i = Len(cs) + 1 \/ i \in 1..Len(cs)
    BY <1>1
  <2> QED BY <1>1, <1>2, <2>1
<1>5. ASSUME NEW i \in 2..Len(all) PROVE Above(all[i], all[i - 1], new)
  <2>1. CASE i = Len(cs) + 1
    <3>1. Len(cs) \in 1..Len(cs) /\ i - 1 = Len(cs) /\ all[i] = f /\ all[i - 1] = cs[Len(cs)]
      BY <1>1, <2>1
    <3>2. cs[Len(cs)].session = Len(sp) /\ Len(sp) \in 1..Len(sp)
      BY <1>1, <1>2 DEF Chained
    <3> QED BY <3>1, <3>2 DEF Above
  <2>2. CASE i # Len(cs) + 1
    <3>1. i \in 2..Len(cs) /\ i \in 1..Len(cs) /\ i - 1 \in 1..Len(cs)
      BY <2>2, <1>1
    <3>2. Above(cs[i], cs[i - 1], sp)
      BY <3>1 DEF Chained
    <3>3. /\ new[cs[i - 1].session] = sp[cs[i - 1].session]
          /\ new[cs[i].session] = sp[cs[i].session]
      BY <1>2, <3>1
    <3>4. Above(cs[i], cs[i - 1], new)
      BY <3>2, <3>3 DEF Above
    <3> QED BY <1>1, <3>1, <3>4
  <2> QED BY <2>1, <2>2
<1>6. all[Len(all)].session = Len(new)
  BY <1>1
<1>7. Ordered(all)
  <2>1. f.session >= Len(sp) /\ Ordered(cs) /\ Len(sp) \in Nat
    BY <1>1 DEF Chained
  <2> QED BY <1>2, <2>1, OrderedEntered DEF all
<1> QED BY <1>1, <1>3, <1>4, <1>5, <1>6, <1>7 DEF Chained, all

LEMMA AppendedFacts ==
  ASSUME NEW f \in CountCalls, calls \in Seq(CountCalls), calls' = Append(calls, f)
  PROVE  calls' \in Seq(CountCalls) /\ calls' # <<>> /\ Aside' = f.aside
<1>1. /\ calls' \in Seq(CountCalls) /\ calls' # <<>> /\ Nesting' = Nesting + 1
      /\ calls'[Nesting + 1] = f
  BY AppendProperties, EmptySeq DEF Nesting
<1> QED BY <1>1 DEF Aside, Innermost

\* Its end: the frames and sessions around it are what they were.
LEMMA SessionLeft ==
  ASSUME NEW sp \in Seq(Amounts), NEW n \in Nat \ {0}, n = Len(sp)
  PROVE  /\ SubSeq(sp, 1, n - 1) \in Seq(Amounts) /\ Len(SubSeq(sp, 1, n - 1)) = n - 1
         /\ \A k \in 1..(n - 1) : SubSeq(sp, 1, n - 1)[k] = sp[k]
<1> DEFINE m == n - 1
<1>1. m \in Nat /\ \A k \in 1..m : sp[k] \in Amounts
  BY ElementOfSeq
<1>2. /\ SubSeq(sp, 1, m) \in Seq(Amounts)
      /\ Len(SubSeq(sp, 1, m)) = IF 1 <= m THEN m - 1 + 1 ELSE 0
      /\ \A i \in 1..(m - 1 + 1) : SubSeq(sp, 1, m)[i] = sp[1 + i - 1]
  <2> HIDE DEF m
  <2> QED BY <1>1, SubSeqProperties
<1> QED BY <1>1, <1>2

LEMMA ChainedEnded ==
  ASSUME LoopTypeOK, Chained(calls, spent), Nesting > 1, Innermost.kind = "session",
         Session \in Nat \ {0}, Nesting \in Nat,
         calls' \in Seq(CountCalls), spent' \in Seq(Amounts),
         Nesting' = Nesting - 1, Session' = Session - 1, calls' # <<>>,
         calls[Nesting - 1].session = Session - 1,
         \A i \in 1..(Nesting - 1) : calls'[i] = calls[i],
         \A k \in 1..(Session - 1) : spent'[k] = spent[k]
  PROVE  Chained(calls', spent')
<1>1. \A i \in 1..(Nesting - 1) : calls[i].session \in 1..(Session - 1)
  <2> TAKE i \in 1..(Nesting - 1)
  <2>1. Nesting - 1 \in 1..Nesting /\ i \in 1..(Nesting - 1) /\ i \in 1..Nesting
    OBVIOUS
  <2>2. calls[i].session <= calls[Nesting - 1].session /\ calls[i].session \in 1..Session
    BY <2>1 DEF Chained, Ordered, Nesting, Session
  <2> QED BY <2>2
<1>2. \A i \in 2..Nesting' : Above(calls'[i], calls'[i - 1], spent')
  <2> TAKE i \in 2..Nesting'
  <2>1. /\ i \in 2..Nesting /\ i \in 1..(Nesting - 1) /\ i - 1 \in 1..(Nesting - 1)
    OBVIOUS
  <2>2. calls'[i] = calls[i] /\ calls'[i - 1] = calls[i - 1]
    BY <2>1
  <2>3. Above(calls[i], calls[i - 1], spent)
    BY <2>1 DEF Chained, Nesting
  <2>4. /\ spent'[calls[i].session] = spent[calls[i].session]
        /\ spent'[calls[i - 1].session] = spent[calls[i - 1].session]
    BY <1>1, <2>1
  <2>5. Above(calls[i], calls[i - 1], spent')
    BY <2>3, <2>4 DEF Above
  <2> QED BY <2>2, <2>5
<1>3. \A i \in 1..Nesting' : calls'[i].session \in 1..Session'
  BY <1>1
<1>4. Ordered(calls')
  <2>1. Ordered(calls) /\ Len(calls') = Nesting - 1 /\ Len(calls) = Nesting
    BY DEF Chained, Nesting
  <2> QED BY <2>1 DEF Ordered
<1>5. /\ calls'[1].kind = "session" /\ calls'[1].session = 1
      /\ calls'[Nesting'].session = Session'
  <2>1. 1 \in 1..(Nesting - 1) /\ Nesting - 1 \in 1..(Nesting - 1)
    OBVIOUS
  <2>2. calls # <<>>
    BY EmptySeq DEF Nesting
  <2> QED BY <2>1, <2>2 DEF Chained
<1> QED BY <1>2, <1>3, <1>4, <1>5 DEF Chained, Nesting, Session

-----------------------------------------------------------------------------
(***************************************************************************)
(* What each step does to the invariant.                                   *)
(***************************************************************************)

\* Steps within a frame, when no C code depends on the count it has read.
LEMMA WithinStep ==
  ASSUME LoopInv, calls' = calls, SpentOn(spent, spent'), Session' = Session,
         word' \in Word, read.by = "nobody", read' = read,
         mode' \in {"run", "throw", "caught"}, mode' # "run" => calls # <<>>,
         error' \in BOOLEAN, ranOut' \in BOOLEAN,
         calls # <<>> => Affords(spent'[Session], count', Aside)
  PROVE  LoopInv'
<1>1. LoopTypeOK'
  BY TypeFacts, StaysTyped DEF LoopInv, SpentOn
<1>2. Chained(calls, spent')
  BY TypeFacts, ChainedSpent DEF LoopInv
<1>3. Aside' = Aside
  BY DEF Aside, Innermost, Nesting
<1> QED BY <1>1, <1>2, <1>3 DEF LoopInv, Pending, Within

LEMMA CheckLoop == LoopInv /\ check_loop => LoopInv'
<1> SUFFICES ASSUME LoopInv, check_loop PROVE LoopInv'
  OBVIOUS
<1> DEFINE w == (word - 1) % (2 * F)
           slow == signed(word) <= 1
<1>1. /\ word \in Word /\ F \in Nat /\ F >= 4 /\ calls # <<>> /\ read.by = "nobody"
      /\ count = IF word < F THEN word ELSE word - F
  BY TypeFacts, CountFacts, FlagFacts DEF check_loop, Running, Idle, LoopInv
<1>2. w = IF word = 0 THEN 2 * F - 1 ELSE word - 1
  <2>1. CASE word = 0
    <3>1. (-1) % (2 * F) = 2 * F - 1
      BY <1>1
    <3> QED BY <3>1, <2>1
  <2>2. CASE word # 0
    <3>1. word - 1 \in 0..(2 * F - 1)
      BY <1>1, <2>2 DEF Word
    <3>2. (word - 1) % (2 * F) = word - 1
      BY <1>1, <3>1
    <3> QED BY <3>2, <2>2
  <2> QED BY <2>1, <2>2
<1>3. slow <=> word >= F \/ word <= 1
  BY <1>1 DEF signed, flagged, F, Word, get_xcount
<1>4. w \in Word
  BY <1>1, <1>2 DEF Word
<1>5. /\ word' = IF slow /\ w = 0 THEN w ELSE IF slow THEN get_xcount(w) ELSE w
      /\ mode' = IF slow /\ w = 0 THEN "throw" ELSE mode
      /\ error' = IF slow /\ w = 0 THEN TRUE ELSE error
      /\ IF count = 0 THEN ranOut' = TRUE /\ Lifts ELSE ranOut' = ranOut /\ Spends(1)
      /\ UNCHANGED <<read, calls>>
  BY DEF check_loop, F
<1> HIDE DEF w, slow
<1>6. word' \in Word
  BY <1>1, <1>4, <1>5, CountFacts DEF Word, Count
<1>7. count' = get_xcount(word')
  BY DEF count
<1>8. count # 0 => count' = count - 1
  <2>1. CASE slow /\ w = 0
    <3>1. count' = 0
      BY <2>1, <1>1, <1>4, <1>5, <1>7, CountFacts
    <3> QED BY <3>1, <2>1, <1>1, <1>2
  <2>2. CASE ~(slow /\ w = 0) /\ count # 0
    <3>1. get_xcount(w) = count - 1
      BY <2>2, <1>1, <1>2, <1>4, CountFacts DEF Word
    <3>2. get_xcount(w) \in Word /\ get_xcount(get_xcount(w)) = get_xcount(w)
      BY <1>1, <1>4, CountFacts DEF Word, Count
    <3> QED BY <2>2, <3>1, <3>2, <1>5, <1>7
  <2> QED BY <2>1, <2>2
<1>9. /\ SpentOn(spent, spent') /\ Session' = Session
      /\ Affords(spent'[Session], count', Aside)
  <2>1. CASE count = 0
    BY <1>1, <1>5, <2>1, LiftingFacts DEF LoopInv, Affords
  <2>2. CASE count # 0
    <3>1. /\ SpentOn(spent, spent') /\ Session' = Session
          /\ spent'[Session] = IF spent[Session] = LIFTED THEN LIFTED ELSE spent[Session] + 1
      BY <1>1, <1>5, <2>2, SpendingFacts DEF LoopInv
    <3>2. spent[Session] \in Amounts /\ Aside \in Nat /\ count \in Nat /\ MAX_LOOP_COUNT \in Nat
      BY <1>1, InnermostFacts, TypeFacts, FlagFacts DEF LoopInv
    <3>3. spent[Session] # LIFTED => spent[Session] \in Nat
                                      /\ spent[Session] + count + Aside <= MAX_LOOP_COUNT
      BY <1>1, <3>2 DEF LoopInv, Within, Affords, Amounts
    <3> QED BY <2>2, <3>1, <3>2, <3>3, <1>8 DEF Affords
  <2> QED BY <2>1, <2>2
<1>10. mode' \in {"run", "throw", "caught"} /\ error' \in BOOLEAN /\ ranOut' \in BOOLEAN
  BY <1>5 DEF LoopInv, LoopTypeOK
<1> QED BY <1>1, <1>5, <1>6, <1>9, <1>10, WithinStep

\* Ticks and errors, which leave the count alone.
LEMMA CountKept ==
  ASSUME LoopInv, calls' = calls, spent' = spent, word' \in Word, count' = count,
         read.by = "nobody", read' = read, mode' \in {"run", "throw", "caught"},
         mode' # "run" => calls # <<>>, error' \in BOOLEAN, ranOut' = ranOut
  PROVE  LoopInv'
<1>1. SpentOn(spent, spent') /\ Session' = Session
  BY KeepsSpent DEF LoopInv
<1> QED BY <1>1, WithinStep DEF LoopInv, LoopTypeOK, Within

LEMMA CountWord == LoopInv => /\ count \in Word /\ get_xcount(count) = count
                              /\ count + F \in Word /\ get_xcount(count + F) = count
<1> SUFFICES ASSUME LoopInv
             PROVE  /\ count \in Word /\ get_xcount(count) = count
                    /\ count + F \in Word /\ get_xcount(count + F) = count
  OBVIOUS
<1>1. count \in Count /\ F \in Nat /\ F >= 4
  BY TypeFacts, FlagFacts DEF LoopInv
<1> HIDE DEF F
<1>2. count \in Word /\ count + F \in Word
  BY <1>1 DEF Word, Count
<1> QED BY <1>1, <1>2, CountFacts DEF Count

LEMMA Ticks == LoopInv /\ maybe_profile_tick => LoopInv'
<1> SUFFICES ASSUME LoopInv, maybe_profile_tick PROVE LoopInv'
  OBVIOUS
<1>1. word' \in Word /\ count' = count
  BY CountWord DEF maybe_profile_tick, count
<1> QED BY <1>1, CountKept DEF maybe_profile_tick, Running, Idle, LoopInv, LoopTypeOK, Pending

LEMMA Throws == LoopInv /\ runtime_error => LoopInv'
<1> SUFFICES ASSUME LoopInv, runtime_error PROVE LoopInv'
  OBVIOUS
<1>1. word' \in Word /\ count' = count
  BY TypeFacts DEF runtime_error, count, LoopInv
<1> QED BY <1>1, CountKept DEF runtime_error, Running, Idle

LEMMA Handles == LoopInv /\ handle_error => LoopInv'
<1> SUFFICES ASSUME LoopInv, handle_error PROVE LoopInv'
  OBVIOUS
<1>1. word' \in Word /\ count' = count
  BY TypeFacts DEF handle_error, count, LoopInv
<1>2. read.by = "nobody" /\ calls # <<>>
  BY TypeFacts DEF handle_error, LoopInv, Pending, Readers
<1> QED BY <1>1, <1>2, CountKept DEF handle_error, LoopInv, LoopTypeOK

\* The first access: what was read is what the session can go on with.
LEMMA ReadStep ==
  ASSUME LoopInv, NEW by \in Readers, NEW cost \in Nat, Reads(by, cost),
         by # "give_back" => mode = "run", by # "session_start" => calls # <<>>,
         by = "give_back" => Innermost.kind = "trap_error" /\ mode # "caught"
  PROVE  LoopInv'
<1>1. /\ read' = [by |-> by, count |-> count, cost |-> cost]
      /\ UNCHANGED <<word, calls, mode, error, ranOut, spent>>
  BY DEF Reads
<1>2. LoopTypeOK'
  BY <1>1, TypeFacts, StaysTyped DEF LoopInv, LoopTypeOK
<1>3. count' = count /\ Aside' = Aside /\ Session' = Session /\ Innermost' = Innermost
  BY <1>1 DEF count, Aside, Session, Innermost, Nesting
<1>4. read'.by = by /\ read'.count = count /\ by # "nobody"
  BY <1>1 DEF Readers
<1> QED BY <1>1, <1>2, <1>3, <1>4 DEF LoopInv, Pending, Within

\* The second access within a frame.
LEMMA WriteStep ==
  ASSUME LoopInv, NEW by \in Readers, NEW v \in Count, WriteBack(by, v),
         calls' = calls, mode' = mode, SpentOn(spent, spent'), Session' = Session,
         calls # <<>> => Affords(spent'[Session], v, Aside)
  PROVE  LoopInv'
<1>1. word' \in Word /\ count' = v /\ read' = Nobody /\ error' \in BOOLEAN /\ ranOut' \in BOOLEAN
  BY WritesFacts DEF LoopInv
<1>2. LoopTypeOK'
  BY <1>1, TypeFacts, StaysTyped DEF LoopInv, LoopTypeOK, SpentOn
<1>3. Chained(calls, spent')
  BY TypeFacts, ChainedSpent DEF LoopInv
<1>4. Aside' = Aside
  BY DEF Aside, Innermost, Nesting
<1> QED BY <1>1, <1>2, <1>3, <1>4, NobodyFacts DEF LoopInv, Pending, Within

LEMMA ChargedFacts ==
  ASSUME NEW n \in Count, NEW cost \in Nat
  PROVE  Charged(n, cost) \in Count /\ (n # 0 => Charged(n, cost) <= n)
BY FlagFacts DEF Charged, Count

LEMMA Expensive == LoopInv /\ expensive_operation => LoopInv'
<1> SUFFICES ASSUME LoopInv, expensive_operation PROVE LoopInv'
  OBVIOUS
<1>1. CASE Running /\ \E cost \in Costs : Reads("expensive_operation", cost)
  <2>1. PICK cost \in Costs : Reads("expensive_operation", cost)
    BY <1>1
  <2>2. cost \in Nat /\ "expensive_operation" \in Readers
    BY LoopAssumption DEF Readers
  <2> QED BY <1>1, <2>1, <2>2, ReadStep DEF Running, Idle
<1>2. CASE /\ WriteBack("expensive_operation", Charged(read.count, read.cost))
           /\ IF read.count = 0 THEN Lifts
                                ELSE Spends(read.count - Charged(read.count, read.cost))
           /\ UNCHANGED <<calls, mode>>
  <2> DEFINE n == read.count
             v == Charged(read.count, read.cost)
  <2>0. n \in Count /\ n \in Nat /\ read.cost \in Nat
    BY TypeFacts DEF LoopInv
  <2>1. n \in Count /\ n \in Nat /\ v \in Count /\ v \in Nat /\ (n # 0 => v <= n)
    <3>1. v \in Count /\ (n # 0 => v <= n)
      BY <2>0, ChargedFacts
    <3> HIDE DEF v, n
    <3> QED BY <2>0, <3>1, FlagFacts DEF Count
  <2>2. /\ WriteBack("expensive_operation", v) /\ calls' = calls /\ mode' = mode
        /\ IF n = 0 THEN Lifts ELSE Spends(n - v)
    BY <1>2
  <2>3. read.by = "expensive_operation" /\ calls # <<>> /\ Within(n)
    BY <2>2 DEF WriteBack, LoopInv, Pending
  <2> HIDE DEF v, n
  <2>4. /\ SpentOn(spent, spent') /\ Session' = Session
        /\ Affords(spent'[Session], v, Aside)
    <3>1. CASE n = 0
      BY <2>2, <2>3, <3>1, LiftingFacts DEF LoopInv, Affords
    <3>2. CASE n # 0
      <4>1. n - v \in Nat
        BY <2>1, <3>2
      <4>2. /\ SpentOn(spent, spent') /\ Session' = Session
            /\ spent'[Session] = IF spent[Session] = LIFTED THEN LIFTED ELSE spent[Session] + (n - v)
        BY <2>2, <2>3, <3>2, <4>1, SpendingFacts DEF LoopInv
      <4>3. spent[Session] \in Amounts /\ Aside \in Nat /\ MAX_LOOP_COUNT \in Nat
        BY <2>3, InnermostFacts, FlagFacts DEF LoopInv
      <4>4. spent[Session] # LIFTED => spent[Session] \in Nat
                                        /\ spent[Session] + n + Aside <= MAX_LOOP_COUNT
        BY <2>3, <4>3 DEF Within, Affords, Amounts
      <4> QED BY <2>1, <4>2, <4>3, <4>4 DEF Affords
    <3> QED BY <3>1, <3>2
  <2> QED BY <2>1, <2>2, <2>4, WriteStep DEF Readers
<1> QED BY <1>1, <1>2 DEF expensive_operation

LEMMA SessionStarts == LoopInv /\ session_start => LoopInv'
<1> SUFFICES ASSUME LoopInv, session_start PROVE LoopInv'
  OBVIOUS
<1>1. CASE Idle /\ Nesting < MaxCalls /\ Reads("session_start", 0)
  BY <1>1, ReadStep DEF Idle, Readers
<1> DEFINE f == [kind |-> "session", old |-> read.count, aside |-> 0, session |-> Session + 1]
<1>2. CASE Enter("session_start", f, MAX_LOOP_COUNT) /\ spent' = Append(spent, 0)
  <2>1. /\ WriteBack("session_start", MAX_LOOP_COUNT) /\ calls' = Append(calls, f)
        /\ mode' = mode /\ MAX_LOOP_COUNT \in Count /\ MAX_LOOP_COUNT \in Nat
    BY <1>2, FlagFacts DEF Enter, Count
  <2>2. /\ word' \in Word /\ count' = MAX_LOOP_COUNT /\ read' = Nobody
        /\ error' \in BOOLEAN /\ ranOut' \in BOOLEAN /\ read.by = "session_start"
    BY <2>1, WritesFacts DEF LoopInv, Readers
  <2>3. /\ f \in CountCalls /\ f.kind = "session" /\ f.session = Session + 1 /\ f.aside = 0
        /\ f.old = read.count
    BY TypeFacts DEF LoopInv, CountCalls, Counting
  <2>4. /\ spent \in Seq(Amounts) /\ Session = Len(spent) /\ Session \in Nat
        /\ calls \in Seq(CountCalls) /\ Within(read.count)
    BY <2>2, TypeFacts DEF LoopInv, Session, Pending
  <2> HIDE DEF f
  <2>5. /\ spent' \in Seq(Amounts) /\ spent' # <<>> /\ Session' = Session + 1
        /\ \A k \in 1..Session : spent'[k] = spent[k]
        /\ spent'[Session + 1] = 0
    BY <1>2, <2>4, ChainedOpened DEF Session, LoopInv
  <2>6. Chained(Append(calls, f), spent')
    <3>1. CASE calls = <<>>
      <4>1. spent = <<>> /\ Session = 0
        BY <2>4, <3>1, EmptySeq DEF LoopInv, Chained
      <4>2. /\ Len(Append(calls, f)) = 1 /\ Append(calls, f)[1] = f
            /\ Append(calls, f) # <<>>
        BY <2>3, <3>1, <2>4, AppendProperties, EmptySeq
      <4>3. f.session = 1 /\ Len(spent') = 1 /\ 1 <= 1
        BY <2>3, <2>5, <4>1 DEF Session
      <4>4. Ordered(Append(calls, f))
        BY <4>2, <4>3 DEF Ordered
      <4> QED BY <2>3, <4>2, <4>3, <4>4 DEF Chained
    <3>2. CASE calls # <<>>
      <4>1. Affords(spent[Len(spent)], f.old, calls[Len(calls)].aside)
        BY <2>3, <2>4, <3>2 DEF Within, Aside, Innermost, Nesting
      <4>2. Len(spent') = Len(spent) + 1 /\ \A k \in 1..Len(spent) : spent'[k] = spent[k]
        BY <2>4, <2>5 DEF Session
      <4>3. f.session = Len(spent) + 1 /\ Chained(calls, spent)
        BY <2>3, <2>4 DEF LoopInv
      <4> QED BY <2>3, <2>4, <2>5, <3>2, <4>1, <4>2, <4>3, SessionChained
    <3> QED BY <3>1, <3>2
  <2>7. calls' \in Seq(CountCalls) /\ calls' # <<>> /\ Aside' = 0
    BY <2>1, <2>3, <2>4, AppendedFacts
  <2>8. LoopTypeOK'
    BY <2>1, <2>2, <2>5, <2>7, StaysTyped DEF LoopInv, LoopTypeOK
  <2>9. Within(count)'
    BY <2>1, <2>2, <2>4, <2>5, <2>7 DEF Within, Affords
  <2> QED BY <2>1, <2>2, <2>6, <2>7, <2>8, <2>9, NobodyFacts DEF LoopInv, Pending
<1> QED BY <1>1, <1>2 DEF session_start

\* Entering a frame of the same session.
LEMMA EnterStep ==
  ASSUME LoopInv, NEW by \in Readers, NEW v \in Count, NEW f \in CountCalls, Enter(by, f, v),
         calls # <<>>, SpentOn(spent, spent'), Session' = Session,
         f.session = Session, Above(f, Innermost, spent'),
         Affords(spent'[Session], v, f.aside)
  PROVE  LoopInv'
<1>1. WriteBack(by, v) /\ calls' = Append(calls, f) /\ mode' = mode
  BY DEF Enter
<1>2. word' \in Word /\ count' = v /\ read' = Nobody /\ error' \in BOOLEAN /\ ranOut' \in BOOLEAN
  BY <1>1, WritesFacts DEF LoopInv
<1>3. /\ calls \in Seq(CountCalls) /\ spent' \in Seq(Amounts) /\ spent \in Seq(Amounts)
      /\ Session \in Nat \ {0} /\ Len(spent') = Session
  BY TypeFacts, InnermostFacts DEF LoopInv, SpentOn, Session
<1>4. Chained(calls, spent') /\ spent' # <<>>
  BY <1>3, ChainedSpent DEF LoopInv
<1>5. Chained(calls', spent')
  BY <1>1, <1>3, <1>4, ChainedEntered DEF Innermost, Nesting
<1>6. calls' \in Seq(CountCalls) /\ calls' # <<>> /\ Aside' = f.aside
  BY <1>1, <1>3, AppendedFacts
<1>7. LoopTypeOK'
  BY <1>1, <1>2, <1>3, <1>6, StaysTyped DEF LoopInv, LoopTypeOK
<1>8. Within(count)'
  BY <1>2, <1>6 DEF Within
<1> QED BY <1>2, <1>5, <1>6, <1>7, <1>8, NobodyFacts DEF LoopInv, Pending

LEMMA Traps == LoopInv /\ trap_error => LoopInv'
<1> SUFFICES ASSUME LoopInv, trap_error PROVE LoopInv'
  OBVIOUS
<1>1. CASE Running /\ Nesting < MaxCalls /\ Reads("trap_error", 0)
  BY <1>1, ReadStep DEF Running, Idle, Readers
<1> DEFINE n == Reserve(read.count)
           f == TrapFrame(n)
           v == read.count - n
<1>2. CASE Enter("trap_error", f, v) /\ UNCHANGED spent
  <2>1. /\ calls # <<>> /\ Within(read.count) /\ read.count \in Count /\ read.count \in Nat
        /\ "trap_error" \in Readers
    BY <1>2, TypeFacts DEF Enter, WriteBack, LoopInv, Pending, Readers
  <2>2. n \in 0..read.count
    BY <2>1, ReserveFacts
  <2>3. n \in Count /\ n \in Nat /\ v \in Count /\ v \in Nat
    BY <2>1, <2>2, FlagFacts DEF Count
  <2>4. /\ Session \in Nat /\ Innermost.session = Session /\ spent[Session] \in Amounts
        /\ Aside \in Nat /\ Innermost.aside = Aside
    BY <2>1, InnermostFacts DEF LoopInv
  <2> HIDE DEF n
  <2>5. /\ f \in CountCalls /\ f.session = Session /\ f.aside = Aside + n
        /\ Above(f, Innermost, spent')
    BY <2>3, <2>4 DEF TrapFrame, CountCalls, Trapping, Above
  <2>6. Affords(spent[Session], v, f.aside)
    <3>1. Affords(spent[Session], read.count, Aside)
      BY <2>1 DEF Within
    <3>2. spent[Session] # LIFTED => spent[Session] \in Nat
      BY <2>4 DEF Amounts
    <3>3. v + f.aside = read.count + Aside
      BY <2>1, <2>3, <2>4, <2>5
    <3>4. v \in Nat /\ f.aside \in Nat /\ MAX_LOOP_COUNT \in Nat
      BY <2>3, <2>4, <2>5, FlagFacts
    <3> HIDE DEF v, f
    <3> QED BY <2>1, <2>4, <3>1, <3>2, <3>3, <3>4 DEF Affords
  <2> HIDE DEF f, v
  <2>7. SpentOn(spent, spent') /\ Session' = Session /\ spent' = spent
    BY <1>2, KeepsSpent DEF LoopInv
  <2> QED BY <1>2, <2>1, <2>3, <2>5, <2>6, <2>7, EnterStep
<1> QED BY <1>1, <1>2 DEF trap_error

LEMMA Unlimits == LoopInv /\ unlimited_execution => LoopInv'
<1> SUFFICES ASSUME LoopInv, unlimited_execution PROVE LoopInv'
  OBVIOUS
<1>1. CASE Unlimited /\ Running /\ Nesting < MaxCalls /\ Reads("unlimited_execution", 0)
  BY <1>1, ReadStep DEF Running, Idle, Readers
<1> DEFINE f == [kind |-> "unlimited", old |-> read.count, aside |-> Aside, session |-> Session]
<1>2. CASE Enter("unlimited_execution", f, MAX_TAGGED_INT) /\ Lifts
  <2>1. /\ calls # <<>> /\ read.count \in Count /\ MAX_TAGGED_INT \in Count
        /\ "unlimited_execution" \in Readers
    BY <1>2, TypeFacts, FlagFacts DEF Enter, WriteBack, LoopInv, Pending, Readers, Count
  <2>2. /\ Session \in Nat /\ Innermost.session = Session
        /\ Aside \in Nat /\ Innermost.aside = Aside
    BY <2>1, InnermostFacts DEF LoopInv
  <2>3. SpentOn(spent, spent') /\ Session' = Session /\ spent'[Session] = LIFTED
    BY <1>2, <2>1, LiftingFacts DEF LoopInv
  <2>4. f \in CountCalls /\ f.session = Session /\ Above(f, Innermost, spent')
    BY <2>1, <2>2, <2>3 DEF CountCalls, Counting, Above
  <2>5. Affords(spent'[Session], MAX_TAGGED_INT, f.aside)
    BY <2>3 DEF Affords
  <2> HIDE DEF f
  <2> QED BY <1>2, <2>1, <2>3, <2>4, <2>5, EnterStep
<1> QED BY <1>1, <1>2 DEF unlimited_execution

-----------------------------------------------------------------------------
\* Leaving a frame for one of the same session.
LEMMA LeaveStep ==
  ASSUME LoopInv, calls # <<>>, calls' = Outer, Innermost.kind # "session", spent' = spent,
         word' \in Word, read' = Nobody, mode' \in {"run", "throw", "caught"},
         error' = error, ranOut' = ranOut,
         Affords(spent[Session], count', calls[Nesting - 1].aside)
  PROVE  LoopInv'
<1>1. /\ Chained(calls', spent') /\ calls' # <<>> /\ Session' = Session
      /\ calls' \in Seq(CountCalls) /\ Aside' = calls[Nesting - 1].aside
  BY ChainedLeft DEF LoopInv
<1>2. LoopTypeOK'
  BY <1>1, TypeFacts, StaysTyped DEF LoopInv, LoopTypeOK
<1>3. Within(count)'
  BY <1>1 DEF Within
<1> QED BY <1>1, <1>2, <1>3, NobodyFacts DEF LoopInv, Pending

LEMMA GivesBack == LoopInv /\ give_back => LoopInv'
<1> SUFFICES ASSUME LoopInv, give_back PROVE LoopInv'
  OBVIOUS
<1>1. CASE mode \in {"run", "throw"} /\ calls # <<>> /\ Catching /\ Reads("give_back", 0)
  BY <1>1, ReadStep DEF Readers, Catching
<1> DEFINE v == GivenBack(read.count)
<1>2. CASE /\ WriteBack("give_back", v) /\ calls' = Outer
           /\ mode' = (IF mode = "throw" THEN "caught" ELSE mode) /\ UNCHANGED spent
  <2>1. /\ calls # <<>> /\ Innermost.kind = "trap_error" /\ Within(read.count)
        /\ "give_back" \in Readers
    BY <1>2 DEF WriteBack, LoopInv, Pending, Readers
  <2>2. /\ Innermost.saved \in Count /\ read.count \in Count /\ Nesting > 1
        /\ Aside \in Nat /\ Innermost.aside = Aside /\ spent[Session] \in Amounts
        /\ Above(Innermost, calls[Nesting - 1], spent)
    BY <2>1, InnermostFacts, TypeFacts DEF LoopInv
  <2>3. v \in Count /\ v <= read.count + Innermost.saved
    BY <2>2, FlagFacts DEF Count, GivenBack
  <2>4. /\ Aside = calls[Nesting - 1].aside + Innermost.saved
        /\ calls[Nesting - 1].aside \in Nat
    BY <1>2, <2>1, <2>2, LeftFacts, FrameTypes DEF Above, LoopInv
  <2>5. /\ word' \in Word /\ count' = v /\ read' = Nobody
        /\ error' = error /\ ranOut' = ranOut
    BY <1>2, <2>1, <2>3, WritesFacts DEF LoopInv, WriteBack
  <2> HIDE DEF v
  <2>6. Affords(spent[Session], v, calls[Nesting - 1].aside)
    <3> DEFINE a == calls[Nesting - 1].aside
               k == Innermost.saved
               s == spent[Session]
               m == read.count
    <3>1. s # LIFTED => s + m + Aside <= MAX_LOOP_COUNT /\ s \in Nat
      BY <2>1, <2>2 DEF Within, Affords, Amounts
    <3>2. a \in Nat /\ Aside = a + k /\ k \in Nat /\ m \in Nat /\ v \in Nat /\ v <= m + k
          /\ MAX_LOOP_COUNT \in Nat
      BY <2>2, <2>3, <2>4, FlagFacts DEF Count
    <3> HIDE DEF a, k, s, m
    <3>3. s # LIFTED => s + v + a <= MAX_LOOP_COUNT
      BY <3>1, <3>2
    <3> QED BY <3>3 DEF Affords, a, s
  <2>7. mode' \in {"run", "throw", "caught"} /\ spent' = spent /\ calls' = Outer
    BY <1>2 DEF LoopInv, LoopTypeOK
  <2> QED BY <2>1, <2>5, <2>6, <2>7, LeaveStep
<1> QED BY <1>1, <1>2 DEF give_back

LEMMA UnlimitedEnds == LoopInv /\ limit_execution => LoopInv'
<1> SUFFICES ASSUME LoopInv, limit_execution PROVE LoopInv'
  OBVIOUS
<1>1. /\ read.by = "nobody" /\ calls # <<>> /\ Innermost.kind = "unlimited"
      /\ calls' = Outer /\ UNCHANGED <<read, mode, error, ranOut, spent>>
      /\ word' = IF mode = "run" THEN set_xcount(word, Innermost.old) ELSE word
  BY DEF limit_execution
<1>2. /\ Innermost.old \in Count /\ Nesting > 1
      /\ Innermost.session = Session /\ Above(Innermost, calls[Nesting - 1], spent)
  BY <1>1, InnermostFacts DEF LoopInv
<1>3. word' \in Word
  BY <1>1, <1>2, TypeFacts, SetFacts DEF LoopInv
<1>4. spent[Session] = LIFTED
  BY <1>1, <1>2 DEF Above
<1>5. /\ Chained(calls', spent') /\ calls' # <<>> /\ Session' = Session
      /\ calls' \in Seq(CountCalls)
  BY <1>1, ChainedLeft DEF LoopInv
<1>6. LoopTypeOK'
  BY <1>1, <1>3, <1>5, TypeFacts, StaysTyped DEF LoopInv, LoopTypeOK
<1> QED BY <1>1, <1>4, <1>5, <1>6 DEF LoopInv, Pending, Within, Affords

\* The session around the one that ends goes on with the count it had.
LEMMA SessionEnds == LoopInv /\ session_end => LoopInv'
<1> SUFFICES ASSUME LoopInv, session_end PROVE LoopInv'
  OBVIOUS
<1>1. /\ read.by = "nobody" /\ calls # <<>> /\ Innermost.kind = "session" /\ mode' = "run"
      /\ calls' = Outer /\ spent' = SubSeq(spent, 1, Session - 1)
      /\ word' = set_xcount(word, Innermost.old) /\ UNCHANGED <<read, error, ranOut>>
  BY DEF session_end
<1>2. /\ Innermost.old \in Count /\ Nesting \in Nat \ {0} /\ Session \in Nat \ {0}
      /\ Innermost.session = Session
      /\ Nesting > 1 => Above(Innermost, calls[Nesting - 1], spent)
  BY <1>1, InnermostFacts DEF LoopInv
<1>3. word' \in Word /\ count' = Innermost.old
  BY <1>1, <1>2, TypeFacts, SetFacts DEF LoopInv, count
<1>4. /\ spent' \in Seq(Amounts) /\ Len(spent') = Session - 1
      /\ \A k \in 1..(Session - 1) : spent'[k] = spent[k]
  <2>1. spent \in Seq(Amounts) /\ Session = Len(spent)
    BY TypeFacts DEF LoopInv, Session
  <2> QED BY <1>1, <1>2, <2>1, SessionLeft
<1>5. calls' \in Seq(CountCalls) /\ Nesting' = Nesting - 1 /\ Session' = Session - 1
  BY <1>1, <1>4, LeftFacts DEF LoopInv, Session
<1>6. LoopTypeOK'
  BY <1>1, <1>3, <1>4, <1>5, TypeFacts, StaysTyped DEF LoopInv, LoopTypeOK
<1>7. CASE Nesting = 1
  <2>1. calls' = <<>>
    BY <1>1, <1>7, LeftFacts DEF LoopInv
  <2>2. Session = 1
    BY <1>2, <1>7 DEF LoopInv, Chained, Innermost, Nesting, Session
  <2>3. spent' = <<>>
    BY <1>4, <2>2, EmptySeq
  <2>4. Chained(<<>>, <<>>)
    BY DEF Chained, Ordered
  <2> QED BY <1>1, <1>6, <2>1, <2>3, <2>4 DEF LoopInv, Pending, Within
<1>8. CASE Nesting > 1
  <2> DEFINE below == calls[Nesting - 1]
  <2>1. /\ calls' # <<>> /\ Aside' = below.aside /\ below \in CountCalls
        /\ \A i \in 1..(Nesting - 1) : calls'[i] = calls[i]
    BY <1>1, <1>8, LeftFacts DEF LoopInv
  <2>2. /\ below.session = Session - 1 /\ Session - 1 \in 1..(Session - 1)
        /\ Affords(spent[Session - 1], Innermost.old, below.aside)
    <3>1. below.session \in Nat /\ Session = below.session + 1
          /\ Affords(spent[below.session], Innermost.old, below.aside)
      BY <1>1, <1>2, <1>8, <2>1, FrameTypes DEF Above
    <3>2. below.session \in 1..Session
      BY <1>2, <1>8 DEF LoopInv, Chained, Nesting, Session
    <3> HIDE DEF below
    <3>3. below.session = Session - 1
      BY <3>1, <3>2
    <3> QED BY <1>2, <3>1, <3>2, <3>3
  <2>3. Within(count)'
    BY <1>3, <1>4, <1>5, <2>1, <2>2 DEF Within
  <2>4. Chained(calls', spent')
    BY <1>1, <1>2, <1>4, <1>5, <1>8, <2>1, <2>2, ChainedEnded DEF LoopInv
  <2> QED BY <1>1, <1>6, <2>1, <2>3, <2>4 DEF LoopInv, Pending
<1> QED BY <1>2, <1>7, <1>8

-----------------------------------------------------------------------------
(***************************************************************************)
(* Signals, which also come while C code depends on the count it has read. *)
(***************************************************************************)
LEMMA SignalStep ==
  ASSUME LoopInv, UNCHANGED <<read, calls, mode, error, ranOut>>, word' \in Word,
         \/ spent' = spent /\ count' <= count
         \/ Lifts
  PROVE  LoopInv'
<1>1. /\ SpentOn(spent, spent') /\ Session' = Session
      /\ spent' = spent \/ (calls # <<>> => spent'[Session] = LIFTED)
  BY KeepsSpent, LiftingFacts DEF LoopInv
<1>2. LoopTypeOK'
  BY <1>1, TypeFacts, StaysTyped DEF LoopInv, LoopTypeOK, SpentOn
<1>3. Chained(calls', spent')
  BY <1>1, TypeFacts, ChainedSpent DEF LoopInv
<1>4. Aside' = Aside /\ Innermost' = Innermost
  BY DEF Aside, Innermost, Nesting
<1>5. \A n : Within(n) => Within(n)'
  BY <1>1, <1>4 DEF Within, Affords
<1>6. Within(count)'
  <2>1. CASE spent' = spent /\ count' <= count
    <3>1. count \in Nat /\ count' \in Nat /\ MAX_LOOP_COUNT \in Nat
      BY <1>2, TypeFacts, CountFacts, FlagFacts DEF LoopInv, count, Count
    <3>2. calls # <<>> => spent[Session] \in Amounts /\ Aside \in Nat
      BY InnermostFacts DEF LoopInv
    <3>3. calls # <<>> /\ spent[Session] # LIFTED => spent[Session] \in Nat
      BY <3>2 DEF Amounts
    <3>4. calls # <<>> => (Affords(spent[Session], count, Aside) => Affords(spent[Session], count', Aside))
      BY <2>1, <3>1, <3>2, <3>3 DEF Affords
    <3>5. Within(count)
      BY DEF LoopInv
    <3> QED BY <1>1, <1>4, <2>1, <3>4, <3>5 DEF Within
  <2>2. CASE Lifts
    <3>1. calls # <<>> => spent'[Session] = LIFTED
      BY <2>2, LiftingFacts DEF LoopInv
    <3> QED BY <1>1, <3>1 DEF Within, Affords
  <2> QED BY <2>1, <2>2
<1>7. read.by # "nobody" => Within(read.count)'
  BY <1>5 DEF LoopInv, Pending
<1>8. Pending'
  BY <1>4, <1>7 DEF LoopInv, Pending
<1> QED BY <1>2, <1>3, <1>6, <1>8 DEF LoopInv

LEMMA Signals == LoopInv /\ (sigprof_handler \/ catchint) => LoopInv'
<1> SUFFICES ASSUME LoopInv, sigprof_handler \/ catchint PROVE LoopInv'
  OBVIOUS
<1>1. word \in Word /\ count \in Nat /\ 1 \in Count
  BY TypeFacts, FlagFacts DEF LoopInv, Count
<1>2. CASE sigprof_handler
  <2>1. word' \in Word /\ count' = count
    BY <1>2, CountWord DEF sigprof_handler, count, F
  <2> QED BY <1>1, <1>2, <2>1, SignalStep DEF sigprof_handler
<1>3. CASE catchint
  <2>1. word' \in Word /\ count' = 1
    BY <1>1, <1>3, SetFacts DEF catchint, count
  <2> QED BY <1>1, <1>3, <2>1, SignalStep DEF catchint
<1> QED BY <1>2, <1>3

LEMMA LoopStarts == LoopInit => LoopInv
<1> SUFFICES ASSUME LoopInit PROVE LoopInv
  OBVIOUS
<1> DEFINE f == [kind |-> "session", old |-> 0, aside |-> 0, session |-> 1]
<1>1. f \in CountCalls /\ f.kind = "session" /\ f.session = 1 /\ f.aside = 0
  BY FlagFacts DEF CountCalls, Counting, Count
<1>2. word \in Word /\ count = MAX_LOOP_COUNT /\ MAX_LOOP_COUNT \in Nat
  <2>1. word \in Word /\ MAX_LOOP_COUNT < F
    BY FlagFacts DEF LoopInit, Word
  <2> QED BY <2>1, CountFacts, FlagFacts DEF count, LoopInit
<1> HIDE DEF f
<1>3. /\ calls = <<f>> /\ read = Nobody /\ mode = "run" /\ error = FALSE /\ ranOut = FALSE
      /\ spent = <<0>>
  BY DEF LoopInit, f
<1>4. calls \in Seq(CountCalls) /\ spent \in Seq(Amounts) /\ Aside = 0 /\ Session = 1
  BY <1>1, <1>3 DEF Amounts, Aside, Innermost, Nesting, Session
<1>5. LoopTypeOK
  <2>1. /\ 0..XCOUNT_MASK = Count /\ Word = 0..(2 * XCOUNT_PROFILE_FLAG - 1) /\ 0 \in Count
    BY FlagFacts DEF Count, F, XCOUNT_MASK, Word
  <2> QED BY <1>2, <1>3, <1>4, <2>1 DEF LoopTypeOK, Nobody, CountCalls, Counting, Trapping, Amounts
<1>6. Chained(calls, spent)
  <2>1. Len(calls) = 1 /\ calls[1] = f /\ Len(spent) = 1 /\ calls # <<>>
    BY <1>3
  <2>2. Ordered(calls)
    BY <1>1, <2>1 DEF Ordered
  <2> QED BY <1>1, <2>1, <2>2 DEF Chained
<1>7. Within(count) /\ Pending
  BY <1>2, <1>3, <1>4, NobodyFacts DEF Within, Affords, Pending, Nobody
<1> QED BY <1>5, <1>6, <1>7 DEF LoopInv

LEMMA LoopStep == LoopInv /\ [LoopNext]_loop_vars => LoopInv'
<1>1. LoopInv /\ UNCHANGED loop_vars => LoopInv'
  BY DEF loop_vars, LoopInv, LoopTypeOK, Chained, Pending, Within, Aside, Session, Innermost,
         Nesting, count
<1>2. LoopInv /\ LoopNext => LoopInv'
  BY CheckLoop, Ticks, Expensive, Throws, SessionStarts, Traps, Unlimits, GivesBack, Handles,
     SessionEnds, UnlimitedEnds, Signals DEF LoopNext
<1> QED BY <1>1, <1>2

\* The word keeps its width and the frames what they saved, whatever signals
\* and throws write the count (context.h:377-399).
THEOREM LoopTypes == LoopSpec => []LoopTypeOK
<1>1. LoopInv => LoopTypeOK
  BY DEF LoopInv
<1> QED BY <1>1, LoopStarts, LoopStep, PTL DEF LoopSpec

\* No session whose limit is in force runs more loops than its limit, for a
\* word of any width, any nesting, and both signals at any time, also between
\* a read of the count and the write that depends on it (basic.c:490-536,
\* context.h:393-399, context.c:221-280).
THEOREM LoopSafety == LoopSpec => []LoopsLimited
<1>1. LoopInv => LoopsLimited
  BY DEF LoopInv, Within, Affords, LoopsLimited
<1> QED BY <1>1, LoopStarts, LoopStep, PTL DEF LoopSpec

-----------------------------------------------------------------------------
(***************************************************************************)
(* The inductive invariant of the list.  As nothing clears is_active, an   *)
(* allocated profile is never freed.  What collect_profile() was given has *)
(* an object; what it allocated has none yet, and is its alone.            *)
(***************************************************************************)
Objects ==
  \A p \in Profiles : /\ p \in all_profiles <=> profile[p].is_active
                      /\ p \in Listed => p \in all_profiles
                      /\ Held(p) => p \in all_profiles /\ profile[p].referenced

Collects ==
  \A i \in 1..Collections :
    /\ collecting[i].profile \in all_profiles
    /\ collecting[i].given => refs[collecting[i].profile] = 1
    /\ ~collecting[i].given =>
         /\ refs[collecting[i].profile] = 0 /\ collecting[i].limit
         /\ \A j \in 1..Collections : collecting[j].profile = collecting[i].profile => j = i

TimerUsed == is_profiling => active_profiles # <<>> \/ stopped

ListTypes == /\ all_profiles \subseteq Profiles
             /\ active_profiles \in Seq(Profiles)
             /\ profile \in [Profiles -> Record]
             /\ refs \in [Profiles -> 0..1]
             /\ collecting \in Seq(Collecting)
             /\ is_profiling \in BOOLEAN /\ flag \in BOOLEAN /\ stopped \in BOOLEAN
             /\ outcome \in {"run", "assert", "crash"}

ProfileInv == /\ ListTypes /\ Objects /\ Collects /\ StackOrder /\ TimerUsed

-----------------------------------------------------------------------------
(***************************************************************************)
(* The list of active profiles.                                            *)
(***************************************************************************)
N == Len(active_profiles)

LEMMA ListFacts ==
  ASSUME ListTypes
  PROVE  /\ N \in Nat /\ (active_profiles = <<>> <=> N = 0)
         /\ \A i \in 1..N : active_profiles[i] \in Profiles
         /\ \A p : p \in Listed <=> \E i \in 1..N : active_profiles[i] = p
<1>1. active_profiles \in Seq(Profiles)
  BY DEF ListTypes
<1>2. N \in Nat /\ \A i \in 1..N : active_profiles[i] \in Profiles
  BY <1>1, LenProperties, ElementOfSeq DEF N
<1>3. active_profiles = <<>> <=> N = 0
  BY <1>1, EmptySeq DEF N
<1> QED BY <1>2, <1>3 DEF Listed, N

LEMMA AppendFacts ==
  ASSUME ListTypes, NEW p \in Profiles, active_profiles' = Append(active_profiles, p)
  PROVE  /\ active_profiles' \in Seq(Profiles) /\ N' = N + 1 /\ active_profiles' # <<>>
         /\ \A i \in 1..N : active_profiles'[i] = active_profiles[i]
         /\ active_profiles'[N + 1] = p
         /\ Listed' = Listed \cup {p}
<1>1. active_profiles \in Seq(Profiles)
  BY DEF ListTypes
<1>2. /\ active_profiles' \in Seq(Profiles) /\ N' = N + 1 /\ active_profiles' # <<>>
      /\ \A i \in 1..N : active_profiles'[i] = active_profiles[i]
      /\ active_profiles'[N + 1] = p
  BY <1>1, AppendProperties DEF N
<1>3. Listed' = {active_profiles'[i] : i \in 1..(N + 1)}
  BY <1>2 DEF Listed, N
<1>4. Listed = {active_profiles[i] : i \in 1..N}
  BY DEF Listed, N
<1>5. N \in Nat
  BY ListFacts
<1>6. \A q : q \in Listed' <=> q \in Listed \cup {p}
  <2> TAKE q
  <2>1. ASSUME q \in Listed' PROVE q \in Listed \cup {p}
    <3>1. PICK i \in 1..(N + 1) : q = active_profiles'[i]
      BY <2>1, <1>3
    <3>2. CASE i = N + 1
      BY <3>1, <3>2, <1>2
    <3>3. CASE i # N + 1
      <4>1. i \in 1..N
        BY <3>3, <1>5
      <4> QED BY <3>1, <4>1, <1>2, <1>4
    <3> QED BY <3>2, <3>3
  <2>2. ASSUME q \in Listed PROVE q \in Listed'
    <3>1. PICK i \in 1..N : q = active_profiles[i]
      BY <2>2, <1>4
    <3>2. i \in 1..(N + 1)
      BY <1>5
    <3>3. active_profiles'[i] = q
      BY <3>1, <1>2
    <3> QED BY <3>2, <3>3, <1>3
  <2>3. p \in Listed'
    <3>1. N + 1 \in 1..(N + 1)
      BY <1>5
    <3> QED BY <3>1, <1>2, <1>3
  <2> QED BY <2>1, <2>2, <2>3
<1> QED BY <1>2, <1>6

LEMMA PrependFacts ==
  ASSUME ListTypes, NEW p \in Profiles, active_profiles' = <<p>> \o active_profiles
  PROVE  /\ active_profiles' \in Seq(Profiles) /\ N' = N + 1 /\ active_profiles' # <<>>
         /\ active_profiles'[1] = p
         /\ \A i \in 2..(N + 1) : active_profiles'[i] = active_profiles[i - 1]
         /\ Listed' = Listed \cup {p}
<1>1. active_profiles \in Seq(Profiles) /\ <<p>> \in Seq(Profiles) /\ Len(<<p>>) = 1 /\ <<p>>[1] = p
  BY DEF ListTypes
<1>2. N \in Nat
  BY ListFacts
<1>3. /\ active_profiles' \in Seq(Profiles) /\ N' = 1 + N
      /\ \A i \in 1..(1 + N) : active_profiles'[i] =
           IF i <= 1 THEN <<p>>[i] ELSE active_profiles[i - 1]
  BY <1>1, ConcatProperties DEF N
<1>4. /\ N' = N + 1 /\ active_profiles'[1] = p
      /\ \A i \in 2..(N + 1) : active_profiles'[i] = active_profiles[i - 1]
  <2>1. N' = N + 1 /\ active_profiles'[1] = p
    BY <1>1, <1>2, <1>3
  <2>2. ASSUME NEW i \in 2..(N + 1) PROVE active_profiles'[i] = active_profiles[i - 1]
    <3>1. i \in 1..(1 + N) /\ ~(i <= 1)
      BY <1>2
    <3> QED BY <3>1, <1>3
  <2> QED BY <2>1, <2>2
<1>5. active_profiles' # <<>>
  BY <1>2, <1>3, EmptySeq DEF N
<1>6. Listed' = {active_profiles'[i] : i \in 1..(N + 1)} /\ Listed = {active_profiles[i] : i \in 1..N}
  BY <1>4 DEF Listed, N
<1>7. \A q : q \in Listed' <=> q \in Listed \cup {p}
  <2> TAKE q
  <2>1. ASSUME q \in Listed' PROVE q \in Listed \cup {p}
    <3>1. PICK i \in 1..(N + 1) : q = active_profiles'[i]
      BY <2>1, <1>6
    <3>2. CASE i = 1
      BY <3>1, <3>2, <1>4
    <3>3. CASE i # 1
      <4>1. i \in 2..(N + 1) /\ i - 1 \in 1..N
        BY <3>3, <1>2
      <4> QED BY <3>1, <4>1, <1>4, <1>6
    <3> QED BY <3>2, <3>3
  <2>2. ASSUME q \in Listed PROVE q \in Listed'
    <3>1. PICK i \in 1..N : q = active_profiles[i]
      BY <2>2, <1>6
    <3>2. i + 1 \in 1..(N + 1) /\ i + 1 \in 2..(N + 1) /\ (i + 1) - 1 = i
      BY <1>2
    <3> QED BY <3>1, <3>2, <1>4, <1>6
  <2>3. p \in Listed'
    BY <1>2, <1>4, <1>6
  <2> QED BY <2>1, <2>2, <2>3
<1> QED BY <1>3, <1>4, <1>5, <1>7

LEMMA WithoutFacts ==
  ASSUME ListTypes, LimitedLast, NEW p \in Listed, active_profiles' = Without(p)
  PROVE  /\ active_profiles' \in Seq(Profiles) /\ N' = N - 1 /\ N \in Nat
         /\ Position(p) \in 1..N /\ active_profiles[Position(p)] = p
         /\ \A i \in 1..(N - 1) : active_profiles'[i] =
              active_profiles[IF i < Position(p) THEN i ELSE i + 1]
         /\ Listed' = Listed \ {p}
<1> DEFINE at == Position(p)
<1>1. N \in Nat /\ \A i \in 1..N : active_profiles[i] \in Profiles
  BY ListFacts
<1>2. at \in 1..N /\ active_profiles[at] = p
  <2>1. \E i \in 1..Len(active_profiles) : active_profiles[i] = p
    BY ListFacts DEF N
  <2> QED BY <2>1 DEF Position, N
<1> HIDE DEF at
<1>3. active_profiles' = [i \in 1..(N - 1) |-> active_profiles[IF i < at THEN i ELSE i + 1]]
  BY DEF Without, at, N
<1>4. \A i \in 1..(N - 1) : /\ (IF i < at THEN i ELSE i + 1) \in 1..N
                            /\ (IF i < at THEN i ELSE i + 1) # at
  BY <1>1, <1>2
<1>5. \A i \in 1..(N - 1) : active_profiles'[i] = active_profiles[IF i < at THEN i ELSE i + 1]
  BY <1>3
<1>6. active_profiles' \in Seq(Profiles) /\ N' = N - 1
  <2>1. N - 1 \in Nat
    BY <1>1, <1>2
  <2>2. active_profiles' \in [1..(N - 1) -> Profiles]
    BY <1>1, <1>3, <1>4
  <2>3. active_profiles' \in Seq(Profiles)
    BY <2>1, <2>2, SeqDef
  <2>4. Len(active_profiles') = N - 1
    BY <2>1, <2>2, <2>3, LenProperties
  <2> QED BY <2>3, <2>4 DEF N
<1>7. Listed' = {active_profiles'[i] : i \in 1..(N - 1)} /\ Listed = {active_profiles[i] : i \in 1..N}
  BY <1>6 DEF Listed, N
<1>8. \A q : q \in Listed' <=> q \in Listed \ {p}
  <2> TAKE q
  <2>1. ASSUME q \in Listed' PROVE q \in Listed \ {p}
    <3>1. PICK i \in 1..(N - 1) : q = active_profiles'[i]
      BY <2>1, <1>7
    <3> DEFINE j == IF i < at THEN i ELSE i + 1
    <3>2. j \in 1..N /\ j # at /\ q = active_profiles[j]
      BY <3>1, <1>4, <1>5
    <3> HIDE DEF j
    <3>3. active_profiles[j] # active_profiles[at]
      BY <3>2, <1>1, <1>2 DEF LimitedLast, N
    <3> QED BY <3>2, <3>3, <1>2, <1>7
  <2>2. ASSUME q \in Listed \ {p} PROVE q \in Listed'
    <3>1. PICK j \in 1..N : q = active_profiles[j] /\ j # at
      BY <2>2, <1>2, <1>7
    <3> DEFINE i == IF j < at THEN j ELSE j - 1
    <3>2. i \in 1..(N - 1) /\ (IF i < at THEN i ELSE i + 1) = j
      BY <3>1, <1>1, <1>2
    <3> HIDE DEF i
    <3>3. active_profiles'[i] = q
      BY <3>1, <3>2, <1>5
    <3> QED BY <3>2, <3>3, <1>7
  <2> QED BY <2>1, <2>2
<1> QED BY <1>1, <1>2, <1>5, <1>6, <1>8 DEF at

-----------------------------------------------------------------------------
(***************************************************************************)
(* The order of the list, and of the calls that put profiles in it.        *)
(***************************************************************************)
LimitKept == \A q \in Profiles : profile'[q].limited = profile[q].limited

LEMMA SameOrder ==
  ASSUME ListTypes, LimitedLast, LimitKept, active_profiles' = active_profiles
  PROVE  LimitedLast'
<1>1. \A i \in 1..N : active_profiles[i] \in Profiles
  BY ListFacts
<1> QED BY <1>1 DEF LimitedLast, LimitKept, N

LEMMA RemoveOrder ==
  ASSUME ListTypes, LimitedLast, LimitKept, NEW p \in Listed,
         active_profiles' = Without(p)
  PROVE  LimitedLast'
<1> DEFINE at == Position(p)
           from(i) == IF i < at THEN i ELSE i + 1
<1>1. /\ N' = N - 1 /\ N \in Nat /\ at \in 1..N
      /\ \A i \in 1..(N - 1) : active_profiles'[i] = active_profiles[from(i)]
  BY WithoutFacts
<1> HIDE DEF at
<1> SUFFICES ASSUME NEW i \in 1..(N - 1), NEW j \in 1..(N - 1), i < j
             PROVE  /\ active_profiles'[i] # active_profiles'[j]
                    /\ profile'[active_profiles'[i]].limited
                         => profile'[active_profiles'[j]].limited
  BY <1>1 DEF LimitedLast, N
<1>2. from(i) \in 1..N /\ from(j) \in 1..N /\ from(i) < from(j)
  BY <1>1
<1>3. active_profiles'[i] = active_profiles[from(i)] /\ active_profiles'[j] = active_profiles[from(j)]
  BY <1>1
<1> HIDE DEF from
<1>4. active_profiles[from(i)] \in Profiles /\ active_profiles[from(j)] \in Profiles
  BY <1>2, ListFacts
<1> QED BY <1>2, <1>3, <1>4 DEF LimitedLast, LimitKept, N

LEMMA CallFacts ==
  ASSUME ListTypes
  PROVE  /\ Collections \in Nat /\ (collecting = <<>> <=> Collections = 0)
         /\ \A i \in 1..Collections : collecting[i] \in Collecting
<1> QED BY LenProperties, ElementOfSeq, EmptySeq DEF ListTypes, Collections

LEMMA EarlierFacts ==
  ASSUME ListTypes, collecting # <<>>, collecting' = Earlier
  PROVE  /\ Collections' = Collections - 1 /\ collecting' \in Seq(Collecting)
         /\ \A i \in 1..(Collections - 1) : collecting'[i] = collecting[i]
         /\ Latest = collecting[Collections] /\ Latest \in Collecting
         /\ Collections \in Nat \ {0}
<1> DEFINE n == Collections - 1
<1>1. Collections \in Nat \ {0} /\ \A i \in 1..Collections : collecting[i] \in Collecting
  BY CallFacts
<1>2. n \in Int /\ 1 \in Int /\ \A i \in 1..n : collecting[i] \in Collecting
  BY <1>1
<1>3. /\ SubSeq(collecting, 1, n) \in Seq(Collecting)
      /\ Len(SubSeq(collecting, 1, n)) = IF 1 <= n THEN n - 1 + 1 ELSE 0
      /\ \A i \in 1..(n - 1 + 1) : SubSeq(collecting, 1, n)[i] = collecting[1 + i - 1]
  <2> HIDE DEF n
  <2> QED BY <1>2, SubSeqProperties
<1>4. collecting' = SubSeq(collecting, 1, n)
  BY DEF Earlier
<1>5. Len(collecting') = n /\ \A i \in 1..n : collecting'[i] = collecting[i]
  BY <1>1, <1>3, <1>4
<1> QED BY <1>1, <1>3, <1>4, <1>5 DEF Latest, Collections

LEMMA ProfileEnterFacts ==
  ASSUME ListTypes, NEW c \in Collecting, collecting' = Append(collecting, c)
  PROVE  /\ Collections' = Collections + 1 /\ collecting' \in Seq(Collecting)
         /\ \A i \in 1..Collections : collecting'[i] = collecting[i]
         /\ collecting'[Collections + 1] = c
<1> QED BY AppendProperties DEF ListTypes, Collections

LEMMA SameLimits ==
  ASSUME ListTypes, LimitsInOrder, LimitKept,
         UNCHANGED <<active_profiles, collecting>>
  PROVE  LimitsInOrder'
<1>1. \A q \in Listed : q \in Profiles
  BY ListFacts
<1>2. {q \in Listed : profile'[q].limited} = {q \in Listed : profile[q].limited}
  BY <1>1 DEF LimitKept
<1>3. Listed' = Listed /\ Limits' = Limits
  BY DEF Listed, Limits, Collections
<1> QED BY <1>2, <1>3 DEF LimitsInOrder

-----------------------------------------------------------------------------
(***************************************************************************)
(* The steps.                                                              *)
(***************************************************************************)
LEMMA InitStep == ProfileInit => ProfileInv
<1> SUFFICES ASSUME ProfileInit PROVE ProfileInv
  OBVIOUS
<1>1. Collections = 0 /\ Listed = {} /\ Len(active_profiles) = 0
  BY DEF ProfileInit, Collections, Listed
<1>2. ListTypes
  <2>1. Blank \in Record
    BY DEF Blank, Record
  <2>2. profile \in [Profiles -> Record] /\ refs \in [Profiles -> 0..1]
    BY <2>1 DEF ProfileInit
  <2>3. <<>> \in Seq(Profiles) /\ <<>> \in Seq(Collecting)
    BY EmptySeq
  <2> QED BY <2>2, <2>3 DEF ProfileInit, ListTypes
<1>3. Objects
  BY <1>1 DEF ProfileInit, Objects, Blank, Held
<1>4. StackOrder
  <2>1. Limits = {}
    BY <1>1 DEF Limits
  <2> QED BY <1>1, <2>1 DEF ProfileInit, StackOrder, LimitedLast, TickHasProfile, LimitsInOrder
<1> QED BY <1>1, <1>2, <1>3, <1>4 DEF ProfileInit, ProfileInv, Collects, TimerUsed

\* A profile that is not allocated is new to everything.
LEMMA FreshFacts ==
  ASSUME ProfileInv, NEW p \in Profiles \ all_profiles
  PROVE  /\ p \notin Listed /\ refs[p] = 0 /\ ~profile[p].is_active
         /\ \A i \in 1..Collections : collecting[i].profile # p
<1> QED BY DEF ProfileInv, ListTypes, Objects, Collects, Held

LEMMA StartStep ==
  ASSUME ProfileInv, NEW p \in Profiles \ all_profiles,
         all_profiles' = all_profiles \cup {p}, Start(p)
  PROVE  ProfileInv'
<1>1. /\ active_profiles' \in Seq(Profiles) /\ N' = N + 1 /\ active_profiles' # <<>>
      /\ active_profiles'[1] = p
      /\ \A i \in 2..(N + 1) : active_profiles'[i] = active_profiles[i - 1]
      /\ Listed' = Listed \cup {p}
  BY PrependFacts DEF Start, StartTimer, signal_vars, Activated, ProfileInv
<1>2. N \in Nat /\ \A i \in 1..N : active_profiles[i] \in Profiles \ {p}
                                   /\ active_profiles[i] \in Listed
  BY ListFacts, FreshFacts DEF ProfileInv
<1>3. /\ profile' \in [Profiles -> Record] /\ refs' \in [Profiles -> 0..1]
      /\ profile'[p] = [is_active |-> TRUE, referenced |-> TRUE, limited |-> FALSE]
      /\ refs'[p] = 1
      /\ \A q \in Profiles \ {p} : profile'[q] = profile[q] /\ refs'[q] = refs[q]
  BY FreshFacts DEF Start, StartTimer, signal_vars, ProfileInv, ListTypes, Record
<1>4. ListTypes'
  BY <1>1, <1>3 DEF Start, StartTimer, signal_vars, ProfileInv, ListTypes
<1>5. Objects'
  BY <1>1, <1>3 DEF ProfileInv, Objects, Held
<1>6. Collects'
  <2>1. \A i \in 1..Collections : collecting[i].profile \in Profiles \ {p}
    BY FreshFacts DEF ProfileInv, ListTypes, Collects
  <2> QED BY <1>3, <2>1 DEF Start, StartTimer, signal_vars, ProfileInv, Collects, Collections, Held
<1>7. LimitedLast'
  <2> SUFFICES ASSUME NEW i \in 1..(N + 1), NEW j \in 1..(N + 1), i < j
               PROVE  /\ active_profiles'[i] # active_profiles'[j]
                      /\ profile'[active_profiles'[i]].limited
                           => profile'[active_profiles'[j]].limited
    BY <1>1 DEF LimitedLast, N
  <2>1. j \in 2..(N + 1) /\ j - 1 \in 1..N
    BY <1>2
  <2>2. active_profiles'[j] = active_profiles[j - 1]
    BY <2>1, <1>1
  <2>3. CASE i = 1
    BY <2>1, <2>2, <2>3, <1>1, <1>2, <1>3
  <2>4. CASE i # 1
    <3>1. i \in 2..(N + 1) /\ i - 1 \in 1..N /\ i - 1 < j - 1
      BY <2>4, <1>2
    <3>2. active_profiles'[i] = active_profiles[i - 1]
      BY <3>1, <1>1
    <3>3. /\ active_profiles[i - 1] # active_profiles[j - 1]
          /\ profile[active_profiles[i - 1]].limited => profile[active_profiles[j - 1]].limited
      BY <2>1, <3>1 DEF ProfileInv, StackOrder, LimitedLast, N
    <3> QED BY <2>1, <2>2, <3>1, <3>2, <3>3, <1>2, <1>3
  <2> QED BY <2>3, <2>4
<1>8. LimitsInOrder => LimitsInOrder'
  <2> SUFFICES ASSUME LimitsInOrder PROVE LimitsInOrder'
    OBVIOUS
  <2>1. Limits' = Limits /\ collecting' = collecting
    BY DEF Start, StartTimer, signal_vars, Limits, Collections
  <2>2. {q \in Listed' : profile'[q].limited} = {q \in Listed : profile[q].limited}
    <3>1. Listed \subseteq Profiles \ {p}
      BY ListFacts, FreshFacts DEF ProfileInv
    <3> QED BY <3>1, <1>1, <1>3
  <2>3. ASSUME NEW i \in Limits, NEW j \in Limits, NEW a \in 1..(N + 1), NEW b \in 1..(N + 1),
               i < j, active_profiles'[a] = collecting[i].profile,
               active_profiles'[b] = collecting[j].profile
        PROVE  a < b
    <3>1. a # 1 /\ b # 1
      BY <2>3, <1>1, FreshFacts DEF Limits
    <3>2. a \in 2..(N + 1) /\ b \in 2..(N + 1) /\ a - 1 \in 1..N /\ b - 1 \in 1..N
      BY <3>1, <1>2
    <3>3. /\ active_profiles[a - 1] = collecting[i].profile
          /\ active_profiles[b - 1] = collecting[j].profile
      BY <2>3, <3>2, <1>1
    <3>4. a - 1 < b - 1
      BY <2>3, <3>2, <3>3 DEF LimitsInOrder, N
    <3> QED BY <3>2, <3>4
  <2> QED BY <2>1, <2>2, <2>3, <1>1 DEF LimitsInOrder, N
<1>9. TickHasProfile' /\ TimerUsed'
  BY <1>1 DEF Start, StartTimer, signal_vars, TickHasProfile, TimerUsed
<1> QED BY <1>4, <1>5, <1>6, <1>7, <1>8, <1>9 DEF ProfileInv, StackOrder, Start, StartTimer, signal_vars

LEMMA StartProfile == ProfileInv /\ start_profile => ProfileInv'
<1> SUFFICES ASSUME ProfileInv, start_profile PROVE ProfileInv'
  OBVIOUS
<1>1. PICK p \in Profiles : /\ p \in all_profiles => Held(p) /\ ~profile[p].is_active
                            /\ all_profiles' = all_profiles \cup {p} /\ Start(p)
  BY DEF start_profile
<1>2. p \notin all_profiles
  BY <1>1 DEF ProfileInv, Objects
<1> QED BY <1>1, <1>2, StartStep

LEMMA StopProfile == ProfileInv /\ stop_profile => ProfileInv'
<1> SUFFICES ASSUME ProfileInv, stop_profile PROVE ProfileInv'
  OBVIOUS
<1>1. PICK p \in all_profiles : deactivate_profile(p)
  BY DEF stop_profile, signal_vars
<1>2. UNCHANGED <<all_profiles, profile, refs, collecting, is_profiling, flag>> /\ stopped' = TRUE
  BY DEF stop_profile, signal_vars
<1>3. ListTypes /\ LimitedLast /\ TickHasProfile /\ LimitKept
  BY <1>2 DEF ProfileInv, StackOrder, LimitKept
<1>4. CASE p \in Listed
  <2>1. active_profiles' = Without(p) /\ UNCHANGED outcome
    BY <1>1, <1>4 DEF deactivate_profile
  <2>2. active_profiles' \in Seq(Profiles) /\ Listed' = Listed \ {p} /\ LimitedLast'
    BY <1>3, <1>4, <2>1, WithoutFacts, RemoveOrder
  <2>3. active_profiles # <<>>
    BY <1>3, <1>4, ListFacts
  <2>4. TickHasProfile' /\ TimerUsed'
    BY <1>2, <1>3, <2>3 DEF TickHasProfile, TimerUsed
  <2> QED BY <1>2, <2>1, <2>2, <2>4
          DEF ProfileInv, ListTypes, Objects, Collects, Collections, Held, StackOrder
<1>5. CASE p \notin Listed
  <2>1. outcome' = "crash" /\ UNCHANGED active_profiles
    BY <1>1, <1>5 DEF deactivate_profile
  <2>2. LimitedLast' /\ Listed' = Listed
    BY <1>3, <2>1, SameOrder DEF Listed
  <2>3. TickHasProfile' /\ TimerUsed'
    BY <1>2, <1>3, <2>1 DEF TickHasProfile, TimerUsed
  <2> QED BY <1>2, <2>1, <2>2, <2>3
          DEF ProfileInv, ListTypes, Objects, Collects, Collections, Held, StackOrder
<1> QED BY <1>4, <1>5

LEMMA CollectStep ==
  ASSUME ProfileInv, NEW p \in Profiles \ all_profiles,
         all_profiles' = all_profiles \cup {p}, Collect(p, FALSE)
  PROVE  ProfileInv'
<1> DEFINE c == [profile |-> p, given |-> FALSE, limit |-> TRUE]
           n == Collections
<1>1. /\ active_profiles' \in Seq(Profiles) /\ N' = N + 1 /\ active_profiles' # <<>>
      /\ \A i \in 1..N : active_profiles'[i] = active_profiles[i]
      /\ active_profiles'[N + 1] = p
      /\ Listed' = Listed \cup {p}
  BY AppendFacts DEF Collect, StartTimer, signal_vars, Activated, ProfileInv
<1>2. N \in Nat /\ \A i \in 1..N : active_profiles[i] \in Profiles \ {p}
                                   /\ active_profiles[i] \in Listed
  BY ListFacts, FreshFacts DEF ProfileInv
<1>3. c \in Collecting
  BY DEF Collecting
<1>4. /\ Collections' = n + 1 /\ collecting' \in Seq(Collecting)
      /\ \A i \in 1..n : collecting'[i] = collecting[i]
      /\ collecting'[n + 1] = c
      /\ n \in Nat
  BY <1>3, ProfileEnterFacts, CallFacts DEF Collect, StartTimer, signal_vars, ProfileInv
<1>5. /\ profile' \in [Profiles -> Record] /\ refs' = refs
      /\ profile'[p].is_active /\ profile'[p].limited
      /\ \A q \in Profiles \ {p} : profile'[q] = profile[q]
  BY DEF Collect, StartTimer, signal_vars, ProfileInv, ListTypes, Record
<1>6. ListTypes'
  BY <1>1, <1>4, <1>5 DEF Collect, StartTimer, signal_vars, ProfileInv, ListTypes
<1>7. Objects'
  BY <1>1, <1>5, FreshFacts DEF ProfileInv, Objects, Held
<1>8. Collects'
  <2> SUFFICES ASSUME NEW i \in 1..(n + 1)
               PROVE  /\ collecting'[i].profile \in all_profiles'
                      /\ collecting'[i].given => refs'[collecting'[i].profile] = 1
                      /\ ~collecting'[i].given =>
                           /\ refs'[collecting'[i].profile] = 0 /\ collecting'[i].limit
                           /\ \A j \in 1..(n + 1) :
                                collecting'[j].profile = collecting'[i].profile => j = i
    BY <1>4 DEF Collects
  <2>1. \A j \in 1..n : collecting'[j] = collecting[j] /\ collecting[j].profile # p
    BY <1>4, FreshFacts
  <2>2. CASE i = n + 1
    <3>1. \A j \in 1..(n + 1) : j # n + 1 => j \in 1..n
      BY <1>4
    <3>2. refs[p] = 0 /\ collecting'[i] = c
      BY <2>2, <1>4, FreshFacts
    <3>3. p \in all_profiles'
      OBVIOUS
    <3>4. \A j \in 1..(n + 1) : collecting'[j].profile = p => j = n + 1
      BY <2>1, <3>1
    <3> QED BY <2>2, <3>2, <3>3, <3>4, <1>5
  <2>3. CASE i # n + 1
    <3>1. i \in 1..n
      BY <2>3, <1>4
    <3>2. \A j \in 1..(n + 1) : j # n + 1 => j \in 1..n
      BY <1>4
    <3>3. collecting'[n + 1].profile = p
      BY <1>4
    <3>4. /\ collecting[i].profile \in all_profiles
          /\ collecting[i].given => refs[collecting[i].profile] = 1
          /\ ~collecting[i].given =>
               /\ refs[collecting[i].profile] = 0 /\ collecting[i].limit
               /\ \A j \in 1..n : collecting[j].profile = collecting[i].profile => j = i
      BY <3>1 DEF ProfileInv, Collects
    <3>5. collecting'[i] = collecting[i] /\ collecting[i].profile # p /\ refs' = refs
      BY <2>1, <3>1, <1>5
    <3>6. ~collecting[i].given =>
            \A j \in 1..(n + 1) : collecting'[j].profile = collecting[i].profile => j = i
      BY <2>1, <3>2, <3>3, <3>4, <3>5
    <3> QED BY <3>4, <3>5, <3>6
  <2> QED BY <2>2, <2>3
<1>9. LimitedLast'
  <2> SUFFICES ASSUME NEW i \in 1..(N + 1), NEW j \in 1..(N + 1), i < j
               PROVE  /\ active_profiles'[i] # active_profiles'[j]
                      /\ profile'[active_profiles'[i]].limited
                           => profile'[active_profiles'[j]].limited
    BY <1>1 DEF LimitedLast, N
  <2>1. i \in 1..N
    BY <1>2
  <2>2. CASE j = N + 1
    BY <2>1, <2>2, <1>1, <1>2, <1>5
  <2>3. CASE j # N + 1
    <3>1. j \in 1..N
      BY <2>3, <1>2
    <3>2. /\ active_profiles[i] # active_profiles[j]
          /\ profile[active_profiles[i]].limited => profile[active_profiles[j]].limited
      BY <2>1, <3>1 DEF ProfileInv, StackOrder, LimitedLast, N
    <3> QED BY <2>1, <3>1, <3>2, <1>1, <1>2, <1>5
  <2> QED BY <2>2, <2>3
<1>10. LimitsInOrder => LimitsInOrder'
  <2> SUFFICES ASSUME LimitsInOrder PROVE LimitsInOrder'
    OBVIOUS
  <2>1. Limits' = Limits \cup {n + 1}
    <3>1. Limits' = {i \in 1..(n + 1) : collecting'[i].limit}
      BY <1>4 DEF Limits
    <3>2. \A i : i \in 1..(n + 1) <=> i \in 1..n \/ i = n + 1
      BY <1>4
    <3> QED BY <3>1, <3>2, <1>4 DEF Limits
  <2>2. \A i \in Limits : i \in 1..n /\ collecting'[i] = collecting[i] /\ collecting[i].profile # p
    BY <1>4, FreshFacts DEF Limits
  <2>3. {q \in Listed' : profile'[q].limited} = {collecting'[i].profile : i \in Limits'}
    <3>1. {q \in Listed' : profile'[q].limited} = {q \in Listed : profile[q].limited} \cup {p}
      <4>1. Listed \subseteq Profiles \ {p}
        BY ListFacts, FreshFacts DEF ProfileInv
      <4> QED BY <4>1, <1>1, <1>5
    <3>2. {collecting'[i].profile : i \in Limits'} = {collecting[i].profile : i \in Limits} \cup {p}
      BY <2>1, <2>2, <1>4
    <3> QED BY <3>1, <3>2 DEF LimitsInOrder
  <2>4. ASSUME NEW i \in Limits', NEW j \in Limits', NEW a \in 1..(N + 1), NEW b \in 1..(N + 1),
               i < j, active_profiles'[a] = collecting'[i].profile,
               active_profiles'[b] = collecting'[j].profile
        PROVE  a < b
    <3>1. i \in Limits /\ i \in 1..n
      BY <2>1, <2>2, <2>4, <1>4
    <3>2. a # N + 1
      BY <2>2, <2>4, <3>1, <1>1
    <3>3. a \in 1..N
      BY <3>2, <1>2
    <3>4. CASE j = n + 1
      <4>1. b = N + 1
        <5>1. active_profiles'[b] = p
          BY <2>4, <3>4, <1>4
        <5>2. b \in 1..N => active_profiles'[b] # p
          BY <1>1, <1>2
        <5> QED BY <5>1, <5>2, <1>2
      <4> QED BY <3>3, <4>1, <1>2
    <3>5. CASE j # n + 1
      <4>1. j \in Limits
        BY <2>1, <3>5
      <4>2. b # N + 1
        BY <2>2, <2>4, <4>1, <1>1
      <4>3. b \in 1..N
        BY <4>2, <1>2
      <4>4. active_profiles[a] = collecting[i].profile /\ active_profiles[b] = collecting[j].profile
        BY <2>2, <2>4, <3>1, <3>3, <4>1, <4>3, <1>1
      <4> QED BY <2>4, <3>1, <3>3, <4>1, <4>3, <4>4 DEF LimitsInOrder, N
    <3> QED BY <3>4, <3>5
  <2> QED BY <2>3, <2>4, <1>1 DEF LimitsInOrder, N
<1>11. TickHasProfile' /\ TimerUsed'
  BY <1>1 DEF Collect, StartTimer, signal_vars, TickHasProfile, TimerUsed
<1> QED BY <1>6, <1>7, <1>8, <1>9, <1>10, <1>11 DEF ProfileInv, StackOrder, Collect, StartTimer, signal_vars

LEMMA CollectNew == ProfileInv /\ collect_new => ProfileInv'
<1> SUFFICES ASSUME ProfileInv, collect_new PROVE ProfileInv'
  OBVIOUS
<1>1. PICK p \in Profiles \ all_profiles :
        all_profiles' = all_profiles \cup {p} /\ Collect(p, FALSE)
  BY DEF collect_new
<1> QED BY <1>1, CollectStep

\* collect_profile() for a profile that runs already
GoesOn(p) ==
  /\ collecting' = Append(collecting, [profile |-> p, given |-> TRUE, limit |-> FALSE])
  /\ UNCHANGED <<all_profiles, active_profiles, profile, refs, is_profiling, flag,
                 outcome, stopped>>

LEMMA GoesOnStep ==
  ASSUME ProfileInv, NEW p \in all_profiles, Held(p), GoesOn(p)
  PROVE  ProfileInv'
<1> DEFINE c == [profile |-> p, given |-> TRUE, limit |-> FALSE]
           n == Collections
<1>1. p \in Profiles /\ refs[p] = 1 /\ c \in Collecting
  BY DEF ProfileInv, ListTypes, Held, Collecting
<1>2. /\ Collections' = n + 1 /\ collecting' \in Seq(Collecting)
      /\ \A i \in 1..n : collecting'[i] = collecting[i]
      /\ collecting'[n + 1] = c
      /\ n \in Nat
  BY <1>1, ProfileEnterFacts, CallFacts DEF ProfileInv, GoesOn
<1>3. ListTypes' /\ Objects' /\ TimerUsed' /\ Listed' = Listed
  BY <1>2 DEF ProfileInv, ListTypes, Objects, Held, TimerUsed, Listed, GoesOn
<1>4. Collects'
  <2> SUFFICES ASSUME NEW i \in 1..(n + 1)
               PROVE  /\ collecting'[i].profile \in all_profiles
                      /\ collecting'[i].given => refs[collecting'[i].profile] = 1
                      /\ ~collecting'[i].given =>
                           /\ refs[collecting'[i].profile] = 0 /\ collecting'[i].limit
                           /\ \A j \in 1..(n + 1) :
                                collecting'[j].profile = collecting'[i].profile => j = i
    BY <1>2 DEF Collects, GoesOn
  <2>1. CASE i = n + 1
    BY <2>1, <1>1, <1>2
  <2>2. CASE i # n + 1
    <3>1. i \in 1..n /\ collecting'[i] = collecting[i]
      BY <2>2, <1>2
    <3>2. \A j \in 1..(n + 1) : j # n + 1 => j \in 1..n /\ collecting'[j] = collecting[j]
      BY <1>2
    <3>3. /\ collecting[i].profile \in all_profiles
          /\ collecting[i].given => refs[collecting[i].profile] = 1
          /\ ~collecting[i].given =>
               /\ refs[collecting[i].profile] = 0 /\ collecting[i].limit
               /\ \A j \in 1..n : collecting[j].profile = collecting[i].profile => j = i
      BY <3>1 DEF ProfileInv, Collects
    <3>4. ~collecting[i].given =>
            \A j \in 1..(n + 1) : collecting'[j].profile = collecting[i].profile => j = i
      <4> SUFFICES ASSUME ~collecting[i].given, NEW j \in 1..(n + 1),
                          collecting'[j].profile = collecting[i].profile
                   PROVE  j = i
        OBVIOUS
      <4>1. j # n + 1
        BY <3>3, <1>1, <1>2
      <4> QED BY <3>2, <3>3, <4>1
    <3> QED BY <3>1, <3>3, <3>4
  <2> QED BY <2>1, <2>2
<1>5. LimitedLast' /\ TickHasProfile'
  BY DEF ProfileInv, StackOrder, LimitedLast, TickHasProfile, GoesOn
<1>6. LimitsInOrder => LimitsInOrder'
  <2>1. Limits' = Limits
    <3>1. Limits' = {i \in 1..(n + 1) : collecting'[i].limit}
      BY <1>2 DEF Limits
    <3>2. \A i : i \in 1..(n + 1) <=> i \in 1..n \/ i = n + 1
      BY <1>2
    <3> QED BY <3>1, <3>2, <1>2 DEF Limits
  <2>2. \A i \in Limits : collecting'[i] = collecting[i]
    BY <1>2 DEF Limits
  <2>3. {collecting'[i].profile : i \in Limits} = {collecting[i].profile : i \in Limits}
    BY <2>2
  <2>4. UNCHANGED <<active_profiles, profile>>
    BY DEF GoesOn
  <2> QED BY <2>1, <2>2, <2>3, <2>4, <1>3 DEF LimitsInOrder
<1> QED BY <1>3, <1>4, <1>5, <1>6 DEF ProfileInv, StackOrder, GoesOn

LEMMA CollectProfile == ProfileInv /\ collect_profile => ProfileInv'
<1> SUFFICES ASSUME ProfileInv, collect_profile PROVE ProfileInv'
  OBVIOUS
<1>1. PICK p \in all_profiles :
        /\ Held(p) /\ UNCHANGED all_profiles
        /\ IF ~profile[p].is_active THEN Collect(p, TRUE)
           ELSE /\ IF is_profiling
                   THEN /\ collecting' = Append(collecting, [profile |-> p, given |-> TRUE,
                                                             limit |-> FALSE])
                        /\ UNCHANGED outcome
                   ELSE outcome' = "assert" /\ UNCHANGED collecting
                /\ UNCHANGED <<active_profiles, profile, refs, is_profiling, flag, stopped>>
  BY DEF collect_profile, signal_vars
<1>2. profile[p].is_active
  BY DEF ProfileInv, ListTypes, Objects
<1>3. CASE is_profiling
  BY <1>1, <1>2, <1>3, GoesOnStep DEF GoesOn
<1>4. CASE ~is_profiling
  <2>1. UNCHANGED <<all_profiles, active_profiles, profile, refs, collecting, is_profiling,
                    flag, stopped>> /\ outcome' = "assert"
    BY <1>1, <1>2, <1>4
  <2> QED BY <2>1 DEF ProfileInv, ListTypes, Objects, Held, Collects, Collections,
                      TimerUsed, Listed, StackOrder, LimitedLast, TickHasProfile
<1> QED BY <1>3, <1>4

\* What the end of a collect_profile() call leaves of the calls.
LEMMA LeaveCollects ==
  ASSUME ProfileInv, collecting # <<>>, collecting' = Earlier, UNCHANGED all_profiles,
         \A i \in 1..(Collections - 1) :
           refs'[collecting[i].profile] = refs[collecting[i].profile]
  PROVE  Collects'
<1> DEFINE n == Collections - 1
<1>1. /\ Collections' = n /\ n \in Nat /\ \A i \in 1..n : collecting'[i] = collecting[i]
      /\ \A i \in 1..n : i \in 1..Collections
  BY EarlierFacts DEF ProfileInv
<1> HIDE DEF n
<1> SUFFICES ASSUME NEW i \in 1..n
             PROVE  /\ collecting[i].profile \in all_profiles
                    /\ collecting[i].given => refs'[collecting[i].profile] = 1
                    /\ ~collecting[i].given =>
                         /\ refs'[collecting[i].profile] = 0 /\ collecting[i].limit
                         /\ \A j \in 1..n : collecting[j].profile = collecting[i].profile => j = i
  BY <1>1 DEF Collects
<1>2. refs'[collecting[i].profile] = refs[collecting[i].profile]
  BY DEF n
<1> QED BY <1>1, <1>2 DEF ProfileInv, Collects

LEMMA CollectedPlain ==
  ASSUME ProfileInv, collected, ~Latest.limit
  PROVE  ProfileInv'
<1> DEFINE n == Collections
<1>1. UNCHANGED <<all_profiles, active_profiles, profile, refs, is_profiling, flag,
                  outcome, stopped>>
      /\ collecting # <<>> /\ collecting' = Earlier
  BY DEF collected, signal_vars, Mudlle
<1>2. /\ n \in Nat \ {0} /\ Collections' = n - 1 /\ collecting' \in Seq(Collecting)
      /\ \A i \in 1..(n - 1) : collecting'[i] = collecting[i]
      /\ Latest = collecting[n]
  BY <1>1, EarlierFacts DEF ProfileInv
<1>3. ListTypes' /\ Objects' /\ TimerUsed' /\ Listed' = Listed
  BY <1>1, <1>2 DEF ProfileInv, ListTypes, Objects, Held, TimerUsed, Listed
<1>4. Collects'
  BY <1>1, LeaveCollects
<1>5. LimitedLast' /\ TickHasProfile'
  BY <1>1 DEF ProfileInv, StackOrder, LimitedLast, TickHasProfile
<1>6. LimitsInOrder => LimitsInOrder'
  <2>1. Limits' = Limits
    <3>1. Limits' = {i \in 1..(n - 1) : collecting'[i].limit}
      BY <1>2 DEF Limits
    <3>2. \A i : i \in 1..n <=> i \in 1..(n - 1) \/ i = n
      BY <1>2
    <3>3. ~collecting[n].limit
      BY <1>2
    <3> QED BY <3>1, <3>2, <3>3, <1>2 DEF Limits
  <2>2. \A i \in Limits : collecting'[i] = collecting[i]
    BY <1>2, <2>1 DEF Limits
  <2>3. {collecting'[i].profile : i \in Limits} = {collecting[i].profile : i \in Limits}
    BY <2>2
  <2> QED BY <1>1, <1>3, <2>1, <2>2, <2>3 DEF LimitsInOrder
<1> QED BY <1>1, <1>3, <1>4, <1>5, <1>6 DEF ProfileInv, StackOrder

\* The end of a call that put its profile in the list takes the last out.
LEMMA CollectedLimit ==
  ASSUME ProfileInv, collected, Latest.limit
  PROVE  ProfileInv'
<1> DEFINE n == Collections
           p == Latest.profile
<1>1. /\ collecting # <<>> /\ collecting' = Earlier
      /\ deactivate_profile(p) /\ StopTimer(Without(p)) /\ NewObject(p, Latest.given)
      /\ outcome = "run" /\ UNCHANGED <<all_profiles, stopped>>
  BY DEF collected, signal_vars, Mudlle
<1>2. /\ n \in Nat \ {0} /\ Collections' = n - 1 /\ collecting' \in Seq(Collecting)
      /\ \A i \in 1..(n - 1) : collecting'[i] = collecting[i]
      /\ Latest = collecting[n] /\ Latest \in Collecting
  BY <1>1, EarlierFacts DEF ProfileInv
<1>3. p \in all_profiles /\ p \in Profiles
  BY <1>2 DEF ProfileInv, Collects, Collecting
<1>4. /\ ListTypes /\ LimitedLast /\ TickHasProfile /\ TimerUsed
      /\ (~stopped => LimitsInOrder)
  BY <1>1 DEF ProfileInv, StackOrder
<1>5. /\ profile' \in [Profiles -> Record] /\ refs' \in [Profiles -> 0..1]
      /\ LimitKept /\ (\A q \in Profiles : profile'[q].is_active = profile[q].is_active)
      /\ Objects => \A q \in Profiles : refs'[q] > 0 => q \in all_profiles /\ profile'[q].referenced
      /\ \A i \in 1..(n - 1) : refs'[collecting[i].profile] = refs[collecting[i].profile]
  <2>1. CASE Latest.given
    BY <1>1, <2>1 DEF NewObject, ProfileInv, ListTypes, Objects, Held, LimitKept
  <2>2. CASE ~Latest.given
    <3>1. /\ profile' = [profile EXCEPT ![p].referenced = TRUE]
          /\ refs' = [refs EXCEPT ![p] = refs[p] + 1]
      BY <1>1, <2>2 DEF NewObject
    <3>2. refs[p] = 0 /\ \A i \in 1..n : collecting[i].profile = p => i = n
      BY <1>2, <2>2 DEF ProfileInv, Collects
    <3>3. \A i \in 1..(n - 1) : collecting[i].profile \in Profiles \ {p}
      <4> TAKE i \in 1..(n - 1)
      <4>1. i \in 1..n /\ i # n
        BY <1>2
      <4> QED BY <4>1, <3>2 DEF ProfileInv, ListTypes, Collects
    <3> HIDE DEF p, n
    <3>4. profile' \in [Profiles -> Record] /\ refs' \in [Profiles -> 0..1] /\ refs'[p] = 1
      <4>1. [profile[p] EXCEPT !.referenced = TRUE] \in Record
        BY <1>3 DEF ProfileInv, ListTypes, Record
      <4>2. profile' \in [Profiles -> Record]
        BY <1>3, <3>1, <4>1 DEF ProfileInv, ListTypes
      <4>3. refs' \in [Profiles -> 0..1] /\ refs'[p] = 1
        BY <1>3, <3>1, <3>2 DEF ProfileInv, ListTypes
      <4> QED BY <4>2, <4>3
    <3>5. \A q \in Profiles : /\ profile'[q].limited = profile[q].limited
                              /\ profile'[q].is_active = profile[q].is_active
                              /\ profile[q].referenced => profile'[q].referenced
                              /\ q # p => refs'[q] = refs[q]
      BY <1>3, <3>1 DEF ProfileInv, ListTypes, Record
    <3>6. profile'[p].referenced
      BY <1>3, <3>1 DEF ProfileInv, ListTypes, Record
    <3> QED BY <1>3, <3>3, <3>4, <3>5, <3>6 DEF LimitKept, Objects, Held
  <2> QED BY <2>1, <2>2
<1>6. Collects'
  BY <1>1, <1>5, LeaveCollects
<1> HIDE DEF p, n
<1>7. CASE p \in Listed
  <2>1. active_profiles' = Without(p) /\ UNCHANGED outcome
    BY <1>1, <1>7 DEF deactivate_profile
  <2> DEFINE at == Position(p)
  <2>2. /\ active_profiles' \in Seq(Profiles) /\ N' = N - 1 /\ N \in Nat
        /\ at \in 1..N /\ active_profiles[at] = p
        /\ \A i \in 1..(N - 1) : active_profiles'[i] =
              active_profiles[IF i < at THEN i ELSE i + 1]
        /\ Listed' = Listed \ {p}
    BY <1>4, <1>7, <2>1, WithoutFacts
  <2> HIDE DEF at
  <2>3. LimitedLast'
    BY <1>4, <1>5, <1>7, <2>1, RemoveOrder
  <2>4. /\ active_profiles' = <<>> => is_profiling' = FALSE /\ flag' = FALSE
        /\ active_profiles' # <<>> => UNCHANGED <<is_profiling, flag>>
    BY <1>1, <2>1 DEF StopTimer, signal_vars
  <2>5. active_profiles # <<>>
    BY <1>4, <1>7, ListFacts
  <2>6. TickHasProfile' /\ TimerUsed'
    <3>1. CASE active_profiles' = <<>>
      BY <2>4, <3>1 DEF TickHasProfile, TimerUsed
    <3>2. CASE active_profiles' # <<>>
      BY <1>4, <2>4, <2>5, <3>2 DEF TickHasProfile, TimerUsed
    <3> QED BY <3>1, <3>2
  <2>7. ListTypes' /\ Objects'
    BY <1>1, <1>2, <1>5, <2>1, <2>2, <2>4 DEF ProfileInv, ListTypes, Objects, Held
  <2>8. LimitsInOrder => LimitsInOrder'
    <3> SUFFICES ASSUME LimitsInOrder PROVE LimitsInOrder'
      OBVIOUS
    <3>1. Limits' = Limits \ {n} /\ n \in Limits
      <4>1. Limits' = {i \in 1..(n - 1) : collecting'[i].limit} /\ Limits = {i \in 1..n : collecting[i].limit}
        BY <1>2 DEF Limits, n
      <4>2. \A i : i \in 1..(n - 1) <=> i \in 1..n /\ i # n
        BY <1>2
      <4>3. n \in 1..n
        BY <1>2
      <4> QED BY <4>1, <4>2, <4>3, <1>2
    <3>2. \A i \in Limits' : collecting'[i] = collecting[i] /\ i \in Limits /\ i < n
      <4>1. \A i \in Limits' : i \in 1..(n - 1)
        BY <1>2 DEF Limits
      <4> QED BY <3>1, <4>1, <1>2
    <3>3. \A i \in Limits' : collecting[i].profile # p
      <4> SUFFICES ASSUME NEW i \in Limits', collecting[i].profile = p PROVE FALSE
        OBVIOUS
      <4>1. i \in Limits /\ n \in Limits /\ i < n /\ collecting[n].profile = p
        BY <1>2, <3>1, <3>2 DEF p
      <4>2. at < at
        BY <2>2, <4>1 DEF LimitsInOrder, N
      <4> QED BY <2>2, <4>2
    <3>4. {q \in Listed' : profile'[q].limited} = {collecting'[i].profile : i \in Limits'}
      <4>1. Listed \subseteq Profiles
        BY <1>4, ListFacts
      <4>2. {q \in Listed' : profile'[q].limited} = {q \in Listed : profile[q].limited} \ {p}
        BY <4>1, <2>2, <1>5 DEF LimitKept
      <4>3. {collecting'[i].profile : i \in Limits'} = {collecting[i].profile : i \in Limits'}
        BY <3>2
      <4>4. {collecting[i].profile : i \in Limits} = {collecting[i].profile : i \in Limits'} \cup {p}
        BY <3>1, <1>2 DEF p
      <4>5. p \notin {collecting[i].profile : i \in Limits'}
        BY <3>3
      <4> QED BY <4>2, <4>3, <4>4, <4>5 DEF LimitsInOrder
    <3>5. ASSUME NEW i \in Limits', NEW j \in Limits', NEW a \in 1..(N - 1), NEW b \in 1..(N - 1),
                 i < j, active_profiles'[a] = collecting'[i].profile,
                 active_profiles'[b] = collecting'[j].profile
          PROVE  a < b
      <4> DEFINE from(k) == IF k < at THEN k ELSE k + 1
      <4>1. /\ active_profiles[from(a)] = collecting[i].profile
            /\ active_profiles[from(b)] = collecting[j].profile
        BY <2>2, <3>2, <3>5
      <4>2. from(a) \in 1..N /\ from(b) \in 1..N
        BY <2>2
      <4>3. from(a) < from(b)
        <5> HIDE DEF from
        <5> QED BY <3>2, <3>5, <4>1, <4>2 DEF LimitsInOrder, N
      <4> QED BY <2>2, <4>3
    <3> QED BY <2>2, <3>4, <3>5 DEF LimitsInOrder, N
  <2> QED BY <1>1, <1>4, <1>6, <2>3, <2>6, <2>7, <2>8 DEF ProfileInv, StackOrder
<1>8. CASE p \notin Listed
  <2>1. outcome' = "crash" /\ UNCHANGED active_profiles /\ Without(p) = active_profiles
    BY <1>1, <1>8 DEF deactivate_profile, Without
  <2>2. LimitedLast' /\ Listed' = Listed
    BY <1>4, <1>5, <2>1, SameOrder DEF Listed
  <2>3. /\ active_profiles = <<>> => is_profiling' = FALSE /\ flag' = FALSE
        /\ active_profiles # <<>> => UNCHANGED <<is_profiling, flag>>
    BY <1>1, <2>1 DEF StopTimer, signal_vars
  <2>4. TickHasProfile' /\ TimerUsed'
    BY <1>1, <1>4, <2>1, <2>3 DEF TickHasProfile, TimerUsed
  <2>5. ListTypes' /\ Objects'
    BY <1>1, <1>2, <1>5, <2>1, <2>2, <2>3 DEF ProfileInv, ListTypes, Objects, Held
  <2> QED BY <1>6, <2>1, <2>2, <2>4, <2>5 DEF ProfileInv, StackOrder
<1> QED BY <1>7, <1>8

LEMMA Collected == ProfileInv /\ collected => ProfileInv'
<1> QED BY CollectedPlain, CollectedLimit

LEMMA MudlleFree == ProfileInv /\ profile_mudlle_free => ProfileInv'
<1> SUFFICES ASSUME ProfileInv, profile_mudlle_free PROVE ProfileInv'
  OBVIOUS
<1>1. PICK p \in all_profiles :
        /\ refs[p] > Kept(p) /\ refs' = [refs EXCEPT ![p] = refs[p] - 1]
        /\ maybe_free_profile(p, [profile[p] EXCEPT !.referenced = FALSE])
        /\ UNCHANGED <<active_profiles, collecting, is_profiling, flag, outcome, stopped>>
  BY DEF profile_mudlle_free, signal_vars
<1>2. p \in Profiles /\ profile[p] \in Record /\ profile[p].is_active
  BY DEF ProfileInv, ListTypes, Objects
<1>3. refs[p] = 1 /\ \A i \in 1..Collections : collecting[i].profile = p => ~collecting[i].given
  <2>1. refs[p] \in 0..1
    BY <1>2 DEF ProfileInv, ListTypes
  <2> QED BY <1>1, <2>1 DEF Kept
<1>4. /\ profile' = [profile EXCEPT ![p] = [profile[p] EXCEPT !.referenced = FALSE]]
      /\ UNCHANGED all_profiles
  BY <1>1, <1>2 DEF maybe_free_profile, Record
<1>5. /\ profile' \in [Profiles -> Record] /\ refs' \in [Profiles -> 0..1] /\ refs'[p] = 0
      /\ LimitKept /\ profile'[p].is_active = profile[p].is_active
      /\ \A q \in Profiles \ {p} : profile'[q] = profile[q] /\ refs'[q] = refs[q]
  <2> DEFINE r == [profile[p] EXCEPT !.referenced = FALSE]
  <2>1. r \in Record /\ r.is_active = profile[p].is_active /\ r.limited = profile[p].limited
    BY <1>2 DEF Record
  <2>2. profile' = [profile EXCEPT ![p] = r]
    BY <1>4
  <2> HIDE DEF r
  <2>3. /\ profile' \in [Profiles -> Record] /\ profile'[p] = r
        /\ \A q \in Profiles \ {p} : profile'[q] = profile[q]
    BY <1>2, <2>1, <2>2 DEF ProfileInv, ListTypes
  <2>4. /\ refs' \in [Profiles -> 0..1] /\ refs'[p] = 0
        /\ \A q \in Profiles \ {p} : refs'[q] = refs[q]
    BY <1>1, <1>2, <1>3 DEF ProfileInv, ListTypes
  <2> QED BY <2>1, <2>3, <2>4 DEF LimitKept
<1>6. ListTypes' /\ Objects' /\ Listed' = Listed
  BY <1>1, <1>4, <1>5 DEF ProfileInv, ListTypes, Objects, Held, Listed
<1>7. Collects'
  <2>1. \A i \in 1..Collections : collecting[i].profile \in Profiles \ {p}
    BY <1>3 DEF ProfileInv, ListTypes, Collects
  <2> QED BY <1>1, <1>4, <1>5, <2>1 DEF ProfileInv, Collects, Collections
<1>8. LimitedLast' /\ TickHasProfile' /\ TimerUsed'
  BY <1>1, <1>5, SameOrder DEF ProfileInv, StackOrder, TickHasProfile, TimerUsed
<1>9. LimitsInOrder => LimitsInOrder'
  BY <1>1, <1>5, SameLimits DEF ProfileInv
<1> QED BY <1>1, <1>6, <1>7, <1>8, <1>9 DEF ProfileInv, StackOrder

LEMMA SignalAndTick == ProfileInv /\ (profile_sigprof_handler \/ profile_tick) => ProfileInv'
<1> SUFFICES ASSUME ProfileInv, profile_sigprof_handler \/ profile_tick PROVE ProfileInv'
  OBVIOUS
<1>1. /\ UNCHANGED <<all_profiles, active_profiles, profile, refs, collecting, is_profiling,
                     outcome, stopped>>
      /\ flag' \in BOOLEAN /\ (flag' => is_profiling \/ flag)
  <2>1. flag \in BOOLEAN
    BY DEF ProfileInv, ListTypes
  <2>2. CASE profile_sigprof_handler
    <3>1. flag' = TRUE /\ is_profiling
      BY <2>2 DEF profile_sigprof_handler
    <3>2. UNCHANGED <<all_profiles, active_profiles, profile, refs, collecting, is_profiling,
                      outcome, stopped>>
      BY <2>2 DEF profile_sigprof_handler, NotSignals
    <3> QED BY <3>1, <3>2
  <2>3. CASE profile_tick
    <3>1. flag' = FALSE \/ flag' = flag
      <4>1. CASE ticking' = TRUE /\ flag' = FALSE
        BY <4>1
      <4>2. CASE UNCHANGED flag
        BY <4>2
      <4> QED BY <2>3, <4>1, <4>2, Zenon DEF profile_tick
    <3>2. UNCHANGED <<all_profiles, active_profiles, profile, refs, collecting, is_profiling,
                      outcome, stopped>>
      BY <2>3, Zenon DEF profile_tick, NotSignals
    <3>3. flag' \in BOOLEAN
      BY <2>1, <3>1
    <3>4. flag' => is_profiling \/ flag
      BY <3>1, Zenon
    <3> QED BY <3>2, <3>3, <3>4
  <2> QED BY <2>2, <2>3
<1>2. TickHasProfile'
  BY <1>1 DEF ProfileInv, StackOrder, TickHasProfile, TimerUsed
<1>3. LimitsInOrder => LimitsInOrder'
  BY <1>1, SameLimits DEF ProfileInv, LimitKept
<1> QED BY <1>1, <1>2, <1>3 DEF ProfileInv, ListTypes, Objects, Held, Collects, Collections,
                                TimerUsed, Listed, StackOrder, LimitedLast

LEMMA StutterStep == ProfileInv /\ UNCHANGED profile_vars => ProfileInv'
<1> SUFFICES ASSUME ProfileInv, UNCHANGED profile_vars PROVE ProfileInv'
  OBVIOUS
<1>1. LimitsInOrder => LimitsInOrder'
  BY SameLimits DEF ProfileInv, LimitKept, profile_vars, signal_vars
<1> QED BY <1>1 DEF ProfileInv, ListTypes, Objects, Held, Collects, Collections,
                    TimerUsed, Listed, StackOrder, LimitedLast, TickHasProfile, profile_vars,
                    signal_vars

LEMMA ProfileStep == ProfileInv /\ [ProfileNext]_profile_vars => ProfileInv'
<1> QED BY StartProfile, StopProfile, CollectNew, CollectProfile, Collected, MudlleFree,
           SignalAndTick, StutterStep DEF ProfileNext

LEMMA ProfileAlways == ProfileSpec => []ProfileInv
<1> QED BY InitStep, ProfileStep, PTL DEF ProfileSpec

-----------------------------------------------------------------------------
(***************************************************************************)
(* The signals.  While the timer does not run nothing waits, so that what  *)
(* waits as a profile is activated is what it is owed.                     *)
(***************************************************************************)
SignalTypes == profile_count \in Nat /\ ticking \in BOOLEAN /\ owed \in [Profiles -> Int]
TimerQuiet == ~is_profiling => profile_count = 0 /\ ~flag /\ ~ticking

SignalsInv == SignalTypes /\ TimerQuiet /\ SignalsCounted

LEMMA ListedProfiles == ListTypes => Listed \subseteq Profiles
BY ListFacts

\* Steps that only take profiles out of the list.
LEMMA SignalsKept ==
  ASSUME ProfileInv, SignalsInv, UNCHANGED <<signal_vars, owed, is_profiling>>,
         Listed' \subseteq Listed
  PROVE  SignalsInv'
BY DEF SignalsInv, SignalTypes, TimerQuiet, SignalsCounted, signal_vars

LEMMA SignalsStarted ==
  ASSUME ProfileInv, SignalsInv, NEW p \in Profiles, StartTimer(p), Listed' = Listed \cup {p}
  PROVE  SignalsInv'
<1>1. /\ is_profiling' = TRUE /\ UNCHANGED <<flag, profile_count, ticking>>
      /\ owed' = [owed EXCEPT ![p] = IF is_profiling THEN profile_count ELSE 0]
  BY DEF StartTimer, signal_vars
<1>2. ~is_profiling => profile_count = 0
  BY DEF SignalsInv, TimerQuiet
<1>3. owed' \in [Profiles -> Int] /\ owed'[p] = profile_count
      /\ \A q \in Profiles \ {p} : owed'[q] = owed[q]
  BY <1>1, <1>2 DEF SignalsInv, SignalTypes
<1>4. Listed \subseteq Profiles
  BY ListedProfiles DEF ProfileInv
<1> QED BY <1>1, <1>3, <1>4 DEF SignalsInv, SignalTypes, TimerQuiet, SignalsCounted

LEMMA SignalsStopped ==
  ASSUME ProfileInv, SignalsInv, NEW p \in Profiles, StopTimer(Without(p)), UNCHANGED owed,
         ~ticking, active_profiles' = Without(p), Listed' \subseteq Listed
  PROVE  SignalsInv'
<1>1. CASE Without(p) = <<>>
  <2>1. Listed' = {}
    BY <1>1 DEF Listed
  <2>2. /\ is_profiling' = FALSE /\ flag' = FALSE /\ profile_count' = 0 /\ UNCHANGED ticking
    BY <1>1 DEF StopTimer
  <2> QED BY <2>1, <2>2 DEF SignalsInv, SignalTypes, TimerQuiet, SignalsCounted
<1>2. CASE Without(p) # <<>>
  BY <1>2, SignalsKept DEF StopTimer
<1> QED BY <1>1, <1>2

LEMMA TickTakes == ProfileInv /\ SignalsInv /\ profile_tick => SignalsInv'
<1> SUFFICES ASSUME ProfileInv, SignalsInv, profile_tick PROVE SignalsInv'
  OBVIOUS
<1>1. Listed' = Listed /\ is_profiling' = is_profiling /\ Listed \subseteq Profiles
  BY ListedProfiles DEF profile_tick, NotSignals, Listed, ProfileInv
<1>2. CASE /\ Mudlle /\ flag
           /\ ticking' = TRUE /\ flag' = FALSE
           /\ NotSignals /\ UNCHANGED <<profile_count, owed>>
  BY <1>1, <1>2 DEF SignalsInv, SignalTypes, TimerQuiet, SignalsCounted
<1>3. CASE /\ outcome = "run" /\ ticking
           /\ ticking' = FALSE /\ Taken
           /\ NotSignals /\ UNCHANGED flag
  <2>1. /\ profile_count' = 0 /\ ticking' = FALSE
        /\ owed' = [p \in Profiles |-> IF p \in Listed THEN owed[p] - profile_count ELSE owed[p]]
    BY <1>3 DEF Taken
  <2>2. owed' \in [Profiles -> Int] /\ \A p \in Listed : owed'[p] = 0
    BY <1>1, <2>1 DEF SignalsInv, SignalTypes, SignalsCounted
  <2>3. SignalTypes'
    BY <2>1, <2>2 DEF SignalTypes
  <2>4. TimerQuiet'
    BY <1>1, <1>3, <2>1 DEF SignalsInv, TimerQuiet
  <2>5. SignalsCounted'
    BY <1>1, <2>1, <2>2 DEF SignalsCounted
  <2> QED BY <2>3, <2>4, <2>5 DEF SignalsInv
<1> QED BY <1>2, <1>3 DEF profile_tick

LEMMA SignalComes == ProfileInv /\ SignalsInv /\ profile_sigprof_handler => SignalsInv'
<1> SUFFICES ASSUME ProfileInv, SignalsInv, profile_sigprof_handler PROVE SignalsInv'
  OBVIOUS
<1>1. Listed' = Listed /\ is_profiling' = is_profiling /\ is_profiling /\ Listed \subseteq Profiles
  BY ListedProfiles DEF profile_sigprof_handler, NotSignals, Listed, ProfileInv
<1>2. /\ flag' = TRUE /\ profile_count' = profile_count + 1 /\ ticking' = ticking
      /\ owed' = [p \in Profiles |-> IF p \in Listed THEN owed[p] + 1 ELSE owed[p]]
  BY DEF profile_sigprof_handler
<1>3. owed' \in [Profiles -> Int] /\ \A p \in Listed : owed'[p] = profile_count + 1
  BY <1>1, <1>2 DEF SignalsInv, SignalTypes, SignalsCounted
<1> QED BY <1>1, <1>2, <1>3 DEF SignalsInv, SignalTypes, TimerQuiet, SignalsCounted

\* Activated() puts p in the list, deactivate_profile() takes at most p out.
LEMMA ListedActivated ==
  ASSUME ListTypes, NEW p \in Profiles, NEW limited \in BOOLEAN, Activated(p, limited)
  PROVE  Listed' = Listed \cup {p}
BY AppendFacts, PrependFacts DEF Activated

LEMMA ListedDeactivated ==
  ASSUME ListTypes, LimitedLast, NEW p \in Profiles, deactivate_profile(p)
  PROVE  active_profiles' = Without(p) /\ Listed' \subseteq Listed
<1>1. CASE p \in Listed
  <2>1. active_profiles' = Without(p)
    BY <1>1 DEF deactivate_profile
  <2> QED BY <1>1, <2>1, WithoutFacts
<1>2. CASE p \notin Listed
  BY <1>2 DEF deactivate_profile, Without, Listed
<1> QED BY <1>1, <1>2

LEMMA SignalsStep == ProfileInv /\ SignalsInv /\ [ProfileNext]_profile_vars => SignalsInv'
<1> SUFFICES ASSUME ProfileInv, SignalsInv, [ProfileNext]_profile_vars PROVE SignalsInv'
  OBVIOUS
<1>1. ListTypes /\ LimitedLast
  BY DEF ProfileInv, StackOrder
<1>2. CASE start_profile
  <2>1. PICK p \in Profiles : Start(p)
    BY <1>2 DEF start_profile
  <2>2. StartTimer(p) /\ Activated(p, FALSE)
    BY <2>1 DEF Start
  <2> QED BY <1>1, <2>2, ListedActivated, SignalsStarted
<1>3. CASE stop_profile
  <2>1. PICK p \in all_profiles : deactivate_profile(p)
    BY <1>3 DEF stop_profile
  <2>2. UNCHANGED <<is_profiling, signal_vars, owed>> /\ p \in Profiles
    BY <1>1, <1>3 DEF stop_profile, ListTypes
  <2> QED BY <1>1, <2>1, <2>2, ListedDeactivated, SignalsKept
<1>4. CASE collect_new \/ collect_profile
  <2>1. ASSUME NEW p \in Profiles, NEW given \in BOOLEAN, Collect(p, given) PROVE SignalsInv'
    <3>1. StartTimer(p) /\ Activated(p, TRUE)
      BY <2>1 DEF Collect
    <3> QED BY <1>1, <3>1, ListedActivated, SignalsStarted
  <2>2. CASE collect_new
    BY <2>1, <2>2 DEF collect_new
  <2>3. CASE collect_profile
    <3>1. PICK p \in all_profiles :
            \/ Collect(p, TRUE)
            \/ UNCHANGED <<active_profiles, is_profiling, signal_vars, owed>>
      BY <2>3 DEF collect_profile
    <3>2. p \in Profiles
      BY <1>1 DEF ListTypes
    <3> QED BY <2>1, <3>1, <3>2, SignalsKept DEF Listed
  <2> QED BY <1>4, <2>2, <2>3
<1>5. CASE collected
  <2> DEFINE p == Latest.profile
  <2>1. ~ticking /\ UNCHANGED owed /\ collecting # <<>>
    BY <1>5 DEF collected, Mudlle
  <2>2. CASE ~Latest.limit
    <3>1. UNCHANGED <<active_profiles, is_profiling, signal_vars>>
      BY <1>5, <2>2 DEF collected
    <3> QED BY <2>1, <3>1, SignalsKept DEF Listed
  <2>3. CASE Latest.limit
    <3>1. deactivate_profile(p) /\ StopTimer(Without(p))
      BY <1>5, <2>3 DEF collected
    <3>2. p \in Profiles
      <4>1. Latest \in Collecting
        BY <1>1, <2>1, CallFacts DEF Latest
      <4> QED BY <4>1 DEF Collecting
    <3> HIDE DEF p
    <3> QED BY <1>1, <2>1, <3>1, <3>2, ListedDeactivated, SignalsStopped
  <2> QED BY <2>2, <2>3
<1>6. CASE profile_mudlle_free
  BY <1>6, SignalsKept DEF profile_mudlle_free, Listed
<1>7. CASE UNCHANGED profile_vars
  BY <1>7, SignalsKept DEF profile_vars, Listed
<1> QED BY <1>2, <1>3, <1>4, <1>5, <1>6, <1>7, TickTakes, SignalComes DEF ProfileNext

LEMMA SignalsStart == ProfileInit => SignalsInv
<1> SUFFICES ASSUME ProfileInit PROVE SignalsInv
  OBVIOUS
<1>1. Listed = {}
  BY DEF ProfileInit, Listed
<1>2. SignalTypes
  <2>1. profile_count \in Nat /\ owed \in [Profiles -> Int]
    BY DEF ProfileInit
  <2>2. ticking \in BOOLEAN
    BY DEF ProfileInit
  <2> QED BY <2>1, <2>2 DEF SignalTypes
<1>3. TimerQuiet
  BY DEF ProfileInit, TimerQuiet
<1>4. SignalsCounted
  BY <1>1 DEF ProfileInit, SignalsCounted
<1> QED BY <1>2, <1>3, <1>4 DEF SignalsInv

LEMMA SignalsAlways == ProfileSpec => [](ProfileInv /\ SignalsInv)
<1> QED BY InitStep, ProfileStep, SignalsStart, SignalsStep, PTL DEF ProfileSpec

-----------------------------------------------------------------------------
(***************************************************************************)
(* The theorems.                                                           *)
(***************************************************************************)
\* The list holds unlimited profiles first, and the limited ones in the order
\* of the collect_profile() calls that put them there: the stack order that
\* profile.c asks of its users, however the primitives of runtime/debug.c are
\* mixed, as long as stop_profile() is not called.
THEOREM ProfileOrder == ProfileSpec => []StackOrder
<1>1. ProfileInv => StackOrder
  BY DEF ProfileInv
<1> QED BY <1>1, ProfileAlways, PTL

\* No signal is lost or charged twice: those that come between the two
\* accesses of profile_tick() (profile.c:117-122) wait for a tick that is due,
\* those of an earlier run of the timer are forgotten, and every profile of
\* the list is charged for the others, however profiles start, stop and nest.
THEOREM ProfileSafety == ProfileSpec => []SignalsCounted
<1>1. SignalsInv => SignalsCounted
  BY DEF SignalsInv
<1> QED BY <1>1, SignalsAlways, PTL

-----------------------------------------------------------------------------
(***************************************************************************)
(* Entries of a trace.                                                     *)
(***************************************************************************)
Entries == [class : {"prim", "string", "mudlle"}, name : FunctionNames \cup Operations]
Traces == Seq(Entries)
CallFrames == {f \in [type : {"bytecode", "c", "compiled", "string", "primop", "session"},
                      names : Seq(FunctionNames), op : Operations] :
                 f.type = "string" => f.names # <<>>}
Stacks == Seq(CallFrames)
Walks == [entries : Traces, last : Operations]

LEMMA EntryTyped ==
  ASSUME NEW class \in {"prim", "string", "mudlle"}, NEW name \in FunctionNames \cup Operations
  PROVE  Entry(class, name) \in Entries
BY DEF Entry, Entries

LEMMA FrameTyped ==
  ASSUME NEW walk \in Walks, NEW op \in Operations
  PROVE  c_frame(walk, op) \in Traces
<1>1. walk.entries \in Traces /\ Entry("prim", op) \in Entries
  BY EntryTyped DEF Walks
<1>2. Append(walk.entries, Entry("prim", op)) \in Traces
  BY <1>1, AppendProperties DEF Traces
<1> QED BY <1>1, <1>2 DEF c_frame

LEMMA WalkTyped ==
  ASSUME NEW walk \in Walks, NEW frame \in CallFrames
  PROVE  Walk(walk, frame) \in Walks
<1>1. /\ frame.names \in Seq(FunctionNames) /\ frame.op \in Operations
      /\ frame.type = "string" => frame.names # <<>>
  BY DEF CallFrames
<1>2. walk.entries \in Traces /\ walk.last \in Operations /\ NONE \in Operations
  BY DEF Walks, Operations
<1>3. c_frame(walk, frame.op) \in Traces
  BY <1>1, FrameTyped
<1>4. CASE frame.type \in {"c", "primop"}
  <2>1. Walk(walk, frame) = [entries |-> c_frame(walk, frame.op),
                             last |-> IF frame.type = "primop" \/ walk.last # frame.op THEN frame.op ELSE NONE]
    BY <1>4 DEF Walk
  <2> QED BY <1>1, <1>2, <1>3, <2>1 DEF Walks
<1>5. CASE frame.type = "string"
  <2>1. Walk(walk, frame) = [entries |-> Append(walk.entries, Entry("string", frame.names[1])), last |-> NONE]
    BY <1>5 DEF Walk
  <2>2. frame.names[1] \in FunctionNames
    BY <1>1, <1>5, EmptySeq
  <2>3. Append(walk.entries, Entry("string", frame.names[1])) \in Traces
    BY <1>2, <2>2, EntryTyped, AppendProperties DEF Traces
  <2> QED BY <1>2, <2>1, <2>3 DEF Walks
<1>6. CASE frame.type = "session"
  <2>1. Walk(walk, frame) = [entries |-> walk.entries, last |-> NONE]
    BY <1>6 DEF Walk
  <2> QED BY <1>2, <2>1 DEF Walks
<1>7. CASE frame.type \notin {"c", "primop", "string", "session"}
  <2> DEFINE old == IF frame.op = NONE THEN walk.entries ELSE c_frame(walk, frame.op)
             new == [i \in DOMAIN frame.names |-> Entry("mudlle", frame.names[Len(frame.names) + 1 - i])]
  <2>1. Walk(walk, frame) = [entries |-> old \o new, last |-> NONE]
    BY <1>7 DEF Walk
  <2>2. new \in Traces
    <3>1. DOMAIN frame.names = 1..Len(frame.names) /\ Len(frame.names) \in Nat
      BY <1>1
    <3>2. \A i \in 1..Len(frame.names) : Entry("mudlle", frame.names[Len(frame.names) + 1 - i]) \in Entries
      <4> TAKE i \in 1..Len(frame.names)
      <4>1. frame.names[Len(frame.names) + 1 - i] \in FunctionNames
        BY <1>1, <3>1
      <4> QED BY <4>1, EntryTyped
    <3> QED BY <3>1, <3>2 DEF Traces
  <2>3. old \in Traces
    BY <1>2, <1>3
  <2> HIDE DEF old, new
  <2>4. old \o new \in Traces
    BY <2>2, <2>3, ConcatProperties DEF Traces
  <2> QED BY <1>2, <2>1, <2>4 DEF Walks
<1> QED BY <1>4, <1>5, <1>6, <1>7

FirstWalk == [entries |-> <<>>, last |-> NONE]
LEMMA FirstTyped == FirstWalk \in Walks
BY DEF FirstWalk, Walks, Traces, Operations

\* The loop of iterate_call_trace()
LEMMA WalkLoop ==
  ASSUME NEW frames \in Stacks, NEW ctxts
  PROVE  \E g : /\ g[0] = FirstWalk
                /\ \A k \in 0..Len(frames) - 1 : g[k + 1] = Walk(g[k], frames[Len(frames) - k])
                /\ iterate_call_trace(frames, ctxts) = g[Len(frames) - Barrier(ctxts)].entries
<1> DEFINE size == Len(frames)
           Turn == [p \in (0..size - 1) \X Walks |-> Walk(p[2], frames[size - p[1]])]
           Body(f) == [n \in 0..size |-> IF n = 0 THEN FirstWalk ELSE Walk(f[n - 1], frames[size + 1 - n])]
<1>1. size \in Nat
  BY DEF Stacks
<1>2. FirstWalk \in Walks
  BY FirstTyped
<1>3. Turn \in Bodies(0..size - 1, Walks)
  <2>1. ASSUME NEW k \in 0..size - 1, NEW w \in Walks PROVE Walk(w, frames[size - k]) \in Walks
    <3>1. frames[size - k] \in CallFrames
      BY <1>1 DEF Stacks
    <3> QED BY <3>1, WalkTyped
  <2> HIDE DEF size
  <2> QED BY <2>1 DEF Bodies
<1>4. PICK f \in [0..size -> Walks] : IsLoop(f, 0..size - 1, Walks, FirstWalk, Turn)
  <2> HIDE DEF Turn, size
  <2> QED BY <1>1, <1>2, <1>3, Loop
<1>5. \A k \in 0..size - 1 : f[k + 1] = Walk(f[k], frames[size - k])
  <2> TAKE k \in 0..size - 1
  <2>1. f[k] \in Walks /\ f[k + 1] = Turn[<<k, f[k]>>]
    <3> HIDE DEF Turn, size
    <3> QED BY <1>4 DEF IsLoop
  <2> HIDE DEF size
  <2> QED BY <2>1
<1>6. iterate_call_trace(frames, ctxts) = (CHOOSE g : g = Body(g))[size - Barrier(ctxts)].entries
  BY DEF iterate_call_trace, FirstWalk
<1> HIDE DEF size
<1>7. f = Body(f)
  <2>1. \A n \in 0..size : f[n] = IF n = 0 THEN FirstWalk ELSE Walk(f[n - 1], frames[size + 1 - n])
    <3> TAKE n \in 0..size
    <3>1. n = 0 \/ (n - 1 \in 0..size - 1 /\ (n - 1) + 1 = n /\ size - (n - 1) = size + 1 - n)
      BY <1>1
    <3> HIDE DEF Turn
    <3> QED BY <3>1, <1>4, <1>5 DEF IsLoop
  <2> QED BY <2>1, <1>4
<1> DEFINE new == CHOOSE g : g = Body(g)
<1>8. new = Body(new)
  <2> HIDE DEF Body
  <2> QED BY <1>7
<1> HIDE DEF new
<1>9. new[0] = FirstWalk /\ \A k \in 0..size - 1 : new[k + 1] = Walk(new[k], frames[size - k])
  <2>1. new[0] = Body(new)[0] /\ \A k \in 0..size - 1 : new[k + 1] = Body(new)[k + 1]
    <3> HIDE DEF Body
    <3> QED BY <1>8
  <2>2. Body(new)[0] = FirstWalk
    BY <1>1
  <2>3. ASSUME NEW k \in 0..size - 1
        PROVE  Body(new)[k + 1] = Walk(new[k], frames[size - k])
    <3>1. k + 1 \in 0..size /\ k + 1 # 0 /\ (k + 1) - 1 = k /\ size + 1 - (k + 1) = size - k
      BY <1>1
    <3> QED BY <3>1
  <2> HIDE DEF Body
  <2> QED BY <2>1, <2>2, <2>3
<1>10. iterate_call_trace(frames, ctxts) = new[size - Barrier(ctxts)].entries
  BY <1>6 DEF new
<1> QED BY <1>9, <1>10 DEF size

LEMMA IterateTyped ==
  ASSUME NEW frames \in Stacks, NEW ctxts, Barrier(ctxts) \in 0..Len(frames)
  PROVE  iterate_call_trace(frames, ctxts) \in Traces
<1>1. PICK g : /\ g[0] = FirstWalk
               /\ \A k \in 0..Len(frames) - 1 : g[k + 1] = Walk(g[k], frames[Len(frames) - k])
               /\ iterate_call_trace(frames, ctxts) = g[Len(frames) - Barrier(ctxts)].entries
  BY WalkLoop
<1> DEFINE size == Len(frames)
           T == {k \in 0..size : g[k] \in Walks}
<1>2. size \in Nat
  BY DEF Stacks
<1>3. 0 \in T
  BY <1>1, <1>2, FirstTyped
<1>4. ASSUME NEW k \in 0..size - 1, k \in T PROVE k + 1 \in T
  <2>1. frames[size - k] \in CallFrames
    BY <1>2 DEF Stacks
  <2>2. g[k + 1] \in Walks
    BY <1>1, <1>4, <2>1, WalkTyped
  <2> QED BY <1>2, <2>2
<1>5. \A k \in 0..size : k \in T
  <2> HIDE DEF T, size
  <2> QED BY <1>2, <1>3, <1>4, InductionUpto
<1>6. size - Barrier(ctxts) \in 0..size
  BY <1>2
<1> QED BY <1>1, <1>5, <1>6 DEF Walks

LEMMA MaxFacts ==
  ASSUME NEW D \in Nat, NEW S, S \subseteq 0..D, S # {}
  PROVE  Max(S) \in S
<1> DEFINE T == {m \in Nat : \A y \in S : y <= m}
<1>1. D \in T
  OBVIOUS
<1>2. PICK m \in T : \A k \in T : m <= k
  <2>1. T \subseteq Nat
    OBVIOUS
  <2> HIDE DEF T
  <2> QED BY <1>1, <2>1, LeastTurn
<1>3. m \in S
  <2>1. SUFFICES ASSUME m \notin S PROVE FALSE
    OBVIOUS
  <2>7. m \in Nat /\ \A y \in S : y \in Nat /\ y <= m /\ y # m
    BY <1>2, <2>1
  <2>2. \A y \in S : y <= m - 1
    BY <2>7
  <2>3. PICK y : y \in S
    OBVIOUS
  <2>4. m - 1 \in Nat
    BY <2>7, <2>2, <2>3
  <2>5. m - 1 \in T
    BY <2>2, <2>4
  <2> HIDE DEF T
  <2>6. m <= m - 1
    BY <1>2, <2>5
  <2> QED BY <2>7, <2>6
<1>4. \A y \in S : m >= y
  BY <1>2
<1> QED BY <1>3, <1>4 DEF Max

\* The catches of a stack of D calls, the innermost last
CatchesOf(ctxts, D) ==
  /\ ctxts \in Seq([at : Nat, mode : {"off", "barrier", "on"}])
  /\ \A i \in DOMAIN ctxts : ctxts[i].at \in 1..D
  /\ \A i, j \in DOMAIN ctxts : i <= j => ctxts[i].at <= ctxts[j].at

LEMMA BarrierFacts ==
  ASSUME NEW D \in Nat, NEW ctxts, CatchesOf(ctxts, D)
  PROVE  Barrier(ctxts) \in 0..D
<1> DEFINE S == {0} \union {ctxts[i].at : i \in {j \in DOMAIN ctxts : ctxts[j].mode = "barrier"}}
<1>1. S \subseteq 0..D /\ S # {}
  BY DEF CatchesOf
<1>2. Barrier(ctxts) = Max(S)
  BY DEF Barrier
<1> HIDE DEF S
<1> QED BY <1>1, <1>2, MaxFacts

-----------------------------------------------------------------------------
(***************************************************************************)
(* A printed report.  Of n entries, A are printed, then a line that counts *)
(* the next ones, then the last Z; or all, if no more than one is left.    *)
(***************************************************************************)
A == BEFORE_SKIP_FRAMES
Z == AFTER_SKIP_FRAMES
Line == Entries \cup {Skipped(n) : n \in Int}
Reports == Seq(Line)
Infos(hide) == [current : Nat, depth : Int, hide : {hide, NONE}, lines : Reports]

LEMMA SkipFacts == A \in Nat /\ Z \in Nat
BY TraceAssumption DEF TraceAssumption, A, Z

\* What is printed of the first k entries of W
AllPrinted(lines, W, k) == Len(lines) = k /\ \A i \in 1..k : lines[i] = W[i]
AtEnd(n, k) == IF k > n - Z THEN k - (n - Z) ELSE 0
PartlyPrinted(lines, W, k, n, last) ==
      /\ Len(lines) = IF k <= A THEN k ELSE A + 1 + last
      /\ \A i \in 1..(IF k <= A THEN k ELSE A) : lines[i] = W[i]
      /\ k > A => /\ lines[A + 1] = Skipped(n - A - Z)
                  /\ \A i \in 1..last : lines[A + 1 + i] = W[n - Z + i]
SoFar(lines, W, k) ==
  IF Len(W) <= A + Z + 1 THEN AllPrinted(lines, W, k) ELSE PartlyPrinted(lines, W, k, Len(W), AtEnd(Len(W), k))

InfoAfter(p, W, k) == p.current = k /\ p.depth = Len(W) /\ SoFar(p.lines, W, k)

LEMMA ShownFacts ==
  ASSUME NEW hide, NEW p \in Infos(hide), NEW W \in Traces, NEW k \in 0..Len(W) - 1, InfoAfter(p, W, k),
         NEW q, q = Shown(p, W[k + 1])
  PROVE  q \in Infos(hide) /\ InfoAfter(q, W, k + 1) /\ q.hide = p.hide
<1> DEFINE n == Len(W)
           e == W[k + 1]
           left == n - A - Z
           prints == k + 1 <= A \/ k + 1 + Z > n
           new == IF prints THEN Append(p.lines, e)
                  ELSE IF k + 1 = A + 1 THEN Append(p.lines, IF left = 1 THEN e ELSE Skipped(left))
                  ELSE p.lines
<1>1. n \in Nat /\ e \in Entries /\ k \in Nat
  BY DEF Traces
<1>2. p.current = k /\ p.depth = n /\ p.lines \in Reports
      /\ p = [current |-> k, depth |-> n, hide |-> p.hide, lines |-> p.lines]
      /\ p.hide \in {hide, NONE}
  BY DEF Infos, InfoAfter
<1>3. q = [current |-> k + 1, depth |-> n, hide |-> p.hide, lines |-> new]
  <2> DEFINE next == [p EXCEPT !.current = @ + 1]
  <2>1. next = [current |-> k + 1, depth |-> n, hide |-> p.hide, lines |-> p.lines]
    BY <1>2
  <2>2. should_print(next) <=> prints
    <3> HIDE DEF next
    <3> QED BY <2>1 DEF should_print, A, Z
  <2>3. q = CASE should_print(next) -> [next EXCEPT !.lines = Append(@, e)]
              [] ~should_print(next) /\ next.current = A + 1 ->
                   [next EXCEPT !.lines = Append(@, IF p.depth - A - Z = 1 THEN e ELSE Skipped(p.depth - A - Z))]
              [] OTHER -> next
    BY DEF Shown, A, Z
  <2> HIDE DEF next, e, n
  <2> QED BY <1>2, <2>1, <2>2, <2>3
<1>4. Append(p.lines, e) \in Reports /\ Len(Append(p.lines, e)) = Len(p.lines) + 1
      /\ Append(p.lines, e)[Len(p.lines) + 1] = e
      /\ \A i \in 1..Len(p.lines) : Append(p.lines, e)[i] = p.lines[i]
  BY <1>1, <1>2, AppendProperties DEF Reports, Line
<1>5. Append(p.lines, Skipped(left)) \in Reports
      /\ Len(Append(p.lines, Skipped(left))) = Len(p.lines) + 1
      /\ Append(p.lines, Skipped(left))[Len(p.lines) + 1] = Skipped(left)
      /\ \A i \in 1..Len(p.lines) : Append(p.lines, Skipped(left))[i] = p.lines[i]
  <2>1. Skipped(left) \in Line
    BY <1>1, SkipFacts DEF Line
  <2> HIDE DEF left
  <2> QED BY <1>2, <2>1, AppendProperties DEF Reports
<1>6. new \in Reports
  BY <1>2, <1>4, <1>5
<1>7. SoFar(new, W, k + 1)
  <2> DEFINE L == p.lines
  <2>1. A \in Nat /\ Z \in Nat /\ SoFar(L, W, k) /\ e = W[k + 1] /\ k <= n - 1
    BY SkipFacts DEF InfoAfter
  <2>2. CASE n <= A + Z + 1
    <3>1. new = Append(L, e)
      BY <1>1, <2>1, <2>2
    <3>2. Len(L) = k /\ \A i \in 1..k : L[i] = W[i]
      BY <2>1, <2>2 DEF SoFar, AllPrinted
    <3> HIDE DEF new, e
    <3>3. AllPrinted(new, W, k + 1)
      BY <1>1, <1>4, <2>1, <3>1, <3>2 DEF AllPrinted
    <3> QED BY <2>2, <3>3 DEF SoFar
  <2>3. CASE n > A + Z + 1
    <3> DEFINE last == AtEnd(n, k)
               last1 == AtEnd(n, k + 1)
    <3>9. PartlyPrinted(L, W, k, n, last)
      BY <1>1, <2>1, <2>3 DEF SoFar
    <3>1. /\ Len(L) = IF k <= A THEN k ELSE A + 1 + last
          /\ \A i \in 1..(IF k <= A THEN k ELSE A) : L[i] = W[i]
          /\ k > A => /\ L[A + 1] = Skipped(left)
                      /\ \A i \in 1..last : L[A + 1 + i] = W[n - Z + i]
      <4> HIDE DEF last, L, n
      <4> QED BY <3>9 DEF PartlyPrinted
    <3>2. last \in Nat /\ last1 \in Nat
      BY <1>1, <2>1 DEF AtEnd
    <3>3. SUFFICES
             /\ Len(new) = IF k + 1 <= A THEN k + 1 ELSE A + 1 + last1
             /\ \A i \in 1..(IF k + 1 <= A THEN k + 1 ELSE A) : new[i] = W[i]
             /\ k + 1 > A => /\ new[A + 1] = Skipped(left)
                             /\ \A i \in 1..last1 : new[A + 1 + i] = W[n - Z + i]
      <4>1. SUFFICES PartlyPrinted(new, W, k + 1, n, last1)
        <5> HIDE DEF new
        <5> QED BY <1>1, <2>1, <2>3 DEF SoFar
      <4> HIDE DEF last1, new, n, left
      <4> QED BY <3>3 DEF PartlyPrinted, left
    <3>4. CASE k + 1 <= A
      <4>1. new = Append(L, e)
        BY <3>4
      <4> HIDE DEF new, e, last, last1, n, left
      <4>2. Len(L) = k /\ \A i \in 1..k : L[i] = W[i]
        BY <1>1, <2>1, <3>1, <3>4
      <4>3. \A i \in 1..k + 1 : new[i] = W[i]
        BY <1>1, <1>4, <2>1, <4>1, <4>2
      <4> QED BY <1>1, <1>4, <2>1, <3>4, <4>1, <4>2, <4>3
    <3>5. CASE k = A
      <4>1. new = Append(L, Skipped(left)) /\ last1 = 0
        BY <1>1, <2>1, <2>3, <3>5 DEF AtEnd
      <4> HIDE DEF new, e, last, last1, n, left
      <4>2. Len(L) = A /\ \A i \in 1..A : L[i] = W[i]
        BY <1>1, <2>1, <3>1, <3>5
      <4>3. \A i \in 1..A : new[i] = W[i]
        BY <1>5, <2>1, <4>1, <4>2
      <4> QED BY <1>5, <2>1, <3>5, <4>1, <4>2, <4>3
    <3>6. CASE k > A /\ k + 1 <= n - Z
      <4>1. new = L /\ last = 0 /\ last1 = 0
        BY <1>1, <2>1, <3>6 DEF AtEnd
      <4> HIDE DEF new, e, last, last1, n, left
      <4> QED BY <1>1, <2>1, <3>1, <3>6, <4>1
    <3>7. CASE k > A /\ k + 1 > n - Z
      <4>1. new = Append(L, e) /\ last1 = last + 1 /\ n - Z + last1 = k + 1
        BY <1>1, <2>1, <3>7 DEF AtEnd
      <4> HIDE DEF new, e, last, last1, left
      <4>2. /\ Len(L) = A + 1 + last /\ \A i \in 1..A : L[i] = W[i]
            /\ L[A + 1] = Skipped(left) /\ \A i \in 1..last : L[A + 1 + i] = W[n - Z + i]
        BY <1>1, <2>1, <3>1, <3>7
      <4>3. Len(new) = A + 1 + last1
        BY <1>4, <2>1, <3>2, <4>1, <4>2
      <4>4. \A i \in 1..A : new[i] = W[i]
        BY <1>4, <2>1, <3>2, <4>1, <4>2
      <4>5. new[A + 1] = Skipped(left)
        BY <1>4, <2>1, <3>2, <4>1, <4>2
      <4>6. ASSUME NEW i \in 1..last1 PROVE new[A + 1 + i] = W[n - Z + i]
        <5>1. CASE i = last1
          <6>1. A + 1 + i = Len(L) + 1
            BY <2>1, <3>2, <4>1, <4>2, <5>1
          <6> QED BY <1>4, <2>1, <4>1, <5>1, <6>1
        <5>2. CASE i # last1
          <6>1. i \in 1..last /\ A + 1 + i \in 1..Len(L)
            BY <2>1, <3>2, <4>1, <4>2, <5>2
          <6>2. new[A + 1 + i] = L[A + 1 + i]
            BY <1>4, <4>1, <6>1
          <6> QED BY <4>2, <6>1, <6>2
        <5> QED BY <5>1, <5>2
      <4>7. ~(k + 1 <= A)
        BY <1>1, <2>1, <3>7
      <4> HIDE DEF n
      <4> QED BY <4>3, <4>4, <4>5, <4>6, <4>7
    <3> HIDE DEF new, e, last, last1, left
    <3>8. k + 1 <= A \/ k = A \/ (k > A /\ k + 1 <= n - Z) \/ (k > A /\ k + 1 > n - Z)
      BY <1>1, <2>1
    <3> QED BY <3>4, <3>5, <3>6, <3>7, <3>8
  <2> QED BY <1>1, <2>1, <2>2, <2>3
<1> HIDE DEF new, n
<1>8. q.current = k + 1 /\ q.depth = n /\ q.hide = p.hide /\ q.lines = new
  BY <1>3
<1>9. q \in Infos(hide)
  BY <1>1, <1>2, <1>3, <1>6 DEF Infos
<1> QED BY <1>7, <1>8, <1>9 DEF InfoAfter, n

LEMMA HideFacts ==
  ASSUME NEW p, NEW c, NEW d, NEW h, NEW l,
         p = [current |-> c, depth |-> d, hide |-> h, lines |-> l]
  PROVE  [p EXCEPT !.depth = @ - 1, !.hide = NONE]
           = [current |-> c, depth |-> d - 1, hide |-> NONE, lines |-> l]
<1> DEFINE less == [p EXCEPT !.depth = @ - 1]
<1>1. [p EXCEPT !.depth = @ - 1, !.hide = NONE] = [less EXCEPT !.hide = NONE]
  OBVIOUS
<1>2. less = [current |-> c, depth |-> d - 1, hide |-> h, lines |-> l]
  OBVIOUS
<1> HIDE DEF less
<1>3. [less EXCEPT !.hide = NONE] = [current |-> c, depth |-> d - 1, hide |-> NONE, lines |-> l]
  BY <1>2
<1> QED BY <1>1, <1>3

LEMMA PrintTyped ==
  ASSUME NEW hide, NEW p \in Infos(hide), NEW e \in Entries
  PROVE  print_frame(p, e) \in Infos(hide)
<1>1. p.current \in Nat /\ p.depth \in Int /\ p.hide \in {hide, NONE} /\ p.lines \in Reports
      /\ p = [current |-> p.current, depth |-> p.depth, hide |-> p.hide, lines |-> p.lines]
  BY DEF Infos
<1>2. [p EXCEPT !.depth = @ - 1, !.hide = NONE]
        = [current |-> p.current, depth |-> p.depth - 1, hide |-> NONE, lines |-> p.lines]
  BY <1>1, HideFacts
<1>3. [current |-> p.current, depth |-> p.depth - 1, hide |-> NONE, lines |-> p.lines] \in Infos(hide)
  BY <1>1 DEF Infos
<1>4. Shown(p, e) \in Infos(hide)
  <2> DEFINE next == [p EXCEPT !.current = @ + 1]
             left == p.depth - BEFORE_SKIP_FRAMES - AFTER_SKIP_FRAMES
             line == IF left = 1 THEN e ELSE Skipped(left)
  <2>1. next = [current |-> p.current + 1, depth |-> p.depth, hide |-> p.hide, lines |-> p.lines]
    BY <1>1
  <2>2. \A new \in Reports : [current |-> p.current + 1, depth |-> p.depth, hide |-> p.hide, lines |-> new] \in Infos(hide)
    BY <1>1 DEF Infos
  <2>3. left \in Int
    BY <1>1, TraceAssumption DEF TraceAssumption
  <2>4. e \in Line /\ line \in Line
    BY <2>3 DEF Line
  <2>5. Append(p.lines, e) \in Reports /\ Append(p.lines, line) \in Reports
    <3> HIDE DEF line
    <3> QED BY <1>1, <2>4, AppendProperties DEF Reports
  <2>6. Shown(p, e) = CASE should_print(next) -> [next EXCEPT !.lines = Append(@, e)]
                        [] ~should_print(next) /\ next.current = BEFORE_SKIP_FRAMES + 1 ->
                             [next EXCEPT !.lines = Append(@, line)]
                        [] OTHER -> next
    BY DEF Shown
  <2>7. Shown(p, e) \in {[current |-> p.current + 1, depth |-> p.depth, hide |-> p.hide, lines |-> new] :
                           new \in {p.lines, Append(p.lines, e), Append(p.lines, line)}}
    <3> HIDE DEF next, line
    <3> QED BY <2>1, <2>6
  <2> HIDE DEF line
  <2> QED BY <1>1, <2>2, <2>5, <2>7
<1> QED BY <1>2, <1>3, <1>4 DEF print_frame

FirstInfo(entries, hide) == [current |-> 0, depth |-> Len(entries), hide |-> hide, lines |-> <<>>]
LEMMA FirstInfoTyped ==
  ASSUME NEW entries \in Traces, NEW hide
  PROVE  FirstInfo(entries, hide) \in Infos(hide)
BY DEF FirstInfo, Infos, Reports, Traces

\* The loop of print_call_trace()
LEMMA PrintLoop ==
  ASSUME NEW entries \in Traces, NEW hide
  PROVE  \E g : /\ g[0] = FirstInfo(entries, hide)
                /\ \A k \in 0..Len(entries) - 1 : g[k + 1] = print_frame(g[k], entries[k + 1])
                /\ print_call_trace(entries, hide) = g[Len(entries)].lines
<1> DEFINE size == Len(entries)
           X == Infos(hide)
           a == FirstInfo(entries, hide)
           Turn == [p \in (0..size - 1) \X X |-> print_frame(p[2], entries[p[1] + 1])]
           Body(f) == [n \in 0..size |-> IF n = 0 THEN a ELSE print_frame(f[n - 1], entries[n])]
<1>1. size \in Nat
  BY DEF Traces
<1>2. a \in X
  BY FirstInfoTyped
<1>3. Turn \in Bodies(0..size - 1, X)
  <2>1. ASSUME NEW k \in 0..size - 1, NEW w \in X PROVE print_frame(w, entries[k + 1]) \in X
    <3>1. entries[k + 1] \in Entries
      BY <1>1 DEF Traces
    <3> QED BY <3>1, PrintTyped
  <2> HIDE DEF size, X
  <2> QED BY <2>1 DEF Bodies
<1> HIDE DEF X
<1>4. PICK f \in [0..size -> X] : IsLoop(f, 0..size - 1, X, a, Turn)
  <2> HIDE DEF Turn, size, a
  <2> QED BY <1>1, <1>2, <1>3, Loop
<1>5. \A k \in 0..size - 1 : f[k + 1] = print_frame(f[k], entries[k + 1])
  <2> TAKE k \in 0..size - 1
  <2>1. f[k] \in X /\ f[k + 1] = Turn[<<k, f[k]>>]
    <3> HIDE DEF Turn, size, a
    <3> QED BY <1>4 DEF IsLoop
  <2> HIDE DEF size
  <2> QED BY <2>1
<1>6. print_call_trace(entries, hide) = (CHOOSE g : g = Body(g))[size].lines
  BY DEF print_call_trace, FirstInfo
<1> HIDE DEF size, a
<1>7. f = Body(f)
  <2>1. \A n \in 0..size : f[n] = IF n = 0 THEN a ELSE print_frame(f[n - 1], entries[n])
    <3> TAKE n \in 0..size
    <3>1. n = 0 \/ (n - 1 \in 0..size - 1 /\ (n - 1) + 1 = n)
      BY <1>1
    <3> HIDE DEF Turn
    <3> QED BY <3>1, <1>4, <1>5 DEF IsLoop
  <2> QED BY <2>1, <1>4
<1> DEFINE new == CHOOSE g : g = Body(g)
<1>8. new = Body(new)
  <2> HIDE DEF Body
  <2> QED BY <1>7
<1> HIDE DEF new
<1>9. new[0] = a /\ \A k \in 0..size - 1 : new[k + 1] = print_frame(new[k], entries[k + 1])
  <2>1. new[0] = Body(new)[0] /\ \A k \in 0..size - 1 : new[k + 1] = Body(new)[k + 1]
    <3> HIDE DEF Body
    <3> QED BY <1>8
  <2>2. Body(new)[0] = a
    BY <1>1
  <2>3. ASSUME NEW k \in 0..size - 1
        PROVE  Body(new)[k + 1] = print_frame(new[k], entries[k + 1])
    <3>1. k + 1 \in 0..size /\ k + 1 # 0 /\ (k + 1) - 1 = k
      BY <1>1
    <3> QED BY <3>1
  <2> HIDE DEF Body
  <2> QED BY <2>1, <2>2, <2>3
<1>10. print_call_trace(entries, hide) = new[size].lines
  BY <1>6 DEF new
<1> QED BY <1>9, <1>10 DEF size, a

\* All has been printed
LEMMA PrintedFacts ==
  ASSUME NEW lines \in Reports, NEW W \in Traces, SoFar(lines, W, Len(W))
  PROVE  Abbreviates(lines, W)
<1> DEFINE n == Len(W)
<1>1. n \in Nat /\ A \in Nat /\ Z \in Nat /\ Len(lines) \in Nat
  BY SkipFacts DEF Traces, Reports
<1>2. CASE n <= A + Z + 1
  <2>1. Len(lines) = n /\ \A i \in 1..n : lines[i] = W[i]
    BY <1>2 DEF SoFar, AllPrinted
  <2>2. lines = W
    <3>1. lines \in Seq(Line) /\ W \in Seq(Entries)
      BY DEF Reports, Traces
    <3>2. lines = [i \in 1..n |-> lines[i]] /\ W = [i \in 1..n |-> W[i]]
      BY <2>1, <3>1
    <3> HIDE DEF n
    <3> QED BY <2>1, <3>2
  <2> QED BY <2>1, <2>2 DEF Abbreviates
<1>3. CASE n > A + Z + 1
  <2>1. AtEnd(n, n) = Z /\ n > A
    BY <1>1, <1>3 DEF AtEnd
  <2>2. PartlyPrinted(lines, W, n, n, AtEnd(n, n))
    BY <1>1, <1>3 DEF SoFar
  <2> HIDE DEF n
  <2>3. /\ Len(lines) = A + 1 + Z
        /\ \A i \in 1..A : lines[i] = W[i]
        /\ lines[A + 1] = Skipped(n - A - Z)
        /\ \A i \in 1..Z : lines[A + 1 + i] = W[n - Z + i]
    BY <1>1, <2>1, <2>2 DEF PartlyPrinted
  <2>4. n - A - Z = n - Len(lines) + 1 /\ Len(lines) # n
    BY <1>1, <1>3, <2>3
  <2>5. ASSUME NEW i \in 1..Z PROVE lines[Len(lines) + 1 - i] = W[n + 1 - i]
    <3>1. Z + 1 - i \in 1..Z
      BY <1>1
    <3>2. Len(lines) + 1 - i = A + 1 + (Z + 1 - i) /\ n + 1 - i = n - Z + (Z + 1 - i)
      <4>1. Len(lines) = A + 1 + Z /\ i \in Int
        BY <2>3
      <4> QED BY <1>1, <4>1
    <3> QED BY <2>3, <3>1, <3>2
  <2> QED BY <2>3, <2>4, <2>5 DEF Abbreviates, A, Z, n
<1> HIDE DEF n
<1> QED BY <1>1, <1>2, <1>3

LEMMA NothingPrinted ==
  ASSUME NEW W \in Traces
  PROVE  SoFar(<<>>, W, 0)
<1>1. Len(W) \in Nat /\ A \in Nat /\ Z \in Nat
  BY SkipFacts DEF Traces
<1>2. AllPrinted(<<>>, W, 0)
  BY DEF AllPrinted
<1>3. ASSUME Len(W) > A + Z + 1 PROVE PartlyPrinted(<<>>, W, 0, Len(W), AtEnd(Len(W), 0))
  BY <1>1 DEF PartlyPrinted
<1> QED BY <1>1, <1>2, <1>3 DEF SoFar

LEMMA PrintedWhole ==
  ASSUME NEW entries \in Traces, NEW hide, ~(entries # <<>> /\ Hidden(Head(entries), hide))
  PROVE  Abbreviates(print_call_trace(entries, hide), entries)
<1>1. PICK g : /\ g[0] = FirstInfo(entries, hide)
               /\ \A k \in 0..Len(entries) - 1 : g[k + 1] = print_frame(g[k], entries[k + 1])
               /\ print_call_trace(entries, hide) = g[Len(entries)].lines
  BY PrintLoop
<1> DEFINE size == Len(entries)
           T == {k \in 0..size : g[k] \in Infos(hide) /\ InfoAfter(g[k], entries, k)}
<1>2. size \in Nat
  BY DEF Traces
<1>3. 0 \in T
  BY <1>1, <1>2, FirstInfoTyped, NothingPrinted DEF InfoAfter, FirstInfo
<1>4. ASSUME NEW k \in 0..size - 1, k \in T PROVE k + 1 \in T
  <2>1. g[k] \in Infos(hide) /\ InfoAfter(g[k], entries, k) /\ k \in 0..Len(entries) - 1
    BY <1>4
  <2>2. print_frame(g[k], entries[k + 1]) = Shown(g[k], entries[k + 1])
    <3>1. g[k].current = k /\ k \in Nat
      BY <1>2, <2>1 DEF InfoAfter
    <3>2. k = 0 => g[k].hide = hide /\ entries # <<>> /\ entries[k + 1] = Head(entries)
      BY <1>1, <1>2 DEF FirstInfo, Traces
    <3> QED BY <3>1, <3>2 DEF print_frame
  <2>3. g[k + 1] \in Infos(hide) /\ InfoAfter(g[k + 1], entries, k + 1)
    BY <1>1, <2>1, <2>2, ShownFacts
  <2> QED BY <1>2, <2>3
<1>5. \A k \in 0..size : k \in T
  <2> HIDE DEF T, size
  <2> QED BY <1>2, <1>3, <1>4, InductionUpto
<1>6. g[size].lines \in Reports /\ SoFar(g[size].lines, entries, size)
  <2>1. size \in T
    <3> HIDE DEF T, size
    <3> QED BY <1>2, <1>5
  <2>2. g[size] \in Infos(hide) /\ InfoAfter(g[size], entries, size)
    BY <2>1
  <2> HIDE DEF size
  <2> QED BY <2>2 DEF Infos, InfoAfter
<1> QED BY <1>1, <1>6, PrintedFacts

LEMMA PrintedHidden ==
  ASSUME NEW entries \in Traces, NEW hide, entries # <<>>, Hidden(Head(entries), hide)
  PROVE  Abbreviates(print_call_trace(entries, hide), Tail(entries))
<1>1. PICK g : /\ g[0] = FirstInfo(entries, hide)
               /\ \A k \in 0..Len(entries) - 1 : g[k + 1] = print_frame(g[k], entries[k + 1])
               /\ print_call_trace(entries, hide) = g[Len(entries)].lines
  BY PrintLoop
<1> DEFINE W == Tail(entries)
           size == Len(W)
           T == {k \in 0..size : g[k + 1] \in Infos(hide) /\ InfoAfter(g[k + 1], W, k) /\ g[k + 1].hide = NONE}
<1>2. size \in Nat /\ W \in Traces /\ Len(entries) = size + 1 /\ Head(entries) = entries[1]
      /\ \A k \in 1..size : W[k] = entries[k + 1]
  BY DEF Traces
<1> HIDE DEF W
<1>3. 0 \in T
  <2>1. g[1] = print_frame(g[0], entries[1])
    BY <1>1, <1>2
  <2>2. g[1] = [g[0] EXCEPT !.depth = @ - 1, !.hide = NONE]
    <3>1. g[0] = FirstInfo(entries, hide) /\ Hidden(entries[1], hide)
      BY <1>1, <1>2
    <3>2. g[0].current = 0 /\ g[0].hide = hide
      BY <3>1 DEF FirstInfo
    <3> QED BY <2>1, <3>1, <3>2, Zenon DEF print_frame
  <2>3. g[1] = [current |-> 0, depth |-> size, hide |-> NONE, lines |-> <<>>]
    <3>1. g[0] = [current |-> 0, depth |-> size + 1, hide |-> hide, lines |-> <<>>]
      BY <1>1, <1>2 DEF FirstInfo
    <3>2. [g[0] EXCEPT !.depth = @ - 1, !.hide = NONE]
            = [current |-> 0, depth |-> (size + 1) - 1, hide |-> NONE, lines |-> <<>>]
      <4> DEFINE p == g[0]
                 d == size + 1
      <4>1. p = [current |-> 0, depth |-> d, hide |-> hide, lines |-> <<>>]
        BY <3>1
      <4> HIDE DEF p, d
      <4> DEFINE less == [p EXCEPT !.depth = @ - 1]
      <4>3. [p EXCEPT !.depth = @ - 1, !.hide = NONE] = [less EXCEPT !.hide = NONE]
        BY <4>1
      <4>4. less = [current |-> 0, depth |-> d - 1, hide |-> hide, lines |-> <<>>]
        BY <4>1
      <4> HIDE DEF less
      <4>2. [p EXCEPT !.depth = @ - 1, !.hide = NONE]
              = [current |-> 0, depth |-> d - 1, hide |-> NONE, lines |-> <<>>]
        BY <4>3, <4>4
      <4> QED BY <4>2 DEF p, d
    <3> QED BY <1>2, <2>2, <3>2
  <2>4. g[1] \in Infos(hide)
    BY <1>2, <2>3 DEF Infos, Reports
  <2>5. InfoAfter(g[1], W, 0)
    BY <1>2, <2>3, NothingPrinted DEF InfoAfter
  <2> QED BY <1>2, <2>3, <2>4, <2>5
<1>4. ASSUME NEW k \in 0..size - 1, k \in T PROVE k + 1 \in T
  <2>1. g[k + 1] \in Infos(hide) /\ InfoAfter(g[k + 1], W, k) /\ g[k + 1].hide = NONE /\ k \in 0..Len(W) - 1
    BY <1>4
  <2>2. g[(k + 1) + 1] = print_frame(g[k + 1], W[k + 1])
    <3>1. k + 1 \in 0..Len(entries) - 1 /\ k + 1 \in 1..size
      BY <1>2
    <3> QED BY <1>1, <1>2, <3>1
  <2>3. print_frame(g[k + 1], W[k + 1]) = Shown(g[k + 1], W[k + 1])
    BY <2>1 DEF print_frame, Hidden
  <2>4. g[(k + 1) + 1] \in Infos(hide) /\ InfoAfter(g[(k + 1) + 1], W, k + 1) /\ g[(k + 1) + 1].hide = NONE
    BY <1>2, <2>1, <2>2, <2>3, ShownFacts
  <2> QED BY <1>2, <2>4
<1>5. \A k \in 0..size : k \in T
  <2> HIDE DEF T, size
  <2> QED BY <1>2, <1>3, <1>4, InductionUpto
<1>6. g[size + 1].lines \in Reports /\ SoFar(g[size + 1].lines, W, size)
  <2>1. size \in T
    <3> HIDE DEF T, size
    <3> QED BY <1>2, <1>5
  <2>2. g[size + 1] \in Infos(hide) /\ InfoAfter(g[size + 1], W, size)
    BY <2>1
  <2> HIDE DEF size
  <2> QED BY <2>2 DEF Infos, InfoAfter
<1> QED BY <1>1, <1>2, <1>6, PrintedFacts DEF W

LEMMA Printed ==
  ASSUME NEW entries \in Traces, NEW hide
  PROVE  Abbreviates(print_call_trace(entries, hide), AllButHidden(entries, hide))
BY PrintedWhole, PrintedHidden DEF AllButHidden

-----------------------------------------------------------------------------
(***************************************************************************)
(* What the profiler counts.                                               *)
(***************************************************************************)
\* The d entries up to the n-th are those before them
Again(trace, n, d) == \A j \in 1..d : trace[n - 2 * d + j] = trace[n - d + j]
NeverAgain(trace) == \A d \in 1..3, n \in 1..Len(trace) : n >= 2 * d => ~Again(trace, n, d)

LEMMA SubSeqEntry ==
  ASSUME NEW X, NEW s \in Seq(X), NEW a \in Int, NEW b \in Int, 1 <= a, b <= Len(s), NEW j \in 1..b - a + 1
  PROVE  SubSeq(s, a, b)[j] = s[a + j - 1]
<1>1. \A i \in a..b : s[i] \in X
  OBVIOUS
<1> QED BY <1>1, SubSeqProperties

LEMMA AgainFacts ==
  ASSUME NEW X, NEW trace \in Seq(X), NeverAgain(trace)
  PROVE  Repeatless(trace)
<1> SUFFICES ASSUME NEW d \in 1..3, NEW n \in DOMAIN trace, n >= 2 * d
             PROVE  SubSeq(trace, n - 2 * d + 1, n - d) # SubSeq(trace, n - d + 1, n)
  BY DEF Repeatless
<1> DEFINE before == SubSeq(trace, n - 2 * d + 1, n - d)
           after == SubSeq(trace, n - d + 1, n)
<1>1. n \in 1..Len(trace) /\ Len(trace) \in Nat
  OBVIOUS
<1>2. PICK j \in 1..d : trace[n - 2 * d + j] # trace[n - d + j]
  BY <1>1 DEF NeverAgain, Again
<1>3. before[j] = trace[n - 2 * d + j]
  <2> DEFINE a == n - 2 * d + 1
             b == n - d
  <2>1. a \in Int /\ b \in Int /\ 1 <= a /\ b <= Len(trace) /\ j \in 1..b - a + 1 /\ a + j - 1 = n - 2 * d + j
    BY <1>1
  <2> HIDE DEF a, b
  <2>2. SubSeq(trace, a, b)[j] = trace[a + j - 1]
    BY <2>1, SubSeqEntry
  <2> QED BY <2>1, <2>2 DEF a, b
<1>4. after[j] = trace[n - d + j]
  <2> DEFINE a == n - d + 1
  <2>1. a \in Int /\ n \in Int /\ 1 <= a /\ n <= Len(trace) /\ j \in 1..n - a + 1 /\ a + j - 1 = n - d + j
    BY <1>1
  <2> HIDE DEF a
  <2>2. SubSeq(trace, a, n)[j] = trace[a + j - 1]
    BY <2>1, SubSeqEntry
  <2> QED BY <2>1, <2>2 DEF a
<1> QED BY <1>2, <1>3, <1>4

LEMMA AddTyped ==
  ASSUME NEW trace \in Traces, NEW e \in Entries
  PROVE  add_trace_entry(trace, e) \in Traces
<1> DEFINE strides == {d \in 1..3 : Repeats(trace, e, d)}
           k == Len(trace) - Min(strides)
<1>1. Append(trace, e) \in Traces
  BY AppendProperties DEF Traces
<1>2. ASSUME strides # {} PROVE Min(strides) \in strides
  <2>1. \E m \in strides : \A n \in strides : m <= n
    <3>1. strides \subseteq Nat
      OBVIOUS
    <3> HIDE DEF strides
    <3> QED BY <1>2, <3>1, LeastTurn
  <2> HIDE DEF strides
  <2> QED BY <2>1 DEF Min
<1>3. ASSUME strides # {} PROVE SubSeq(trace, 1, k) \in Traces
  <2>1. Min(strides) \in 1..3 /\ Repeats(trace, e, Min(strides))
    BY <1>2, <1>3
  <2> HIDE DEF strides
  <2>2. k \in 0..Len(trace)
    BY <2>1 DEF Repeats, Traces
  <2> HIDE DEF k
  <2> QED BY <2>2, SubSeqProperties DEF Traces
<1> HIDE DEF k
<1> QED BY <1>1, <1>3 DEF add_trace_entry, k

LEMMA AddFacts ==
  ASSUME NEW trace \in Traces, NEW e \in Entries, NeverAgain(trace)
  PROVE  NeverAgain(add_trace_entry(trace, e))
<1> DEFINE strides == {d \in 1..3 : Repeats(trace, e, d)}
           k == Len(trace) - Min(strides)
           new == add_trace_entry(trace, e)
<1>1. Len(trace) \in Nat
  BY DEF Traces
<1>2. CASE strides = {}
  <2>1. new = Append(trace, e)
    BY <1>2 DEF add_trace_entry
  <2>2. Len(new) = Len(trace) + 1 /\ new[Len(trace) + 1] = e /\ \A i \in 1..Len(trace) : new[i] = trace[i]
    BY <2>1, AppendProperties DEF Traces
  <2> HIDE DEF new
  <2> SUFFICES ASSUME NEW d \in 1..3, NEW n \in 1..Len(new), n >= 2 * d, Again(new, n, d)
               PROVE  FALSE
    BY DEF NeverAgain, new
  <2>3. CASE n <= Len(trace)
    <3>1. ASSUME NEW j \in 1..d PROVE trace[n - 2 * d + j] = trace[n - d + j]
      <4>1. n - 2 * d + j \in 1..Len(trace) /\ n - d + j \in 1..Len(trace)
        BY <1>1, <2>3
      <4> QED BY <2>2, <4>1 DEF Again
    <3>2. Again(trace, n, d) /\ n \in 1..Len(trace)
      BY <2>3, <3>1 DEF Again
    <3> QED BY <3>2 DEF NeverAgain
  <2>4. CASE n > Len(trace)
    <3>1. n = Len(trace) + 1
      BY <1>1, <2>2, <2>4
    <3>2. trace[n - d] = e
      <4>1. d \in 1..d /\ n - 2 * d + d = n - d /\ n - d + d = n /\ n - d \in 1..Len(trace)
        BY <1>1, <3>1
      <4> QED BY <2>2, <3>1, <4>1 DEF Again
    <3>3. ASSUME NEW i \in 1..d - 1 PROVE trace[n - i] = trace[n - d - i]
      <4>1. d - i \in 1..d /\ n - 2 * d + (d - i) = n - d - i /\ n - d + (d - i) = n - i
        BY <1>1, <3>1
      <4>2. new[n - d - i] = new[n - i]
        BY <4>1 DEF Again
      <4>3. n - i \in 1..Len(trace) /\ n - d - i \in 1..Len(trace)
        BY <1>1, <3>1
      <4> QED BY <2>2, <4>2, <4>3
    <3>4. Len(trace) >= 2 * d - 1
      BY <1>1, <3>1
    <3>5. Repeats(trace, e, d)
      BY <3>1, <3>2, <3>3, <3>4 DEF Repeats
    <3> QED BY <1>2, <3>5
  <2> QED BY <1>1, <2>2, <2>3, <2>4
<1>3. CASE strides # {}
  <2>1. new = SubSeq(trace, 1, k)
    BY <1>3 DEF add_trace_entry
  <2>2. Min(strides) \in strides
    <3>1. \E m \in strides : \A n \in strides : m <= n
      <4>1. strides \subseteq Nat
        OBVIOUS
      <4> HIDE DEF strides
      <4> QED BY <1>3, <4>1, LeastTurn
    <3> HIDE DEF strides
    <3> QED BY <3>1 DEF Min
  <2>3. Min(strides) \in 1..3 /\ Repeats(trace, e, Min(strides))
    BY <2>2
  <2> HIDE DEF strides
  <2>4. k \in 0..Len(trace)
    BY <1>1, <2>3 DEF Repeats
  <2> HIDE DEF k
  <2>5. Len(new) = k /\ \A i \in 1..k : new[i] = trace[i]
    <3> HIDE DEF new
    <3> QED BY <2>1, <2>4, SubSeqProperties DEF Traces
  <2> HIDE DEF new
  <2> SUFFICES ASSUME NEW d \in 1..3, NEW n \in 1..Len(new), n >= 2 * d, Again(new, n, d)
               PROVE  FALSE
    BY DEF NeverAgain, new
  <2>6. n \in 1..Len(trace) /\ k \in Nat /\ n <= k
    BY <1>1, <2>4, <2>5
  <2>7. ASSUME NEW j \in 1..d PROVE trace[n - 2 * d + j] = trace[n - d + j]
    <3>1. n - 2 * d + j \in 1..k /\ n - d + j \in 1..k
      BY <2>6
    <3> QED BY <2>5, <3>1 DEF Again
  <2> QED BY <2>6, <2>7 DEF NeverAgain, Again
<1> HIDE DEF strides, new
<1> QED BY <1>2, <1>3 DEF new

\* The loop of get_c_call_trace()
LEMMA CollectLoop ==
  ASSUME NEW entries \in Traces
  PROVE  \E g : /\ g[0] = <<>>
                /\ \A k \in 0..Len(entries) - 1 : g[k + 1] = add_trace_entry(g[k], entries[k + 1])
                /\ c_trace(entries) = g[Len(entries)]
<1> DEFINE size == Len(entries)
           Turn == [p \in (0..size - 1) \X Traces |-> add_trace_entry(p[2], entries[p[1] + 1])]
           Body(f) == [n \in 0..size |-> IF n = 0 THEN <<>> ELSE add_trace_entry(f[n - 1], entries[n])]
<1>1. size \in Nat
  BY DEF Traces
<1>2. <<>> \in Traces
  BY DEF Traces
<1>3. Turn \in Bodies(0..size - 1, Traces)
  <2>1. ASSUME NEW k \in 0..size - 1, NEW w \in Traces PROVE add_trace_entry(w, entries[k + 1]) \in Traces
    <3>1. entries[k + 1] \in Entries
      BY <1>1 DEF Traces
    <3> QED BY <3>1, AddTyped
  <2> HIDE DEF size
  <2> QED BY <2>1 DEF Bodies
<1>4. PICK f \in [0..size -> Traces] : IsLoop(f, 0..size - 1, Traces, <<>>, Turn)
  <2> HIDE DEF Turn, size
  <2> QED BY <1>1, <1>2, <1>3, Loop
<1>5. \A k \in 0..size - 1 : f[k + 1] = add_trace_entry(f[k], entries[k + 1])
  <2> TAKE k \in 0..size - 1
  <2>1. f[k] \in Traces /\ f[k + 1] = Turn[<<k, f[k]>>]
    <3> HIDE DEF Turn, size
    <3> QED BY <1>4 DEF IsLoop
  <2> HIDE DEF size
  <2> QED BY <2>1
<1>6. c_trace(entries) = (CHOOSE g : g = Body(g))[size]
  BY DEF c_trace
<1> HIDE DEF size
<1>7. f = Body(f)
  <2>1. \A n \in 0..size : f[n] = IF n = 0 THEN <<>> ELSE add_trace_entry(f[n - 1], entries[n])
    <3> TAKE n \in 0..size
    <3>1. n = 0 \/ (n - 1 \in 0..size - 1 /\ (n - 1) + 1 = n)
      BY <1>1
    <3> HIDE DEF Turn
    <3> QED BY <3>1, <1>4, <1>5 DEF IsLoop
  <2> QED BY <2>1, <1>4
<1> DEFINE new == CHOOSE g : g = Body(g)
<1>8. new = Body(new)
  <2> HIDE DEF Body
  <2> QED BY <1>7
<1> HIDE DEF new
<1>9. new[0] = <<>> /\ \A k \in 0..size - 1 : new[k + 1] = add_trace_entry(new[k], entries[k + 1])
  <2>1. new[0] = Body(new)[0] /\ \A k \in 0..size - 1 : new[k + 1] = Body(new)[k + 1]
    <3> HIDE DEF Body
    <3> QED BY <1>8
  <2>2. Body(new)[0] = <<>>
    BY <1>1
  <2>3. ASSUME NEW k \in 0..size - 1
        PROVE  Body(new)[k + 1] = add_trace_entry(new[k], entries[k + 1])
    <3>1. k + 1 \in 0..size /\ k + 1 # 0 /\ (k + 1) - 1 = k
      BY <1>1
    <3> QED BY <3>1
  <2> HIDE DEF Body
  <2> QED BY <2>1, <2>2, <2>3
<1>10. c_trace(entries) = new[size]
  BY <1>6 DEF new
<1> QED BY <1>9, <1>10 DEF size

LEMMA Gathered ==
  ASSUME NEW entries \in Traces
  PROVE  Repeatless(c_trace(entries))
<1>1. PICK g : /\ g[0] = <<>>
               /\ \A k \in 0..Len(entries) - 1 : g[k + 1] = add_trace_entry(g[k], entries[k + 1])
               /\ c_trace(entries) = g[Len(entries)]
  BY CollectLoop
<1> DEFINE size == Len(entries)
           T == {k \in 0..size : g[k] \in Traces /\ NeverAgain(g[k])}
<1>2. size \in Nat
  BY DEF Traces
<1>3. 0 \in T
  <2>1. <<>> \in Traces /\ NeverAgain(<<>>)
    BY DEF Traces, NeverAgain
  <2> QED BY <1>1, <1>2, <2>1
<1>4. ASSUME NEW k \in 0..size - 1, k \in T PROVE k + 1 \in T
  <2>1. entries[k + 1] \in Entries
    BY <1>2 DEF Traces
  <2>2. g[k + 1] \in Traces /\ NeverAgain(g[k + 1])
    BY <1>1, <1>4, <2>1, AddTyped, AddFacts
  <2> QED BY <1>2, <2>2
<1>5. \A k \in 0..size : k \in T
  <2> HIDE DEF T, size
  <2> QED BY <1>2, <1>3, <1>4, InductionUpto
<1>6. g[size] \in Traces /\ NeverAgain(g[size])
  BY <1>2, <1>5
<1> QED BY <1>1, <1>6, AgainFacts DEF Traces

-----------------------------------------------------------------------------
(***************************************************************************)
(* Who is told.                                                            *)
(***************************************************************************)
Targets == [dst : Ports, unhandled_only : BOOLEAN]
TargetsOf(t) == t \in Seq(Targets) /\ \A i, j \in DOMAIN t : t[i].dst = t[j].dst => i = j
PortLists == Seq(Ports \cup {err})

FirstTold == IF err = NONE THEN <<>> ELSE <<err>>
Tell(told, target) == IF Informed(target) THEN Append(told, target.dst) ELSE told

LEMMA TellTyped ==
  ASSUME NEW told \in PortLists, NEW target \in Targets
  PROVE  Tell(told, target) \in PortLists
<1>1. target.dst \in Ports \cup {err}
  BY DEF Targets
<1> QED BY <1>1, AppendProperties DEF Tell, PortLists

LEMMA ToldLoop ==
  ASSUME TargetsOf(targets)
  PROVE  \E g : /\ g[0] = FirstTold
                /\ \A k \in 0..Len(targets) - 1 : g[k + 1] = Tell(g[k], targets[k + 1])
                /\ Told = g[Len(targets)]
<1> DEFINE size == Len(targets)
           Turn == [p \in (0..size - 1) \X PortLists |-> Tell(p[2], targets[p[1] + 1])]
           Body(f) == [n \in 0..size |-> IF n = 0 THEN FirstTold ELSE Tell(f[n - 1], targets[n])]
<1>1. size \in Nat
  BY DEF TargetsOf
<1>2. FirstTold \in PortLists
  BY DEF FirstTold, PortLists
<1>3. Turn \in Bodies(0..size - 1, PortLists)
  <2>1. ASSUME NEW k \in 0..size - 1, NEW w \in PortLists PROVE Tell(w, targets[k + 1]) \in PortLists
    <3>1. targets[k + 1] \in Targets
      BY <1>1 DEF TargetsOf
    <3> QED BY <3>1, TellTyped
  <2> HIDE DEF size
  <2> QED BY <2>1 DEF Bodies
<1>4. PICK f \in [0..size -> PortLists] : IsLoop(f, 0..size - 1, PortLists, FirstTold, Turn)
  <2> HIDE DEF Turn, size
  <2> QED BY <1>1, <1>2, <1>3, Loop
<1>5. \A k \in 0..size - 1 : f[k + 1] = Tell(f[k], targets[k + 1])
  <2> TAKE k \in 0..size - 1
  <2>1. f[k] \in PortLists /\ f[k + 1] = Turn[<<k, f[k]>>]
    <3> HIDE DEF Turn, size
    <3> QED BY <1>4 DEF IsLoop
  <2> HIDE DEF size
  <2> QED BY <2>1
<1>6. Told = (CHOOSE g : g = Body(g))[size]
  BY DEF Told, FirstTold, Tell
<1> HIDE DEF size
<1>7. f = Body(f)
  <2>1. \A n \in 0..size : f[n] = IF n = 0 THEN FirstTold ELSE Tell(f[n - 1], targets[n])
    <3> TAKE n \in 0..size
    <3>1. n = 0 \/ (n - 1 \in 0..size - 1 /\ (n - 1) + 1 = n)
      BY <1>1
    <3> HIDE DEF Turn
    <3> QED BY <3>1, <1>4, <1>5 DEF IsLoop
  <2> QED BY <2>1, <1>4
<1> DEFINE new == CHOOSE g : g = Body(g)
<1>8. new = Body(new)
  <2> HIDE DEF Body
  <2> QED BY <1>7
<1> HIDE DEF new
<1>9. new[0] = FirstTold /\ \A k \in 0..size - 1 : new[k + 1] = Tell(new[k], targets[k + 1])
  <2>1. new[0] = Body(new)[0] /\ \A k \in 0..size - 1 : new[k + 1] = Body(new)[k + 1]
    <3> HIDE DEF Body
    <3> QED BY <1>8
  <2>2. Body(new)[0] = FirstTold
    BY <1>1
  <2>3. ASSUME NEW k \in 0..size - 1
        PROVE  Body(new)[k + 1] = Tell(new[k], targets[k + 1])
    <3>1. k + 1 \in 0..size /\ k + 1 # 0 /\ (k + 1) - 1 = k
      BY <1>1
    <3> QED BY <3>1
  <2> HIDE DEF Body
  <2> QED BY <2>1, <2>2, <2>3
<1>10. Told = new[size]
  BY <1>6 DEF new
<1> QED BY <1>9, <1>10 DEF size

\* x is err or one of the first k targets, if it is informed
ToldBy(x, k) == (x = err /\ err # NONE) \/ \E i \in 1..k : Informed(targets[i]) /\ targets[i].dst = x
Distinct(told) == \A i, j \in 1..Len(told) : told[i] = told[j] => i = j
In(x, told) == \E i \in 1..Len(told) : told[i] = x
ToldSoFar(told, k) == told \in PortLists /\ Distinct(told) /\ \A x : In(x, told) <=> ToldBy(x, k)

LEMMA TellFacts ==
  ASSUME TargetsOf(targets), NEW k \in 0..Len(targets) - 1, NEW told, ToldSoFar(told, k)
  PROVE  ToldSoFar(Tell(told, targets[k + 1]), k + 1)
<1> DEFINE t == targets[k + 1]
           new == Tell(told, t)
<1>1. k \in Nat /\ t \in Targets /\ told \in PortLists /\ Len(targets) \in Nat
  BY DEF TargetsOf, ToldSoFar
<1>2. new \in PortLists
  BY <1>1, TellTyped
<1>3. \A x : ToldBy(x, k + 1) <=> ToldBy(x, k) \/ (Informed(t) /\ t.dst = x)
  <2>1. 1..k + 1 = (1..k) \cup {k + 1}
    BY <1>1
  <2> HIDE DEF t
  <2> QED BY <2>1 DEF ToldBy, t
<1>4. CASE ~Informed(t)
  <2>1. new = told
    BY <1>4 DEF Tell
  <2> HIDE DEF new, t
  <2> QED BY <1>3, <1>4, <2>1 DEF ToldSoFar, new, t
<1>5. CASE Informed(t)
  <2>1. new = Append(told, t.dst)
    BY <1>5 DEF Tell
  <2>2. Len(told) \in Nat /\ Len(new) = Len(told) + 1 /\ new[Len(told) + 1] = t.dst
        /\ \A i \in 1..Len(told) : new[i] = told[i]
    BY <1>1, <2>1, AppendProperties DEF PortLists
  <2>3. ~In(t.dst, told)
    <3>1. ~ToldBy(t.dst, k)
      <4>1. t.dst # err
        BY <1>5 DEF Informed
      <4>2. \A i \in 1..k : targets[i].dst # t.dst
        BY <1>1 DEF TargetsOf
      <4> QED BY <4>1, <4>2 DEF ToldBy
    <3> QED BY <3>1 DEF ToldSoFar
  <2> HIDE DEF new, t
  <2>4. Distinct(new)
    <3> SUFFICES ASSUME NEW i \in 1..Len(new), NEW j \in 1..Len(new), new[i] = new[j] PROVE i = j
      BY DEF Distinct
    <3>1. CASE i \in 1..Len(told) /\ j \in 1..Len(told)
      BY <2>2, <3>1 DEF ToldSoFar, Distinct
    <3>2. ASSUME NEW m \in 1..Len(told) PROVE new[m] # t.dst
      BY <2>2, <2>3 DEF In
    <3>3. \A m \in 1..Len(new) : m \in 1..Len(told) \/ m = Len(told) + 1
      BY <2>2
    <3> QED BY <2>2, <3>1, <3>2, <3>3
  <2>5. \A x : In(x, new) <=> In(x, told) \/ t.dst = x
    <3> TAKE x
    <3>1. 1..Len(new) = (1..Len(told)) \cup {Len(told) + 1}
      BY <2>2
    <3> QED BY <2>2, <3>1 DEF In
  <2>6. \A x : In(x, new) <=> ToldBy(x, k + 1)
    BY <1>3, <1>5, <2>5 DEF ToldSoFar
  <2> QED BY <1>2, <2>4, <2>6 DEF ToldSoFar, new, t
<1> QED BY <1>4, <1>5

LEMMA ToldFacts ==
  ASSUME TargetsOf(targets)
  PROVE  ToldSoFar(Told, Len(targets))
<1>1. PICK g : /\ g[0] = FirstTold
               /\ \A k \in 0..Len(targets) - 1 : g[k + 1] = Tell(g[k], targets[k + 1])
               /\ Told = g[Len(targets)]
  BY ToldLoop
<1> DEFINE size == Len(targets)
           T == {k \in 0..size : ToldSoFar(g[k], k)}
<1>2. size \in Nat
  BY DEF TargetsOf
<1>3. 0 \in T
  <2>1. FirstTold \in PortLists
    BY DEF FirstTold, PortLists
  <2>2. Distinct(FirstTold)
    BY DEF FirstTold, Distinct
  <2>3. \A x : In(x, FirstTold) <=> ToldBy(x, 0)
    BY DEF FirstTold, In, ToldBy
  <2> QED BY <1>1, <1>2, <2>1, <2>2, <2>3 DEF ToldSoFar
<1>4. ASSUME NEW k \in 0..size - 1, k \in T PROVE k + 1 \in T
  <2>1. ToldSoFar(g[k + 1], k + 1)
    BY <1>1, <1>4, TellFacts
  <2> QED BY <1>2, <2>1
<1>5. \A k \in 0..size : k \in T
  <2> HIDE DEF T, size
  <2> QED BY <1>2, <1>3, <1>4, InductionUpto
<1> QED BY <1>1, <1>2, <1>5

\* Ports that are to know
LEMMA WantsFacts ==
  ASSUME TargetsOf(targets), NEW e, e.targets = targets, e.err = err, NEW port \in Ports
  PROVE  (port = e.err \/ Wants(e, port)) <=> ToldBy(port, Len(targets))
<1>1. DOMAIN targets = 1..Len(targets) /\ port # NONE
  BY TraceAssumption DEF TargetsOf, TraceAssumption
<1>2. ASSUME NEW i \in DOMAIN targets, targets[i].dst = port, port # err
      PROVE  Informed(targets[i]) <=> (targets[i].unhandled_only => err = NONE)
  BY <1>2 DEF Informed
<1>3. CASE port = err
  BY <1>1, <1>3 DEF ToldBy
<1>4. CASE port # err
  BY <1>1, <1>2, <1>4 DEF ToldBy, Wants
<1> QED BY <1>3, <1>4

-----------------------------------------------------------------------------
(***************************************************************************)
(* The stack, its catches and the observers.                               *)
(***************************************************************************)
TraceTyped == /\ stack \in Stacks /\ Len(stack) >= 1
              /\ CatchesOf(catches, Len(stack))
              /\ TargetsOf(targets)
TraceInv == TraceTyped /\ ReportedOnce

LEMMA CallFrameFacts ==
  /\ Frames \subseteq CallFrames
  /\ SessionEntry \in CallFrames
  /\ \A op \in Ops : [type |-> "primop", names |-> <<>>, op |-> op] \in CallFrames
BY TraceAssumption DEF TraceAssumption, CallFrames, SessionEntry, Operations, Ops

\* A report of an error
LEMMA ErrorFacts ==
  ASSUME TraceTyped, NEW frames \in Stacks, Len(frames) >= Len(stack), NEW hide, basic_error(frames, hide)
  PROVE  ReportedOnce'
<1> DEFINE e == [stack |-> frames, catches |-> catches, targets |-> targets, err |-> err, hide |-> hide]
           entries == iterate_call_trace(frames, catches)
<1>1. entries \in Traces
  <2>1. Len(frames) \in Nat /\ CatchesOf(catches, Len(frames))
    BY DEF TraceTyped, CatchesOf, Stacks
  <2> QED BY <2>1, BarrierFacts, IterateTyped
<1>2. /\ occurred' = <<e>> /\ occurred'[1] = e
      /\ ctrace' = <<>>
      /\ reports' = IF Last(catches).mode = "off" THEN <<>>
                    ELSE [i \in DOMAIN Told |-> <<Told[i], print_call_trace(entries, hide)>>]
  BY DEF basic_error, Lines
<1>3. ToldSoFar(Told, Len(targets)) /\ DOMAIN Told = 1..Len(Told)
  BY ToldFacts DEF TraceTyped, ToldSoFar, PortLists
<1> HIDE DEF entries
<1>4. ToldOnce'
  <2> SUFFICES ASSUME NEW port \in Ports
               PROVE  Cardinality({i \in DOMAIN reports' : reports'[i][1] = port})
                        = IF Last(e.catches).mode # "off" /\ (port = e.err \/ Wants(e, port)) THEN 1 ELSE 0
    BY <1>2 DEF ToldOnce
  <2> DEFINE sent == {i \in DOMAIN reports' : reports'[i][1] = port}
  <2>1. e.catches = catches /\ e.targets = targets /\ e.err = err
    OBVIOUS
  <2> HIDE DEF e
  <2>2. (port = e.err \/ Wants(e, port)) <=> In(port, Told)
    BY <1>3, <2>1, WantsFacts DEF TraceTyped, ToldSoFar
  <2>3. CASE Last(catches).mode = "off"
    <3>1. sent = {}
      BY <1>2, <2>3
    <3> QED BY <2>1, <2>3, <3>1, FS_EmptySet
  <2>4. CASE Last(catches).mode # "off" /\ In(port, Told)
    <3>1. sent = {i \in 1..Len(Told) : Told[i] = port}
      BY <1>2, <1>3, <2>4
    <3>2. PICK i \in 1..Len(Told) : Told[i] = port
      BY <2>4 DEF In
    <3>3. sent = {i}
      BY <1>3, <3>1, <3>2 DEF ToldSoFar, Distinct
    <3> HIDE DEF sent
    <3>4. Cardinality(sent) = 1
      BY <3>3, FS_Singleton
    <3> QED BY <2>1, <2>2, <2>4, <3>4 DEF sent
  <2>5. CASE Last(catches).mode # "off" /\ ~In(port, Told)
    <3>1. sent = {}
      BY <1>2, <1>3, <2>5 DEF In
    <3> QED BY <2>1, <2>2, <2>5, <3>1, FS_EmptySet
  <2> QED BY <2>3, <2>4, <2>5
<1>5. ReportWhole'
  <2> SUFFICES ASSUME NEW i \in DOMAIN reports'
               PROVE  Abbreviates(reports'[i][2], AllButHidden(WholeTrace(e), hide))
    BY <1>2 DEF ReportWhole
  <2>1. reports'[i][2] = print_call_trace(entries, hide)
    BY <1>2
  <2>2. WholeTrace(e) = entries
    <3>1. WholeTrace(e) = get_mudlle_call_trace(frames, catches, Len(entries))
      BY DEF WholeTrace, entries
    <3>2. Len(entries) \in Nat /\ entries = SubSeq(entries, 1, Len(entries))
      BY <1>1 DEF Traces
    <3>3. Min({Len(entries), Len(entries)}) = Len(entries)
      BY <3>2 DEF Min
    <3> QED BY <3>1, <3>2, <3>3 DEF get_mudlle_call_trace, count_stack_depth, entries
  <2> QED BY <1>1, <2>1, <2>2, Printed
<1>6. NoRepeats'
  BY <1>2 DEF NoRepeats, Repeatless
<1> QED BY <1>4, <1>5, <1>6 DEF ReportedOnce

LEMMA NoErrorFacts ==
  ASSUME NoError
  PROVE  ReportedOnce'
BY DEF NoError, ReportedOnce, ToldOnce, ReportWhole, NoRepeats, Repeatless

LEMMA CollectFacts ==
  ASSUME TraceTyped, get_c_call_trace
  PROVE  ReportedOnce'
<1>1. iterate_call_trace(stack, catches) \in Traces
  <2>1. Len(stack) \in Nat
    BY DEF TraceTyped, Stacks
  <2> QED BY <2>1, BarrierFacts, IterateTyped DEF TraceTyped
<1>2. NoRepeats'
  BY <1>1, Gathered DEF get_c_call_trace, NoRepeats
<1> QED BY <1>2 DEF get_c_call_trace, ReportedOnce, ToldOnce, ReportWhole

LEMMA FrontCatches ==
  ASSUME NEW D \in Nat, CatchesOf(catches, D), catches # <<>>
  PROVE  CatchesOf(Front(catches), Last(catches).at) /\ Last(catches).at \in 1..D
<1> DEFINE n == Len(catches)
           Context == [at : Nat, mode : {"off", "barrier", "on"}]
<1>1. catches \in Seq(Context) /\ n \in Nat \ {0} /\ DOMAIN catches = 1..n
  BY EmptySeq DEF CatchesOf
<1>2. Last(catches) = catches[n] /\ Front(catches) = SubSeq(catches, 1, n - 1)
  BY DEF Last, Front
<1> HIDE DEF n, Context
<1>3. Front(catches) \in Seq(Context) /\ Len(Front(catches)) = n - 1
      /\ \A i \in 1..n - 1 : Front(catches)[i] = catches[i]
  BY <1>1, <1>2, SubSeqProperties
<1>4. DOMAIN Front(catches) = 1..n - 1 /\ (1..n - 1) \subseteq 1..n /\ n \in 1..n
  BY <1>1, <1>3
<1>5. ASSUME NEW i \in 1..n - 1 PROVE Front(catches)[i].at \in 1..catches[n].at
  <2>1. i \in 1..n /\ i <= n
    BY <1>1
  <2>2. catches[i].at \in 1..D /\ catches[n].at \in 1..D /\ catches[i].at <= catches[n].at
    BY <1>1, <1>4, <2>1 DEF CatchesOf
  <2> QED BY <1>3, <2>2
<1>6. \A i, j \in 1..n - 1 : i <= j => Front(catches)[i].at <= Front(catches)[j].at
  BY <1>1, <1>3, <1>4 DEF CatchesOf
<1>7. Last(catches).at \in 1..D
  BY <1>1, <1>2, <1>4 DEF CatchesOf
<1> QED BY <1>2, <1>3, <1>4, <1>5, <1>6, <1>7 DEF CatchesOf, Context

LEMMA LargerStack ==
  ASSUME NEW D \in Nat, NEW E \in Nat, D <= E, NEW ctxts, CatchesOf(ctxts, D)
  PROVE  CatchesOf(ctxts, E)
BY DEF CatchesOf

\* The stack up to some depth
LEMMA StackUpto ==
  ASSUME stack \in Stacks, NEW D \in 1..Len(stack)
  PROVE  SubSeq(stack, 1, D) \in Stacks /\ Len(SubSeq(stack, 1, D)) = D
<1>1. \A i \in 1..D : stack[i] \in CallFrames
  BY DEF Stacks
<1> QED BY <1>1, SubSeqProperties DEF Stacks

LEMMA ThrowFacts ==
  ASSUME TraceTyped, catches # <<>>, mthrow, UNCHANGED targets
  PROVE  TraceTyped'
<1>1. Len(stack) \in Nat
  BY DEF TraceTyped, Stacks
<1>2. Last(catches).at \in 1..Len(stack) /\ CatchesOf(Front(catches), Last(catches).at)
  BY <1>1, FrontCatches DEF TraceTyped
<1>3. stack' \in Stacks /\ Len(stack') = Last(catches).at
  BY <1>2, StackUpto DEF TraceTyped, mthrow
<1> QED BY <1>1, <1>2, <1>3 DEF TraceTyped, mthrow, TargetsOf

LEMMA RemoveFacts ==
  ASSUME TargetsOf(targets), NEW dst
  PROVE  TargetsOf(remove_call_trace(dst)) /\ \A i \in DOMAIN remove_call_trace(dst) : remove_call_trace(dst)[i].dst # dst
<1> DEFINE at == {i \in DOMAIN targets : targets[i].dst = dst}
           n == Len(targets)
           rest == remove_call_trace(dst)
<1>1. n \in Nat /\ DOMAIN targets = 1..n /\ targets \in Seq(Targets)
  BY DEF TargetsOf
<1>2. CASE at = {}
  BY <1>2 DEF remove_call_trace
<1>3. CASE at # {}
  <2>1. PICK m : m \in at
    BY <1>3
  <2>2. at = {m} /\ m \in 1..n
    BY <1>1, <2>1 DEF TargetsOf
  <2>3. Min(at) = m
    <3> HIDE DEF at
    <3> QED BY <2>2 DEF Min
  <2>4. rest = SubSeq(targets, 1, m - 1) \o SubSeq(targets, m + 1, n)
    BY <1>3, <2>3 DEF remove_call_trace, RemoveAt
  <2>5. SubSeq(targets, 1, m - 1) \in Seq(Targets) /\ Len(SubSeq(targets, 1, m - 1)) = m - 1
        /\ \A i \in 1..m - 1 : SubSeq(targets, 1, m - 1)[i] = targets[i]
    <3>1. \A i \in 1..m - 1 : targets[i] \in Targets
      BY <1>1, <2>2
    <3> QED BY <1>1, <2>2, <3>1, SubSeqProperties
  <2>6. SubSeq(targets, m + 1, n) \in Seq(Targets) /\ Len(SubSeq(targets, m + 1, n)) = n - m
        /\ \A i \in 1..n - m : SubSeq(targets, m + 1, n)[i] = targets[m + i]
    <3>1. \A i \in m + 1..n : targets[i] \in Targets
      BY <1>1, <2>2
    <3>2. m + 1 \in Int /\ n \in Int /\ n - (m + 1) + 1 = n - m /\ (IF m + 1 <= n THEN n - (m + 1) + 1 ELSE 0) = n - m
          /\ \A i \in 1..n - m : m + 1 + i - 1 = m + i
      <4>1. n \in Nat /\ m \in 1..n
        BY <1>1, <2>2
      <4> HIDE DEF n
      <4> QED BY <4>1
    <3> HIDE DEF n
    <3>3. /\ SubSeq(targets, m + 1, n) \in Seq(Targets)
          /\ Len(SubSeq(targets, m + 1, n)) = IF m + 1 <= n THEN n - (m + 1) + 1 ELSE 0
          /\ \A i \in 1..n - (m + 1) + 1 : SubSeq(targets, m + 1, n)[i] = targets[m + 1 + i - 1]
      BY <3>1, <3>2, SubSeqProperties
    <3> QED BY <3>2, <3>3
  <2> DEFINE front == SubSeq(targets, 1, m - 1)
             back == SubSeq(targets, m + 1, n)
  <2> HIDE DEF front, back, at, n, rest
  <2>7. rest \in Seq(Targets) /\ Len(rest) = n - 1
        /\ \A i \in 1..n - 1 : rest[i] = IF i <= m - 1 THEN front[i] ELSE back[i - (m - 1)]
    <3>1. front \in Seq(Targets) /\ back \in Seq(Targets) /\ Len(front) = m - 1 /\ Len(back) = n - m
          /\ rest = front \o back
      BY <2>4, <2>5, <2>6 DEF front, back
    <3>2. rest \in Seq(Targets) /\ Len(rest) = (m - 1) + (n - m)
          /\ \A i \in 1..(m - 1) + (n - m) : rest[i] = IF i <= m - 1 THEN front[i] ELSE back[i - (m - 1)]
      BY <3>1, ConcatProperties
    <3>3. (m - 1) + (n - m) = n - 1
      BY <1>1, <2>2
    <3> QED BY <3>2, <3>3
  <2> DEFINE was(i) == IF i <= m - 1 THEN i ELSE i + 1
  <2>8. ASSUME NEW i \in 1..n - 1 PROVE rest[i] = targets[was(i)] /\ was(i) \in 1..n /\ was(i) # m
    <3>1. CASE i <= m - 1
      <4>1. i \in 1..m - 1 /\ was(i) = i /\ i \in 1..n /\ i # m
        BY <1>1, <2>2, <3>1
      <4> QED BY <2>5, <2>7, <3>1, <4>1 DEF front
    <3>2. CASE i > m - 1
      <4>1. i - (m - 1) \in 1..n - m /\ was(i) = i + 1 /\ i + 1 \in 1..n /\ i + 1 # m
            /\ m + (i - (m - 1)) = i + 1 /\ ~(i <= m - 1)
        BY <1>1, <2>2, <3>2
      <4>2. back[i - (m - 1)] = targets[i + 1]
        BY <2>6, <4>1 DEF back
      <4> QED BY <2>7, <4>1, <4>2
    <3> QED BY <1>1, <2>2, <3>1, <3>2
  <2>9. DOMAIN rest = 1..n - 1
    BY <2>7
  <2>10. ASSUME NEW i \in 1..n - 1, NEW j \in 1..n - 1, rest[i].dst = rest[j].dst PROVE i = j
    <3>1. was(i) = was(j)
      <4> HIDE DEF was
      <4> QED BY <1>1, <2>8, <2>10 DEF TargetsOf
    <3> QED BY <1>1, <2>2, <3>1
  <2>11. ASSUME NEW i \in 1..n - 1 PROVE rest[i].dst # dst
    <3> HIDE DEF was
    <3>1. was(i) \notin at
      BY <2>2, <2>8
    <3> QED BY <1>1, <2>8, <3>1 DEF at
  <2> HIDE DEF was
  <2> QED BY <2>7, <2>9, <2>10, <2>11 DEF TargetsOf, rest
<1> HIDE DEF at
<1> QED BY <1>2, <1>3

LEMMA AddTargetFacts ==
  ASSUME TargetsOf(targets), NEW t \in Targets
  PROVE  TargetsOf(<<t>> \o remove_call_trace(t.dst))
<1> DEFINE rest == remove_call_trace(t.dst)
           new == <<t>> \o rest
<1>1. TargetsOf(rest) /\ \A i \in DOMAIN rest : rest[i].dst # t.dst
  BY RemoveFacts
<1> HIDE DEF rest
<1>2. rest \in Seq(Targets) /\ Len(rest) \in Nat /\ DOMAIN rest = 1..Len(rest)
  BY <1>1 DEF TargetsOf
<1>3. new \in Seq(Targets) /\ Len(new) = Len(rest) + 1 /\ new[1] = t
      /\ \A i \in 1..Len(rest) + 1 : i # 1 => new[i] = rest[i - 1]
  <2>1. <<t>> \in Seq(Targets) /\ Len(<<t>>) = 1 /\ <<t>>[1] = t
    OBVIOUS
  <2>2. new \in Seq(Targets) /\ Len(new) = 1 + Len(rest)
        /\ \A i \in 1..1 + Len(rest) : new[i] = IF i <= 1 THEN <<t>>[i] ELSE rest[i - 1]
    BY <1>2, <2>1, ConcatProperties
  <2> HIDE DEF new
  <2> QED BY <1>2, <2>1, <2>2
<1> HIDE DEF new
<1>4. DOMAIN new = 1..Len(rest) + 1
  BY <1>3
<1>5. ASSUME NEW i \in 1..Len(rest) + 1, NEW j \in 1..Len(rest) + 1, new[i].dst = new[j].dst PROVE i = j
  <2>1. \A k \in 1..Len(rest) + 1 : k # 1 => k - 1 \in 1..Len(rest)
    BY <1>2
  <2>2. ASSUME NEW k \in 1..Len(rest) + 1, k # 1 PROVE new[k].dst # t.dst
    BY <1>1, <1>2, <1>3, <2>1, <2>2
  <2>3. CASE i = 1 \/ j = 1
    BY <1>3, <1>5, <2>2, <2>3
  <2>4. CASE i # 1 /\ j # 1
    <3>1. rest[i - 1].dst = rest[j - 1].dst /\ i - 1 \in 1..Len(rest) /\ j - 1 \in 1..Len(rest)
      BY <1>3, <1>5, <2>1, <2>4
    <3>2. i - 1 = j - 1
      BY <1>1, <1>2, <3>1 DEF TargetsOf
    <3> QED BY <1>2, <3>2
  <2> QED BY <2>3, <2>4
<1> QED BY <1>3, <1>4, <1>5 DEF TargetsOf, new, rest

LEMMA PushFacts ==
  ASSUME TraceTyped, NEW frame \in CallFrames
  PROVE  Append(stack, frame) \in Stacks /\ Len(Append(stack, frame)) = Len(stack) + 1 /\ Len(stack) \in Nat
BY AppendProperties DEF TraceTyped, Stacks

LEMMA PrimitiveFacts ==
  ASSUME TraceTyped, NEW op \in Ops
  PROVE  Primitive(op) \in Stacks /\ Len(Primitive(op)) >= Len(stack)
<1>1. [type |-> "primop", names |-> <<>>, op |-> op] \in CallFrames
  BY CallFrameFacts
<1> QED BY <1>1, PushFacts DEF Primitive, TraceTyped

LEMMA SameTyped ==
  ASSUME TraceTyped, UNCHANGED <<stack, catches, err, targets>>
  PROVE  TraceTyped'
BY DEF TraceTyped, TargetsOf

LEMMA CallReturnFacts ==
  ASSUME TraceTyped
  PROVE  /\ \A frame \in Frames : Call(frame) => TraceTyped'
         /\ call_returns => TraceTyped'
<1>1. Len(stack) \in Nat
  BY DEF TraceTyped, Stacks
<1>2. ASSUME NEW frame \in Frames, Call(frame) PROVE TraceTyped'
  <2>1. stack' \in Stacks /\ Len(stack') = Len(stack) + 1
    BY <1>2, CallFrameFacts, PushFacts DEF Call
  <2>2. CatchesOf(catches', Len(stack'))
    BY <1>1, <1>2, <2>1, LargerStack DEF Call, TraceTyped
  <2> QED BY <1>1, <1>2, <2>1, <2>2 DEF Call, TraceTyped, TargetsOf
<1>3. ASSUME call_returns PROVE TraceTyped'
  <2> DEFINE D == Len(stack) - 1
  <2>1. Caught \in Nat \ {0} /\ CatchesOf(catches, Caught)
    <3>1. CASE catches = <<>>
      BY <3>1 DEF Caught, CatchesOf
    <3>2. CASE catches # <<>>
      <4>1. Caught = Last(catches).at
        BY <3>2 DEF Caught
      <4>2. catches \in Seq([at : Nat, mode : {"off", "barrier", "on"}]) /\ Last(catches).at \in 1..Len(stack)
        BY <1>1, <3>2, FrontCatches DEF TraceTyped, CatchesOf
      <4>3. DOMAIN catches = 1..Len(catches) /\ Len(catches) \in Nat \ {0}
        BY <3>2, <4>2, EmptySeq
      <4>4. \A i \in DOMAIN catches : catches[i].at <= Last(catches).at /\ catches[i].at \in 1..Len(stack)
        BY <4>3 DEF TraceTyped, CatchesOf, Last
      <4>5. \A i \in DOMAIN catches : catches[i].at \in 1..Last(catches).at
        BY <1>1, <4>2, <4>4
      <4> QED BY <1>1, <4>1, <4>2, <4>5 DEF CatchesOf, TraceTyped
    <3> QED BY <3>1, <3>2
  <2>2. D \in 1..Len(stack) /\ Caught <= D
    BY <1>1, <1>3, <2>1 DEF call_returns
  <2>3. stack' \in Stacks /\ Len(stack') = D
    BY <1>3, <2>2, StackUpto DEF call_returns, Front, TraceTyped
  <2>4. CatchesOf(catches', Len(stack'))
    <3>1. D \in Nat /\ catches' = catches
      BY <1>1, <1>3, <2>2 DEF call_returns
    <3> QED BY <2>1, <2>2, <2>3, <3>1, LargerStack
  <2> QED BY <1>1, <1>3, <2>2, <2>3, <2>4 DEF call_returns, TraceTyped, TargetsOf
<1> QED BY <1>2, <1>3

LEMMA CatchFacts ==
  ASSUME TraceTyped
  PROVE  /\ \A kind \in {"off", "barrier", "on"} : mcatch(kind) => TraceTyped'
         /\ mcatch_returns => TraceTyped'
<1>1. Len(stack) \in Nat /\ Len(stack) \in 1..Len(stack)
  BY DEF TraceTyped, Stacks
<1>2. ASSUME NEW kind \in {"off", "barrier", "on"}, mcatch(kind) PROVE TraceTyped'
  <2> DEFINE c == [at |-> Len(stack), mode |-> kind]
             n == Len(catches)
  <2>1. catches \in Seq([at : Nat, mode : {"off", "barrier", "on"}]) /\ n \in Nat /\ DOMAIN catches = 1..n
    BY DEF TraceTyped, CatchesOf
  <2>2. c \in [at : Nat, mode : {"off", "barrier", "on"}] /\ c.at = Len(stack) /\ catches' = Append(catches, c)
    BY <1>1, <1>2 DEF mcatch
  <2> HIDE DEF c, n
  <2>3. catches' \in Seq([at : Nat, mode : {"off", "barrier", "on"}]) /\ DOMAIN catches' = 1..n + 1
        /\ catches'[n + 1] = c /\ \A i \in 1..n : catches'[i] = catches[i]
    BY <2>1, <2>2, AppendProperties DEF n
  <2>4. \A i \in 1..n + 1 : i \in 1..n \/ i = n + 1
    BY <2>1
  <2>5. \A i \in 1..n : catches[i].at \in 1..Len(stack)
    BY <2>1 DEF TraceTyped, CatchesOf
  <2>6. \A i \in 1..n + 1 : catches'[i].at \in 1..Len(stack)
    BY <1>1, <2>2, <2>3, <2>4, <2>5
  <2>7. ASSUME NEW i \in 1..n + 1, NEW j \in 1..n + 1, i <= j PROVE catches'[i].at <= catches'[j].at
    <3>1. CASE j = n + 1
      BY <1>1, <2>2, <2>3, <2>6, <3>1
    <3>2. CASE j \in 1..n
      <4>1. i \in 1..n
        BY <2>1, <2>7, <3>2
      <4> QED BY <2>1, <2>3, <2>7, <3>2, <4>1 DEF TraceTyped, CatchesOf
    <3> QED BY <2>4, <3>1, <3>2
  <2>8. CatchesOf(catches', Len(stack))
    BY <2>3, <2>6, <2>7 DEF CatchesOf
  <2> QED BY <1>2, <2>8 DEF mcatch, TraceTyped, TargetsOf
<1>3. ASSUME mcatch_returns PROVE TraceTyped'
  <2>1. catches # <<>> /\ catches' = Front(catches) /\ UNCHANGED <<stack, err, targets>>
    BY <1>3 DEF mcatch_returns
  <2>2. Last(catches).at \in 1..Len(stack) /\ CatchesOf(Front(catches), Last(catches).at)
    BY <1>1, <2>1, FrontCatches DEF TraceTyped
  <2>3. CatchesOf(Front(catches), Len(stack))
    BY <1>1, <2>2, LargerStack
  <2> QED BY <2>1, <2>3 DEF TraceTyped, TargetsOf
<1> QED BY <1>2, <1>3

\* Errors and warnings
LEMMA ErrorSteps ==
  ASSUME TraceTyped, NEW op \in Ops
  PROVE  (runtime_error_hide_tos(op) \/ runtime_warning(op) \/ primitive_runtime_error(op) \/ primitive_runtime_warning(op))
           => TraceTyped' /\ ReportedOnce'
<1>1. stack \in Stacks /\ Len(stack) >= Len(stack)
  BY DEF TraceTyped, Stacks
<1>2. Primitive(op) \in Stacks /\ Len(Primitive(op)) >= Len(stack)
  BY PrimitiveFacts
<1>3. ASSUME runtime_error_hide_tos(op) PROVE TraceTyped' /\ ReportedOnce'
  BY <1>1, <1>3, ErrorFacts, ThrowFacts DEF runtime_error_hide_tos
<1>4. ASSUME runtime_warning(op) PROVE TraceTyped' /\ ReportedOnce'
  BY <1>1, <1>4, ErrorFacts, SameTyped DEF runtime_warning
<1>5. ASSUME primitive_runtime_error(op) PROVE TraceTyped' /\ ReportedOnce'
  BY <1>2, <1>5, ErrorFacts, ThrowFacts DEF primitive_runtime_error
<1>6. ASSUME primitive_runtime_warning(op) PROVE TraceTyped' /\ ReportedOnce'
  BY <1>2, <1>6, ErrorFacts, SameTyped DEF primitive_runtime_warning
<1> QED BY <1>3, <1>4, <1>5, <1>6

\* Observers
LEMMA ObserverSteps ==
  ASSUME TraceTyped, NEW dst \in Ports
  PROVE  /\ \A unhandled_only \in BOOLEAN : add_call_trace_port(dst, unhandled_only) => TraceTyped'
         /\ remove_call_trace_port(dst) => TraceTyped'
<1>1. ASSUME NEW unhandled_only \in BOOLEAN, add_call_trace_port(dst, unhandled_only) PROVE TraceTyped'
  <2> DEFINE t == [dst |-> dst, unhandled_only |-> unhandled_only]
  <2>1. t \in Targets /\ t.dst = dst
    BY DEF Targets
  <2>2. targets' = <<t>> \o remove_call_trace(t.dst)
    BY <1>1 DEF add_call_trace_port
  <2> HIDE DEF t
  <2>3. TargetsOf(targets')
    BY <2>1, <2>2, AddTargetFacts DEF TraceTyped
  <2> QED BY <1>1, <2>3 DEF add_call_trace_port, TraceTyped
<1>2. ASSUME remove_call_trace_port(dst) PROVE TraceTyped'
  <2>1. TargetsOf(targets')
    BY <1>2, RemoveFacts DEF remove_call_trace_port, TraceTyped
  <2> QED BY <1>2, <2>1 DEF remove_call_trace_port, TraceTyped
<1> QED BY <1>1, <1>2

LEMMA TraceInitInv == TraceInit => TraceInv
<1> SUFFICES ASSUME TraceInit PROVE TraceInv
  OBVIOUS
<1>1. stack \in Stacks /\ Len(stack) = 1
  BY CallFrameFacts DEF TraceInit, Stacks
<1>2. CatchesOf(catches, 1)
  <2>1. [at |-> 1, mode |-> "on"] \in [at : Nat, mode : {"off", "barrier", "on"}]
    OBVIOUS
  <2>2. catches = <<[at |-> 1, mode |-> "on"]>>
    BY DEF TraceInit
  <2> QED BY <2>1, <2>2 DEF CatchesOf
<1>3. TargetsOf(targets)
  BY DEF TraceInit, TargetsOf
<1>4. ReportedOnce
  BY DEF TraceInit, ReportedOnce, ToldOnce, ReportWhole, NoRepeats, Repeatless
<1> QED BY <1>1, <1>2, <1>3, <1>4 DEF TraceInv, TraceTyped

LEMMA TraceNextInv == TraceInv /\ [TraceNext]_trace_vars => TraceInv'
<1> SUFFICES ASSUME TraceInv, [TraceNext]_trace_vars PROVE TraceInv'
  OBVIOUS
<1>0. TraceTyped
  BY DEF TraceInv
<1>1. ASSUME NEW frame \in Frames, Call(frame) PROVE TraceInv'
  BY <1>0, <1>1, CallReturnFacts, NoErrorFacts DEF TraceInv, Call
<1>2. ASSUME call_returns PROVE TraceInv'
  BY <1>0, <1>2, CallReturnFacts, NoErrorFacts DEF TraceInv, call_returns
<1>3. ASSUME NEW kind \in {"off", "barrier", "on"}, mcatch(kind) PROVE TraceInv'
  BY <1>0, <1>3, CatchFacts, NoErrorFacts DEF TraceInv, mcatch
<1>4. ASSUME mcatch_returns PROVE TraceInv'
  BY <1>0, <1>4, CatchFacts, NoErrorFacts DEF TraceInv, mcatch_returns
<1>5. ASSUME NEW op \in Ops,
             runtime_error_hide_tos(op) \/ runtime_warning(op)
               \/ primitive_runtime_error(op) \/ primitive_runtime_warning(op)
      PROVE  TraceInv'
  BY <1>0, <1>5, ErrorSteps DEF TraceInv
<1>6. ASSUME get_c_call_trace PROVE TraceInv'
  BY <1>0, <1>6, CollectFacts, SameTyped DEF TraceInv, get_c_call_trace
<1>7. ASSUME NEW dst \in Ports, NEW unhandled_only \in BOOLEAN, add_call_trace_port(dst, unhandled_only)
      PROVE  TraceInv'
  BY <1>0, <1>7, ObserverSteps, NoErrorFacts DEF TraceInv, add_call_trace_port
<1>8. ASSUME NEW dst \in Ports, remove_call_trace_port(dst) PROVE TraceInv'
  BY <1>0, <1>8, ObserverSteps, NoErrorFacts DEF TraceInv, remove_call_trace_port
<1>9. ASSUME UNCHANGED trace_vars PROVE TraceInv'
  BY <1>9 DEF trace_vars, TraceInv, TraceTyped, TargetsOf, ReportedOnce, ToldOnce, ReportWhole, NoRepeats
<1> QED BY <1>1, <1>2, <1>3, <1>4, <1>5, <1>6, <1>7, <1>8, <1>9 DEF TraceNext

(***************************************************************************)
(* Whatever calls, catches, errors and observers there are: an error is    *)
(* reported once to each port that is to know of it, the report shows or   *)
(* counts each call of the trace, and what the profiler counts repeats no  *)
(* stretch of up to three calls (error.c:1198, 1297, 1433).                *)
(***************************************************************************)
THEOREM TraceSafety == TraceSpec => []ReportedOnce
<1>1. TraceInv => ReportedOnce
  BY DEF TraceInv
<1> QED BY <1>1, TraceInitInv, TraceNextInv, PTL DEF TraceSpec
=============================================================================
