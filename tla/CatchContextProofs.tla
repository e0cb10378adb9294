------------------------- MODULE CatchContextProofs -------------------------
(***************************************************************************)
(* Proofs about CatchContext, for any nesting of frames, any number of     *)
(* jump buffers, ports and errors.                                         *)
(***************************************************************************)
EXTENDS CatchContext, Integers, SequenceTheorems, TLAPS

(***************************************************************************)
(* Types.                                                                  *)
(***************************************************************************)
Stacks == Seq({"call", "session"})
Errs == Errors \cup {error_none}
Contexts == [call_stack : Stacks, gcpro : Nat, forbid : BOOLEAN, sessions : Nat, out : Ports]
Olds == [call_stack : Stacks, gcpro : Nat, forbid : BOOLEAN]
Sessions == [rethrow_error : Errs, old_gcpro : Nat, out : Ports]
Buffers == [Jmpbufs -> [context : Nat, result : BOOLEAN]]

Frame ==
  [kind : {"call"}, before : Contexts]
  \cup [kind : {"with_forbid"}, before : Contexts, old_forbid : BOOLEAN]
  \cup [kind : {"session"}, before : Contexts, old : Olds]
  \cup [kind : {"with_output"}, before : Contexts, port : Ports, out : Ports, at : Nat,
        old : Olds]
  \cup [kind : {"trap_error"}, before : Contexts, handler : {"handler", NoHandler},
        at : Nat, old_rethrow_error : Errs, old : Olds]
  \cup [kind : {"handler"}, before : Contexts, err : Errs, old_rethrow_error : Errs]
  \cup [kind : {"setjmp"}, before : Contexts, buf : Jmpbufs, old : Olds]

(***************************************************************************)
(* What a frame saved is what it was entered in.                           *)
(***************************************************************************)
OldOf(c) == [call_stack |-> c.call_stack, gcpro |-> c.gcpro, forbid |-> c.forbid]

Faithful(f) ==
  LET c == f.before
  IN  /\ f.kind = "with_forbid" => f.old_forbid = c.forbid
      /\ f.kind = "session" =>
           f.old = [OldOf(c) EXCEPT !.call_stack = Append(c.call_stack, "session")]
      /\ f.kind = "with_output" =>
           f.at = c.gcpro /\ f.out = c.out /\ f.old = [OldOf(c) EXCEPT !.gcpro = c.gcpro + 1]
      /\ f.kind = "trap_error" =>
           f.at = c.gcpro /\ f.old = [OldOf(c) EXCEPT !.gcpro = c.gcpro + 1]
      /\ f.kind = "setjmp" => f.old = OldOf(c)

(***************************************************************************)
(* The inductive invariant.  The stack of frames is one chain of contexts, *)
(* from the host's to the one that the program runs in.                    *)
(***************************************************************************)
Outside == [call_stack |-> <<>>, gcpro |-> 0, forbid |-> FALSE, sessions |-> 0,
            out |-> mudout_port]

\* the context above the first i frames of fs
At(fs, i) == IF i = 0 THEN Outside ELSE Inside(fs[i])

Chain(fs) ==
  \A i \in 1..Len(fs) : /\ fs[i].before = At(fs, i - 1) /\ Faithful(fs[i])
                        /\ i = 1 => fs[i].kind = "session"

Catches(f) == f.kind \in Catching

\* Below every frame, or in it, is the last one that catches; it has the same
\* session and output.
Caught(fs) ==
  \A i \in 1..Len(fs) : \E c \in 1..i :
    /\ Catches(fs[c]) /\ \A j \in (c + 1)..i : ~Catches(fs[j])
    /\ Inside(fs[i]).sessions = Inside(fs[c]).sessions
    /\ Inside(fs[i]).out = Inside(fs[c]).out

Nested(fs) ==
  \A i, j \in 1..Len(fs) : i < j => Inside(fs[i]).sessions <= fs[j].before.sessions

\* A session context keeps what it was made with, and the one outside it its
\* output.
SessionsKept(fs, ses) ==
  \A i \in 1..Len(fs) : fs[i].kind = "session" =>
    LET n == fs[i].before.sessions
    IN  /\ n < Len(ses) /\ ses[n + 1].old_gcpro = fs[i].before.gcpro
        /\ fs[i].before.out = IF n = 0 THEN mudout_port ELSE ses[n].out

StackOK(fs, ses) == /\ fs \in Seq(Frame) /\ ses \in Seq(Sessions)
                    /\ Chain(fs) /\ Caught(fs) /\ Nested(fs) /\ SessionsKept(fs, ses)

\* A buffer is live exactly while its setjmp() is on the stack.
BuffersOK(fs, jb) ==
  /\ jb \in Buffers
  /\ \A b \in Jmpbufs : jb[b].context # 0 =>
       jb[b].context <= Len(fs) /\ fs[jb[b].context].kind = "setjmp" /\ fs[jb[b].context].buf = b
  /\ \A i \in 1..Len(fs) : fs[i].kind = "setjmp" => jb[fs[i].buf].context = i

\* The longjmp() under way is for a live buffer, and no other buffer was used.
JumpOK ==
  /\ pc # "crash" /\ returned.aimed = returned.at
  /\ pc = "run" => thrown = none
  /\ pc = "throw" => (mexception.sig = "longjmp" <=> thrown # none)
  /\ thrown # none => is_mjmpbuf(thrown)
  /\ \A b \in Jmpbufs : is_mjmpbuf(b) => (jmpbuf[b].result <=> thrown # b)

Signals ==
  /\ mexception \in [sig : {"none", "error", "longjmp"}, err : Errs]
  /\ mexception.sig = "error" => mexception.err \in Errors
  /\ pc \in {"run", "throw", "crash"} /\ thrown \in Jmpbufs \cup {none}
  /\ swallowed \in BOOLEAN
  /\ pc = "throw" => mexception.sig # "none"
  /\ swallowed \/ JumpOK

CatchInv ==
  /\ StackOK(frames, session) /\ Context = At(frames, Depth)
  /\ BuffersOK(frames, jmpbuf) /\ Signals
  /\ pc = "throw" => frames # <<>>

-----------------------------------------------------------------------------
(***************************************************************************)
(* Frames and the contexts in them.                                        *)
(***************************************************************************)
Kinds == {"call", "with_forbid", "session", "with_output", "trap_error", "handler", "setjmp"}

LEMMA FrameFacts ==
  ASSUME NEW f \in Frame
  PROVE  /\ f.kind \in Kinds /\ f.before \in Contexts
         /\ f.kind = "with_output" => f.port \in Ports
         /\ f.kind \in {"trap_error", "handler"} => f.old_rethrow_error \in Errs
         /\ f.kind = "setjmp" => f.buf \in Jmpbufs
<1> USE DEF Kinds
<1>1. CASE f \in [kind : {"call"}, before : Contexts]
  BY <1>1
<1>2. CASE f \in [kind : {"with_forbid"}, before : Contexts, old_forbid : BOOLEAN]
  BY <1>2
<1>3. CASE f \in [kind : {"session"}, before : Contexts, old : Olds]
  BY <1>3
<1>4. CASE f \in [kind : {"with_output"}, before : Contexts, port : Ports, out : Ports,
                  at : Nat, old : Olds]
  BY <1>4
<1>5. CASE f \in [kind : {"trap_error"}, before : Contexts, handler : {"handler", NoHandler},
                  at : Nat, old_rethrow_error : Errs, old : Olds]
  BY <1>5
<1>6. CASE f \in [kind : {"handler"}, before : Contexts, err : Errs, old_rethrow_error : Errs]
  BY <1>6
<1>7. CASE f \in [kind : {"setjmp"}, before : Contexts, buf : Jmpbufs, old : Olds]
  BY <1>7
<1> QED BY <1>1, <1>2, <1>3, <1>4, <1>5, <1>6, <1>7 DEF Frame

LEMMA InsideFacts ==
  ASSUME NEW f \in Frame
  PROVE  /\ Inside(f) \in Contexts
         /\ Inside(f).sessions = IF f.kind = "session" THEN f.before.sessions + 1
                                                        ELSE f.before.sessions
         /\ Inside(f).out = IF f.kind = "with_output" THEN f.port ELSE f.before.out
         /\ Inside(f).forbid = IF f.kind = "with_forbid" THEN TRUE ELSE f.before.forbid
         /\ Inside(f).gcpro = IF f.kind \in {"call", "with_output", "trap_error"}
                              THEN f.before.gcpro + 1 ELSE f.before.gcpro
         /\ Inside(f).call_stack = IF f.kind \in {"call", "session"}
                                   THEN Append(f.before.call_stack, f.kind)
                                   ELSE f.before.call_stack
<1>1. f.kind \in Kinds /\ f.before \in Contexts
  BY FrameFacts
<1>2. /\ Append(f.before.call_stack, "call") \in Stacks
      /\ Append(f.before.call_stack, "session") \in Stacks
  BY <1>1, AppendProperties DEF Contexts, Stacks
<1> HIDE DEF Frame
<1> DEFINE c == f.before
<1>3. CASE f.kind = "call"
  <2> DEFINE s == Append(f.before.call_stack, "call")
  <2>1. Inside(f) = [c EXCEPT !.call_stack = s, !.gcpro = c.gcpro + 1]
    BY <1>1, <1>3 DEF Inside, Contexts
  <2>2. s \in Stacks
    BY <1>2
  <2> HIDE DEF s, c
  <2>3. Inside(f) = [call_stack |-> s, gcpro |-> c.gcpro + 1, forbid |-> c.forbid,
                     sessions |-> c.sessions, out |-> c.out]
    BY <1>1, <2>1 DEF Contexts, c
  <2>4. Inside(f) \in Contexts
    BY <1>1, <2>2, <2>3 DEF Contexts, c
  <2> QED BY <1>3, <2>3, <2>4 DEF s, c
<1>4. CASE f.kind = "session"
  <2> DEFINE s == Append(f.before.call_stack, "session")
  <2>1. Inside(f) = [c EXCEPT !.call_stack = s, !.sessions = c.sessions + 1]
    BY <1>1, <1>4 DEF Inside, Contexts
  <2>2. s \in Stacks
    BY <1>2
  <2> HIDE DEF s, c
  <2>3. Inside(f) = [call_stack |-> s, gcpro |-> c.gcpro, forbid |-> c.forbid,
                     sessions |-> c.sessions + 1, out |-> c.out]
    BY <1>1, <2>1 DEF Contexts, c
  <2>4. Inside(f) \in Contexts
    BY <1>1, <2>2, <2>3 DEF Contexts, c
  <2> QED BY <1>4, <2>3, <2>4 DEF s, c
<1>5. CASE f.kind = "with_forbid"
  BY <1>1, <1>5 DEF Inside, Contexts
<1>6. CASE f.kind = "with_output"
  <2>1. Inside(f) = [c EXCEPT !.gcpro = c.gcpro + 1, !.out = f.port]
    BY <1>1, <1>6 DEF Inside, Contexts
  <2>2. Inside(f) = [call_stack |-> c.call_stack, gcpro |-> c.gcpro + 1, forbid |-> c.forbid,
                     sessions |-> c.sessions, out |-> f.port]
    BY <1>1, <2>1 DEF Contexts
  <2>3. f.port \in Ports
    BY <1>6, FrameFacts
  <2> HIDE DEF c
  <2>4. Inside(f) \in Contexts
    BY <1>1, <2>2, <2>3 DEF Contexts, c
  <2> QED BY <1>6, <2>2, <2>4 DEF c
<1>7. CASE f.kind = "trap_error"
  <2>1. Inside(f) = [f.before EXCEPT !.gcpro = f.before.gcpro + 1]
    BY <1>1, <1>7 DEF Inside, Contexts
  <2> QED BY <1>1, <1>7, <2>1 DEF Contexts
<1>8. CASE f.kind \in {"handler", "setjmp"}
  BY <1>1, <1>8 DEF Inside, Contexts
<1> QED BY <1>1, <1>3, <1>4, <1>5, <1>6, <1>7, <1>8 DEF Kinds

LEMMA SessionsGrow ==
  ASSUME NEW f \in Frame
  PROVE  /\ f.before.sessions \in Nat /\ Inside(f).sessions \in Nat
         /\ f.before.sessions <= Inside(f).sessions
<1>1. f.before.sessions \in Nat
  BY FrameFacts DEF Contexts
<1>2. Inside(f).sessions = f.before.sessions \/ Inside(f).sessions = f.before.sessions + 1
  BY InsideFacts
<1> QED BY <1>1, <1>2

LEMMA AtFacts ==
  ASSUME NEW fs \in Seq(Frame), NEW i \in 0..Len(fs)
  PROVE  At(fs, i) \in Contexts
<1>1. CASE i = 0
  BY <1>1, EmptySeq, CatchAssumption DEF At, Outside, Contexts, Stacks
<1>2. CASE i # 0
  <2>1. i \in 1..Len(fs)
    BY <1>2, LenProperties
  <2> QED BY <1>2, <2>1, ElementOfSeq, InsideFacts DEF At
<1> QED BY <1>1, <1>2

(***************************************************************************)
(* Entering and leaving frames.                                            *)
(***************************************************************************)
\* the sessions outside the n-th keep all that frames rely on
KeepsOuter(ses, ses2, n) ==
  /\ n <= Len(ses) /\ n <= Len(ses2)
  /\ \A k \in 1..n : /\ ses2[k].old_gcpro = ses[k].old_gcpro
                     /\ k < n => ses2[k].out = ses[k].out

\* what session_start() does with the session contexts
NewSession(f, ses, ses2) ==
  /\ Len(ses2) = Len(ses) + 1 /\ \A k \in 1..Len(ses) : ses2[k] = ses[k]
  /\ ses2[Len(ses) + 1].old_gcpro = f.before.gcpro
  /\ f.before.out = IF Len(ses) = 0 THEN mudout_port ELSE ses[Len(ses)].out

LEMMA PushStack ==
  ASSUME NEW fs, NEW ses, NEW ses2 \in Seq(Sessions), NEW f \in Frame,
         StackOK(fs, ses), f.before = At(fs, Len(fs)), Faithful(f),
         fs = <<>> => f.kind = "session", f.before.sessions = Len(ses),
         IF f.kind = "session" THEN NewSession(f, ses, ses2)
                               ELSE KeepsOuter(ses, ses2, Len(ses))
  PROVE  /\ StackOK(Append(fs, f), ses2) /\ Len(Append(fs, f)) = Len(fs) + 1
         /\ At(Append(fs, f), Len(fs) + 1) = Inside(f)
<1> DEFINE n == Len(fs)
           gs == Append(fs, f)
<1>1. /\ n \in Nat /\ gs \in Seq(Frame) /\ Len(gs) = n + 1 /\ gs[n + 1] = f
      /\ \A i \in 1..n : gs[i] = fs[i]
      /\ fs # <<>> => n > 0
      /\ ses \in Seq(Sessions) /\ Len(ses) \in Nat
  <2>1. fs \in Seq(Frame) /\ ses \in Seq(Sessions)
    BY DEF StackOK
  <2> HIDE DEF Frame, Sessions
  <2> QED BY <2>1, AppendProperties, LenProperties, EmptySeq
<1>2. \A i \in 1..n : fs[i] \in Frame
  <2>1. fs \in Seq(Frame)
    BY DEF StackOK
  <2> QED BY <2>1, ElementOfSeq
<1> HIDE DEF gs, n
<1>3. \A i \in 0..n : At(gs, i) = At(fs, i)
  BY <1>1 DEF At
<1>4. At(gs, n + 1) = Inside(f)
  BY <1>1 DEF At
<1>5. \A i \in 1..(n + 1) : i = n + 1 \/ i \in 1..n
  BY <1>1
<1>6. Chain(gs)
  <2> SUFFICES ASSUME NEW i \in 1..(n + 1)
               PROVE  /\ gs[i].before = At(gs, i - 1) /\ Faithful(gs[i])
                      /\ i = 1 => gs[i].kind = "session"
    BY <1>1 DEF Chain
  <2>1. CASE i = n + 1
    <3>1. i - 1 = n /\ n \in 0..n
      BY <2>1, <1>1
    <3> QED BY <2>1, <3>1, <1>1, <1>3 DEF n
  <2>2. CASE i \in 1..n
    <3>1. i - 1 \in 0..n
      BY <2>2, <1>1
    <3> QED BY <2>2, <3>1, <1>1, <1>3 DEF StackOK, Chain, n
  <2> QED BY <2>1, <2>2, <1>5
<1>7. Caught(gs)
  <2> SUFFICES ASSUME NEW i \in 1..(n + 1)
               PROVE  \E c \in 1..i : /\ Catches(gs[c]) /\ \A j \in (c + 1)..i : ~Catches(gs[j])
                                      /\ Inside(gs[i]).sessions = Inside(gs[c]).sessions
                                      /\ Inside(gs[i]).out = Inside(gs[c]).out
    BY <1>1 DEF Caught
  <2>1. CASE i \in 1..n
    <3>1. PICK c \in 1..i : /\ Catches(fs[c]) /\ \A j \in (c + 1)..i : ~Catches(fs[j])
                            /\ Inside(fs[i]).sessions = Inside(fs[c]).sessions
                            /\ Inside(fs[i]).out = Inside(fs[c]).out
      BY <2>1 DEF StackOK, Caught, n
    <3>2. c \in 1..n /\ \A j \in (c + 1)..i : j \in 1..n
      BY <2>1, <1>1
    <3> QED BY <2>1, <3>1, <3>2, <1>1
  <2>2. CASE i = n + 1 /\ Catches(f)
    <3>1. i \in 1..i /\ (i + 1)..i = {}
      BY <2>2, <1>1
    <3> QED BY <2>2, <3>1, <1>1
  <2>3. CASE i = n + 1 /\ ~Catches(f)
    <3>1. n \in 1..n /\ n - 1 \in Int
      <4>1. f.kind # "session"
        BY <2>3 DEF Catches, Catching
      <4> QED BY <4>1, <1>1
    <3>2. PICK c \in 1..n : /\ Catches(fs[c]) /\ \A j \in (c + 1)..n : ~Catches(fs[j])
                            /\ Inside(fs[n]).sessions = Inside(fs[c]).sessions
                            /\ Inside(fs[n]).out = Inside(fs[c]).out
      BY <3>1 DEF StackOK, Caught, n
    <3>3. f.before = Inside(fs[n])
      BY <3>1 DEF At, n
    <3>4. Inside(f).sessions = f.before.sessions /\ Inside(f).out = f.before.out
      BY <2>3, InsideFacts DEF Catches, Catching
    <3>5. c \in 1..i /\ \A j \in (c + 1)..i : j \in (c + 1)..n \/ j = n + 1
      BY <2>3, <1>1
    <3>6. \A j \in (c + 1)..n : j \in 1..n
      BY <1>1
    <3>7. \A j \in (c + 1)..i : ~Catches(gs[j])
      BY <2>3, <3>2, <3>5, <3>6, <1>1
    <3> QED BY <2>3, <3>2, <3>3, <3>4, <3>5, <3>7, <1>1
  <2> QED BY <2>1, <2>2, <2>3, <1>5
<1>8. Nested(gs)
  <2> SUFFICES ASSUME NEW i \in 1..(n + 1), NEW j \in 1..(n + 1), i < j
               PROVE  Inside(gs[i]).sessions <= gs[j].before.sessions
    BY <1>1 DEF Nested
  <2>1. i \in 1..n /\ n \in 1..n
    BY <1>1
  <2>2. CASE j \in 1..n
    BY <2>1, <2>2, <1>1 DEF StackOK, Nested, n
  <2>3. CASE j = n + 1
    <3>1. f.before = Inside(fs[n])
      BY <2>1 DEF At, n
    <3>2. CASE i = n
      <4>1. Inside(fs[n]).sessions \in Nat
        BY <2>1, <1>2, InsideFacts DEF Contexts
      <4> QED BY <2>1, <2>3, <3>1, <3>2, <4>1, <1>1
    <3>3. CASE i < n
      <4>1. Inside(fs[i]).sessions <= fs[n].before.sessions
        BY <2>1, <3>3 DEF StackOK, Nested, n
      <4>2. /\ Inside(fs[i]).sessions \in Nat /\ fs[n].before.sessions \in Nat
            /\ fs[n].before.sessions <= Inside(fs[n]).sessions
        BY <2>1, <1>2, SessionsGrow
      <4>3. Inside(fs[n]).sessions \in Nat
        BY <2>1, <1>2, InsideFacts DEF Contexts
      <4> QED BY <2>1, <2>3, <3>1, <4>1, <4>2, <4>3, <1>1
    <3> QED BY <2>1, <3>2, <3>3, <1>1
  <2> QED BY <2>2, <2>3, <1>5
<1>9. SessionsKept(gs, ses2)
  <2> SUFFICES ASSUME NEW i \in 1..(n + 1), gs[i].kind = "session"
               PROVE  LET m == gs[i].before.sessions
                      IN  /\ m < Len(ses2) /\ ses2[m + 1].old_gcpro = gs[i].before.gcpro
                          /\ gs[i].before.out = IF m = 0 THEN mudout_port ELSE ses2[m].out
    BY <1>1 DEF SessionsKept
  <2>1. CASE i = n + 1
    <3>1. f.kind = "session" /\ NewSession(f, ses, ses2)
      BY <2>1, <1>1
    <3>2. Len(ses) # 0 => Len(ses) \in 1..Len(ses)
      BY <1>1
    <3> QED BY <2>1, <3>1, <3>2, <1>1 DEF NewSession
  <2>2. CASE i \in 1..n
    <3> DEFINE m == fs[i].before.sessions
    <3>1. /\ m < Len(ses) /\ ses[m + 1].old_gcpro = fs[i].before.gcpro
          /\ fs[i].before.out = IF m = 0 THEN mudout_port ELSE ses[m].out
      BY <2>2, <1>1 DEF StackOK, SessionsKept, n
    <3>2. m \in Nat
      BY <2>2, <1>2, FrameFacts DEF Contexts
    <3> HIDE DEF m
    <3>3. m + 1 \in 1..Len(ses) /\ (m # 0 => m \in 1..Len(ses) /\ m < Len(ses))
      BY <3>1, <3>2, <1>1
    <3>4. /\ m < Len(ses2) /\ ses2[m + 1].old_gcpro = ses[m + 1].old_gcpro
          /\ m # 0 => ses2[m].out = ses[m].out
      <4>1. CASE f.kind = "session"
        BY <3>1, <3>2, <3>3, <4>1, <1>1 DEF NewSession
      <4>2. CASE f.kind # "session"
        <5>1. Len(ses2) \in Nat
          BY LenProperties
        <5> QED BY <3>1, <3>2, <3>3, <4>2, <5>1, <1>1 DEF KeepsOuter
      <4> QED BY <4>1, <4>2
    <3> QED BY <2>2, <3>1, <3>4, <1>1 DEF m
  <2> QED BY <2>1, <2>2, <1>5
<1> QED BY <1>1, <1>4, <1>6, <1>7, <1>8, <1>9 DEF StackOK, gs, n

LEMMA PopStack ==
  ASSUME NEW fs, NEW ses, NEW ses2 \in Seq(Sessions), NEW m \in Nat,
         StackOK(fs, ses), m < Len(fs),
         Len(ses2) = fs[m + 1].before.sessions, KeepsOuter(ses, ses2, Len(ses2))
  PROVE  /\ StackOK(SubSeq(fs, 1, m), ses2) /\ Len(SubSeq(fs, 1, m)) = m
         /\ At(SubSeq(fs, 1, m), m) = fs[m + 1].before
         /\ \A i \in 1..m : SubSeq(fs, 1, m)[i] = fs[i]
         /\ SubSeq(fs, 1, m) = <<>> <=> m = 0
<1> DEFINE n == Len(fs)
           gs == SubSeq(fs, 1, m)
<1>1. n \in Nat /\ \A i \in 1..n : fs[i] \in Frame
  <2>1. fs \in Seq(Frame)
    BY DEF StackOK
  <2> HIDE DEF Frame
  <2> QED BY <2>1, LenProperties, ElementOfSeq
<1>2. gs \in Seq(Frame) /\ Len(gs) = m /\ \A i \in 1..m : gs[i] = fs[i]
  <2>1. m \in Int /\ 1 \in Int /\ \A i \in 1..m : fs[i] \in Frame
    BY <1>1
  <2> HIDE DEF Frame
  <2>2. /\ gs \in Seq(Frame) /\ Len(gs) = IF 1 <= m THEN m - 1 + 1 ELSE 0
        /\ \A i \in 1..(m - 1 + 1) : gs[i] = fs[1 + i - 1]
    BY <2>1, SubSeqProperties
  <2> QED BY <2>2
<1>3. gs = <<>> <=> m = 0
  <2> HIDE DEF Frame, gs
  <2> QED BY <1>2, EmptySeq
<1> HIDE DEF gs, n
<1>4. \A i \in 0..m : At(gs, i) = At(fs, i)
  BY <1>2 DEF At
<1>5. \A i \in 1..m : i \in 1..n /\ i - 1 \in 0..m
  BY <1>1 DEF n
<1>6. At(gs, m) = fs[m + 1].before
  <2>1. m + 1 \in 1..n /\ (m + 1) - 1 = m /\ m \in 0..m
    BY <1>1 DEF n
  <2>2. fs[m + 1].before = At(fs, (m + 1) - 1)
    BY <2>1 DEF StackOK, Chain, n
  <2> QED BY <2>1, <2>2, <1>4
<1>7. Chain(gs)
  <2> SUFFICES ASSUME NEW i \in 1..m
               PROVE  /\ gs[i].before = At(gs, i - 1) /\ Faithful(gs[i])
                      /\ i = 1 => gs[i].kind = "session"
    BY <1>2 DEF Chain
  <2> QED BY <1>2, <1>4, <1>5 DEF StackOK, Chain, n
<1>8. Caught(gs)
  <2> SUFFICES ASSUME NEW i \in 1..m
               PROVE  \E c \in 1..i : /\ Catches(gs[c]) /\ \A j \in (c + 1)..i : ~Catches(gs[j])
                                      /\ Inside(gs[i]).sessions = Inside(gs[c]).sessions
                                      /\ Inside(gs[i]).out = Inside(gs[c]).out
    BY <1>2 DEF Caught
  <2>1. PICK c \in 1..i : /\ Catches(fs[c]) /\ \A j \in (c + 1)..i : ~Catches(fs[j])
                          /\ Inside(fs[i]).sessions = Inside(fs[c]).sessions
                          /\ Inside(fs[i]).out = Inside(fs[c]).out
    BY <1>5 DEF StackOK, Caught, n
  <2>2. c \in 1..m /\ \A j \in (c + 1)..i : j \in 1..m
    OBVIOUS
  <2> QED BY <2>1, <2>2, <1>2
<1>9. Nested(gs)
  BY <1>2, <1>5 DEF StackOK, Nested, n
<1>10. SessionsKept(gs, ses2)
  <2> SUFFICES ASSUME NEW i \in 1..m, gs[i].kind = "session"
               PROVE  LET k == gs[i].before.sessions
                      IN  /\ k < Len(ses2) /\ ses2[k + 1].old_gcpro = gs[i].before.gcpro
                          /\ gs[i].before.out = IF k = 0 THEN mudout_port ELSE ses2[k].out
    BY <1>2 DEF SessionsKept
  <2> DEFINE k == fs[i].before.sessions
  <2>1. /\ k < Len(ses) /\ ses[k + 1].old_gcpro = fs[i].before.gcpro
        /\ fs[i].before.out = IF k = 0 THEN mudout_port ELSE ses[k].out
    BY <1>2, <1>5 DEF StackOK, SessionsKept, n
  <2>2. k \in Nat /\ Inside(fs[i]).sessions = k + 1
    <3>1. fs[i] \in Frame /\ fs[i].kind = "session"
      BY <1>1, <1>2, <1>5
    <3> QED BY <3>1, InsideFacts, SessionsGrow
  <2>3. Inside(fs[i]).sessions <= Len(ses2)
    <3>1. i \in 1..n /\ m + 1 \in 1..n /\ i < m + 1
      BY <1>1, <1>5 DEF n
    <3> QED BY <3>1 DEF StackOK, Nested, n
  <2>4. Len(ses2) \in Nat
    BY LenProperties
  <2> HIDE DEF k
  <2>5. k + 1 \in 1..Len(ses2) /\ (k # 0 => k \in 1..Len(ses2) /\ k < Len(ses2))
    BY <2>2, <2>3, <2>4
  <2>6. ses2[k + 1].old_gcpro = ses[k + 1].old_gcpro /\ (k # 0 => ses2[k].out = ses[k].out)
    BY <2>5 DEF KeepsOuter
  <2>7. k < Len(ses2)
    BY <2>2, <2>3, <2>4
  <2> QED BY <2>1, <2>6, <2>7, <1>2 DEF k
<1> QED BY <1>2, <1>3, <1>6, <1>7, <1>8, <1>9, <1>10 DEF StackOK, gs

(***************************************************************************)
(* The buffers.                                                            *)
(***************************************************************************)
LEMMA PushBuffers ==
  ASSUME NEW fs, NEW jb, NEW f \in Frame, fs \in Seq(Frame), BuffersOK(fs, jb),
         f.kind # "setjmp"
  PROVE  BuffersOK(Append(fs, f), jb)
<1> DEFINE n == Len(fs)
           gs == Append(fs, f)
<1>1. /\ n \in Nat /\ Len(gs) = n + 1 /\ gs[n + 1] = f
      /\ \A i \in 1..n : gs[i] = fs[i]
  <2> HIDE DEF Frame
  <2> QED BY AppendProperties, LenProperties
<1> HIDE DEF gs, n
<1>2. \A b \in Jmpbufs : jb[b].context # 0 => jb[b].context \in 1..n
  BY <1>1 DEF BuffersOK, Buffers, n
<1>3. \A b \in Jmpbufs : jb[b].context # 0 =>
        jb[b].context <= n + 1 /\ gs[jb[b].context].kind = "setjmp" /\ gs[jb[b].context].buf = b
  BY <1>1, <1>2 DEF BuffersOK
<1>4. ASSUME NEW i \in 1..(n + 1), gs[i].kind = "setjmp"
      PROVE  jb[gs[i].buf].context = i
  <2>1. i # n + 1
    BY <1>1, <1>4
  <2>2. i \in 1..n
    BY <2>1, <1>1
  <2> QED BY <2>2, <1>1, <1>4 DEF BuffersOK, n
<1> QED BY <1>1, <1>3, <1>4 DEF BuffersOK, gs

LEMMA PushSetjmp ==
  ASSUME NEW fs, NEW jb, NEW f \in Frame, fs \in Seq(Frame), BuffersOK(fs, jb),
         f.kind = "setjmp", jb[f.buf].context = 0
  PROVE  BuffersOK(Append(fs, f),
                   [jb EXCEPT ![f.buf] = [context |-> Len(fs) + 1, result |-> TRUE]])
<1> DEFINE n == Len(fs)
           gs == Append(fs, f)
           r == [context |-> n + 1, result |-> TRUE]
           jb2 == [jb EXCEPT ![f.buf] = r]
<1>1. /\ n \in Nat /\ Len(gs) = n + 1 /\ gs[n + 1] = f
      /\ \A i \in 1..n : gs[i] = fs[i] /\ fs[i] \in Frame
  <2> HIDE DEF Frame
  <2> QED BY AppendProperties, LenProperties, ElementOfSeq
<1>2. f.buf \in Jmpbufs /\ \A i \in 1..n : fs[i].kind = "setjmp" => fs[i].buf \in Jmpbufs
  BY <1>1, FrameFacts
<1>3. r \in [context : Nat, result : BOOLEAN] /\ r.context = n + 1
  BY <1>1
<1> HIDE DEF gs, n, r
<1>4. jb2 \in Buffers /\ jb2[f.buf] = r /\ \A b \in Jmpbufs : b # f.buf => jb2[b] = jb[b]
  BY <1>2, <1>3 DEF BuffersOK, Buffers
<1> HIDE DEF jb2
<1>5. \A b \in Jmpbufs : jb[b].context # 0 => jb[b].context \in 1..n
  BY <1>1 DEF BuffersOK, Buffers, n
<1>6. ASSUME NEW b \in Jmpbufs, jb2[b].context # 0
      PROVE  /\ jb2[b].context <= n + 1
             /\ gs[jb2[b].context].kind = "setjmp" /\ gs[jb2[b].context].buf = b
  <2>1. CASE b = f.buf
    BY <2>1, <1>1, <1>3, <1>4
  <2>2. CASE b # f.buf
    <3>1. jb2[b] = jb[b] /\ jb[b].context \in 1..n
      BY <2>2, <1>4, <1>5, <1>6
    <3>2. fs[jb[b].context].kind = "setjmp" /\ fs[jb[b].context].buf = b
      BY <3>1, <1>1 DEF BuffersOK
    <3> QED BY <3>1, <3>2, <1>1
  <2> QED BY <2>1, <2>2
<1>7. ASSUME NEW i \in 1..(n + 1), gs[i].kind = "setjmp"
      PROVE  jb2[gs[i].buf].context = i
  <2>1. CASE i = n + 1
    BY <2>1, <1>1, <1>3, <1>4
  <2>2. CASE i # n + 1
    <3>1. i \in 1..n
      BY <2>2, <1>1
    <3>2. jb[fs[i].buf].context = i /\ fs[i].buf \in Jmpbufs /\ gs[i] = fs[i]
      BY <3>1, <1>1, <1>2, <1>7 DEF BuffersOK, n
    <3>3. fs[i].buf # f.buf
      BY <3>1, <3>2
    <3> QED BY <3>2, <3>3, <1>4
  <2> QED BY <2>1, <2>2
<1> QED BY <1>1, <1>4, <1>6, <1>7 DEF BuffersOK, gs, jb2, r, n

\* Leaving frames of which only the lowest may be a setjmp()'s
LEMMA PopBuffers ==
  ASSUME NEW fs, NEW jb, NEW gs, NEW jb2 \in Buffers, NEW m \in Nat, m < Len(fs),
         fs \in Seq(Frame), BuffersOK(fs, jb),
         Len(gs) = m, \A i \in 1..m : gs[i] = fs[i],
         \A j \in (m + 2)..Len(fs) : fs[j].kind # "setjmp",
         \A b \in Jmpbufs : IF fs[m + 1].kind = "setjmp" /\ b = fs[m + 1].buf
                            THEN jb2[b].context = 0 ELSE jb2[b] = jb[b]
  PROVE  BuffersOK(gs, jb2)
<1> DEFINE n == Len(fs)
<1>1. n \in Nat /\ \A i \in 1..n : fs[i] \in Frame
  <2> HIDE DEF Frame
  <2> QED BY LenProperties, ElementOfSeq
<1>2. ASSUME NEW b \in Jmpbufs, jb2[b].context # 0
      PROVE  jb2[b].context <= m /\ gs[jb2[b].context].kind = "setjmp"
             /\ gs[jb2[b].context].buf = b
  <2> DEFINE k == jb[b].context
  <2>1. jb2[b] = jb[b] /\ ~(fs[m + 1].kind = "setjmp" /\ b = fs[m + 1].buf)
    BY <1>2
  <2>2. k \in 1..n /\ fs[k].kind = "setjmp" /\ fs[k].buf = b
    BY <2>1, <1>1, <1>2 DEF BuffersOK, Buffers
  <2> HIDE DEF k
  <2>3. k # m + 1 /\ ~(k \in (m + 2)..n)
    BY <2>1, <2>2
  <2>4. k \in 1..m
    BY <2>2, <2>3, <1>1
  <2> QED BY <2>1, <2>2, <2>4 DEF k
<1>3. ASSUME NEW i \in 1..m, gs[i].kind = "setjmp"
      PROVE  jb2[gs[i].buf].context = i
  <2>1. i \in 1..n /\ m + 1 \in 1..n /\ i # m + 1 /\ gs[i] = fs[i]
    BY <1>1
  <2>2. jb[fs[i].buf].context = i /\ fs[i].buf \in Jmpbufs
    BY <2>1, <1>1, <1>3, FrameFacts DEF BuffersOK
  <2>3. fs[m + 1].kind = "setjmp" => fs[i].buf # fs[m + 1].buf
    BY <2>1, <2>2 DEF BuffersOK
  <2> QED BY <2>1, <2>2, <2>3
<1> QED BY <1>2, <1>3 DEF BuffersOK

-----------------------------------------------------------------------------
(***************************************************************************)
(* What the invariant says of the frame that runs, the one that catches,   *)
(* and the session.                                                        *)
(***************************************************************************)
LEMMA ContextFacts ==
  ASSUME CatchInv
  PROVE  /\ frames \in Seq(Frame) /\ session \in Seq(Sessions)
         /\ Depth \in Nat /\ (frames = <<>> <=> Depth = 0)
         /\ \A i \in 1..Depth : frames[i] \in Frame
         /\ Context \in Contexts /\ call_stack \in Stacks /\ gcpro \in Nat
         /\ forbid \in BOOLEAN /\ Len(session) \in Nat
         /\ (session = <<>> <=> Len(session) = 0)
<1>1. frames \in Seq(Frame) /\ session \in Seq(Sessions)
  BY DEF CatchInv, StackOK
<1> HIDE DEF Frame, Sessions
<1>2. /\ Depth \in Nat /\ (frames = <<>> <=> Depth = 0) /\ Len(session) \in Nat
      /\ (session = <<>> <=> Len(session) = 0)
      /\ \A i \in 1..Depth : frames[i] \in Frame
  BY <1>1, LenProperties, EmptySeq, ElementOfSeq DEF Depth
<1>3. Context \in Contexts
  <2>1. Depth \in 0..Len(frames)
    BY <1>2 DEF Depth
  <2> QED BY <1>1, <2>1, AtFacts DEF CatchInv
<1> QED BY <1>1, <1>2, <1>3 DEF Context, Contexts

LEMMA SessionFacts ==
  ASSUME CatchInv, frames # <<>>
  PROVE  /\ Len(session) \in Nat \ {0} /\ session # <<>>
         /\ Innermost = session[Len(session)] /\ Innermost \in Sessions
         /\ Context.out = Innermost.out /\ Innermost.out \in Ports
         /\ Innermost.rethrow_error \in Errs
         /\ Context = Inside(Top) /\ Top \in Frame /\ Top = frames[Depth] /\ Faithful(Top)
         /\ frames[1].kind = "session" /\ Depth \in Nat \ {0}
<1>1. Depth \in Nat \ {0} /\ Depth \in 1..Depth /\ 1 \in 1..Depth
  BY ContextFacts
<1>2. Context = Inside(Top) /\ Top \in Frame /\ Faithful(Top) /\ frames[1].kind = "session"
      /\ frames[1] \in Frame
  BY <1>1, ContextFacts DEF CatchInv, At, Top, StackOK, Chain, Depth
<1>3. Inside(frames[1]).sessions >= 1
  <2>1. Inside(frames[1]).sessions = frames[1].before.sessions + 1
    BY <1>2, InsideFacts
  <2>2. frames[1].before.sessions \in Nat
    BY <1>2, SessionsGrow
  <2> QED BY <2>1, <2>2
<1>4. Inside(Top).sessions >= 1
  <2>1. CASE Depth = 1
    BY <2>1, <1>3 DEF Top
  <2>2. CASE Depth # 1
    <3>1. Inside(frames[1]).sessions <= Top.before.sessions
      <4>1. 1 < Depth
        BY <2>2, <1>1
      <4> QED BY <4>1, <1>1 DEF CatchInv, StackOK, Nested, Top, Depth
    <3>2. Top.before.sessions <= Inside(Top).sessions /\ Top.before.sessions \in Nat
          /\ Inside(Top).sessions \in Nat /\ Inside(frames[1]).sessions \in Nat
      BY <1>2, SessionsGrow
    <3> QED BY <3>1, <3>2, <1>3
  <2> QED BY <2>1, <2>2
<1>5. Len(session) = Inside(Top).sessions
  BY <1>2 DEF Context
<1>6. Len(session) \in Nat \ {0} /\ session # <<>> /\ Len(session) \in 1..Len(session)
  BY <1>4, <1>5, ContextFacts
<1>7. Innermost \in Sessions
  <2>1. session \in Seq(Sessions)
    BY ContextFacts
  <2> QED BY <2>1, <1>6, ElementOfSeq DEF Innermost
<1>8. Context.out = Innermost.out
  BY <1>6 DEF Context
<1> QED BY <1>1, <1>2, <1>6, <1>7, <1>8 DEF Sessions, Innermost, Top

LEMMA CatcherFacts ==
  ASSUME CatchInv, frames # <<>>
  PROVE  /\ catch_context \in 1..Depth /\ Catches(Catcher)
         /\ Catcher = frames[catch_context] /\ Catcher \in Frame /\ Faithful(Catcher)
         /\ Catcher.before = At(frames, catch_context - 1)
         /\ \A j \in (catch_context + 1)..Depth : frames[j].kind # "setjmp"
         /\ Inside(Catcher).sessions = Len(session) /\ Inside(Catcher).out = Innermost.out
         /\ catch_context = 1 => Catcher.kind = "session"
<1>1. Depth \in 1..Depth /\ Depth \in Nat
  BY ContextFacts
<1>2. PICK c \in 1..Depth :
        /\ Catches(frames[c]) /\ \A j \in (c + 1)..Depth : ~Catches(frames[j])
        /\ Inside(Top).sessions = Inside(frames[c]).sessions
        /\ Inside(Top).out = Inside(frames[c]).out
  BY <1>1 DEF CatchInv, StackOK, Caught, Top, Depth
<1>3. catch_context = c
  <2> DEFINE C == {i \in 1..Depth : frames[i].kind \in Catching}
  <2>1. c \in C /\ \A j \in C : j <= c
    <3>1. \A j \in 1..Depth : j > c => j \in (c + 1)..Depth
      BY <1>1
    <3> QED BY <1>2, <3>1 DEF Catches
  <2>2. \A i \in C : (\A j \in C : j <= i) => i = c
    BY <2>1, <1>1
  <2>3. catch_context = CHOOSE i \in C : \A j \in C : j <= i
    BY <2>1 DEF catch_context
  <2> HIDE DEF C
  <2> QED BY <2>1, <2>2, <2>3
<1>4. frames[c] \in Frame /\ Faithful(frames[c]) /\ frames[c].before = At(frames, c - 1)
      /\ (c = 1 => frames[c].kind = "session")
  BY ContextFacts DEF CatchInv, StackOK, Chain, Depth
<1>5. Len(session) = Inside(Top).sessions /\ Innermost.out = Inside(Top).out
  BY SessionFacts DEF Context
<1> QED BY <1>2, <1>3, <1>4, <1>5 DEF Catcher, Catches, Catching

\* Two contexts are one when they agree in everything.
LEMMA SameContext ==
  ASSUME NEW c \in Contexts, c.call_stack = call_stack', c.gcpro = gcpro', c.forbid = forbid',
         c.sessions = Len(session'),
         c.out = IF session' = <<>> THEN mudout_port ELSE session'[Len(session')].out
  PROVE  Context' = c
<1> QED BY DEF Contexts, Context, Innermost

\* A change of the innermost session context
LEMMA ChangeInnermost ==
  ASSUME CatchInv, frames # <<>>, NEW r \in Sessions, r.old_gcpro = Innermost.old_gcpro,
         session' = [session EXCEPT ![Len(session)] = r]
  PROVE  /\ session' \in Seq(Sessions) /\ Len(session') = Len(session) /\ session' # <<>>
         /\ KeepsOuter(session, session', Len(session))
         /\ session'[Len(session')] = r
<1> DEFINE n == Len(session)
           ses2 == [session EXCEPT ![n] = r]
<1>1. n \in 1..n /\ n \in Nat /\ session \in Seq(Sessions)
  BY SessionFacts, ContextFacts
<1>2. /\ ses2 \in Seq(Sessions) /\ Len(ses2) = n
      /\ \A k \in 1..n : ses2[k] = IF k = n THEN r ELSE session[k]
  <2> HIDE DEF Sessions
  <2> QED BY <1>1, ExceptSeq
<1>3. session' = ses2
  OBVIOUS
<1> HIDE DEF ses2, n
<1>4. KeepsOuter(session, ses2, n)
  <2>1. \A k \in 1..n : ses2[k].old_gcpro = session[k].old_gcpro
    BY <1>2 DEF Innermost, n
  <2>2. \A k \in 1..n : k < n => ses2[k].out = session[k].out
    BY <1>1, <1>2
  <2> QED BY <2>1, <2>2, <1>1, <1>2 DEF KeepsOuter, n
<1>5. ses2 # <<>>
  <2> HIDE DEF Sessions
  <2> QED BY <1>1, <1>2, EmptySeq
<1> QED BY <1>1, <1>2, <1>3, <1>4, <1>5 DEF n

-----------------------------------------------------------------------------
(***************************************************************************)
(* Steps that enter a frame.                                               *)
(***************************************************************************)
Entering(f) == frames' = Append(frames, f) /\ UNCHANGED <<mexception, pc>> /\ Quiet

Widened(f) == IF f.kind = "session" THEN NewSession(f, session, session')
                                    ELSE KeepsOuter(session, session', Len(session))

LEMMA EnterStep ==
  ASSUME CatchInv, NEW f \in Frame, Entering(f), f.before = Context, Faithful(f),
         pc = "run", frames = <<>> => f.kind = "session",
         session' \in Seq(Sessions), Widened(f), Context' = Inside(f),
         BuffersOK(Append(frames, f), jmpbuf'), JumpOK => JumpOK'
  PROVE  CatchInv'
<1>1. f.before = At(frames, Len(frames)) /\ f.before.sessions = Len(session)
  BY DEF CatchInv, Depth, Context
<1>2. /\ StackOK(Append(frames, f), session') /\ Len(Append(frames, f)) = Depth + 1
      /\ At(Append(frames, f), Depth + 1) = Inside(f)
  <2>1. StackOK(frames, session)
    BY DEF CatchInv
  <2> QED BY <1>1, <2>1, PushStack DEF Widened, Depth
<1>3. frames' = Append(frames, f)
  BY DEF Entering
<1>4. /\ StackOK(frames', session') /\ BuffersOK(frames', jmpbuf')
      /\ Context' = At(frames', Len(frames'))
  BY <1>2, <1>3
<1>5. UNCHANGED <<mexception, pc, thrown, swallowed>>
  BY DEF Entering, Quiet
<1> QED BY <1>4, <1>5 DEF CatchInv, Signals, Depth

LEMMA SessionStart == CatchInv /\ session_start => CatchInv'
<1> SUFFICES ASSUME CatchInv, session_start PROVE CatchInv'
  OBVIOUS
<1> DEFINE entered == Append(call_stack, "session")
           f == [kind |-> "session", before |-> Context, old |-> SessionSaved(entered)]
           s == [rethrow_error |-> error_none, old_gcpro |-> gcpro,
                 out |-> IF session = <<>> THEN mudout_port ELSE Innermost.out]
           n == Len(session)
<1>1. /\ call_stack' = entered /\ frames' = Append(frames, f) /\ session' = Append(session, s)
      /\ pc = "run" /\ UNCHANGED <<gcpro, forbid, mexception, jmpbuf, pc>> /\ Quiet
  BY DEF session_start, Push
<1>2. entered \in Stacks
  BY ContextFacts, AppendProperties DEF Stacks
<1>3. f.before = Context /\ f.kind = "session" /\ Context \in Contexts
      /\ Context.call_stack = call_stack /\ Context.gcpro = gcpro /\ Context.forbid = forbid
      /\ Context.sessions = Len(session)
      /\ Context.out = IF session = <<>> THEN mudout_port ELSE Innermost.out
  BY ContextFacts DEF Context
<1>4. f.old = [call_stack |-> entered, gcpro |-> gcpro, forbid |-> forbid]
  BY DEF SessionSaved, Saved
<1>5. f \in Frame
  <2>1. f.old \in Olds
    <3> HIDE DEF entered, f
    <3>1. [call_stack |-> entered, gcpro |-> gcpro, forbid |-> forbid] \in Olds
      BY <1>2, ContextFacts DEF Olds
    <3> QED BY <1>4, <3>1
  <2>2. f \in [kind : {"session"}, before : Contexts, old : Olds]
    BY <1>3, <2>1
  <2> QED BY <2>2 DEF Frame
<1>6. Faithful(f)
  BY <1>3, <1>4 DEF Faithful, OldOf
<1>7. s \in Sessions /\ s.old_gcpro = gcpro /\ s.out = Context.out
  BY <1>3, ContextFacts DEF Sessions, Errs, Contexts
<1> HIDE DEF s, f, entered
<1>8. /\ session' \in Seq(Sessions) /\ Len(session') = n + 1 /\ session' # <<>>
      /\ \A k \in 1..n : session'[k] = session[k]
      /\ session'[n + 1] = s /\ n \in Nat
  <2>1. session \in Seq(Sessions) /\ n \in Nat
    BY ContextFacts
  <2> HIDE DEF Sessions
  <2> QED BY <1>1, <1>7, <2>1, AppendProperties
<1>9. Widened(f)
  <2>1. s.old_gcpro = f.before.gcpro
    BY <1>3, <1>7
  <2>2. f.before.out = IF n = 0 THEN mudout_port ELSE session[n].out
    BY <1>3, ContextFacts DEF Innermost
  <2> QED BY <1>3, <1>8, <2>1, <2>2 DEF Widened, NewSession
<1>10. Context' = Inside(f)
  <2>1. /\ Inside(f) \in Contexts /\ Inside(f).sessions = n + 1 /\ Inside(f).out = Context.out
        /\ Inside(f).forbid = forbid /\ Inside(f).gcpro = gcpro
        /\ Inside(f).call_stack = entered
    BY <1>3, <1>5, InsideFacts DEF entered
  <2>2. session'[Len(session')].out = Context.out
    BY <1>7, <1>8
  <2> QED BY <1>1, <1>8, <2>1, <2>2, SameContext
<1>11. BuffersOK(Append(frames, f), jmpbuf')
  <2>1. BuffersOK(Append(frames, f), jmpbuf)
    BY <1>3, <1>5, ContextFacts, PushBuffers DEF CatchInv
  <2> QED BY <1>1, <2>1
<1>12. Entering(f) /\ (JumpOK => JumpOK')
  BY <1>1 DEF Entering, Quiet, JumpOK, is_mjmpbuf
<1> QED BY <1>1, <1>3, <1>5, <1>6, <1>8, <1>9, <1>10, <1>11, <1>12, EnterStep

LEMMA SameSessions ==
  ASSUME CatchInv, UNCHANGED session
  PROVE  session' \in Seq(Sessions) /\ KeepsOuter(session, session', Len(session))
<1>1. session \in Seq(Sessions) /\ Len(session) \in Nat
  BY ContextFacts
<1> QED BY <1>1 DEF KeepsOuter

LEMMA ContextParts ==
  /\ Context.call_stack = call_stack /\ Context.gcpro = gcpro /\ Context.forbid = forbid
  /\ Context.sessions = Len(session)
  /\ Context.out = IF session = <<>> THEN mudout_port ELSE session[Len(session)].out
BY DEF Context, Innermost

LEMMA SameJumps ==
  UNCHANGED <<mexception, jmpbuf, pc>> /\ Quiet => (JumpOK => JumpOK')
BY DEF Quiet, JumpOK, is_mjmpbuf

LEMMA PlainBuffers ==
  ASSUME CatchInv, NEW f \in Frame, f.kind # "setjmp", UNCHANGED jmpbuf
  PROVE  BuffersOK(Append(frames, f), jmpbuf')
<1>1. BuffersOK(Append(frames, f), jmpbuf)
  BY ContextFacts, PushBuffers DEF CatchInv
<1> QED BY <1>1

LEMMA Call == CatchInv /\ call => CatchInv'
<1> SUFFICES ASSUME CatchInv, call PROVE CatchInv'
  OBVIOUS
<1> DEFINE f == [kind |-> "call", before |-> Context]
<1>1. /\ frames' = Append(frames, f) /\ call_stack' = Append(call_stack, "call")
      /\ gcpro' = gcpro + 1 /\ pc = "run" /\ frames # <<>>
      /\ UNCHANGED <<forbid, session, mexception, jmpbuf, pc>> /\ Quiet
  BY DEF call, Push, MayCall
<1>2. f.before = Context /\ f.kind = "call"
  OBVIOUS
<1>3. f \in Frame
  BY ContextFacts DEF Frame
<1>4. Faithful(f)
  BY <1>2 DEF Faithful
<1> HIDE DEF f
<1>5. Context' = Inside(f)
  BY <1>1, <1>2, <1>3, InsideFacts, ContextParts, SameContext
<1>6. Entering(f) /\ Widened(f) /\ session' \in Seq(Sessions)
  BY <1>1, <1>2, SameSessions DEF Entering, Widened
<1> QED BY <1>1, <1>2, <1>3, <1>4, <1>5, <1>6, PlainBuffers, SameJumps, EnterStep

LEMMA WithForbid == CatchInv /\ with_forbid => CatchInv'
<1> SUFFICES ASSUME CatchInv, with_forbid PROVE CatchInv'
  OBVIOUS
<1> DEFINE f == [kind |-> "with_forbid", before |-> Context, old_forbid |-> forbid]
<1>1. /\ frames' = Append(frames, f) /\ forbid' = TRUE /\ pc = "run" /\ frames # <<>>
      /\ UNCHANGED <<call_stack, gcpro, session, mexception, jmpbuf, pc>> /\ Quiet
  BY DEF with_forbid, Push, MayCall
<1>2. f.before = Context /\ f.kind = "with_forbid" /\ f.old_forbid = forbid
  OBVIOUS
<1>3. f \in Frame
  BY ContextFacts DEF Frame
<1>4. Faithful(f)
  BY <1>2, ContextParts DEF Faithful
<1> HIDE DEF f
<1>5. Context' = Inside(f)
  BY <1>1, <1>2, <1>3, InsideFacts, ContextParts, SameContext
<1>6. Entering(f) /\ Widened(f) /\ session' \in Seq(Sessions)
  BY <1>1, <1>2, SameSessions DEF Entering, Widened
<1> QED BY <1>1, <1>2, <1>3, <1>4, <1>5, <1>6, PlainBuffers, SameJumps, EnterStep

\* what with_output() and trap_error() save
SavedInside == [call_stack |-> call_stack, gcpro |-> gcpro + 1, forbid |-> forbid]

LEMMA SavedFacts ==
  /\ [Saved EXCEPT !.gcpro = gcpro + 1] = SavedInside
  /\ SavedInside = [OldOf(Context) EXCEPT !.gcpro = Context.gcpro + 1]
  /\ Saved = OldOf(Context)
  /\ CatchInv => SavedInside \in Olds /\ Saved \in Olds
<1>1. [Saved EXCEPT !.gcpro = gcpro + 1] = SavedInside
  BY DEF Saved, SavedInside
<1>2. SavedInside = [OldOf(Context) EXCEPT !.gcpro = Context.gcpro + 1] /\ Saved = OldOf(Context)
  BY ContextParts DEF Saved, SavedInside, OldOf
<1>3. CatchInv => SavedInside \in Olds /\ Saved \in Olds
  BY ContextFacts DEF Saved, SavedInside, Olds
<1> QED BY <1>1, <1>2, <1>3

LEMMA WithOutput == CatchInv /\ with_output => CatchInv'
<1> SUFFICES ASSUME CatchInv, with_output PROVE CatchInv'
  OBVIOUS
<1>1. PICK port \in Ports \ {mudout_port, Innermost.out} :
        /\ Push([kind |-> "with_output", before |-> Context,
                 port |-> port, out |-> Innermost.out, at |-> gcpro,
                 old |-> [Saved EXCEPT !.gcpro = gcpro + 1]])
        /\ gcpro' = gcpro + 1
        /\ session' = [session EXCEPT ![Len(session)].out = port]
        /\ UNCHANGED <<call_stack, forbid, mexception, jmpbuf, pc>> /\ Quiet
  BY DEF with_output, Saved
<1> DEFINE f == [kind |-> "with_output", before |-> Context,
                 port |-> port, out |-> Innermost.out, at |-> gcpro, old |-> SavedInside]
           r == [Innermost EXCEPT !.out = port]
<1>2. frames' = Append(frames, f) /\ pc = "run" /\ frames # <<>>
  BY <1>1, SavedFacts DEF with_output, Push, MayCall
<1>3. /\ f.before = Context /\ f.kind = "with_output" /\ f.port = port
      /\ f.out = Context.out /\ f.at = Context.gcpro /\ f.old = SavedInside
  BY <1>2, SessionFacts, ContextParts
<1>4. f \in Frame
  <2>1. f \in [kind : {"with_output"}, before : Contexts, port : Ports, out : Ports, at : Nat,
               old : Olds]
    BY <1>2, ContextFacts, SessionFacts, SavedFacts
  <2> QED BY <2>1 DEF Frame
<1>5. Faithful(f)
  <2> HIDE DEF f
  <2> QED BY <1>3, SavedFacts DEF Faithful
<1> HIDE DEF f
<1>6. r \in Sessions /\ r.old_gcpro = Innermost.old_gcpro /\ r.out = port
  BY <1>2, SessionFacts DEF Sessions
<1>7. session' = [session EXCEPT ![Len(session)] = r]
  BY <1>1 DEF Innermost
<1> HIDE DEF r
<1>8. /\ session' \in Seq(Sessions) /\ Len(session') = Len(session) /\ session' # <<>>
      /\ KeepsOuter(session, session', Len(session))
      /\ session'[Len(session')] = r
  BY <1>2, <1>6, <1>7, ChangeInnermost
<1>9. Context' = Inside(f)
  <2>1. /\ Inside(f) \in Contexts /\ Inside(f).sessions = Len(session) /\ Inside(f).out = port
        /\ Inside(f).forbid = forbid /\ Inside(f).gcpro = gcpro + 1
        /\ Inside(f).call_stack = call_stack
    BY <1>3, <1>4, InsideFacts, ContextParts
  <2> QED BY <1>1, <1>6, <1>8, <2>1, SameContext
<1>10. Entering(f) /\ Widened(f)
  BY <1>1, <1>2, <1>3, <1>8 DEF Entering, Widened
<1>11. BuffersOK(Append(frames, f), jmpbuf') /\ (JumpOK => JumpOK')
  BY <1>1, <1>3, <1>4, PlainBuffers, SameJumps
<1> QED BY <1>2, <1>3, <1>4, <1>5, <1>8, <1>9, <1>10, <1>11, EnterStep

LEMMA TrapError == CatchInv /\ trap_error => CatchInv'
<1> SUFFICES ASSUME CatchInv, trap_error PROVE CatchInv'
  OBVIOUS
<1>1. PICK handler \in {"handler", NoHandler} :
        /\ Push([kind |-> "trap_error", before |-> Context, handler |-> handler,
                 at |-> gcpro,
                 old_rethrow_error |-> Innermost.rethrow_error,
                 old |-> [Saved EXCEPT !.gcpro = gcpro + 1]])
        /\ gcpro' = gcpro + 1
        /\ session' = [session EXCEPT ![Len(session)].rethrow_error = error_none]
        /\ UNCHANGED <<call_stack, forbid, mexception, jmpbuf, pc>> /\ Quiet
  BY DEF trap_error, Saved
<1> DEFINE f == [kind |-> "trap_error", before |-> Context, handler |-> handler,
                 at |-> gcpro, old_rethrow_error |-> Innermost.rethrow_error,
                 old |-> SavedInside]
           r == [Innermost EXCEPT !.rethrow_error = error_none]
<1>2. frames' = Append(frames, f) /\ pc = "run" /\ frames # <<>>
  BY <1>1, SavedFacts DEF trap_error, Push, MayCall
<1>3. /\ f.before = Context /\ f.kind = "trap_error"
      /\ f.at = Context.gcpro /\ f.old = SavedInside
  BY ContextParts
<1>4. f \in Frame
  <2>1. f \in [kind : {"trap_error"}, before : Contexts, handler : {"handler", NoHandler},
               at : Nat, old_rethrow_error : Errs, old : Olds]
    BY <1>2, ContextFacts, SessionFacts, SavedFacts
  <2> QED BY <2>1 DEF Frame
<1>5. Faithful(f)
  <2> HIDE DEF f
  <2> QED BY <1>3, SavedFacts DEF Faithful
<1> HIDE DEF f
<1>6. r \in Sessions /\ r.old_gcpro = Innermost.old_gcpro /\ r.out = Innermost.out
  BY <1>2, SessionFacts DEF Sessions, Errs
<1>7. session' = [session EXCEPT ![Len(session)] = r]
  BY <1>1 DEF Innermost
<1> HIDE DEF r
<1>8. /\ session' \in Seq(Sessions) /\ Len(session') = Len(session) /\ session' # <<>>
      /\ KeepsOuter(session, session', Len(session))
      /\ session'[Len(session')] = r
  BY <1>2, <1>6, <1>7, ChangeInnermost
<1>9. Context' = Inside(f)
  <2>1. /\ Inside(f) \in Contexts /\ Inside(f).sessions = Len(session)
        /\ Inside(f).out = Innermost.out
        /\ Inside(f).forbid = forbid /\ Inside(f).gcpro = gcpro + 1
        /\ Inside(f).call_stack = call_stack
    BY <1>2, <1>3, <1>4, InsideFacts, ContextParts, SessionFacts
  <2> QED BY <1>1, <1>6, <1>8, <2>1, SameContext
<1>10. Entering(f) /\ Widened(f)
  BY <1>1, <1>2, <1>3, <1>8 DEF Entering, Widened
<1>11. BuffersOK(Append(frames, f), jmpbuf') /\ (JumpOK => JumpOK')
  BY <1>1, <1>3, <1>4, PlainBuffers, SameJumps
<1> QED BY <1>2, <1>3, <1>4, <1>5, <1>8, <1>9, <1>10, <1>11, EnterStep

LEMMA Setjmp == CatchInv /\ setjmp => CatchInv'
<1> SUFFICES ASSUME CatchInv, setjmp PROVE CatchInv'
  OBVIOUS
<1>1. PICK b \in Jmpbufs :
        /\ pc = "run" /\ frames # <<>> /\ ~is_mjmpbuf(b)
        /\ frames' = Append(frames, [kind |-> "setjmp", before |-> Context, buf |-> b,
                                     old |-> Saved])
        /\ jmpbuf' = [jmpbuf EXCEPT ![b] = [context |-> Depth + 1, result |-> TRUE]]
        /\ UNCHANGED <<call_stack, gcpro, forbid, session, mexception, pc>> /\ Quiet
  BY DEF setjmp, Push, MayCall
<1> DEFINE f == [kind |-> "setjmp", before |-> Context, buf |-> b, old |-> Saved]
<1>2. f.before = Context /\ f.kind = "setjmp" /\ f.buf = b /\ f.old = Saved
  OBVIOUS
<1>3. f \in Frame
  <2>1. f \in [kind : {"setjmp"}, before : Contexts, buf : Jmpbufs, old : Olds]
    BY ContextFacts, SavedFacts
  <2> QED BY <2>1 DEF Frame
<1>4. Faithful(f)
  <2> HIDE DEF f
  <2> QED BY <1>2, SavedFacts DEF Faithful
<1>5. frames' = Append(frames, f)
  BY <1>1
<1> HIDE DEF f
<1>6. Context' = Inside(f)
  BY <1>1, <1>2, <1>3, InsideFacts, ContextParts, SameContext
<1>7. BuffersOK(Append(frames, f), jmpbuf')
  <2>1. frames \in Seq(Frame) /\ BuffersOK(frames, jmpbuf) /\ jmpbuf[f.buf].context = 0
    BY <1>1, <1>2, ContextFacts DEF CatchInv, is_mjmpbuf
  <2>2. BuffersOK(Append(frames, f),
                  [jmpbuf EXCEPT ![f.buf] = [context |-> Len(frames) + 1, result |-> TRUE]])
    BY <1>2, <1>3, <2>1, PushSetjmp
  <2> QED BY <1>1, <1>2, <2>2 DEF Depth
<1>8. JumpOK => JumpOK'
  <2> DEFINE r == [context |-> Depth + 1, result |-> TRUE]
  <2>1. r.context # 0 /\ r.result = TRUE
    BY ContextFacts
  <2>2. jmpbuf' = [jmpbuf EXCEPT ![b] = r]
    BY <1>1
  <2> HIDE DEF r
  <2>3. /\ jmpbuf'[b] = r /\ \A a \in Jmpbufs : a # b => jmpbuf'[a] = jmpbuf[a]
    BY <2>2 DEF CatchInv, BuffersOK, Buffers
  <2>4. SUFFICES ASSUME JumpOK PROVE JumpOK'
    OBVIOUS
  <2>5. thrown = none /\ b # none /\ UNCHANGED <<pc, thrown, returned, mexception>>
    BY <1>1, <2>4, CatchAssumption DEF JumpOK, Quiet
  <2>6. \A a \in Jmpbufs : is_mjmpbuf(a)' => (jmpbuf'[a].result <=> thrown # a)
    <3> TAKE a \in Jmpbufs
    <3>1. CASE a = b
      BY <2>1, <2>3, <2>5, <3>1
    <3>2. CASE a # b
      BY <2>3, <2>4, <3>2 DEF JumpOK, is_mjmpbuf
    <3> QED BY <3>1, <3>2
  <2> QED BY <1>1, <2>4, <2>5, <2>6 DEF JumpOK
<1>9. Entering(f) /\ Widened(f) /\ session' \in Seq(Sessions)
  BY <1>1, <1>2, <1>5, SameSessions DEF Entering, Widened
<1> QED BY <1>1, <1>2, <1>3, <1>4, <1>6, <1>7, <1>8, <1>9, EnterStep

-----------------------------------------------------------------------------
(***************************************************************************)
(* Steps that throw.                                                       *)
(***************************************************************************)
LEMMA ThrowStep ==
  ASSUME CatchInv, frames # <<>>, Signals', BuffersOK(frames, jmpbuf'),
         UNCHANGED <<frames, call_stack, gcpro, forbid, session>>
  PROVE  CatchInv'
<1>1. Context' = Context /\ At(frames, Depth)' = At(frames, Depth)
  BY DEF Context, Innermost, At, Outside, Inside, Depth
<1>2. Depth' = Depth
  BY DEF Depth
<1> QED BY <1>1, <1>2 DEF CatchInv

LEMMA ErrorStep ==
  ASSUME CatchInv, pc = "run", frames # <<>>, NEW err \in Errors, mthrow("error", err),
         UNCHANGED <<frames, call_stack, gcpro, forbid, session, jmpbuf>>, Quiet
  PROVE  CatchInv'
<1>1. /\ mexception' = [sig |-> "error", err |-> err] /\ pc' = "throw"
      /\ UNCHANGED <<thrown, returned, swallowed>>
  BY DEF mthrow, Quiet
<1>2. JumpOK => JumpOK'
  BY <1>1 DEF JumpOK, is_mjmpbuf
<1>3. Signals'
  BY <1>1, <1>2 DEF CatchInv, Signals, Errs
<1>4. BuffersOK(frames, jmpbuf')
  BY DEF CatchInv
<1> QED BY <1>3, <1>4, ThrowStep

LEMMA RuntimeError == CatchInv /\ runtime_error => CatchInv'
<1> QED BY ErrorStep DEF runtime_error

LEMMA RethrowError == CatchInv /\ rethrow_error => CatchInv'
<1> SUFFICES ASSUME CatchInv, rethrow_error PROVE CatchInv'
  OBVIOUS
<1>1. Innermost.rethrow_error \in Errors
  BY SessionFacts DEF rethrow_error, Errs
<1> QED BY <1>1, ErrorStep DEF rethrow_error

LEMMA UsedUp ==
  ASSUME NEW q \in [context : Nat, result : BOOLEAN]
  PROVE  /\ [q EXCEPT !.result = FALSE] \in [context : Nat, result : BOOLEAN]
         /\ [q EXCEPT !.result = FALSE].context = q.context
         /\ [q EXCEPT !.result = FALSE].result = FALSE
OBVIOUS

LEMMA Mlongjmp == CatchInv /\ mlongjmp => CatchInv'
<1> SUFFICES ASSUME CatchInv, mlongjmp PROVE CatchInv'
  OBVIOUS
<1>1. PICK b \in Jmpbufs :
        /\ pc = "run" /\ frames # <<>> /\ is_mjmpbuf(b)
        /\ IF jmpbuf[b].result
           THEN /\ jmpbuf' = [jmpbuf EXCEPT ![b].result = FALSE]
                /\ mthrow("longjmp", error_none)
                /\ thrown' = b
           ELSE pc' = "crash" /\ UNCHANGED <<jmpbuf, mexception, thrown>>
        /\ UNCHANGED <<frames, call_stack, gcpro, forbid, session, returned, swallowed>>
  BY DEF mlongjmp
<1>2. CASE jmpbuf[b].result
  <2> DEFINE r == [jmpbuf[b] EXCEPT !.result = FALSE]
  <2>1. /\ jmpbuf[b] \in [context : Nat, result : BOOLEAN]
        /\ jmpbuf \in [Jmpbufs -> [context : Nat, result : BOOLEAN]]
    BY DEF CatchInv, BuffersOK, Buffers
  <2>2. jmpbuf' = [jmpbuf EXCEPT ![b] = r]
    BY <1>1, <1>2
  <2>3. r \in [context : Nat, result : BOOLEAN] /\ r.context = jmpbuf[b].context /\ ~r.result
    BY <2>1, UsedUp
  <2> HIDE DEF r
  <2>4. /\ jmpbuf' \in Buffers /\ jmpbuf'[b] = r
        /\ \A a \in Jmpbufs : a # b => jmpbuf'[a] = jmpbuf[a]
    BY <2>1, <2>2, <2>3 DEF Buffers
  <2>5. \A a \in Jmpbufs : jmpbuf'[a].context = jmpbuf[a].context
    BY <2>3, <2>4
  <2>6. BuffersOK(frames, jmpbuf')
    <3>1. \A i \in 1..Len(frames) : frames[i].kind = "setjmp" => frames[i].buf \in Jmpbufs
      BY ContextFacts, FrameFacts DEF Depth
    <3> QED BY <2>4, <2>5, <3>1 DEF CatchInv, BuffersOK
  <2>7. /\ mexception' = [sig |-> "longjmp", err |-> error_none] /\ pc' = "throw"
        /\ thrown' = b /\ UNCHANGED <<returned, swallowed>>
    BY <1>1, <1>2 DEF mthrow
  <2>8. JumpOK => JumpOK'
    <3> SUFFICES ASSUME JumpOK PROVE JumpOK'
      OBVIOUS
    <3>1. \A a \in Jmpbufs : is_mjmpbuf(a)' => (jmpbuf'[a].result <=> b # a)
      <4> TAKE a \in Jmpbufs
      <4>1. CASE a = b
        BY <2>3, <2>4, <4>1
      <4>2. CASE a # b
        BY <1>1, <2>4, <4>2, CatchAssumption DEF JumpOK, is_mjmpbuf
      <4> QED BY <4>1, <4>2
    <3>2. is_mjmpbuf(b)' /\ b # none
      BY <1>1, <2>5, CatchAssumption DEF is_mjmpbuf
    <3> QED BY <2>7, <3>1, <3>2 DEF JumpOK, is_mjmpbuf
  <2>9. Signals'
    BY <2>7, <2>8 DEF CatchInv, Signals, Errs
  <2> QED BY <1>1, <2>6, <2>9, ThrowStep
<1>3. CASE ~jmpbuf[b].result
  <2>1. swallowed
    BY <1>1, <1>3, CatchAssumption DEF CatchInv, Signals, JumpOK
  <2>2. Signals' /\ BuffersOK(frames, jmpbuf')
    BY <1>1, <1>3, <2>1 DEF CatchInv, Signals
  <2> QED BY <1>1, <2>2, ThrowStep
<1> QED BY <1>2, <1>3

-----------------------------------------------------------------------------
(***************************************************************************)
(* Steps that leave frames.                                                *)
(***************************************************************************)
ClearedBy(f) ==
  jmpbuf' = IF f.kind = "setjmp"
            THEN [jmpbuf EXCEPT ![f.buf] = [context |-> 0, result |-> FALSE]] ELSE jmpbuf

LEMMA ClearFacts ==
  ASSUME CatchInv, NEW f \in Frame, ClearedBy(f)
  PROVE  /\ jmpbuf' \in Buffers
         /\ \A b \in Jmpbufs : IF f.kind = "setjmp" /\ b = f.buf
                               THEN jmpbuf'[b].context = 0 ELSE jmpbuf'[b] = jmpbuf[b]
<1>1. jmpbuf \in Buffers
  BY DEF CatchInv, BuffersOK
<1> QED BY <1>1, FrameFacts DEF ClearedBy, Buffers

Leaving(m) == frames' = SubSeq(frames, 1, m)

LEMMA LeaveStep ==
  ASSUME CatchInv, NEW m \in Nat, m < Depth, Leaving(m),
         session' \in Seq(Sessions), Len(session') = frames[m + 1].before.sessions,
         KeepsOuter(session, session', Len(session')),
         Context' = frames[m + 1].before, ClearedBy(frames[m + 1]),
         \A j \in (m + 2)..Depth : frames[j].kind # "setjmp",
         Signals', pc' = "throw" => m # 0
  PROVE  CatchInv'
<1> DEFINE gs == SubSeq(frames, 1, m)
<1>1. /\ StackOK(gs, session') /\ Len(gs) = m /\ At(gs, m) = frames[m + 1].before
      /\ \A i \in 1..m : gs[i] = frames[i]
      /\ gs = <<>> <=> m = 0
  <2>1. StackOK(frames, session)
    BY DEF CatchInv
  <2> QED BY <2>1, PopStack DEF Depth
<1>2. frames[m + 1] \in Frame
  BY ContextFacts
<1>3. BuffersOK(gs, jmpbuf')
  <2>1. frames \in Seq(Frame) /\ BuffersOK(frames, jmpbuf)
    BY ContextFacts DEF CatchInv
  <2> HIDE DEF gs
  <2> QED BY <1>1, <1>2, <2>1, ClearFacts, PopBuffers DEF Depth
<1>4. frames' = gs
  BY DEF Leaving
<1> HIDE DEF gs
<1>5. StackOK(frames', session') /\ BuffersOK(frames', jmpbuf')
      /\ Context' = At(frames', Len(frames')) /\ (pc' = "throw" => frames' # <<>>)
  BY <1>1, <1>3, <1>4
<1> QED BY <1>5 DEF CatchInv, Depth

\* session', when the context of a session is gone
LEMMA SessionBack ==
  ASSUME CatchInv, frames # <<>>, NEW k \in 1..Depth, frames[k].kind = "session",
         Inside(frames[k]).sessions = Len(session), session' = Front(session)
  PROVE  /\ session' \in Seq(Sessions) /\ Len(session') = frames[k].before.sessions
         /\ KeepsOuter(session, session', Len(session'))
         /\ frames[k].before.out = IF session' = <<>> THEN mudout_port
                                   ELSE session'[Len(session')].out
<1> DEFINE n == frames[k].before.sessions
           ses2 == SubSeq(session, 1, n)
<1>1. n \in Nat /\ Len(session) = n + 1 /\ session \in Seq(Sessions)
  <2>1. frames[k] \in Frame
    BY ContextFacts
  <2> QED BY <2>1, InsideFacts, SessionsGrow, ContextFacts
<1>2. frames[k].before.out = IF n = 0 THEN mudout_port ELSE session[n].out
  BY DEF CatchInv, StackOK, SessionsKept, Depth
<1>3. session' = ses2
  <2>1. Len(session) - 1 = n
    BY <1>1
  <2> QED BY <2>1 DEF Front
<1> HIDE DEF n, ses2
<1>4. /\ ses2 \in Seq(Sessions) /\ Len(ses2) = n /\ \A i \in 1..n : ses2[i] = session[i]
      /\ (ses2 = <<>> <=> n = 0)
  <2>1. \A i \in 1..n : session[i] \in Sessions
    <3>1. \A i \in 1..n : i \in 1..Len(session)
      BY <1>1
    <3> HIDE DEF Sessions
    <3> QED BY <1>1, <3>1, ElementOfSeq
  <2> HIDE DEF Sessions
  <2>2. /\ ses2 \in Seq(Sessions) /\ Len(ses2) = IF 1 <= n THEN n - 1 + 1 ELSE 0
        /\ \A i \in 1..(n - 1 + 1) : ses2[i] = session[1 + i - 1]
    BY <1>1, <2>1, SubSeqProperties DEF ses2
  <2>3. Len(ses2) = n /\ \A i \in 1..n : ses2[i] = session[i]
    BY <1>1, <2>2
  <2> QED BY <2>2, <2>3, EmptySeq
<1>5. KeepsOuter(session, ses2, n)
  BY <1>1, <1>4 DEF KeepsOuter
<1>6. n # 0 => ses2[n] = session[n]
  BY <1>1, <1>4
<1> QED BY <1>2, <1>3, <1>4, <1>5, <1>6 DEF n

\* A frame that did not start a session leaves as many as it found.
LEMMA SessionsBack ==
  ASSUME CatchInv, NEW f \in Frame, f.kind # "session", Inside(f).sessions = Len(session)
  PROVE  Len(session) = f.before.sessions
BY InsideFacts

BackTo(c) == call_stack' = c.call_stack /\ gcpro' = c.gcpro /\ forbid' = c.forbid

\* what is left of the session contexts, when frame f is left
SessionsOf(f) ==
  /\ session' \in Seq(Sessions) /\ Len(session') = f.before.sessions
  /\ KeepsOuter(session, session', Len(session'))
  /\ f.before.out = IF session' = <<>> THEN mudout_port ELSE session'[Len(session')].out

LEMMA BackInContext ==
  ASSUME NEW f \in Frame, BackTo(f.before), SessionsOf(f)
  PROVE  Context' = f.before
BY FrameFacts, SameContext DEF BackTo, SessionsOf

\* The session contexts are as they were, and the output is the frame's own.
LEMMA SessionsUnchanged ==
  ASSUME CatchInv, frames # <<>>, NEW f \in Frame, f.kind \notin {"session", "with_output"},
         Inside(f).sessions = Len(session), Inside(f).out = Innermost.out, UNCHANGED session
  PROVE  SessionsOf(f)
<1>1. f.before.sessions = Len(session) /\ f.before.out = Innermost.out
  BY InsideFacts
<1> QED BY <1>1, SameSessions, SessionFacts DEF SessionsOf

\* with_output() puts the output of its caller back.
LEMMA OutputIsBack ==
  ASSUME CatchInv, frames # <<>>, NEW f \in Frame, f.kind = "with_output", Faithful(f),
         Inside(f).sessions = Len(session), OutputBack(f)
  PROVE  SessionsOf(f)
<1> DEFINE r == [Innermost EXCEPT !.out = f.out]
<1>1. f.before.sessions = Len(session) /\ f.before.out = f.out /\ f.out \in Ports
  <2>1. f.before.out = f.out /\ f.before \in Contexts
    BY FrameFacts DEF Faithful
  <2> QED BY <2>1, InsideFacts DEF Contexts
<1>2. r \in Sessions /\ r.old_gcpro = Innermost.old_gcpro /\ r.out = f.out
  BY <1>1, SessionFacts DEF Sessions
<1>3. session' = [session EXCEPT ![Len(session)] = r]
  BY DEF OutputBack, Innermost
<1> HIDE DEF r
<1> QED BY <1>1, <1>2, <1>3, ChangeInnermost DEF SessionsOf

\* the exception stays, or is forgotten by a mcatch() that returns
Settled == mexception' = mexception \/ mexception' = [mexception EXCEPT !.sig = "none"]

LEMMA ReturnStep ==
  ASSUME CatchInv, pc = "run", frames # <<>>, frames' = Popped, pc' = "run", Quiet, Settled,
         BackTo(Top.before), SessionsOf(Top), ClearedBy(Top)
  PROVE  CatchInv'
<1> DEFINE m == Depth - 1
<1>1. m \in Nat /\ m < Depth /\ Top = frames[m + 1] /\ (m + 2)..Depth = {} /\ Top \in Frame
  BY SessionFacts
<1>2. UNCHANGED <<thrown, returned, swallowed>>
  BY DEF Quiet
<1>3. JumpOK => JumpOK'
  <2> SUFFICES ASSUME JumpOK PROVE JumpOK'
    OBVIOUS
  <2>1. thrown = none /\ thrown' = none /\ \A b \in Jmpbufs : b # none
    BY <1>2, CatchAssumption DEF JumpOK
  <2>2. \A b \in Jmpbufs : is_mjmpbuf(b)' => jmpbuf'[b] = jmpbuf[b]
    BY <1>1, ClearFacts DEF is_mjmpbuf
  <2>3. \A b \in Jmpbufs : is_mjmpbuf(b)' => (jmpbuf'[b].result <=> thrown' # b)
    BY <2>1, <2>2 DEF JumpOK, is_mjmpbuf
  <2> QED BY <1>2, <2>1, <2>3 DEF JumpOK
<1>4. Signals'
  <2>1. /\ mexception' \in [sig : {"none", "error", "longjmp"}, err : Errs]
        /\ mexception'.sig = "error" => mexception'.err \in Errors
    BY DEF CatchInv, Signals, Settled
  <2> QED BY <1>2, <1>3, <2>1 DEF CatchInv, Signals
<1>5. Context' = Top.before
  BY <1>1, BackInContext
<1>6. Leaving(m)
  BY DEF Leaving, Popped
<1> HIDE DEF m
<1> QED BY <1>1, <1>4, <1>5, <1>6, LeaveStep DEF SessionsOf

\* The frame that runs, its context and what it has pushed
LEMMA TopFacts ==
  ASSUME CatchInv, frames # <<>>
  PROVE  /\ Top \in Frame /\ Faithful(Top) /\ Top.before \in Contexts
         /\ Inside(Top).sessions = Len(session) /\ Inside(Top).out = Innermost.out
         /\ Inside(Top).call_stack = call_stack /\ Inside(Top).gcpro = gcpro
         /\ Inside(Top).forbid = forbid
         /\ Depth \in 1..Depth /\ Top = frames[Depth]
<1>1. Top \in Frame /\ Faithful(Top) /\ Context = Inside(Top) /\ Context.out = Innermost.out
      /\ Depth \in Nat \ {0} /\ Top = frames[Depth]
  BY SessionFacts
<1> QED BY <1>1, FrameFacts, ContextParts

LEMMA FrontAppend ==
  ASSUME NEW S, NEW s \in Seq(S), NEW x \in S
  PROVE  Front(Append(s, x)) = s
<1> DEFINE n == Len(s)
           t == Append(s, x)
<1>1. /\ t \in Seq(S) /\ Len(t) = n + 1 /\ \A i \in 1..n : t[i] = s[i]
      /\ n \in Nat /\ \A i \in 1..n : s[i] \in S
  BY AppendProperties, LenProperties, ElementOfSeq
<1> HIDE DEF t, n
<1>2. Front(t) = SubSeq(t, 1, n)
  <2>1. Len(t) - 1 = n
    BY <1>1
  <2> QED BY <2>1 DEF Front
<1>3. /\ SubSeq(t, 1, n) \in Seq(S) /\ Len(SubSeq(t, 1, n)) = n
      /\ \A i \in 1..n : SubSeq(t, 1, n)[i] = s[i]
  <2>1. \A i \in 1..n : t[i] \in S
    BY <1>1
  <2>2. /\ SubSeq(t, 1, n) \in Seq(S) /\ Len(SubSeq(t, 1, n)) = IF 1 <= n THEN n - 1 + 1 ELSE 0
        /\ \A i \in 1..(n - 1 + 1) : SubSeq(t, 1, n)[i] = t[1 + i - 1]
    BY <1>1, <2>1, SubSeqProperties
  <2>3. Len(SubSeq(t, 1, n)) = n /\ \A i \in 1..n : SubSeq(t, 1, n)[i] = t[i]
    BY <1>1, <2>2
  <2> QED BY <1>1, <2>2, <2>3
<1>4. SubSeq(t, 1, n) = s
  BY <1>1, <1>3, SeqEqual DEF n
<1> QED BY <1>2, <1>4 DEF t

LEMMA ReturnCall == CatchInv /\ return /\ Top.kind = "call" => CatchInv'
<1> SUFFICES ASSUME CatchInv, return, Top.kind = "call" PROVE CatchInv'
  OBVIOUS
<1>1. /\ pc = "run" /\ frames # <<>> /\ frames' = Popped /\ pc' = "run" /\ Quiet
      /\ call_stack' = Front(call_stack) /\ gcpro' = gcpro - 1
      /\ UNCHANGED <<forbid, session, mexception, jmpbuf>>
  BY DEF return
<1>2. /\ call_stack = Append(Top.before.call_stack, "call") /\ Top.before.call_stack \in Stacks
      /\ gcpro = Top.before.gcpro + 1 /\ Top.before.gcpro \in Nat
      /\ forbid = Top.before.forbid
  BY <1>1, TopFacts, InsideFacts DEF Contexts
<1>3. Front(call_stack) = Top.before.call_stack
  BY <1>2, FrontAppend DEF Stacks
<1>4. BackTo(Top.before)
  BY <1>1, <1>2, <1>3 DEF BackTo
<1>5. SessionsOf(Top) /\ ClearedBy(Top) /\ Settled
  BY <1>1, TopFacts, SessionsUnchanged DEF ClearedBy, Settled
<1> QED BY <1>1, <1>4, <1>5, ReturnStep

LEMMA ReturnWithForbid == CatchInv /\ return /\ Top.kind = "with_forbid" => CatchInv'
<1> SUFFICES ASSUME CatchInv, return, Top.kind = "with_forbid" PROVE CatchInv'
  OBVIOUS
<1>1. /\ pc = "run" /\ frames # <<>> /\ frames' = Popped /\ pc' = "run" /\ Quiet
      /\ forbid' = Top.old_forbid
      /\ UNCHANGED <<call_stack, gcpro, session, mexception, jmpbuf>>
  BY DEF return
<1>2. BackTo(Top.before)
  <2>1. Top.old_forbid = Top.before.forbid
    BY <1>1, TopFacts DEF Faithful
  <2> QED BY <1>1, <2>1, TopFacts, InsideFacts DEF BackTo
<1>3. SessionsOf(Top) /\ ClearedBy(Top) /\ Settled
  BY <1>1, TopFacts, SessionsUnchanged DEF ClearedBy, Settled
<1> QED BY <1>1, <1>2, <1>3, ReturnStep

LEMMA ReturnHandler == CatchInv /\ return /\ Top.kind = "handler" => CatchInv'
<1> SUFFICES ASSUME CatchInv, return, Top.kind = "handler" PROVE CatchInv'
  OBVIOUS
<1> DEFINE r == [Innermost EXCEPT !.rethrow_error = Top.old_rethrow_error]
<1>1. /\ pc = "run" /\ frames # <<>> /\ frames' = Popped /\ pc' = "run" /\ Quiet
      /\ session' = [session EXCEPT ![Len(session)] = r]
      /\ UNCHANGED <<call_stack, gcpro, forbid, mexception, jmpbuf>>
  BY DEF return, Innermost
<1>2. r \in Sessions /\ r.old_gcpro = Innermost.old_gcpro /\ r.out = Innermost.out
  BY <1>1, SessionFacts, FrameFacts DEF Sessions
<1> HIDE DEF r
<1>3. BackTo(Top.before) /\ ClearedBy(Top) /\ Settled
  BY <1>1, TopFacts, InsideFacts DEF BackTo, ClearedBy, Settled
<1>4. SessionsOf(Top)
  <2>1. Top.before.sessions = Len(session) /\ Top.before.out = Innermost.out
    BY <1>1, TopFacts, InsideFacts
  <2> QED BY <1>1, <1>2, <2>1, ChangeInnermost DEF SessionsOf
<1> QED BY <1>1, <1>3, <1>4, ReturnStep

LEMMA ReturnSession == CatchInv /\ return /\ Top.kind = "session" => CatchInv'
<1> SUFFICES ASSUME CatchInv, return, Top.kind = "session" PROVE CatchInv'
  OBVIOUS
<1>1. /\ pc = "run" /\ frames # <<>> /\ frames' = Popped /\ pc' = "run" /\ Quiet
      /\ mexception' = [mexception EXCEPT !.sig = "none"]
      /\ call_stack' = Front(call_stack) /\ session' = Front(session)
      /\ UNCHANGED <<gcpro, forbid, jmpbuf>>
  BY DEF return, EndSession
<1>2. /\ call_stack = Append(Top.before.call_stack, "session") /\ Top.before.call_stack \in Stacks
      /\ gcpro = Top.before.gcpro /\ forbid = Top.before.forbid
  BY <1>1, TopFacts, InsideFacts DEF Contexts
<1>3. Front(call_stack) = Top.before.call_stack
  BY <1>2, FrontAppend DEF Stacks
<1>4. BackTo(Top.before) /\ ClearedBy(Top) /\ Settled
  BY <1>1, <1>2, <1>3 DEF BackTo, ClearedBy, Settled
<1>5. SessionsOf(Top)
  BY <1>1, TopFacts, SessionBack DEF SessionsOf
<1> QED BY <1>1, <1>4, <1>5, ReturnStep

LEMMA ReturnTrapError == CatchInv /\ return /\ Top.kind = "trap_error" => CatchInv'
<1> SUFFICES ASSUME CatchInv, return, Top.kind = "trap_error" PROVE CatchInv'
  OBVIOUS
<1>1. /\ pc = "run" /\ frames # <<>> /\ frames' = Popped /\ pc' = "run" /\ Quiet
      /\ mexception' = [mexception EXCEPT !.sig = "none"] /\ gcpro' = Top.at
      /\ UNCHANGED <<call_stack, forbid, session, jmpbuf>>
  BY DEF return
<1>2. BackTo(Top.before)
  <2>1. Top.at = Top.before.gcpro
    BY <1>1, TopFacts DEF Faithful
  <2> QED BY <1>1, <2>1, TopFacts, InsideFacts DEF BackTo
<1>3. SessionsOf(Top) /\ ClearedBy(Top) /\ Settled
  BY <1>1, TopFacts, SessionsUnchanged DEF ClearedBy, Settled
<1> QED BY <1>1, <1>2, <1>3, ReturnStep

LEMMA ReturnWithOutput == CatchInv /\ return /\ Top.kind = "with_output" => CatchInv'
<1> SUFFICES ASSUME CatchInv, return, Top.kind = "with_output" PROVE CatchInv'
  OBVIOUS
<1>1. /\ pc = "run" /\ frames # <<>> /\ frames' = Popped /\ pc' = "run" /\ Quiet
      /\ mexception' = [mexception EXCEPT !.sig = "none"] /\ gcpro' = Top.at /\ OutputBack(Top)
      /\ UNCHANGED <<call_stack, forbid, jmpbuf>>
  BY DEF return
<1>2. BackTo(Top.before)
  <2>1. Top.at = Top.before.gcpro
    BY <1>1, TopFacts DEF Faithful
  <2> QED BY <1>1, <2>1, TopFacts, InsideFacts DEF BackTo
<1>3. ClearedBy(Top) /\ Settled
  BY <1>1 DEF ClearedBy, Settled
<1>4. SessionsOf(Top)
  BY <1>1, TopFacts, OutputIsBack
<1> QED BY <1>1, <1>2, <1>3, <1>4, ReturnStep

LEMMA ReturnSetjmp == CatchInv /\ return /\ Top.kind = "setjmp" => CatchInv'
<1> SUFFICES ASSUME CatchInv, return, Top.kind = "setjmp" PROVE CatchInv'
  OBVIOUS
<1>1. /\ pc = "run" /\ frames # <<>> /\ frames' = Popped /\ pc' = "run" /\ Quiet
      /\ mexception' = [mexception EXCEPT !.sig = "none"] /\ Cleared(Top.buf)
      /\ UNCHANGED <<call_stack, gcpro, forbid, session>>
  BY DEF return
<1>2. BackTo(Top.before)
  BY <1>1, TopFacts, InsideFacts DEF BackTo
<1>3. ClearedBy(Top) /\ Settled
  BY <1>1 DEF ClearedBy, Cleared, Settled
<1>4. SessionsOf(Top)
  BY <1>1, TopFacts, SessionsUnchanged
<1> QED BY <1>1, <1>2, <1>3, <1>4, ReturnStep

LEMMA Return == CatchInv /\ return => CatchInv'
<1> SUFFICES ASSUME CatchInv, return PROVE CatchInv'
  OBVIOUS
<1>1. Top.kind \in Kinds
  BY TopFacts, FrameFacts DEF return
<1> QED BY <1>1, ReturnCall, ReturnWithForbid, ReturnHandler, ReturnSession, ReturnTrapError,
           ReturnWithOutput, ReturnSetjmp DEF Kinds

-----------------------------------------------------------------------------
(***************************************************************************)
(* Steps that catch.                                                       *)
(***************************************************************************)
\* Only the innermost catching frame may be a setjmp()'s among those it leaves.
LEMMA CatchLeaves ==
  ASSUME CatchInv, frames # <<>>, frames' = Unwound, BackTo(Catcher.before),
         SessionsOf(Catcher), ClearedBy(Catcher), Signals',
         pc' = "throw" => Catcher.kind # "session"
  PROVE  CatchInv'
<1> DEFINE m == catch_context - 1
<1>1. /\ m \in Nat /\ m < Depth /\ Catcher = frames[m + 1] /\ Catcher \in Frame
      /\ m + 2 = catch_context + 1
      /\ pc' = "throw" => m # 0
  <2>1. /\ catch_context \in 1..Depth /\ Depth \in Nat /\ Catcher = frames[catch_context]
        /\ Catcher \in Frame /\ (catch_context = 1 => Catcher.kind = "session")
    BY CatcherFacts, ContextFacts
  <2>2. m \in Nat /\ m < Depth /\ m + 1 = catch_context /\ m + 2 = catch_context + 1
        /\ (m = 0 => catch_context = 1)
    BY <2>1
  <2> QED BY <2>1, <2>2
<1>2. \A j \in (m + 2)..Depth : frames[j].kind # "setjmp"
  BY <1>1, CatcherFacts
<1>3. Leaving(m)
  BY DEF Leaving, Unwound
<1>4. Context' = Catcher.before
  BY <1>1, BackInContext
<1> HIDE DEF m
<1> QED BY <1>1, <1>2, <1>3, <1>4, LeaveStep DEF SessionsOf

\* While a throw is under way its frame is there, and the signal is set.
LEMMA Throwing ==
  ASSUME CatchInv, pc = "throw"
  PROVE  /\ frames # <<>> /\ mexception.sig \in {"error", "longjmp"}
         /\ JumpOK => (mexception.sig = "longjmp" <=> thrown # none)
BY DEF CatchInv, Signals, JumpOK

\* A throw that goes on is the same throw.
LEMMA GoesOn ==
  ASSUME CatchInv, pc = "throw", pc' = "throw", UNCHANGED <<mexception, jmpbuf>>, Quiet
  PROVE  Signals'
<1>1. UNCHANGED <<mexception, jmpbuf, pc, thrown, returned, swallowed>>
  BY DEF Quiet
<1>2. JumpOK => JumpOK'
  BY <1>1, SameJumps DEF Quiet
<1> QED BY <1>1, <1>2 DEF CatchInv, Signals

\* A throw that ends here was an error's.
LEMMA ErrorEnds ==
  ASSUME CatchInv, pc = "throw", pc' = "run", mexception.sig = "error",
         UNCHANGED <<mexception, jmpbuf>>, Quiet
  PROVE  Signals'
<1>1. UNCHANGED <<mexception, jmpbuf, thrown, returned, swallowed>>
  BY DEF Quiet
<1>2. JumpOK => JumpOK'
  BY <1>1 DEF JumpOK, is_mjmpbuf
<1> QED BY <1>1, <1>2 DEF CatchInv, Signals

LEMMA CaughtBySession == CatchInv /\ caught_by_session => CatchInv'
<1> SUFFICES ASSUME CatchInv, caught_by_session PROVE CatchInv'
  OBVIOUS
<1>1. /\ pc = "throw" /\ Catcher.kind = "session" /\ frames' = Unwound /\ pc' = "run"
      /\ gcpro' = Catcher.old.gcpro /\ forbid' = Catcher.old.forbid
      /\ call_stack' = Front(Catcher.old.call_stack) /\ session' = Front(session)
      /\ UNCHANGED <<mexception, jmpbuf>>
      /\ thrown' = none
      /\ returned' = [aimed |-> thrown, at |-> IF thrown = none THEN none ELSE "lost"]
      /\ swallowed' = (swallowed \/ thrown # none)
  BY DEF caught_by_session, EndSession, Arrives
<1>2. frames # <<>>
  BY <1>1, Throwing
<1>3. BackTo(Catcher.before)
  <2> DEFINE c == Catcher.before
  <2>1. c \in Contexts
    BY <1>2, CatcherFacts, FrameFacts
  <2>2. Catcher.old = [OldOf(c) EXCEPT !.call_stack = Append(c.call_stack, "session")]
    BY <1>1, <1>2, CatcherFacts DEF Faithful
  <2> HIDE DEF c
  <2>3. /\ Catcher.old.call_stack = Append(c.call_stack, "session")
        /\ Catcher.old.gcpro = c.gcpro /\ Catcher.old.forbid = c.forbid
    BY <2>2 DEF OldOf
  <2>4. Front(Append(c.call_stack, "session")) = c.call_stack
    BY <2>1, FrontAppend DEF Contexts, Stacks
  <2> QED BY <1>1, <2>3, <2>4 DEF BackTo, c
<1>4. SessionsOf(Catcher)
  BY <1>1, <1>2, CatcherFacts, SessionBack DEF SessionsOf
<1>5. ClearedBy(Catcher)
  BY <1>1 DEF ClearedBy
<1>6. ~swallowed' => JumpOK'
  <2> SUFFICES ASSUME ~swallowed' PROVE JumpOK'
    OBVIOUS
  <2>1. thrown = none /\ JumpOK
    BY <1>1 DEF CatchInv, Signals
  <2> QED BY <1>1, <2>1 DEF JumpOK, is_mjmpbuf
<1>7. Signals'
  BY <1>1, <1>6 DEF CatchInv, Signals
<1> QED BY <1>1, <1>2, <1>3, <1>4, <1>5, <1>7, CatchLeaves

\* What with_output() and trap_error() restore
LEMMA RestoredAt ==
  ASSUME NEW f \in Frame, Faithful(f), f.kind \in {"with_output", "trap_error"},
         Restored([f.old EXCEPT !.gcpro = f.at])
  PROVE  BackTo(f.before)
<1> DEFINE c == f.before
<1>1. f.at = c.gcpro /\ f.old = [OldOf(c) EXCEPT !.gcpro = c.gcpro + 1]
  BY DEF Faithful
<1> HIDE DEF c
<1>2. f.old = [call_stack |-> c.call_stack, gcpro |-> c.gcpro + 1, forbid |-> c.forbid]
  BY <1>1 DEF OldOf
<1> DEFINE o == [f.old EXCEPT !.gcpro = f.at]
<1>3. o.call_stack = c.call_stack /\ o.gcpro = c.gcpro /\ o.forbid = c.forbid
  BY <1>1, <1>2
<1>4. Restored(o)
  OBVIOUS
<1> HIDE DEF o
<1> QED BY <1>3, <1>4 DEF Restored, BackTo, c

LEMMA CaughtByWithOutput == CatchInv /\ caught_by_with_output => CatchInv'
<1> SUFFICES ASSUME CatchInv, caught_by_with_output PROVE CatchInv'
  OBVIOUS
<1>1. /\ pc = "throw" /\ Catcher.kind = "with_output" /\ frames' = Unwound
      /\ Restored([Catcher.old EXCEPT !.gcpro = Catcher.at]) /\ OutputBack(Catcher)
      /\ pc' = IF mexception.sig = "none" THEN "run" ELSE "throw"
      /\ UNCHANGED <<mexception, jmpbuf>> /\ Quiet
  BY DEF caught_by_with_output
<1>2. frames # <<>> /\ pc' = "throw"
  BY <1>1, Throwing
<1>3. BackTo(Catcher.before) /\ SessionsOf(Catcher)
  BY <1>1, <1>2, CatcherFacts, RestoredAt, OutputIsBack
<1>4. ClearedBy(Catcher) /\ Signals'
  BY <1>1, <1>2, GoesOn DEF ClearedBy
<1> QED BY <1>1, <1>2, <1>3, <1>4, CatchLeaves

LEMMA CaughtBySetjmp == CatchInv /\ caught_by_setjmp => CatchInv'
<1> SUFFICES ASSUME CatchInv, caught_by_setjmp PROVE CatchInv'
  OBVIOUS
<1> DEFINE buf == Catcher.buf
<1>1. /\ pc = "throw" /\ Catcher.kind = "setjmp" /\ frames' = Unwound
      /\ Restored(Catcher.old) /\ Cleared(buf)
      /\ IF mexception.sig = "longjmp" /\ was_used(buf)
         THEN pc' = "run" /\ Arrives(buf) ELSE pc' = "throw" /\ Quiet
      /\ UNCHANGED <<session, mexception>>
  BY DEF caught_by_setjmp
<1>2. frames # <<>>
  BY <1>1, Throwing
<1>3. /\ catch_context \in 1..Depth /\ Catcher \in Frame /\ Faithful(Catcher)
      /\ Catcher = frames[catch_context]
      /\ Inside(Catcher).sessions = Len(session) /\ Inside(Catcher).out = Innermost.out
  BY <1>2, CatcherFacts
<1>4. BackTo(Catcher.before)
  <2>1. Catcher.old = OldOf(Catcher.before)
    BY <1>1, <1>3 DEF Faithful
  <2> QED BY <1>1, <2>1 DEF Restored, OldOf, BackTo
<1>5. SessionsOf(Catcher) /\ ClearedBy(Catcher)
  BY <1>1, <1>2, <1>3, SessionsUnchanged DEF ClearedBy, Cleared
<1>6. buf \in Jmpbufs /\ is_mjmpbuf(buf) /\ jmpbuf'[buf].context = 0
      /\ \A b \in Jmpbufs : b # buf => jmpbuf'[b] = jmpbuf[b]
  <2>1. buf \in Jmpbufs
    BY <1>1, <1>3, FrameFacts
  <2>2. jmpbuf[buf].context = catch_context /\ catch_context # 0
    BY <1>1, <1>3, ContextFacts DEF CatchInv, BuffersOK, Depth
  <2>3. \A b \in Jmpbufs : IF b = buf THEN jmpbuf'[b].context = 0 ELSE jmpbuf'[b] = jmpbuf[b]
    BY <1>1, <1>3, <1>5, ClearFacts
  <2> HIDE DEF buf
  <2> QED BY <2>1, <2>2, <2>3 DEF is_mjmpbuf
<1> HIDE DEF buf
<1>7. JumpOK => (was_used(buf) <=> thrown = buf)
  BY <1>6 DEF JumpOK, was_used
<1>8. ~swallowed' => JumpOK'
  <2> SUFFICES ASSUME ~swallowed' PROVE JumpOK'
    OBVIOUS
  <2>1. CASE mexception.sig = "longjmp" /\ was_used(buf)
    <3>1. pc' = "run" /\ thrown' = none /\ JumpOK /\ thrown = buf /\ buf # none
          /\ returned' = [aimed |-> thrown, at |-> IF thrown = none THEN none ELSE buf]
      <4>1. pc' = "run" /\ Arrives(buf)
        BY <1>1, <2>1
      <4>2. JumpOK
        BY <4>1 DEF CatchInv, Signals, Arrives
      <4> QED BY <1>6, <1>7, <2>1, <4>1, <4>2, CatchAssumption DEF Arrives
    <3>2. \A b \in Jmpbufs : is_mjmpbuf(b)' => (jmpbuf'[b].result <=> thrown' # b)
      <4> SUFFICES ASSUME NEW b \in Jmpbufs, is_mjmpbuf(b)'
                   PROVE  jmpbuf'[b].result /\ thrown' # b
        OBVIOUS
      <4>1. b # buf /\ b # none
        BY <1>6, CatchAssumption DEF is_mjmpbuf
      <4>2. jmpbuf'[b] = jmpbuf[b] /\ thrown # b /\ is_mjmpbuf(b)
        BY <1>6, <3>1, <4>1 DEF is_mjmpbuf
      <4> QED BY <3>1, <4>1, <4>2 DEF JumpOK
    <3> QED BY <3>1, <3>2 DEF JumpOK
  <2>2. CASE ~(mexception.sig = "longjmp" /\ was_used(buf))
    <3>1. pc' = "throw" /\ UNCHANGED <<thrown, returned, swallowed, mexception>> /\ JumpOK
      BY <1>1, <2>2 DEF CatchInv, Signals, Quiet
    <3>2. thrown # buf
      BY <1>1, <1>6, <1>7, <2>2, <3>1, CatchAssumption DEF JumpOK
    <3>3. \A b \in Jmpbufs : is_mjmpbuf(b)' => jmpbuf'[b] = jmpbuf[b]
      BY <1>6 DEF is_mjmpbuf
    <3>4. thrown' # none => is_mjmpbuf(thrown)'
      BY <1>6, <3>1, <3>2 DEF JumpOK, is_mjmpbuf, CatchInv, Signals
    <3>5. \A b \in Jmpbufs : is_mjmpbuf(b)' => (jmpbuf'[b].result <=> thrown' # b)
      BY <3>1, <3>3 DEF JumpOK, is_mjmpbuf
    <3> QED BY <1>1, <3>1, <3>4, <3>5 DEF JumpOK, is_mjmpbuf
  <2> QED BY <2>1, <2>2
<1>9. Signals'
  <2>1. swallowed' \in BOOLEAN /\ thrown' \in Jmpbufs \cup {none} /\ pc' \in {"run", "throw"}
    BY <1>1 DEF CatchInv, Signals, Arrives, Quiet
  <2> QED BY <1>1, <1>8, <2>1 DEF CatchInv, Signals
<1> QED BY <1>1, <1>2, <1>4, <1>5, <1>9, CatchLeaves

\* trap_error() hands a throw on, or ends it without a handler.
LEMMA TrapErrorLeft ==
  ASSUME CatchInv, pc = "throw", Catcher.kind = "trap_error", frames' = Unwound,
         Restored([Catcher.old EXCEPT !.gcpro = Catcher.at]),
         UNCHANGED <<session, jmpbuf>>, Signals'
  PROVE  CatchInv'
<1>1. frames # <<>>
  BY Throwing
<1>2. BackTo(Catcher.before)
  BY <1>1, CatcherFacts, RestoredAt
<1>3. SessionsOf(Catcher)
  BY <1>1, CatcherFacts, SessionsUnchanged
<1>4. ClearedBy(Catcher)
  BY DEF ClearedBy
<1> QED BY <1>1, <1>2, <1>3, <1>4, CatchLeaves

\* The handler takes the place of trap_error()'s frame.
HandlerFor(f, err) == [kind |-> "handler", before |-> f.before, err |-> err,
                       old_rethrow_error |-> f.old_rethrow_error]

LEMMA HandlerRuns ==
  ASSUME CatchInv, pc = "throw", Catcher.kind = "trap_error", mexception.sig = "error",
         Restored([Catcher.old EXCEPT !.gcpro = Catcher.at]), pc' = "run",
         frames' = Append(Unwound, HandlerFor(Catcher, mexception.err)),
         session' = [session EXCEPT ![Len(session)].rethrow_error = mexception.err],
         UNCHANGED <<mexception, jmpbuf>>, Quiet
  PROVE  CatchInv'
<1> DEFINE m == catch_context - 1
           gs == SubSeq(frames, 1, m)
           h == HandlerFor(Catcher, mexception.err)
           r == [Innermost EXCEPT !.rethrow_error = mexception.err]
<1>1. /\ frames # <<>> /\ Catcher \in Frame /\ Faithful(Catcher) /\ mexception.err \in Errs
      /\ Catcher.before \in Contexts /\ Catcher.old_rethrow_error \in Errs
      /\ Inside(Catcher).sessions = Len(session) /\ Inside(Catcher).out = Innermost.out
  <2>1. frames # <<>>
    BY Throwing
  <2>2. mexception.err \in Errs
    BY DEF CatchInv, Signals
  <2> QED BY <2>1, <2>2, CatcherFacts, FrameFacts
<1>2. Catcher.before.sessions = Len(session) /\ Catcher.before.out = Innermost.out
  BY <1>1, InsideFacts
<1>3. m \in Nat \ {0} /\ m < Depth /\ Catcher = frames[m + 1] /\ m + 2 = catch_context + 1
  <2>1. /\ catch_context \in 1..Depth /\ Depth \in Nat /\ Catcher = frames[catch_context]
        /\ catch_context # 1
    BY <1>1, CatcherFacts, ContextFacts
  <2> QED BY <2>1
<1>4. \A j \in (m + 2)..Depth : frames[j].kind # "setjmp"
  BY <1>1, <1>3, CatcherFacts
<1> HIDE DEF m
<1>5. h \in Frame /\ h.kind = "handler" /\ h.before = Catcher.before
  <2>1. h \in [kind : {"handler"}, before : Contexts, err : Errs, old_rethrow_error : Errs]
    BY <1>1 DEF HandlerFor
  <2> QED BY <2>1 DEF Frame, HandlerFor
<1>6. frames' = Append(gs, h)
  BY DEF Unwound, m
<1>7. r \in Sessions /\ r.old_gcpro = Innermost.old_gcpro /\ r.out = Innermost.out
  BY <1>1, SessionFacts DEF Sessions
<1>8. session' = [session EXCEPT ![Len(session)] = r]
  BY DEF Innermost
<1> HIDE DEF r, h
<1>9. /\ session' \in Seq(Sessions) /\ Len(session') = Len(session) /\ session' # <<>>
      /\ KeepsOuter(session, session', Len(session))
      /\ session'[Len(session')] = r
  BY <1>1, <1>7, <1>8, ChangeInnermost
<1>10. /\ StackOK(gs, session) /\ Len(gs) = m /\ At(gs, m) = Catcher.before
       /\ \A i \in 1..m : gs[i] = frames[i]
       /\ gs # <<>>
  <2>1. StackOK(frames, session) /\ session \in Seq(Sessions) /\ m < Len(frames)
        /\ KeepsOuter(session, session, Len(session))
    BY <1>3, ContextFacts DEF CatchInv, KeepsOuter, Depth
  <2> QED BY <1>2, <1>3, <2>1, PopStack
<1>11. BuffersOK(gs, jmpbuf)
  <2>1. frames \in Seq(Frame) /\ BuffersOK(frames, jmpbuf) /\ jmpbuf \in Buffers
    BY ContextFacts DEF CatchInv, BuffersOK
  <2>2. frames[m + 1].kind # "setjmp"
    BY <1>3
  <2> HIDE DEF gs
  <2> QED BY <1>3, <1>4, <1>10, <2>1, <2>2, PopBuffers DEF Depth
<1> HIDE DEF gs
<1>12. /\ StackOK(Append(gs, h), session') /\ Len(Append(gs, h)) = m + 1
       /\ At(Append(gs, h), m + 1) = Inside(h)
  <2>1. h.before = At(gs, Len(gs)) /\ h.before.sessions = Len(session) /\ Faithful(h)
    BY <1>2, <1>5, <1>10 DEF Faithful
  <2> QED BY <1>5, <1>9, <1>10, <2>1, PushStack
<1>13. BuffersOK(Append(gs, h), jmpbuf)
  <2>1. gs \in Seq(Frame)
    BY <1>10 DEF StackOK
  <2> QED BY <1>5, <1>11, <2>1, PushBuffers
<1>14. Context' = Inside(h)
  <2>1. BackTo(Catcher.before)
    BY <1>1, RestoredAt
  <2>2. SessionsOf(Catcher)
    BY <1>2, <1>7, <1>9 DEF SessionsOf
  <2>3. Context' = Catcher.before
    BY <1>1, <2>1, <2>2, BackInContext
  <2>4. Inside(h) = h.before
    BY <1>5 DEF Inside
  <2> QED BY <1>5, <2>3, <2>4
<1>15. /\ StackOK(frames', session') /\ BuffersOK(frames', jmpbuf')
       /\ Context' = At(frames', Len(frames')) /\ Signals'
  BY <1>6, <1>12, <1>13, <1>14, ErrorEnds
<1> QED BY <1>15 DEF CatchInv, Depth

LEMMA CaughtByTrapError == CatchInv /\ caught_by_trap_error => CatchInv'
<1> SUFFICES ASSUME CatchInv, caught_by_trap_error PROVE CatchInv'
  OBVIOUS
<1> DEFINE err == mexception.err
<1>1. PICK out_of_loops \in BOOLEAN :
        /\ pc = "throw" /\ Catcher.kind = "trap_error"
        /\ Restored([Catcher.old EXCEPT !.gcpro = Catcher.at])
        /\ IF mexception.sig # "error" \/ Propagates(err, out_of_loops)
           THEN frames' = Unwound /\ pc' = "throw" /\ UNCHANGED session
           ELSE /\ pc' = "run"
                /\ IF Catcher.handler = NoHandler
                   THEN frames' = Unwound /\ UNCHANGED session
                   ELSE /\ frames' = Append(Unwound, HandlerFor(Catcher, err))
                        /\ session' = [session EXCEPT ![Len(session)].rethrow_error = err]
        /\ UNCHANGED <<mexception, jmpbuf>> /\ Quiet
  BY DEF caught_by_trap_error, HandlerFor
<1>2. CASE mexception.sig # "error" \/ Propagates(err, out_of_loops)
  <2>1. frames' = Unwound /\ pc' = "throw" /\ UNCHANGED session
    BY <1>1, <1>2
  <2> QED BY <1>1, <2>1, GoesOn, TrapErrorLeft
<1>3. CASE mexception.sig = "error" /\ ~Propagates(err, out_of_loops)
  <2>1. pc' = "run"
    BY <1>1, <1>3
  <2>2. CASE Catcher.handler = NoHandler
    <3>1. frames' = Unwound /\ UNCHANGED session
      BY <1>1, <1>3, <2>2
    <3> QED BY <1>1, <1>3, <2>1, <3>1, ErrorEnds, TrapErrorLeft
  <2>3. CASE Catcher.handler # NoHandler
    <3>1. /\ frames' = Append(Unwound, HandlerFor(Catcher, err))
          /\ session' = [session EXCEPT ![Len(session)].rethrow_error = err]
      BY <1>1, <1>3, <2>3
    <3> QED BY <1>1, <1>3, <2>1, <3>1, HandlerRuns
  <2> QED BY <2>2, <2>3
<1> QED BY <1>2, <1>3

-----------------------------------------------------------------------------
(***************************************************************************)
(* The invariant, and what follows from it.                                *)
(***************************************************************************)
LEMMA CatchInit == Init => CatchInv
<1> SUFFICES ASSUME Init PROVE CatchInv
  OBVIOUS
<1> USE DEF Init
<1>1. Len(frames) = 0 /\ Len(session) = 0 /\ frames \in Seq(Frame) /\ session \in Seq(Sessions)
  <2> HIDE DEF Frame, Sessions
  <2> QED BY EmptySeq
<1>2. StackOK(frames, session)
  BY <1>1 DEF StackOK, Chain, Caught, Nested, SessionsKept
<1>3. Context = At(frames, Depth)
  BY <1>1 DEF Context, At, Outside, Depth
<1>4. BuffersOK(frames, jmpbuf)
  BY <1>1 DEF BuffersOK, Buffers
<1>5. Signals
  BY <1>4, CatchAssumption DEF Signals, JumpOK, Errs, is_mjmpbuf
<1> QED BY <1>2, <1>3, <1>4, <1>5 DEF CatchInv

LEMMA CatchSame == CatchInv /\ UNCHANGED vars => CatchInv'
<1> SUFFICES ASSUME CatchInv, UNCHANGED vars PROVE CatchInv'
  OBVIOUS
<1>1. UNCHANGED <<frames, call_stack, gcpro, forbid, session, mexception, jmpbuf, pc, thrown,
                  returned, swallowed>>
  BY DEF vars
<1> QED BY <1>1 DEF CatchInv, Context, Innermost, At, Outside, Inside, Depth, Signals, JumpOK,
                    is_mjmpbuf

LEMMA CatchNext == CatchInv /\ [Next]_vars => CatchInv'
<1> SUFFICES ASSUME CatchInv, [Next]_vars PROVE CatchInv'
  OBVIOUS
<1>1. CASE session_start \/ call \/ with_forbid \/ with_output \/ trap_error \/ setjmp
  BY <1>1, SessionStart, Call, WithForbid, WithOutput, TrapError, Setjmp
<1>2. CASE runtime_error \/ rethrow_error \/ mlongjmp
  BY <1>2, RuntimeError, RethrowError, Mlongjmp
<1>3. CASE return
  BY <1>3, Return
<1>4. CASE Catch
  BY <1>4, CaughtBySession, CaughtByTrapError, CaughtByWithOutput, CaughtBySetjmp DEF Catch
<1>5. CASE UNCHANGED vars
  BY <1>5, CatchSame
<1> QED BY <1>1, <1>2, <1>3, <1>4, <1>5 DEF Next

\* The stack of frames is one chain of contexts in every state.
THEOREM ChainSafety == Spec => []CatchInv
<1> QED BY CatchInit, CatchNext, PTL DEF Spec

\* However a frame is left, by a return or by a throw, the frames below it run
\* on with their own call stack, GC protections, forbidden actions, sessions
\* and output (context.h: "preserved: only one value exists, but the value at
\* context exit is the same as at context entry").
THEOREM ContextSafety == Spec => []ContextPreserved
<1>1. CatchInv => ContextPreserved
  <2> SUFFICES ASSUME CatchInv PROVE ContextPreserved
    OBVIOUS
  <2>1. pc = "run" /\ frames # <<>> => Context = Inside(Top)
    BY SessionFacts
  <2>2. ASSUME frames = <<>>
        PROVE  call_stack = <<>> /\ gcpro = 0 /\ ~forbid /\ session = <<>>
    <3>1. Context = Outside
      BY <2>2, ContextFacts DEF CatchInv, At
    <3>2. call_stack = <<>> /\ gcpro = 0 /\ forbid = FALSE /\ Len(session) = 0
      BY <3>1, ContextParts DEF Outside
    <3> QED BY <3>2, ContextFacts
  <2> QED BY <2>1, <2>2 DEF ContextPreserved
<1> QED BY <1>1, ChainSafety, PTL

\* A throw always finds a frame that catches it, and where that is a session's
\* session_end() finds its own entry on the call stack and the GC protections
\* that it started with.
THEOREM CatchSafety == Spec => []ThrowIsCaught
<1>1. CatchInv => ThrowIsCaught
  <2> SUFFICES ASSUME CatchInv, pc = "throw"
               PROVE  /\ catch_context # 0
                      /\ Catcher.kind = "session" =>
                           /\ Len(Catcher.old.call_stack) > 0
                           /\ Catcher.old.call_stack[Len(Catcher.old.call_stack)] = "session"
                           /\ Catcher.old.gcpro = Innermost.old_gcpro
    BY DEF ThrowIsCaught
  <2>1. frames # <<>>
    BY Throwing
  <2>2. catch_context \in 1..Depth /\ Catcher \in Frame /\ Faithful(Catcher)
        /\ Catcher = frames[catch_context] /\ Inside(Catcher).sessions = Len(session)
    BY <2>1, CatcherFacts
  <2>3. catch_context # 0
    BY <2>2, ContextFacts
  <2>4. ASSUME Catcher.kind = "session"
        PROVE  /\ Len(Catcher.old.call_stack) > 0
               /\ Catcher.old.call_stack[Len(Catcher.old.call_stack)] = "session"
               /\ Catcher.old.gcpro = Innermost.old_gcpro
    <3> DEFINE c == Catcher.before
    <3>1. c \in Contexts
      BY <2>2, FrameFacts
    <3>2. Catcher.old = [OldOf(c) EXCEPT !.call_stack = Append(c.call_stack, "session")]
      BY <2>2, <2>4 DEF Faithful
    <3>3. session[c.sessions + 1].old_gcpro = c.gcpro
      BY <2>2, <2>4 DEF CatchInv, StackOK, SessionsKept, Depth
    <3>4. Len(session) = c.sessions + 1
      BY <2>2, <2>4, InsideFacts
    <3> HIDE DEF c
    <3>5. Catcher.old.call_stack = Append(c.call_stack, "session") /\ Catcher.old.gcpro = c.gcpro
      BY <3>2 DEF OldOf
    <3>6. c.call_stack \in Stacks
      BY <3>1 DEF Contexts
    <3>7. Len(Append(c.call_stack, "session")) = Len(c.call_stack) + 1
          /\ Append(c.call_stack, "session")[Len(c.call_stack) + 1] = "session"
          /\ Len(c.call_stack) \in Nat
      BY <3>6, AppendProperties, LenProperties DEF Stacks
    <3> QED BY <3>3, <3>4, <3>5, <3>7 DEF Innermost
  <2> QED BY <2>3, <2>4
<1> QED BY <1>1, ChainSafety, PTL

\* A jump buffer is live exactly while its setjmp() is on the stack, so
\* longjmp() with a buffer whose setjmp() is over is always refused.
THEOREM BufferSafety == Spec => []JmpbufLive
<1>1. CatchInv => JmpbufLive
  <2> SUFFICES ASSUME CatchInv, NEW b \in Jmpbufs
               PROVE  /\ is_mjmpbuf(b) => /\ jmpbuf[b].context <= Depth
                                          /\ frames[jmpbuf[b].context].kind = "setjmp"
                                          /\ frames[jmpbuf[b].context].buf = b
                      /\ \A i \in 1..Depth : frames[i].kind = "setjmp" =>
                           is_mjmpbuf(frames[i].buf) /\ jmpbuf[frames[i].buf].context = i
    BY DEF JmpbufLive
  <2>1. \A i \in 1..Depth : i # 0
    BY ContextFacts
  <2> QED BY <2>1 DEF CatchInv, BuffersOK, is_mjmpbuf, Depth
<1> QED BY <1>1, ChainSafety, PTL

\* As long as no session() has ended a longjmp(), every longjmp() comes back in
\* the setjmp() that made its buffer, and none writes through a NULL pointer.
THEOREM LongjmpSafety == Spec => []LongjmpReturns
<1>1. CatchInv => LongjmpReturns
  BY DEF CatchInv, Signals, JumpOK, LongjmpReturns
<1> QED BY <1>1, ChainSafety, PTL
=============================================================================
