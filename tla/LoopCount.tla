----------------------------- MODULE LoopCount ------------------------------
(***************************************************************************)
(* The loop counter internal_xcount: one machine word that holds both the  *)
(* number of calls and loop iterations left to the current session and, in *)
(* its sign bit, the flag by which the SIGPROF handler asks for a profile  *)
(* tick.  Compiled code decrements the word as a whole, in one instruction *)
(* that no signal can divide.  C code reads the number with get_xcount()   *)
(* and later writes another with set_xcount(); the signal handlers write   *)
(* at any time, also between the two.                                      *)
(***************************************************************************)
EXTENDS Integers, Sequences

CONSTANTS XCOUNT_PROFILE_FLAG,   \* the sign bit of the word; 2^63 in the code
          MAX_LOOP_COUNT,
          ReserveShare,    \* trap_error() keeps count / ReserveShare +
          ReserveBase,     \* ReserveBase for its handler; 10 and 100
          Costs,           \* costs given to expensive_operation()
          MaxCalls,        \* bound on the nesting of calls
          Profiling,       \* whether SIGPROF is delivered
          Interrupts,      \* whether SIGINT is delivered
          Unlimited        \* whether with_unlimited_execution() is called

XCOUNT_MASK == XCOUNT_PROFILE_FLAG - 1
MAX_TAGGED_INT == XCOUNT_PROFILE_FLAG \div 2 - 1

ASSUME LoopAssumption == /\ XCOUNT_PROFILE_FLAG \in Nat /\ XCOUNT_PROFILE_FLAG % 2 = 0
                         /\ MAX_LOOP_COUNT \in 1..MAX_TAGGED_INT
                         /\ ReserveShare \in Nat \ {0} /\ ReserveBase \in Nat
                         /\ Costs \subseteq Nat /\ MaxCalls \in Nat
                         /\ {Profiling, Interrupts, Unlimited} \subseteq BOOLEAN

VARIABLES word,      \* internal_xcount
          read,      \* what C code has read of it and not yet written back
          calls,     \* C frames that will write the count again, outermost first
          mode,      \* "run"; "throw"; or "caught", in trap_error() after its catch
          error,     \* whether the exception is error_loop
          ranOut,    \* history: the program went on with a count of 0
          spent      \* history: the loops that each nested session has spent, or
                     \* LIFTED once its limit is no longer in force

loop_vars == <<word, read, calls, mode, error, ranOut, spent>>

get_xcount(w) == w % XCOUNT_PROFILE_FLAG
flagged(w) == w >= XCOUNT_PROFILE_FLAG
Flag(w) == w - get_xcount(w)
set_xcount(w, v) == Flag(w) + (v % XCOUNT_PROFILE_FLAG)
signed(w) == IF flagged(w) THEN w - 2 * XCOUNT_PROFILE_FLAG ELSE w

count == get_xcount(word)
Nesting == Len(calls)
Innermost == calls[Nesting]
Outer == SubSeq(calls, 1, Nesting - 1)

Nobody == [by |-> "nobody", count |-> 0, cost |-> 0]
Readers == {"expensive_operation", "session_start", "trap_error", "unlimited_execution", "give_back"}

\* History, kept in each frame: how many sessions are inside each other, and
\* what the trap_error() calls of its session have set aside by then.
Session == Len(spent)
Aside == IF calls = <<>> THEN 0 ELSE Innermost.aside

LIFTED == -1
Spends(n) == spent' = IF spent[Session] = LIFTED THEN spent
                                                 ELSE [spent EXCEPT ![Session] = @ + n]
Lifts == spent' = IF calls = <<>> THEN spent ELSE [spent EXCEPT ![Session] = LIFTED]

LoopInit == /\ word = MAX_LOOP_COUNT /\ read = Nobody
            /\ calls = <<[kind |-> "session", old |-> 0, aside |-> 0, session |-> 1]>>
            /\ mode = "run" /\ error = FALSE
            /\ ranOut = FALSE /\ spent = <<0>>

Idle == mode = "run" /\ read.by = "nobody"
Running == Idle /\ calls # <<>>

\* the two accesses of C code; only signals come between them
Reads(by, cost) == /\ read.by = "nobody"
                   /\ read' = [by |-> by, count |-> count, cost |-> cost]
                   /\ UNCHANGED <<word, calls, mode, error, ranOut, spent>>

WriteBack(by, v) == /\ read.by = by
                    /\ read' = Nobody
                    /\ word' = set_xcount(word, v)
                    /\ UNCHANGED <<error, ranOut>>

(***************************************************************************)
(* What the program does                                                   *)
(***************************************************************************)

\* CHECK_LOOP() of a compiled function and the loop trap of compiled code:
\* subtract one from the word; unless the result is positive, bcheck_xcount
\* raises error_loop for zero and ticks the profiles for anything else
check_loop ==
  /\ Running
  /\ LET w == (word - 1) % (2 * XCOUNT_PROFILE_FLAG)
         slow == signed(word) <= 1
     IN  IF slow /\ w = 0
         THEN word' = w /\ mode' = "throw" /\ error' = TRUE
         ELSE word' = (IF slow THEN get_xcount(w) ELSE w) /\ UNCHANGED <<mode, error>>
  /\ IF count = 0 THEN ranOut' = TRUE /\ Lifts ELSE ranOut' = ranOut /\ Spends(1)
  /\ UNCHANGED <<read, calls>>

\* the end of a compiled function and of a primitive, and check_loop() of the
\* interpreter, which counts nothing: tick if asked to
maybe_profile_tick == /\ Running /\ flagged(word)
                      /\ word' = count
                      /\ UNCHANGED <<read, calls, mode, error, ranOut, spent>>

\* the count after an operation of this cost
Charged(n, cost) == IF cost >= n THEN 1 ELSE n - cost

expensive_operation ==
  \/ Running /\ \E cost \in Costs : Reads("expensive_operation", cost)
  \/ /\ WriteBack("expensive_operation", Charged(read.count, read.cost))
     /\ IF read.count = 0 THEN Lifts
                          ELSE Spends(read.count - Charged(read.count, read.cost))
     /\ UNCHANGED <<calls, mode>>

runtime_error == /\ Running
                 /\ mode' = "throw" /\ error' = FALSE
                 /\ UNCHANGED <<word, read, calls, ranOut, spent>>

(***************************************************************************)
(* Primitives that write the count around a call                           *)
(***************************************************************************)
Enter(by, frame, v) == /\ WriteBack(by, v)
                       /\ calls' = Append(calls, frame)
                       /\ UNCHANGED mode

\* inside another session, or from the host
session_start ==
  \/ Idle /\ Nesting < MaxCalls /\ Reads("session_start", 0)
  \/ /\ Enter("session_start", [kind |-> "session", old |-> read.count,
                                aside |-> 0, session |-> Session + 1], MAX_LOOP_COUNT)
     /\ spent' = Append(spent, 0)

Smaller(a, b) == IF a < b THEN a ELSE b

\* what trap_error() sets aside for its handler
Reserve(n) == Smaller(n \div ReserveShare + ReserveBase, n)

TrapFrame(n) == [kind |-> "trap_error", saved |-> n, aside |-> Aside + n, session |-> Session]

\* Mutant: what is set aside is not taken off the count
trap_error_Keeps ==
  \/ Running /\ Nesting < MaxCalls /\ Reads("trap_error", 0)
  \/ Enter("trap_error", TrapFrame(Reserve(read.count)), read.count) /\ UNCHANGED spent

trap_error ==
  \/ Running /\ Nesting < MaxCalls /\ Reads("trap_error", 0)
  \/ /\ Enter("trap_error", TrapFrame(Reserve(read.count)), read.count - Reserve(read.count))
     /\ UNCHANGED spent

unlimited_execution ==
  \/ Unlimited /\ Running /\ Nesting < MaxCalls /\ Reads("unlimited_execution", 0)
  \/ /\ Enter("unlimited_execution", [kind |-> "unlimited", old |-> read.count,
                                      aside |-> Aside, session |-> Session], MAX_TAGGED_INT)
     /\ Lifts

\* the count after trap_error()'s function, with what was set aside
GivenBack(n) == IF n > MAX_TAGGED_INT - Innermost.saved THEN MAX_TAGGED_INT
                                                        ELSE n + Innermost.saved

Catching == Innermost.kind = "trap_error"

\* trap_error() after its function, whether that returned or threw
give_back ==
  \/ mode \in {"run", "throw"} /\ calls # <<>> /\ Catching /\ Reads("give_back", 0)
  \/ /\ WriteBack("give_back", GivenBack(read.count))
     /\ calls' = Outer
     /\ mode' = IF mode = "throw" THEN "caught" ELSE mode
     /\ UNCHANGED spent

\* it then calls its handler, unless the loops have run out
handle_error == /\ mode = "caught"
                /\ mode' = IF error /\ count = 0 THEN "throw" ELSE "run"
                /\ UNCHANGED <<word, read, calls, error, ranOut, spent>>

\* a session ends when its function returns, and with null when it throws
session_end == /\ mode \in {"run", "throw"} /\ read.by = "nobody" /\ calls # <<>>
               /\ Innermost.kind = "session"
               /\ calls' = Outer /\ spent' = SubSeq(spent, 1, Session - 1)
               /\ word' = set_xcount(word, Innermost.old) /\ mode' = "run"
               /\ UNCHANGED <<read, error, ranOut>>

\* a siglongjmp() skips the end of with_unlimited_execution()
limit_execution == /\ mode \in {"run", "throw"} /\ read.by = "nobody" /\ calls # <<>>
                   /\ Innermost.kind = "unlimited"
                   /\ calls' = Outer
                   /\ word' = IF mode = "run" THEN set_xcount(word, Innermost.old) ELSE word
                   /\ UNCHANGED <<read, mode, error, ranOut, spent>>

(***************************************************************************)
(* Signals, at any time                                                    *)
(***************************************************************************)
sigprof_handler == /\ Profiling
                   /\ word' = count + XCOUNT_PROFILE_FLAG
                   /\ UNCHANGED <<read, calls, mode, error, ranOut, spent>>

catchint == /\ Interrupts
            /\ word' = set_xcount(word, 1)
            /\ IF count = 0 THEN Lifts ELSE UNCHANGED spent
            /\ UNCHANGED <<read, calls, mode, error, ranOut>>

LoopNext == \/ check_loop \/ maybe_profile_tick \/ expensive_operation \/ runtime_error
            \/ session_start \/ trap_error \/ unlimited_execution
            \/ give_back \/ handle_error \/ session_end \/ limit_execution
            \/ sigprof_handler \/ catchint

LoopSpec == LoopInit /\ [][LoopNext]_loop_vars

-----------------------------------------------------------------------------
\* The word has its width and the frames what they saved.
LoopTypeOK == /\ word \in 0..(2 * XCOUNT_PROFILE_FLAG - 1)
              /\ read \in [by : Readers \cup {"nobody"}, count : 0..XCOUNT_MASK, cost : Nat]
              /\ mode \in {"run", "throw", "caught"} /\ error \in BOOLEAN
              /\ ranOut \in BOOLEAN /\ spent \in Seq(Nat \cup {LIFTED})
              /\ calls \in Seq([kind : {"session", "unlimited"}, old : 0..XCOUNT_MASK,
                                aside : Nat, session : Nat]
                               \cup [kind : {"trap_error"}, saved : 0..XCOUNT_MASK,
                                     aside : Nat, session : Nat])

\* A session whose limit is in force never runs more loops than its limit: what
\* it has spent, what is left and what its traps have set aside stay within
\* MAX_LOOP_COUNT, whatever trap_error(), exceptions, sessions inside it and
\* the two signals do, also between a read of the count and the write that
\* depends on it.  The limit is lifted when with_unlimited_execution() is
\* entered, when the program goes on with a count of zero, and when a count of
\* zero is set to 1 (by SIGINT or by expensive_operation()).
LoopsLimited ==
  calls # <<>> /\ spent[Session] # LIFTED => spent[Session] + count + Aside <= MAX_LOOP_COUNT

\* "When `n reaches 0, an `error_loop is generated" (loop_count()): the
\* program never runs compiled code with a count that is already zero.
NeverRunsOut == ~ranOut
=============================================================================
