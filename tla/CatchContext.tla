---------------------------- MODULE CatchContext ----------------------------
(***************************************************************************)
(* Non-local exits: context.c, the catching callers of call.c, and the     *)
(* primitives of runtime/basic.c and runtime/io.c that save a context      *)
(* around a call.                                                          *)
(*                                                                         *)
(* mudlle runs on one C stack.  `frames' is that stack: the C functions    *)
(* that have called into mudlle and wait for it, outermost first.  What    *)
(* runs inside the innermost frame is the program (pc = "run"), which may  *)
(* do anything: call another primitive, return, or throw.  A throw is a    *)
(* siglongjmp() to the innermost frame that called mcatch() (pc =          *)
(* "throw"), which skips the epilogues of every frame above it.            *)
(***************************************************************************)
EXTENDS Naturals, Sequences

CONSTANTS Errors,      \* runtime errors, error_loop among them
          error_loop,
          error_none,
          Jmpbufs,     \* jump buffers the program gets from setjmp()
          Ports,       \* output ports
          mudout_port, \* the host's port
          NoHandler,   \* a null second argument of trap_error()
          MaxFrames    \* bound on the nesting of frames

none == "none"

ASSUME CatchAssumption == /\ error_loop \in Errors /\ error_none \notin Errors
                          /\ mudout_port \in Ports /\ none \notin Jmpbufs
                          /\ MaxFrames \in Nat

VARIABLES frames,      \* the C stack
          call_stack,  \* kinds of the entries pushed on call_stack
          gcpro,       \* number of GCPRO() records
          forbid,      \* mudlle_forbid
          session,     \* session_context and its parents, innermost last
          mexception,  \* the last exception, [sig, err]
          jmpbuf,      \* each buffer's context (a frame, 0 for NULL) and
                       \* whether its result pointer is set
          pc,          \* "run", "throw" or "crash"
          thrown,      \* history: the buffer of the longjmp() under way
          returned,    \* history: the setjmp() the last longjmp() was for and
                       \* where it came back
          swallowed    \* history: some longjmp() never came back

vars == <<frames, call_stack, gcpro, forbid, session, mexception, jmpbuf,
          pc, thrown, returned, swallowed>>

Catching == {"session", "trap_error", "with_output", "setjmp"}
Depth == Len(frames)
Top == frames[Depth]
Popped == SubSeq(frames, 1, Depth - 1)
Innermost == session[Len(session)]
Front(s) == SubSeq(s, 1, Len(s) - 1)

\* catch_context: the innermost frame in mcatch(), 0 when there is none
catch_context == LET C == {i \in 1..Depth : frames[i].kind \in Catching}
                 IN  IF C = {} THEN 0 ELSE CHOOSE i \in C : \A j \in C : j <= i

is_mjmpbuf(b) == jmpbuf[b].context # 0

Quiet == UNCHANGED <<thrown, returned, swallowed>>

Init == /\ frames = <<>> /\ call_stack = <<>> /\ gcpro = 0 /\ forbid = FALSE
        /\ session = <<>>
        /\ mexception = [sig |-> "none", err |-> error_none]
        /\ jmpbuf = [b \in Jmpbufs |-> [context |-> 0, result |-> FALSE]]
        /\ pc = "run"
        /\ thrown = none /\ swallowed = FALSE
        /\ returned = [aimed |-> none, at |-> none]

\* what a context promises to preserve
Context == [call_stack |-> call_stack, gcpro |-> gcpro, forbid |-> forbid,
            sessions |-> Len(session),
            out |-> IF session = <<>> THEN mudout_port ELSE Innermost.out]

(***************************************************************************)
(* Entering a frame.  Every frame records what its C function keeps in     *)
(* local variables; `old' is the catch_context that mcatch() fills in.     *)
(* `before' is history: the context in which the frame was entered.        *)
(***************************************************************************)
Saved == [call_stack |-> call_stack, gcpro |-> gcpro, forbid |-> forbid]

Push(frame) == frames' = Append(frames, frame)

MayCall == pc = "run" /\ Depth < MaxFrames /\ frames # <<>>

\* Mutant: the catch context is made before the session is
SessionSaved_Early(entered) == Saved

\* what mcatch() saves inside a session whose entry is pushed
SessionSaved(entered) == [Saved EXCEPT !.call_stack = entered]
\* session_start() and the mcatch_call() that follows it; the host starts
\* sessions when nothing runs, the program with session()
session_start ==
  /\ pc = "run" /\ Depth < MaxFrames
  /\ LET entered == Append(call_stack, "session")
     IN  /\ call_stack' = entered
         /\ Push([kind |-> "session", before |-> Context,
                  old |-> SessionSaved(entered)])
  /\ session' = Append(session,
                       [rethrow_error |-> error_none, old_gcpro |-> gcpro,
                        out |-> IF session = <<>> THEN mudout_port
                                                  ELSE Innermost.out])
  /\ UNCHANGED <<gcpro, forbid, mexception, jmpbuf, pc>> /\ Quiet

\* any function that pushes a call_stack entry and protects its locals
call == /\ MayCall
        /\ Push([kind |-> "call", before |-> Context])
        /\ call_stack' = Append(call_stack, "call") /\ gcpro' = gcpro + 1
        /\ UNCHANGED <<forbid, session, mexception, jmpbuf, pc>> /\ Quiet

with_forbid == /\ MayCall
               /\ Push([kind |-> "with_forbid", before |-> Context,
                        old_forbid |-> forbid])
               /\ forbid' = TRUE
               /\ UNCHANGED <<call_stack, gcpro, session, mexception, jmpbuf, pc>>
               /\ Quiet

\* the three locals of with_output() stay protected during its mcatch_call()
with_output ==
  /\ MayCall
  /\ \E port \in Ports \ {mudout_port, Innermost.out} :
    /\ Push([kind |-> "with_output", before |-> Context,
             port |-> port, out |-> Innermost.out, at |-> gcpro,
             old |-> [Saved EXCEPT !.gcpro = @ + 1]])
    /\ gcpro' = gcpro + 1
    /\ session' = [session EXCEPT ![Len(session)].out = port]
    /\ UNCHANGED <<call_stack, forbid, mexception, jmpbuf, pc>> /\ Quiet

\* f runs with the handler protected and no error to rethrow
trap_error ==
  \E handler \in {"handler", NoHandler} :
    /\ MayCall
    /\ Push([kind |-> "trap_error", before |-> Context, handler |-> handler,
             at |-> gcpro,
             old_rethrow_error |-> Innermost.rethrow_error,
             old |-> [Saved EXCEPT !.gcpro = @ + 1]])
    /\ gcpro' = gcpro + 1
    /\ session' = [session EXCEPT ![Len(session)].rethrow_error = error_none]
    /\ UNCHANGED <<call_stack, forbid, mexception, jmpbuf, pc>> /\ Quiet

\* msetjmp(): the buffer is made by mjmpbuf() inside mcatch()
setjmp ==
  \E b \in Jmpbufs :
    /\ MayCall /\ ~is_mjmpbuf(b)
    /\ Push([kind |-> "setjmp", before |-> Context, buf |-> b, old |-> Saved])
    /\ jmpbuf' = [jmpbuf EXCEPT ![b] = [context |-> Depth + 1, result |-> TRUE]]
    /\ UNCHANGED <<call_stack, gcpro, forbid, session, mexception, pc>> /\ Quiet

(***************************************************************************)
(* Throwing                                                                *)
(***************************************************************************)
mthrow(sig, err) == /\ mexception' = [sig |-> sig, err |-> err]
                    /\ pc' = "throw"

\* runtime_error()
runtime_error ==
  \E err \in Errors :
    /\ pc = "run" /\ frames # <<>>
    /\ mthrow("error", err)
    /\ UNCHANGED <<frames, call_stack, gcpro, forbid, session, jmpbuf>> /\ Quiet

\* Mutant: there need not be an error to rethrow
rethrow_error_Unchecked ==
  /\ pc = "run" /\ frames # <<>>
  /\ mthrow("error", Innermost.rethrow_error)
  /\ UNCHANGED <<frames, call_stack, gcpro, forbid, session, jmpbuf>> /\ Quiet

rethrow_error ==
  /\ pc = "run" /\ frames # <<>> /\ Innermost.rethrow_error # error_none
  /\ mthrow("error", Innermost.rethrow_error)
  /\ UNCHANGED <<frames, call_stack, gcpro, forbid, session, jmpbuf>> /\ Quiet

\* longjmp() with a live buffer: `*buf->result = x' needs the result pointer
mlongjmp ==
  \E b \in Jmpbufs :
    /\ pc = "run" /\ frames # <<>> /\ is_mjmpbuf(b)
    /\ IF jmpbuf[b].result
       THEN /\ jmpbuf' = [jmpbuf EXCEPT ![b].result = FALSE]
            /\ mthrow("longjmp", error_none)
            /\ thrown' = b
       ELSE pc' = "crash" /\ UNCHANGED <<jmpbuf, mexception, thrown>>
    /\ UNCHANGED <<frames, call_stack, gcpro, forbid, session, returned, swallowed>>

(***************************************************************************)
(* Leaving a frame, by a return or with an exception.  LeaveX is what the  *)
(* rest of the C function does once its call is over.                      *)
(***************************************************************************)

\* Mutant: forbidden actions stay forbidden after a throw
Restored_KeepsForbid(old) == /\ call_stack' = old.call_stack
                             /\ gcpro' = old.gcpro
                             /\ UNCHANGED forbid

\* safe_mcatch(): the context after a throw
Restored(old) == /\ call_stack' = old.call_stack
                 /\ gcpro' = old.gcpro
                 /\ forbid' = old.forbid

\* Mutant: the buffer outlives its context
Cleared_Never(b) == UNCHANGED jmpbuf

\* mcatch()'s treatment of the buffer made in this context
Cleared(b) == jmpbuf' = [jmpbuf EXCEPT ![b] = [context |-> 0, result |-> FALSE]]

\* the longjmp() under way ends here
Arrives(where) == /\ thrown' = none
                  /\ returned' = [aimed |-> thrown,
                                  at |-> IF thrown = none THEN none ELSE where]
                  /\ swallowed' = (swallowed \/ (thrown # none /\ where = "lost"))

\* with_output() puts the port back
OutputBack(frame) ==
  session' = [session EXCEPT ![Len(session)].out = frame.out]

EndSession(stack) == /\ call_stack' = Front(stack)
                     /\ session' = Front(session)

return ==
  /\ pc = "run" /\ frames # <<>>
  /\ frames' = Popped
  /\ CASE Top.kind = "call" ->
            /\ call_stack' = Front(call_stack) /\ gcpro' = gcpro - 1
            /\ UNCHANGED <<forbid, session, mexception, jmpbuf>>
       [] Top.kind = "with_forbid" ->
            /\ forbid' = Top.old_forbid
            /\ UNCHANGED <<call_stack, gcpro, session, mexception, jmpbuf>>
       [] Top.kind = "handler" ->
            /\ session' = [session EXCEPT ![Len(session)].rethrow_error =
                                            Top.old_rethrow_error]
            /\ UNCHANGED <<call_stack, gcpro, forbid, mexception, jmpbuf>>
       [] Top.kind = "session" ->
            /\ mexception' = [mexception EXCEPT !.sig = "none"]
            /\ EndSession(call_stack)
            /\ UNCHANGED <<gcpro, forbid, jmpbuf>>
       [] Top.kind = "trap_error" ->
            /\ mexception' = [mexception EXCEPT !.sig = "none"]
            /\ gcpro' = Top.at
            /\ UNCHANGED <<call_stack, forbid, session, jmpbuf>>
       [] Top.kind = "with_output" ->
            /\ mexception' = [mexception EXCEPT !.sig = "none"]
            /\ gcpro' = Top.at
            /\ OutputBack(Top)
            /\ UNCHANGED <<call_stack, forbid, jmpbuf>>
       [] Top.kind = "setjmp" ->
            /\ mexception' = [mexception EXCEPT !.sig = "none"]
            /\ Cleared(Top.buf)
            /\ UNCHANGED <<call_stack, gcpro, forbid, session>>
  /\ pc' = "run" /\ Quiet

\* Mutant: a longjmp() is rethrown before trap_error() leaves its own context
Unwound_KeepsContext ==
  SubSeq(frames, 1, IF frames[catch_context].kind = "trap_error" /\ mexception.sig = "longjmp"
                    THEN catch_context ELSE catch_context - 1)

\* the frames inside the catching one are gone; session contexts started in
\* them have been ended by their own catching frame
Unwound == SubSeq(frames, 1, catch_context - 1)
Catcher == frames[catch_context]

\* session(): mcatch_call() returns NULL whatever was thrown
caught_by_session ==
  /\ pc = "throw" /\ Catcher.kind = "session"
  /\ gcpro' = Catcher.old.gcpro /\ forbid' = Catcher.old.forbid
  /\ EndSession(Catcher.old.call_stack)
  /\ frames' = Unwound /\ pc' = "run"
  /\ Arrives("lost")
  /\ UNCHANGED <<mexception, jmpbuf>>

\* trap_error(): errors go to the handler, other signals and a loop error
\* with no count left go on
Propagates(err, out_of_loops) == err = error_loop /\ out_of_loops

caught_by_trap_error ==
  /\ pc = "throw" /\ Catcher.kind = "trap_error"
  /\ Restored([Catcher.old EXCEPT !.gcpro = Catcher.at])
  /\ \E out_of_loops \in BOOLEAN :
       LET err == mexception.err
       IN  IF mexception.sig # "error" \/ Propagates(err, out_of_loops)
           THEN frames' = Unwound /\ pc' = "throw" /\ UNCHANGED session
           ELSE /\ pc' = "run"
                /\ IF Catcher.handler = NoHandler
                   THEN frames' = Unwound /\ UNCHANGED session
                   ELSE /\ frames' = Append(Unwound,
                             [kind |-> "handler", before |-> Catcher.before, err |-> err,
                              old_rethrow_error |-> Catcher.old_rethrow_error])
                        /\ session' = [session EXCEPT
                             ![Len(session)].rethrow_error = err]
  /\ UNCHANGED <<mexception, jmpbuf>> /\ Quiet

\* with_output(): mcatch_call(), the ports back, maybe_mrethrow()
caught_by_with_output ==
  /\ pc = "throw" /\ Catcher.kind = "with_output"
  /\ Restored([Catcher.old EXCEPT !.gcpro = Catcher.at])
  /\ OutputBack(Catcher)
  /\ frames' = Unwound
  /\ pc' = IF mexception.sig = "none" THEN "run" ELSE "throw"
  /\ UNCHANGED <<mexception, jmpbuf>> /\ Quiet

\* Mutant: any longjmp() ends at the first setjmp()
was_used_Always(b) == TRUE

\* the buffer of this context was the target of a longjmp()
was_used(b) == ~jmpbuf[b].result

\* mcatch() in a context with a buffer: it comes back when the buffer was used
caught_by_setjmp ==
  /\ pc = "throw" /\ Catcher.kind = "setjmp"
  /\ Restored(Catcher.old)
  /\ Cleared(Catcher.buf)
  /\ frames' = Unwound
  /\ IF mexception.sig = "longjmp" /\ was_used(Catcher.buf)
     THEN pc' = "run" /\ Arrives(Catcher.buf)
     ELSE pc' = "throw" /\ Quiet
  /\ UNCHANGED <<session, mexception>>

Catch == caught_by_session \/ caught_by_trap_error \/ caught_by_with_output
         \/ caught_by_setjmp

Next == \/ session_start \/ call \/ with_forbid \/ with_output \/ trap_error
        \/ setjmp \/ runtime_error \/ rethrow_error \/ mlongjmp \/ return
        \/ Catch

Spec == Init /\ [][Next]_vars

\* the C code that runs after a siglongjmp() does not stop
FairSpec == Spec /\ WF_vars(Catch)

-----------------------------------------------------------------------------
(***************************************************************************)
(* Properties                                                              *)
(***************************************************************************)
\* Every variable keeps to its type, and the program runs only in a context.
TypeOK ==
  /\ Depth <= MaxFrames
  /\ gcpro \in Nat /\ forbid \in BOOLEAN
  /\ \A i \in 1..Len(session) : /\ session[i].rethrow_error \in Errors \cup {error_none}
                               /\ session[i].out \in Ports
  /\ mexception.sig \in {"none", "error", "longjmp"}
  /\ mexception.err \in Errors \cup {error_none}
  /\ mexception.sig = "error" => mexception.err \in Errors
  /\ \A b \in Jmpbufs : jmpbuf[b].context \in 0..MaxFrames /\ jmpbuf[b].result \in BOOLEAN
  /\ pc \in {"run", "throw", "crash"}

\* the context in which a frame's callee runs
Inside(f) ==
  CASE f.kind = "call" -> [f.before EXCEPT !.call_stack = Append(@, "call"),
                                           !.gcpro = @ + 1]
    [] f.kind = "session" -> [f.before EXCEPT !.call_stack = Append(@, "session"),
                                              !.sessions = @ + 1]
    [] f.kind = "with_forbid" -> [f.before EXCEPT !.forbid = TRUE]
    [] f.kind = "with_output" -> [f.before EXCEPT !.gcpro = @ + 1, !.out = f.port]
    [] f.kind = "trap_error" -> [f.before EXCEPT !.gcpro = @ + 1]
    [] f.kind \in {"handler", "setjmp"} -> f.before

\* "preserved: only one value exists, but the value at context exit is the
\* same as at context entry" (context.h): however a frame was left, the
\* frames below run on with their own call stack, GC protections, forbidden
\* actions, session and output.
ContextPreserved ==
  /\ pc = "run" /\ frames # <<>> => Context = Inside(Top)
  /\ frames = <<>> => call_stack = <<>> /\ gcpro = 0 /\ ~forbid /\ session = <<>>

\* A throw always finds a catching frame, and session_end() finds its own
\* session: call_stack == &session_context->s and gcpro == old_gcpro.
ThrowIsCaught ==
  pc = "throw" =>
    /\ catch_context # 0
    /\ Catcher.kind = "session" =>
         /\ Len(Catcher.old.call_stack) > 0
         /\ Catcher.old.call_stack[Len(Catcher.old.call_stack)] = "session"
         /\ Catcher.old.gcpro = Innermost.old_gcpro

\* A buffer is live exactly while its setjmp() is on the stack.
JmpbufLive ==
  \A b \in Jmpbufs :
    /\ is_mjmpbuf(b) => /\ jmpbuf[b].context <= Depth
                        /\ frames[jmpbuf[b].context].kind = "setjmp"
                        /\ frames[jmpbuf[b].context].buf = b
    /\ \A i \in 1..Depth : frames[i].kind = "setjmp" =>
         is_mjmpbuf(frames[i].buf) /\ jmpbuf[frames[i].buf].context = i

\* As long as no session() has ended a longjmp(), every longjmp() comes back
\* in the setjmp() that made its buffer, and never writes through NULL.
LongjmpReturns ==
  swallowed \/ (returned.aimed = returned.at /\ pc # "crash")

\* Every throw ends: some frame takes it and the program runs on.
ThrowEnds == pc = "throw" ~> pc = "run"
=============================================================================
