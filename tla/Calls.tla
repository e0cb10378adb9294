------------------------------- MODULE Calls --------------------------------
(***************************************************************************)
(* Calls of functions from C code and by apply() (call.c, basic.c).  How   *)
(* many arguments a function takes is worked out in four places: before a  *)
(* call (call.c), by the function itself (interpret.c), for the message of *)
(* the error and for a call trace (error.c).  A call that is let through   *)
(* hands its arguments over one by one or in a vector, which may be the    *)
(* caller's own.  An argument is the number of its place in the call.      *)
(***************************************************************************)
EXTENDS Integers, Sequences, FiniteSets, FiniteSetsExt, SequencesExt

CONSTANTS Functions,            \* what is called, see `Fn' below
          MaxSeclevel,          \* maxseclevel of the session
          DEFAULT_SECLEVEL,
          MAX_FUNCTION_ARGS,    \* 2048 in the code
          MAX_PRIMITIVE_ARGS,   \* 5 in the code
          MaxArgs               \* bound on the arguments of a call

VARIABLES call,     \* how a function is called: by whom, with how many
                    \* arguments, and how many of them in the last vector
          got       \* what it got

call_vars == <<call, got>>

\* A parameter of a closure is required ("req"), optional ("opt") or gets
\* the rest of the arguments ("rest"); they come in this order.  A primitive
\* has n parameters; a varargs primitive n and a vector, which it may change
\* if it says so ("copy").
Fn == [kind : {"closure", "primitive", "secure", "varargs", "other"},
       params : Seq({"req", "opt", "rest"}), n : Nat, seclevel : Nat, copy : BOOLEAN]
\* What the parser lets through, and runtime_define()
InOrder(params) == \A i, j \in 1..Len(params) :
  i < j => params[i] = "req" \/ (params[i] = "opt" /\ params[j] # "req")
CallsAssumptions ==
  /\ MAX_FUNCTION_ARGS \in Nat /\ MAX_PRIMITIVE_ARGS \in Nat /\ MaxArgs \in Nat
  /\ \A f \in Functions :
       /\ f \in Fn
       /\ InOrder(f.params) /\ Len(f.params) <= MAX_FUNCTION_ARGS
       /\ f.kind \in {"primitive", "secure"} => f.n <= MAX_PRIMITIVE_ARGS

(***************************************************************************)
(* How many arguments                                                      *)
(***************************************************************************)
closure_callable(params, nargs) ==
  IF Len(params) = nargs THEN TRUE
  ELSE IF params = <<>> \/ nargs > MAX_FUNCTION_ARGS THEN FALSE
  ELSE IF nargs > Len(params) THEN Last(params) = "rest"
  ELSE params[nargs + 1] \in {"rest", "opt"}

callablep(f, nargs) ==
  CASE f.kind = "closure" -> closure_callable(f.params, nargs)
    [] f.kind \in {"secure", "primitive"} -> f.n = nargs
    [] f.kind = "varargs" -> f.n <= nargs /\ nargs <= MAX_FUNCTION_ARGS
    [] OTHER -> FALSE

function_callable(f, nargs) ==
  IF f.kind = "other" THEN "bad_function"
  ELSE IF f.kind = "secure" /\ (DEFAULT_SECLEVEL < f.seclevel \/ MaxSeclevel < f.seclevel)
       THEN "security_violation"
  ELSE IF callablep(f, nargs) THEN "none" ELSE "wrong_parameters"

\* The first instruction of an interpreted function
Prologue(params, nargs) ==
  LET count(kind) == Cardinality({i \in 1..Len(params) : params[i] = kind})
      rest == count("rest") > 0
      minargs == count("req")
  IN  IF nargs > MAX_FUNCTION_ARGS THEN FALSE
      ELSE IF rest THEN nargs >= minargs
      ELSE IF count("opt") > 0 THEN nargs >= minargs /\ nargs <= Len(params)
      ELSE nargs = Len(params)

\* The bounds in the message when a compiled function is called wrongly
MinArgs(params) == CHOOSE n \in 0..Len(params) :
                     /\ \A i \in n + 1..Len(params) : params[i] \in {"rest", "opt"}
                     /\ n > 0 => params[n] \notin {"rest", "opt"}
InMessage(params, nargs) ==
  /\ nargs >= MinArgs(params)
  /\ (\A i \in 1..Len(params) : params[i] # "rest") => nargs <= Len(params)

\* Whether a call trace may name the parameters
maybe_get_arguments(params, nargs) ==
  IF nargs = Len(params) THEN TRUE
  ELSE IF params = <<>> THEN FALSE
  ELSE IF nargs > Len(params) THEN Last(params) = "rest"
  ELSE params[nargs + 1] \in {"rest", "opt"}

(***************************************************************************)
(* Handing over.  A vector is its elements and who made it.                *)
(***************************************************************************)
Vec(made, elems) == [made |-> made, elems |-> elems]
From(s, n) == SubSeq(s, n + 1, Len(s))
Aborted == [how |-> "abort"]
Error(e) == [how |-> "error", error |-> e]
Closure(elems) == [how |-> "closure", fixed |-> elems, rest |-> Vec("none", <<>>)]
Primitive(elems) == [how |-> "primitive", fixed |-> elems, rest |-> Vec("none", <<>>)]
call_vararg(nfixed, args, argv) == [how |-> "varargs", fixed |-> SubSeq(args, 1, nfixed), rest |-> argv]

\* the switch on the number of arguments goes up to MAX_PRIMITIVE_ARGS
CallOp(f, elems) == IF f.n = Len(elems) /\ f.n <= MAX_PRIMITIVE_ARGS THEN Primitive(elems) ELSE Aborted

\* call0() to call5()
callN(f, elems) ==
  CASE f.kind = "closure" -> Closure(elems)
    [] f.kind \in {"secure", "primitive"} -> CallOp(f, elems)
    [] f.kind = "varargs" -> IF f.n > Len(elems) THEN Aborted
                             ELSE call_vararg(f.n, elems, Vec("call", From(elems, f.n)))

callv(f, args) ==
  IF args.elems = <<>> THEN callN(f, <<>>) ELSE
  CASE f.kind = "closure" -> Closure(args.elems)
    [] f.kind \in {"secure", "primitive"} -> CallOp(f, args.elems)
    [] f.kind = "varargs" ->
         IF f.n > Len(args.elems) THEN Aborted
         ELSE call_vararg(f.n, args.elems, IF f.n > 0 THEN Vec("call", From(args.elems, f.n)) ELSE args)

call1plus(f, arg, args) ==
  LET elems == <<arg>> \o args.elems IN
  CASE f.kind = "closure" -> Closure(elems)
    [] f.kind \in {"secure", "primitive"} -> CallOp(f, elems)
    [] f.kind = "varargs" ->
         IF f.n > Len(elems) THEN Aborted
         ELSE call_vararg(f.n, elems, IF f.n = 1 THEN args ELSE Vec("call", From(elems, f.n)))

callv_needs_copy(f) == f.kind = "varargs" /\ f.n = 0 /\ f.copy
call1plus_needs_copy(f) == f.kind = "varargs" /\ f.n = 1 /\ f.copy

\* Mutant: the vector is copied only for one kind of call
apply_NoCopy(f, elems, tail_len) ==
  LET args_len == Len(elems) - tail_len
      tail == Vec("caller", From(elems, args_len))
      err == function_callable(f, Len(elems))
  IN  IF err # "none" THEN Error(err)
      ELSE IF args_len > 1 \/ callv_needs_copy(f) THEN callv(f, Vec("apply", elems))
      ELSE IF args_len = 1 THEN call1plus(f, elems[1], tail) ELSE callv(f, tail)
\* apply() with tail_len of the arguments in the last vector
apply(f, elems, tail_len) ==
  LET args_len == Len(elems) - tail_len
      tail == Vec("caller", From(elems, args_len))
      needs_copy == IF args_len = 1 THEN call1plus_needs_copy(f) ELSE callv_needs_copy(f)
      err == function_callable(f, Len(elems))
  IN  IF err # "none" THEN Error(err)
      ELSE IF args_len > 1 \/ needs_copy THEN callv(f, Vec("apply", elems))
      ELSE IF args_len = 1 THEN call1plus(f, elems[1], tail) ELSE callv(f, tail)

\* internal_mcatch_call0() and internal_mcatch_call()
docall_argv(f, elems) ==
  LET err == function_callable(f, Len(elems)) IN
  IF err # "none" THEN Error(err)
  ELSE IF Len(elems) > MAX_PRIMITIVE_ARGS THEN callv(f, Vec("call", elems))
  ELSE callN(f, elems)

docallv(f, elems) == LET err == function_callable(f, Len(elems)) IN
                     IF err # "none" THEN Error(err) ELSE callv(f, Vec("new", elems))
docall1plus(f, elems) == LET err == function_callable(f, Len(elems)) IN
                         IF err # "none" THEN Error(err)
                         ELSE call1plus(f, elems[1], Vec("new", Tail(elems)))

\* The call instructions of the interpreter, which get nothing but numbers
\* of arguments that the parser let through
execute(f, elems) ==
  CASE f.kind = "closure" -> IF Prologue(f.params, Len(elems)) THEN Closure(elems) ELSE Error("wrong_parameters")
    [] f.kind = "varargs" ->
         IF f.n > Len(elems) THEN Error("wrong_parameters")
         ELSE call_vararg(f.n, elems, Vec("call", From(elems, f.n)))
    [] f.kind = "other" -> Error("bad_function")
    [] f.kind = "secure" /\ (DEFAULT_SECLEVEL < f.seclevel \/ MaxSeclevel < f.seclevel) ->
         Error("security_violation")
    [] OTHER -> IF f.n = Len(elems) THEN Primitive(elems) ELSE Error("wrong_parameters")

(***************************************************************************)
(* Calls                                                                   *)
(***************************************************************************)
NoCall == [by |-> "none"]
CallInit == call = NoCall /\ got = Aborted
Elems(n) == [i \in 1..n |-> i]
Made(by, f, n, tail, r) == call' = [by |-> by, f |-> f, n |-> n, tail |-> tail] /\ got' = r

mcatch_callv == \E f \in Functions, n \in 0..MaxArgs : Made("callv", f, n, 0, docallv(f, Elems(n)))
mcatch_call1plus == \E f \in Functions, n \in 1..MaxArgs : Made("call1plus", f, n, 0, docall1plus(f, Elems(n)))
mcatch_call == \E f \in Functions, n \in 0..MaxArgs : Made("call", f, n, 0, docall_argv(f, Elems(n)))
apply_tail == \E f \in Functions, n \in 0..MaxArgs : \E tail \in 0..n :
                f.kind # "other" /\ Made("apply", f, n, tail, apply(f, Elems(n), tail))
execute_ins == \E f \in Functions, n \in 0..MAX_FUNCTION_ARGS : Made("execute", f, n, 0, execute(f, Elems(n)))
Finished == call # NoCall /\ call' = NoCall /\ got' = Aborted

CallNext == \/ /\ call = NoCall
               /\ \/ mcatch_callv \/ mcatch_call1plus \/ mcatch_call \/ apply_tail \/ execute_ins
            \/ Finished
CallSpec == CallInit /\ [][CallNext]_call_vars

(***************************************************************************)
(* Properties                                                              *)
(***************************************************************************)
\* A call that is let through reaches the function with all arguments in
\* their order, and a call that is not fails in an orderly way; a primitive
\* that may change its vector gets one that was made for it, never one the
\* program still has (call.h:90-113 "'args' must be newly allocated")
HandedOver ==
  /\ got.how # "abort"
  /\ got.how # "error" =>
       /\ got.fixed \o got.rest.elems = Elems(call.n)
       /\ got.how \in {"primitive", "varargs"} => Len(got.fixed) = call.f.n
       /\ got.how = "varargs" /\ call.f.copy => got.rest.made # "caller"

\* Everyone agrees on how many arguments a closure takes: callable?(), the
\* closure itself, the message of the error and the call trace; and on what
\* else may be called, the caller in C and the interpreter
ArityAgrees(f, n) ==
  f.kind = "closure" =>
    /\ callablep(f, n) <=> Prologue(f.params, n)
    /\ n <= MAX_FUNCTION_ARGS => /\ callablep(f, n) <=> InMessage(f.params, n)
                                 /\ callablep(f, n) <=> maybe_get_arguments(f.params, n)

\* However a function is called - from C, by apply(), from bytecode, in one
\* vector or one by one - its parameters get the arguments in their order, and
\* callable(), the interpreter and C agree on how many it takes; a call that
\* fails is one that function_callable() refuses (call.c).
ArgumentsArrive ==
  call # NoCall => /\ HandedOver
                   /\ ArityAgrees(call.f, call.n)
                   /\ got.how = "error" <=> function_callable(call.f, call.n) # "none"
=============================================================================
