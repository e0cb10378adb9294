------------------------------ MODULE CallTrace -----------------------------
(***************************************************************************)
(* error.c: what is reported of the call stack when an error occurs, and   *)
(* to whom.  iterate_call_trace() walks call_stack from the innermost call *)
(* outwards, through the frames of compiled code, up to a catch that is a  *)
(* barrier, and leaves out the second of two entries for one primitive.    *)
(* Its users print a report with its middle left out, return a vector, and *)
(* collect what the profiler counts.                                       *)
(***************************************************************************)
EXTENDS Integers, Sequences, FiniteSets, SequencesExt, FiniteSetsExt

CONSTANTS
  Frames,                \* the calls there may be: [type, names, op]
  NONE,                  \* no primitive, no port
  Ports,                 \* ports that observe call traces
  Errs,                  \* the session's port for errors, or NONE
  BEFORE_SKIP_FRAMES, AFTER_SKIP_FRAMES,
  MaxDepth, MaxCatches   \* bounds on call_stack and catch_context

Operations == {frame.op : frame \in Frames} \cup {NONE}
FunctionNames == UNION {ToSet(frame.names) : frame \in Frames}
TraceAssumption ==
  /\ Frames \subseteq [type : {"bytecode", "c", "compiled", "string"}, names : Seq(FunctionNames), op : Operations]
  /\ \A frame \in Frames : frame.type = "string" => frame.names # <<>>
  /\ NONE \notin Ports
  /\ BEFORE_SKIP_FRAMES \in Nat /\ AFTER_SKIP_FRAMES \in Nat
ASSUME TraceAssumption

VARIABLES
  stack,                 \* call_stack, innermost last
  catches,               \* catch_context and its parents, innermost last:
                         \* old_call_stack, as a depth, and call_trace_mode
  err,                   \* session_context->ports.err
  targets,               \* call_trace_targets: [dst, unhandled_only]
  reports,               \* what the last step has sent: <<port, lines>>
  ctrace,                \* what the last step has collected for the profiler
  gathered,              \* history: what it was collected from
  occurred               \* history: stack, catches, targets and port of an
                         \* error, the primitive to hide
trace_vars == <<stack, catches, err, targets, reports, ctrace, gathered, occurred>>

(***************************************************************************)
(* A frame's names are the functions of its code, the innermost last;      *)
(* compiled code may be in a call of the primitive op, which has no frame  *)
(* of its own.                                                             *)
(***************************************************************************)
SessionEntry == [type |-> "session", names |-> <<>>, op |-> NONE]
TopFrame == Last(stack)
Entry(class, name) == [class |-> class, name |-> name]

(***************************************************************************)
(* iterate_call_trace(): the entries of a stack, the innermost first.      *)
(***************************************************************************)
Barrier(ctxts) == Max({0} \union {ctxts[i].at : i \in {j \in DOMAIN ctxts : ctxts[j].mode = "barrier"}})

c_frame(walk, op) ==
  IF walk.last = op /\ op # NONE THEN walk.entries ELSE Append(walk.entries, Entry("prim", op))

Walk(walk, frame) ==
  CASE frame.type \in {"c", "primop"} ->
         [entries |-> c_frame(walk, frame.op),
          last |-> IF frame.type = "primop" \/ walk.last # frame.op THEN frame.op ELSE NONE]
    [] frame.type = "string" ->
         [entries |-> Append(walk.entries, Entry("string", frame.names[1])), last |-> NONE]
    [] frame.type = "session" -> [entries |-> walk.entries, last |-> NONE]
    [] OTHER ->                                          \* iterate_cc_frame()
         [entries |-> (IF frame.op = NONE THEN walk.entries ELSE c_frame(walk, frame.op))
                      \o [i \in DOMAIN frame.names |->
                            Entry("mudlle", frame.names[Len(frame.names) + 1 - i])],
          last |-> NONE]

iterate_call_trace(frames, ctxts) ==
  LET walk[n \in 0..Len(frames)] ==
        IF n = 0 THEN [entries |-> <<>>, last |-> NONE]
        ELSE Walk(walk[n - 1], frames[Len(frames) + 1 - n])
  IN  walk[Len(frames) - Barrier(ctxts)].entries

count_stack_depth(frames, ctxts, maxdepth) == Min({maxdepth, Len(iterate_call_trace(frames, ctxts))})
get_mudlle_call_trace(frames, ctxts, maxdepth) ==
  SubSeq(iterate_call_trace(frames, ctxts), 1, count_stack_depth(frames, ctxts, maxdepth))

(***************************************************************************)
(* print_call_trace(): hide is the primitive that is not shown when it is  *)
(* the first.                                                              *)
(***************************************************************************)
Skipped(n) == Entry("skipped", n)
Hidden(entry, hide) == hide # NONE /\ entry = Entry("prim", hide)

\* Mutant: one frame too many at the end
should_print_AfterToo(p) == p.current + AFTER_SKIP_FRAMES >= p.depth
should_print(p) == p.current <= BEFORE_SKIP_FRAMES \/ p.current + AFTER_SKIP_FRAMES > p.depth
Shown(p, entry) ==
  LET next == [p EXCEPT !.current = @ + 1]
      left == p.depth - BEFORE_SKIP_FRAMES - AFTER_SKIP_FRAMES
  IN CASE should_print(next) -> [next EXCEPT !.lines = Append(@, entry)]
       [] ~should_print(next) /\ next.current = BEFORE_SKIP_FRAMES + 1 ->
            [next EXCEPT !.lines = Append(@, IF left = 1 THEN entry ELSE Skipped(left))]
       [] OTHER -> next
print_frame(p, entry) ==
  IF p.current = 0 /\ Hidden(entry, p.hide) THEN [p EXCEPT !.depth = @ - 1, !.hide = NONE]
  ELSE Shown(p, entry)
print_call_trace(entries, hide) ==
  LET pinfo[n \in 0..Len(entries)] ==
        IF n = 0 THEN [current |-> 0, depth |-> Len(entries), hide |-> hide, lines |-> <<>>]
        ELSE print_frame(pinfo[n - 1], entries[n])
  IN  pinfo[Len(entries)].lines

(***************************************************************************)
(* basic_error()                                                           *)
(***************************************************************************)
\* Is this target sent the report?
Informed(target) == target.dst # err /\ ~(target.unhandled_only /\ err # NONE)
Lines(frames, hide) == print_call_trace(iterate_call_trace(frames, catches), hide)
\* Who is sent a report: the session's port, then the targets in their order
Told ==
  LET told[n \in 0..Len(targets)] ==
        IF n = 0 THEN IF err = NONE THEN <<>> ELSE <<err>>
        ELSE IF Informed(targets[n]) THEN Append(told[n - 1], targets[n].dst) ELSE told[n - 1]
  IN  told[Len(targets)]
basic_error(frames, hide) ==
  /\ reports' = IF Last(catches).mode = "off" THEN <<>>
                ELSE [i \in DOMAIN Told |-> <<Told[i], Lines(frames, hide)>>]
  /\ occurred' = <<[stack |-> frames, catches |-> catches, targets |-> targets, err |-> err, hide |-> hide]>>
  /\ ctrace' = <<>> /\ gathered' = <<>>

\* mthrow() goes on after the innermost mcatch()
mthrow ==
  /\ stack' = SubSeq(stack, 1, Last(catches).at)
  /\ catches' = Front(catches)
NoError == reports' = <<>> /\ occurred' = <<>> /\ ctrace' = <<>> /\ gathered' = <<>>

runtime_error_hide_tos(hide) ==
  /\ catches # <<>> /\ TopFrame.op = hide
  /\ basic_error(stack, hide) /\ mthrow
  /\ UNCHANGED <<err, targets>>
runtime_warning(hide) ==
  /\ catches # <<>> /\ TopFrame.op = hide
  /\ basic_error(stack, hide)
  /\ UNCHANGED <<stack, catches, err, targets>>

\* An error or a warning in the primitive op, which may not have a frame yet
Primitive(op) == IF TopFrame.type = "c" /\ TopFrame.op = op THEN stack
                 ELSE Append(stack, [type |-> "primop", names |-> <<>>, op |-> op])
Runs(op) == op # NONE /\ (TopFrame.type = "c" \/ (TopFrame.type = "compiled" /\ TopFrame.op = op))
primitive_runtime_error(op) ==
  /\ catches # <<>> /\ Runs(op)
  /\ basic_error(Primitive(op), NONE) /\ mthrow
  /\ UNCHANGED <<err, targets>>
primitive_runtime_warning(op) ==
  /\ catches # <<>> /\ Runs(op)
  /\ basic_error(Primitive(op), NONE)
  /\ UNCHANGED <<stack, catches, err, targets>>

(***************************************************************************)
(* get_c_call_trace(): where the same calls come again and again, they are *)
(* collected once.                                                         *)
(***************************************************************************)
\* Do the last d entries, with e, repeat what is before them?
Repeats(trace, e, d) ==
  LET n == Len(trace) IN
  /\ n >= 2 * d - 1
  /\ trace[n + 1 - d] = e
  /\ \A i \in 1..d - 1 : trace[n + 1 - i] = trace[n + 1 - d - i]

\* Mutant: recursions of two functions are not noticed
add_trace_entry_Stride(trace, e) ==
  IF Repeats(trace, e, 1) THEN Front(trace) ELSE Append(trace, e)
add_trace_entry(trace, e) ==
  LET strides == {d \in 1..3 : Repeats(trace, e, d)} IN
  IF strides = {} THEN Append(trace, e) ELSE SubSeq(trace, 1, Len(trace) - Min(strides))

c_trace(entries) ==
  LET trace[n \in 0..Len(entries)] == IF n = 0 THEN <<>> ELSE add_trace_entry(trace[n - 1], entries[n])
  IN  trace[Len(entries)]
get_c_call_trace ==
  /\ gathered' = iterate_call_trace(stack, catches)
  /\ ctrace' = c_trace(gathered')
  /\ reports' = <<>> /\ occurred' = <<>>
  /\ UNCHANGED <<stack, catches, err, targets>>

(***************************************************************************)
(* Calls, returns and catches                                              *)
(***************************************************************************)
Call(frame) ==
  /\ Len(stack) < MaxDepth
  /\ stack' = Append(stack, frame) /\ NoError /\ UNCHANGED <<catches, err, targets>>
Caught == IF catches = <<>> THEN 1 ELSE Last(catches).at
call_returns ==
  /\ Len(stack) > Caught
  /\ stack' = Front(stack) /\ NoError /\ UNCHANGED <<catches, err, targets>>
mcatch(mode) ==
  /\ Len(catches) < MaxCatches
  /\ catches' = Append(catches, [at |-> Len(stack), mode |-> mode])
  /\ NoError /\ UNCHANGED <<stack, err, targets>>
mcatch_returns ==
  /\ catches # <<>> /\ Caught = Len(stack)
  /\ catches' = Front(catches)
  /\ NoError /\ UNCHANGED <<stack, err, targets>>

remove_call_trace(dst) ==
  LET at == {i \in DOMAIN targets : targets[i].dst = dst} IN
  IF at = {} THEN targets ELSE RemoveAt(targets, Min(at))

\* Mutant: a port that observes already is added again
add_call_trace_port_Twice(dst, unhandled_only) ==
  /\ targets' = <<[dst |-> dst, unhandled_only |-> unhandled_only]>> \o targets
  /\ Len(targets) < 2 /\ NoError /\ UNCHANGED <<stack, catches, err>>
add_call_trace_port(dst, unhandled_only) ==
  /\ targets' = <<[dst |-> dst, unhandled_only |-> unhandled_only]>> \o remove_call_trace(dst)
  /\ NoError /\ UNCHANGED <<stack, catches, err>>
remove_call_trace_port(dst) ==
  /\ targets' = remove_call_trace(dst)
  /\ NoError /\ UNCHANGED <<stack, catches, err>>

TraceInit ==
  /\ stack = <<SessionEntry>> /\ catches = <<[at |-> 1, mode |-> "on"]>>
  /\ err \in Errs
  /\ targets = <<>> /\ reports = <<>> /\ ctrace = <<>> /\ gathered = <<>> /\ occurred = <<>>

Ops == {frame.op : frame \in Frames}
TraceNext ==
  \/ \E frame \in Frames : Call(frame)
  \/ call_returns
  \/ \E mode \in {"off", "barrier", "on"} : mcatch(mode)
  \/ mcatch_returns
  \/ \E hide \in Ops : runtime_error_hide_tos(hide) \/ runtime_warning(hide)
  \/ \E op \in Ops : primitive_runtime_error(op) \/ primitive_runtime_warning(op)
  \/ get_c_call_trace
  \/ \E dst \in Ports, unhandled_only \in BOOLEAN : add_call_trace_port(dst, unhandled_only)
  \/ \E dst \in Ports : remove_call_trace_port(dst)
TraceSpec == TraceInit /\ [][TraceNext]_trace_vars

(***************************************************************************)
(* Properties                                                              *)
(***************************************************************************)
\* A printed report is the trace of call_trace() without its middle: each
\* call is either shown or counted in the one line about skipped frames, the
\* hidden primitive apart.
Abbreviates(lines, whole) ==
  LET n == Len(whole) IN
  IF Len(lines) = n THEN lines = whole
  ELSE /\ Len(lines) = BEFORE_SKIP_FRAMES + 1 + AFTER_SKIP_FRAMES
       /\ \A i \in 1..BEFORE_SKIP_FRAMES : lines[i] = whole[i]
       /\ lines[BEFORE_SKIP_FRAMES + 1] = Skipped(n - Len(lines) + 1)
       /\ \A i \in 1..AFTER_SKIP_FRAMES : lines[Len(lines) + 1 - i] = whole[n + 1 - i]
AllButHidden(whole, hide) == IF whole # <<>> /\ Hidden(Head(whole), hide) THEN Tail(whole) ELSE whole
\* call_trace(n) of an error, for an n that is large enough
WholeTrace(e) == get_mudlle_call_trace(e.stack, e.catches, Len(iterate_call_trace(e.stack, e.catches)))
ReportWhole ==
  \A i \in DOMAIN reports :
    Abbreviates(reports[i][2], AllButHidden(WholeTrace(occurred[1]), occurred[1].hide))

\* An error is reported once to each port that is to know of it: the session's
\* own, and every observer unless it wants only what nobody else sees.
Wants(e, port) ==
  \E i \in DOMAIN e.targets : e.targets[i].dst = port /\ (e.targets[i].unhandled_only => e.err = NONE)
ToldOnce ==
  occurred # <<>> =>
    \A port \in Ports :
      LET e == occurred[1]
          sent == {i \in DOMAIN reports : reports[i][1] = port}
      IN Cardinality(sent) = IF Last(e.catches).mode # "off" /\ (port = e.err \/ Wants(e, port)) THEN 1 ELSE 0

\* What the profiler counts does not repeat a stretch of up to three calls
Repeatless(trace) ==
  \A d \in 1..3, n \in DOMAIN trace :
    n >= 2 * d => SubSeq(trace, n - 2 * d + 1, n - d) # SubSeq(trace, n - d + 1, n)
NoRepeats == Repeatless(ctrace)

\* and every function on the stack is still there.
NoneLost ==
  gathered # <<>> => ToSet(ctrace) = ToSet(gathered)

\* An error is reported once to each port that is to know of it; the report
\* is the trace of call_trace() without its middle, in which each call is shown
\* or counted; and what the profiler counts repeats no stretch (error.c:1198,
\* 1297, 1433).
ReportedOnce == ToldOnce /\ ReportWhole /\ NoRepeats
=============================================================================
