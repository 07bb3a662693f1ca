---------------------------- MODULE MethodTrace ----------------------------
(***************************************************************************)
(* The trace functions of trace_flow.py and esg_sample.py: what they make  *)
(* of the calls and returns of addon code, and what is computed from it.   *)
(* Both are told of a frame when it is called and, if they asked for it,   *)
(* when it returns, whether or not with an exception.                      *)
(***************************************************************************)
EXTENDS Integers, Sequences, FiniteSets, FiniteSetsExt

CONSTANTS MAX_DEPTH, MAX_CALLS, ESG_MAX_DEPTH, ESG_MAX_CALLS

ASSUME TraceAssumption ==
    /\ MAX_DEPTH \in Nat /\ MAX_CALLS \in Nat
    /\ ESG_MAX_DEPTH \in Nat /\ ESG_MAX_CALLS \in Nat

(* trace_flow: the calls in order, each with its depth and its SQL count:  *)
(* the counter's value at the call until the return, then the difference.  *)
NoFlow == [calls |-> <<>>, depth |-> 0]

\* Mutant: the limit is off by one.
RefusedLate(t) == t.depth > MAX_DEPTH + 1 \/ Len(t.calls) >= MAX_CALLS
Refused(t) == t.depth > MAX_DEPTH \/ Len(t.calls) >= MAX_CALLS

\* frame_idx[id(frame)], 0 if the frame has no entry.
flow_idx(t) == IF Refused(t) THEN 0 ELSE Len(t.calls) + 1

flow_call(t, sql) ==
    IF Refused(t) THEN t
    ELSE [calls |-> Append(t.calls, [depth |-> t.depth, sql |-> sql]),
          depth |-> t.depth + 1]

\* The code's max(0, depth - 1): TypeOK says that 0 needs no guard.
flow_return(t, idx, sql) ==
    IF idx = 0 THEN t
    ELSE [calls |-> [t.calls EXCEPT ![idx].sql = sql - @], depth |-> t.depth - 1]

\* Mutant: a call at the same depth is left on the stack of ancestors.
ParentSameDepth(calls, i) ==
    {j \in 1..i - 1 : calls[j].depth <= calls[i].depth
                      /\ \A k \in j + 1..i - 1 : calls[k].depth > calls[i].depth}
\* The last call before i that is less deep, which is still open.
Parent(calls, i) ==
    {j \in 1..i - 1 : calls[j].depth < calls[i].depth
                      /\ \A k \in j + 1..i - 1 : calls[k].depth >= calls[i].depth}

\* The sum of f[i] for i in S.
Total(f, S) == MapThenSumSet(LAMBDA i : f[i], S)

SqlOf(calls) == [i \in DOMAIN calls |-> calls[i].sql]
Children(calls, i) == {j \in DOMAIN calls : i \in Parent(calls, j)}

compute_self_sql(calls) ==
    [i \in DOMAIN calls |-> calls[i].sql - Total(SqlOf(calls), Children(calls, i))]

-----------------------------------------------------------------------------
(* esg_sample: a stack of the models whose methods are open, and an edge   *)
(* for each call from one model to another.                                *)
NoSkeleton == [stack |-> <<>>, edges |-> {}, n_calls |-> 0]

Edge(a, b) == IF a = b THEN {} ELSE {<<a, b>>}

skeleton_call(e, model) ==
    [stack |-> Append(e.stack, model), n_calls |-> e.n_calls + 1,
     edges |-> e.edges \union (IF e.stack = <<>> THEN {}
                               ELSE Edge(e.stack[Len(e.stack)], model))]

\* Past a limit the frame is on the stack, but its return is not asked for.
skeleton_follows(e) ==
    LET after == skeleton_call(e, "")
    IN  after.n_calls <= ESG_MAX_CALLS /\ Len(after.stack) <= ESG_MAX_DEPTH

\* Mutant: what returns stays on the stack.
skeleton_return_kept(e) == e
skeleton_return(e) ==
    IF e.stack = <<>> THEN e ELSE [e EXCEPT !.stack = SubSeq(@, 1, Len(@) - 1)]
=============================================================================
