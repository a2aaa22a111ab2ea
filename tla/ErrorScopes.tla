------------------------------ MODULE ErrorScopes ------------------------------
(***************************************************************************)
(* The error scopes of a WebGPU device, as webgpu.js and em.cpp use them:  *)
(* one stack per device, shared by everything that talks to the device.    *)
(* An error is captured by the innermost scope whose filter matches it,    *)
(* and only the first error of a scope is kept.  Popping takes the         *)
(* innermost scope, whoever pushed it.  The device is outside the          *)
(* repository; these operators are the part of it the bridge relies on.    *)
(***************************************************************************)
EXTENDS Naturals, Sequences

OutOfMemory == "out-of-memory"
Validation  == "validation"
Filters     == {OutOfMemory, Validation}

ScopeType == [filter : Filters, err : BOOLEAN]

Scope(f) == [filter |-> f, err |-> FALSE]

\* pushErrorScope(f)
PushScope(stack, f) == Append(stack, Scope(f))

\* The scope that captures an error of kind f; a kind outside Filters (no
\* error at all) is captured by none.
Captures(stack, f, i) ==
    /\ stack[i].filter = f
    /\ \A j \in DOMAIN stack : stack[j].filter = f => j <= i

\* The stack after an operation that raised the errors of kind f.
Raise(stack, f) ==
    [i \in DOMAIN stack |->
        [stack[i] EXCEPT !.err = @ \/ Captures(stack, f, i)]]

\* popErrorScope(): what it reports, and the stack it leaves.  Popping an
\* empty stack rejects, which both callers treat as an error.
PopReports(stack) == IF stack = <<>> THEN TRUE ELSE stack[Len(stack)].err
PopLeaves(stack)  == IF stack = <<>> THEN stack
                     ELSE SubSeq(stack, 1, Len(stack) - 1)
=============================================================================
