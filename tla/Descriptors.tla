------------------------------ MODULE Descriptors ------------------------------
(***************************************************************************)
(* The pass of clspv that gives the parameters of all kernels of a module  *)
(* their resources: a variable with a descriptor binding, or, for memory   *)
(* shared by a workgroup, a specialization constant with its length.  The  *)
(* pass goes over the used parameters in the order of the module three     *)
(* times, once per stage: it looks for variables that kernels can share    *)
(* (scan), assigns bindings (bind), and then the constants (local).        *)
(***************************************************************************)
EXTENDS Integers, Sequences

CONSTANTS
    Types,     \* the types of parameters
    Modules    \* modules: of each kernel, its parameters

Kinds == {"buffer", "local", "pod_ubo", "pod"}

Param == [kind : Kinds, type : Types, used : BOOLEAN]

ASSUME ModulesAssumption == Modules \subseteq Seq(Seq(Param))

VARIABLES
    kernels,     \* the module that is compiled
    stage,       \* scan, bind, local or done
    todo,        \* the parameters that are left in this stage
    keys,        \* discriminant_map: the discriminants, by their indexes
    variable,    \* the index of the resource variable of a parameter
    slots,       \* the argument indexes that have a binding, by the binding
    bound,       \* the binding of a parameter
    constants,   \* the types of the constants allocated for local memory
    specId       \* the constant of a parameter

descriptorVars == <<kernels, stage, todo, keys, variable, slots, bound, constants, specId>>

With(f, p, v) == [q \in DOMAIN f \cup {p} |-> IF q = p THEN v ELSE f[q]]

---------------------------------------------------------------------------
\* A parameter is named by its kernel and its index; unused ones are skipped.
At(p) == kernels[p[1]][p[2]]

Used(ks, local) ==
    {p \in (DOMAIN ks) \X UNION {DOMAIN ks[k] : k \in DOMAIN ks} :
        /\ p[2] \in DOMAIN ks[p[1]]
        /\ ks[p[1]][p[2]].used
        /\ (ks[p[1]][p[2]].kind = "local") = local}

First(p, S) ==
    p \in S /\ \A q \in S : p[1] < q[1] \/ (p[1] = q[1] /\ p[2] <= q[2])

\* Wrong: the same variable for parameters with different indexes.
KeyOfType(p) == [type |-> At(p).type, space |-> At(p).kind]

\* What parameters of several kernels must agree in to share a variable.  A
\* parameter that is coherent has a type of its own.
Key(p) == [type |-> At(p).type, index |-> p[2], space |-> At(p).kind]

\* The first 3 constants are the size of a workgroup.
FirstLocalId == 3

\* Wrong: every kernel has constants of its own.
NoneReusable(p) == {}

\* The constants of p's type that its kernel does not use yet.
Reusable(p) ==
    {n \in 1..Len(constants) :
        /\ constants[n] = At(p).type
        /\ \A q \in DOMAIN specId : q[1] = p[1] => specId[q] # FirstLocalId + n - 1}

---------------------------------------------------------------------------
Scan(p) ==
    /\ stage = "scan" /\ First(p, todo)
    /\ \/ \E n \in 1..Len(keys) :
             /\ keys[n] = Key(p)
             /\ variable' = With(variable, p, n - 1)
             /\ UNCHANGED keys
       \/ /\ \A n \in 1..Len(keys) : keys[n] # Key(p)
          /\ keys' = Append(keys, Key(p))
          /\ variable' = With(variable, p, Len(keys))
    /\ todo' = todo \ {p}
    /\ UNCHANGED <<kernels, stage, slots, bound, constants, specId>>

\* All kernels use one descriptor set, in which an argument index has one binding.
Bind(p) ==
    /\ stage = "bind" /\ First(p, todo)
    /\ \/ \E n \in 1..Len(slots) :
             /\ slots[n] = p[2]
             /\ bound' = With(bound, p, n - 1)
             /\ UNCHANGED slots
       \/ /\ \A n \in 1..Len(slots) : slots[n] # p[2]
          /\ slots' = Append(slots, p[2])
          /\ bound' = With(bound, p, Len(slots))
    /\ todo' = todo \ {p}
    /\ UNCHANGED <<kernels, stage, keys, variable, constants, specId>>

\* GetSpecId takes the first constant of the type that the kernel does not use.
Specialize(p) ==
    /\ stage = "local" /\ First(p, todo)
    /\ \/ \E n \in Reusable(p) :
             /\ \A m \in Reusable(p) : n <= m
             /\ specId' = With(specId, p, FirstLocalId + n - 1)
             /\ UNCHANGED constants
       \/ /\ Reusable(p) = {}
          /\ constants' = Append(constants, At(p).type)
          /\ specId' = With(specId, p, FirstLocalId + Len(constants))
    /\ todo' = todo \ {p}
    /\ UNCHANGED <<kernels, stage, keys, variable, slots, bound>>

NextStage ==
    /\ todo = {} /\ stage # "done"
    /\ stage' = CASE stage = "scan" -> "bind" [] stage = "bind" -> "local"
                  [] stage = "local" -> "done"
    /\ todo' = CASE stage = "scan" -> Used(kernels, FALSE)
                 [] stage = "bind" -> Used(kernels, TRUE)
                 [] stage = "local" -> {}
    /\ UNCHANGED <<kernels, keys, variable, slots, bound, constants, specId>>

Start(ks) ==
    /\ kernels = ks
    /\ stage = "scan" /\ todo = Used(ks, FALSE)
    /\ keys = <<>> /\ variable = <<>>
    /\ slots = <<>> /\ bound = <<>>
    /\ constants = <<>> /\ specId = <<>>

DescriptorsInit == \E ks \in Modules : Start(ks)

Allocate == NextStage \/ \E p \in todo : Scan(p) \/ Bind(p) \/ Specialize(p)

DescriptorsSpec == DescriptorsInit /\ [][Allocate]_descriptorVars

---------------------------------------------------------------------------
\* A resource variable, which parameters of several kernels may share, is decorated
\* with one binding, although variables and bindings are found in passes of their
\* own ("A single resource variable can only be decorated once").
OneBinding ==
    \A p, q \in DOMAIN bound : variable[p] = variable[q] => bound[p] = bound[q]

\* No two parameters of a kernel have the same binding.
OwnBindings ==
    \A p, q \in DOMAIN bound : p[1] = q[1] /\ bound[p] = bound[q] => p = q

\* No two parameters of a kernel have the same specialization constant, and only
\* parameters of one type share it.
OwnConstants ==
    \A p, q \in DOMAIN specId : specId[p] = specId[q] =>
        /\ p[1] = q[1] => p = q
        /\ At(p).type = At(q).type

ResourcesDistinct == OneBinding /\ OwnBindings /\ OwnConstants
===============================================================================
