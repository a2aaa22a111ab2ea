--------------------------- MODULE MCKernelInterface ---------------------------
(***************************************************************************)
(* Programs of one or two kernels: all kernels of up to two arguments and  *)
(* some longer ones, each before or after kernels that share bindings,     *)
(* shared memory or nothing with it.                                       *)
(***************************************************************************)
EXTENDS KernelInterface

Struct(size) == [size |-> size, align |-> 4, struct |-> TRUE, ubo |-> TRUE]

\* A struct whose members clspv does not admit in a uniform buffer.
Nested == [size |-> 8, align |-> 4, struct |-> TRUE, ubo |-> FALSE]

Arg(kind, type, used) == [kind |-> kind, type |-> type, used |-> used]

Float == Scalar(4)

Double == Scalar(8)

ArgKinds ==
    {Arg("ptr", Float, TRUE), Arg("ptr", Double, TRUE), Arg("ptr", Float, FALSE),
     Arg("global", Float, TRUE), Arg("local", Float, TRUE),
     Arg("pod", Float, TRUE), Arg("pod", Double, FALSE), Arg("pod", Struct(4), TRUE),
     Arg("pod", Nested, TRUE)}

Value(type) == Arg("pod", type, TRUE)

Pointer == Arg("ptr", Float, TRUE)

\* Values of all alignments between pointers, and structs in several places.
LongArgs ==
    {<<Value(Scalar(1)), Pointer, Value(Double), Pointer, Value(Float)>>,
     <<Value(Float), Pointer, Value(Double), Value(Struct(12))>>,
     <<Value(Struct(20)), Value(Float), Value(Scalar(2))>>,
     <<Value(Float), Value(Struct(4)), Value(Struct(4))>>,
     <<Value(Float), Value(Struct(4)), Value(Float)>>,
     <<Value(Scalar(2)), Value(Scalar(1)), Value(Struct(8))>>,
     <<Arg("local", Float, TRUE), Arg("local", Float, TRUE), Pointer>>}

ShortArgs == {<<>>} \union {<<x>> : x \in ArgKinds} \union (ArgKinds \X ArgKinds)

OtherArgs ==
    {<<>>, <<Pointer>>, <<Arg("ptr", Double, TRUE), Value(Float)>>,
     <<Arg("local", Double, TRUE)>>, <<Arg("local", Float, TRUE), Value(Float)>>}

\* Calls of printf: with a number and a literal, without arguments, with an empty
\* text, with a vector, and with a text that is not ASCII.
Number(size) == [size |-> size, literals |-> <<>>]

Literal(text) == [size |-> 4, literals |-> <<text>>]

Call(text, args) == [text |-> text, args |-> args]

Mixed == Call(<<37, 100>>, <<Number(4), Literal(<<97>>), Number(8)>>)

Plain == Call(<<97>>, <<>>)

Calls(call, n) == [i \in 1..n |-> call]

\* At and beyond the bound of ten formats, and of one digit for a size.
CallLists ==
    {Calls(Mixed, 5), Calls(Mixed, 6), Calls(Plain, 10), Calls(Plain, 11), Calls(Plain, 27),
     Calls(Call(<<>>, <<>>), 12), Calls(Call(<<>>, <<Number(16)>>), 11) \o <<Plain>>,
     <<Call(<<>>, <<Number(16)>>), Plain, Call(<<97>>, <<Number(12)>>)>>,
     <<Call(<<97>>, <<Number(16)>>)>>, <<Call(<<97>>, <<Literal(<<195, 169>>)>>)>>}

Kernel(args, printf) == [args |-> args, printf |-> printf]

MCPrograms ==
    LET one == ShortArgs \union LongArgs
    IN  {<<Kernel(x, <<Mixed>>)>> : x \in one}
        \union {<<Kernel(x, <<Mixed>>), Kernel(y, <<>>)>> : x \in one, y \in OtherArgs}
        \union {<<Kernel(y, <<Plain>>), Kernel(x, <<>>)>> : x \in one, y \in OtherArgs}
        \union {<<Kernel(x, calls), Kernel(<<>>, <<Mixed>>)>> : x \in OtherArgs, calls \in CallLists}

\* Programs of one kernel with values of which some are structs.
StructPrograms ==
    LET values == {Value(Float), Value(Struct(4)), Value(Struct(12))}
    IN  {<<Kernel(x, <<>>)>> : x \in (values \X values) \union (values \X values \X values)}

AllTypes ==
    {k.type : k \in UNION {UNION {Range(ks) : ks \in Range(Clustered(p))} : p \in Programs}}

AllModules == {Clustered(p) : p \in Programs}
===============================================================================
