---------------------------- MODULE KernelInterface ----------------------------
(***************************************************************************)
(* How the arguments of a launch reach a kernel.  clspv moves the          *)
(* arguments passed by value into one uniform struct, gives all parameters *)
(* their resources (Descriptors) and describes them in reflection lines,   *)
(* behind which come the formats of printf (PrintfFormats).  The page      *)
(* builds its table of kernels from the lines and keeps those of printf,   *)
(* which the program's runtime reads when it starts; a launch fills the    *)
(* bindings and the override of the shared memory from the table.          *)
(***************************************************************************)
EXTENDS Descriptors, PrintfFormats

CONSTANTS
    Programs,   \* programs: of each kernel, its arguments and its calls of printf
    Memories    \* the bytes of shared memory that launches ask for

VARIABLES
    program,
    lines,      \* the reflection: of each kernel, the lines of its arguments ...
    printfLines,  \* ... and the lines of the formats
    table,      \* wgpuKernelMap
    printfData, \* the map of the runtime, once that is started
    pass        \* what the last launch gave to the device

NoPass == [kernel |-> 0]

NoData == [started |-> FALSE]

formatVars == <<printfLines, printfData>>

interfaceVars == <<descriptorVars, formatVars, program, lines, table, pass>>

---------------------------------------------------------------------------
\* Offsets of the members of a struct.
AlignTo(n, align) == ((n + align - 1) \div align) * align

Ends(types) ==
    LET end[i \in 0..Len(types)] ==
            IF i = 0 THEN 0 ELSE AlignTo(end[i - 1], types[i].align) + types[i].size
    IN  end

Offset(types, i) == Ends(types)[i] - types[i].size

\* The positions in the source of the arguments by value, or of the others, in order.
Ordinals(args, byValue) ==
    LET S == {i \in DOMAIN args : (args[i].kind = "pod") = byValue}
    IN  [n \in 1..Cardinality(S) |->
            CHOOSE i \in S : Cardinality({j \in S : j <= i}) = n]

PodTypes(args) ==
    [j \in DOMAIN Ordinals(args, TRUE) |-> args[Ordinals(args, TRUE)[j]].type]

\* AutoPodArgs: a uniform buffer, unless the layout of some struct forbids it.
PodKind(args) ==
    IF \A j \in DOMAIN PodTypes(args) : PodTypes(args)[j].ubo THEN "pod_ubo" ELSE "pod"

\* What is put before a member: it is computed from the offsets without padding.
Padding(types, i) ==
    IF types[i].struct THEN AlignTo(Offset(types, i), 16) - Offset(types, i) ELSE 0

Scalar(n) == [size |-> n, align |-> n, struct |-> FALSE, ubo |-> TRUE]

PadMembers(n) ==
    [j \in 1..((n % 4) + (n \div 4)) |-> IF j <= (n % 4) THEN Scalar(1) ELSE Scalar(4)]

\* The members of the struct that replaces the arguments, and that of argument j,
\* whose index is corrected by its own padding.
Members(args) ==
    LET types == PodTypes(args)
        padded(j) == Append(PadMembers(Padding(types, j)), types[j])
    IN  IF PodKind(args) = "pod" THEN types
        ELSE FlattenSeq([j \in DOMAIN types |-> padded(j)])

MemberOf(args, j) ==
    IF PodKind(args) = "pod" THEN j
    ELSE j + Len(PadMembers(Padding(PodTypes(args), j)))

\* Wrong: the offset in the struct without padding.
UnpaddedOffset(args, j) == Offset(PodTypes(args), j)

\* The offset that is written to the map of arguments.
ArgOffset(args, j) == Offset(Members(args), MemberOf(args, j))

\* The parameters of the kernel that replaces the original: the others first.
Params(args) ==
    LET others == Ordinals(args, FALSE)
        kind(i) == IF args[i].kind = "local" THEN "local" ELSE "buffer"
        byValue == [kind |-> PodKind(args), type |-> [members |-> Members(args)],
                    used |-> \E i \in DOMAIN args : args[i].kind = "pod" /\ args[i].used]
    IN  [n \in DOMAIN others |->
            [kind |-> kind(others[n]), type |-> args[others[n]].type,
             used |-> args[others[n]].used]]
        \o IF Ordinals(args, TRUE) = <<>> THEN <<>> ELSE <<byValue>>

Clustered(prog) == [k \in DOMAIN prog |-> Params(prog[k].args)]

\* No type has the size zero, and the modules are those that programs become.
ArgTypes == [size : Nat \ {0}, align : Nat \ {0}, struct : BOOLEAN, ubo : BOOLEAN]

Arguments == [kind : {"ptr", "global", "local", "pod"}, type : ArgTypes, used : BOOLEAN]

ASSUME ProgramsAssumption ==
    \A prog \in Programs : /\ prog \in Seq([args : Seq(Arguments), printf : Seq(PrintfCalls)])
                           /\ Clustered(prog) \in Modules

ASSUME MemoriesAssumption == Memories \subseteq Nat

---------------------------------------------------------------------------
\* The binding of a variable is that of the first of its uses.
BindingOf(p) == bound[CHOOSE q \in DOMAIN bound : variable[q] = variable[p]]

\* AddArgumentReflection.
Line(k, o, p, offset) ==
    LET arg == program[k].args[o]
        param == At(p)
    IN  [ordinal |-> o, global |-> arg.kind = "global", kind |-> param.kind,
         binding |-> IF param.kind = "local" THEN 0 ELSE BindingOf(p),
         specId |-> IF param.kind = "local" THEN specId[p] ELSE 0,
         offset |-> offset, size |-> arg.type.size]

\* GenerateKernelReflection: the lines of a kernel by their places in the map of
\* arguments, which has the values behind the others, and where those whose parameter
\* has no resource have no line.
KernelLines(k) ==
    LET args == program[k].args
        others == Ordinals(args, FALSE)
        ordinals == others \o Ordinals(args, TRUE)
        param(n) == <<k, IF n <= Len(others) THEN n ELSE Len(kernels[k])>>
        offset(n) == IF n <= Len(others) THEN 0 ELSE ArgOffset(args, n - Len(others))
    IN  [n \in {m \in DOMAIN ordinals : At(param(m)).used} |->
            Line(k, ordinals[n], param(n), offset(n))]

\* The formats of the module, in the order of its calls.
Formats(prog) == FormatTable(FlattenSeq([k \in DOMAIN prog |-> prog[k].printf]))

Reflect ==
    /\ stage = "done" /\ lines = <<>>
    /\ lines' = [k \in DOMAIN program |-> KernelLines(k)]
    /\ printfLines' = PrintfLines(Formats(program))
    /\ UNCHANGED <<descriptorVars, program, table, printfData, pass>>

\* The table of the page.
BufferType(kind) == IF kind = "buffer" THEN "storage" ELSE "uniform"

Entries(args, globals) ==
    {[binding |-> args[n].binding, type |-> BufferType(args[n].kind)] :
        n \in {m \in DOMAIN args : args[m].global = globals}}

TableEntry(k) ==
    LET known == {n \in DOMAIN lines[k] : lines[k][n].kind \in {"buffer", "pod_ubo"}}
        args == Restrict(lines[k], known)
        locals == {n \in DOMAIN lines[k] : lines[k][n].kind = "local"}
    IN  [args |-> args,
         dynamicMem |-> IF locals = {} THEN 0 ELSE lines[k][Max(locals)].size,
         printf |-> program[k].printf # <<>>,
         layout |-> Entries(args, FALSE),
         complete |-> \A n \in DOMAIN args : ~args[n].global]

BuildTable ==
    /\ lines # <<>> /\ table = <<>>
    /\ table' = [k \in DOMAIN lines |-> TableEntry(k)]
    /\ UNCHANGED <<descriptorVars, formatVars, program, lines, pass>>

\* The program's module is loaded with the lines in a file, and reads it.
StartModule ==
    /\ table # <<>> /\ printfData = NoData
    /\ printfData' = [started |-> TRUE, map |-> FormatMap(printfLines)]
    /\ UNCHANGED <<descriptorVars, printfLines, program, lines, table, pass>>

\* Wrong: the printf buffer follows the bindings only of a kernel that has them.
LastKernelHasBindings == DOMAIN Last(table).args # {}

AnyKernelHasBindings == \E k \in DOMAIN table : DOMAIN table[k].args # {}

\* What the arguments put into byte b of the uniform buffer of a binding: the last
\* of those that reach it.
ByteAt(args, binding, b) ==
    LET writers == {n \in DOMAIN args :
                       /\ args[n].kind = "pod_ubo" /\ args[n].binding = binding
                       /\ b \in args[n].offset..(args[n].offset + args[n].size - 1)}
        n == Max(writers)
    IN  IF writers = {} THEN <<0, 0>> ELSE <<args[n].ordinal, b - args[n].offset>>

UniformSize(args, binding) ==
    Max({args[n].offset + args[n].size :
            n \in {m \in DOMAIN args : args[m].binding = binding}})

Uniforms(args) ==
    [binding \in {l.binding : l \in {x \in Range(args) : x.kind = "pod_ubo"}} |->
        [b \in 0..(UniformSize(args, binding) - 1) |-> ByteAt(args, binding, b)]]

Buffers(args) ==
    [binding \in {l.binding : l \in {x \in Range(args) : x.kind = "buffer"}} |->
        (CHOOSE l \in Range(args) : l.kind = "buffer" /\ l.binding = binding).ordinal]

\* wasm_hipLaunchKernel.  The layout of a kernel that uses variables of the device
\* is made at its first launch, when they have buffers.
Launch(k, memory) ==
    LET kernel == table[k]
        layout == kernel.layout \union Entries(kernel.args, TRUE)
        groups == IF ~kernel.complete \/ AnyKernelHasBindings THEN <<layout>> ELSE <<>>
    IN  /\ printfData # NoData
        /\ table' = [table EXCEPT ![k].layout = layout]
        /\ pass' = [kernel |-> k,
                    layouts |-> groups \o IF kernel.printf THEN <<"printf">> ELSE <<>>,
                    printfGroup |-> IF AnyKernelHasBindings THEN 2 ELSE 1,
                    uniforms |-> Uniforms(kernel.args),
                    buffers |-> Buffers(kernel.args),
                    asked |-> memory,
                    shared |-> IF kernel.dynamicMem = 0 THEN 1
                               ELSE Max({memory \div kernel.dynamicMem, 1})]
        /\ UNCHANGED <<descriptorVars, formatVars, program, lines>>

InterfaceInit ==
    /\ program \in Programs
    /\ Start(Clustered(program))
    /\ lines = <<>> /\ table = <<>> /\ pass = NoPass
    /\ printfLines = <<>> /\ printfData = NoData

Compile == Allocate /\ UNCHANGED <<formatVars, program, lines, table, pass>>

InterfaceNext ==
    \/ Compile \/ Reflect \/ BuildTable \/ StartModule
    \/ \E k \in DOMAIN table, memory \in Memories : Launch(k, memory)

InterfaceSpec == InterfaceInit /\ [][InterfaceNext]_interfaceVars

---------------------------------------------------------------------------
Launched == pass # NoPass

LaunchedArgs == program[pass.kernel].args

\* Arguments by value whose index is right: none before it is padded.
WellPlaced(args) ==
    \A i, j \in DOMAIN PodTypes(args) : i < j => Padding(PodTypes(args), i) = 0

\* The kernel finds every argument that it uses, a buffer at the binding of its
\* variable and a value, byte by byte, in the member of its type, as the launch
\* passed it: as long as no padding precedes another argument by value, which
\* shifts the indexes that clspv keeps, and the values are in a uniform buffer.
ArgumentsArrive ==
    Launched =>
        LET k == pass.kernel
            args == LaunchedArgs
            others == Ordinals(args, FALSE)
            values == Ordinals(args, TRUE)
            last == <<k, Len(kernels[k])>>
        IN  /\ \A n \in DOMAIN others :
                  args[others[n]].used /\ args[others[n]].kind # "local" =>
                      pass.buffers[BindingOf(<<k, n>>)] = others[n]
            /\ WellPlaced(args) /\ PodKind(args) = "pod_ubo" =>
                  \A j \in DOMAIN values : args[values[j]].used =>
                      LET m == MemberOf(args, j)
                          uniform == pass.uniforms[BindingOf(last)]
                          at(b) == Offset(Members(args), m) + b
                      IN  /\ Members(args)[m] = args[values[j]].type
                          /\ \A b \in 0..(args[values[j]].type.size - 1) :
                                at(b) \in DOMAIN uniform /\ uniform[at(b)] = <<values[j], b>>

\* The layout of a launch has the variables the kernel uses, no more and no fewer,
\* and its printf buffer is in the set that clspv took for it, after that of the
\* arguments of any kernel; the page knows no values in a storage buffer.
LaunchLayouts ==
    Launched /\ (\A k \in DOMAIN program : PodKind(program[k].args) = "pod_ubo") =>
        LET k == pass.kernel
            uses == {<<k, n>> : n \in {m \in DOMAIN kernels[k] :
                        kernels[k][m].used /\ kernels[k][m].kind # "local"}}
            printfSet == IF slots = <<>> THEN 1 ELSE 2
        IN  /\ uses # {} =>
                  pass.layouts[1] = {[binding |-> BindingOf(p),
                                      type |-> BufferType(At(p).kind)] : p \in uses}
            /\ program[k].printf # <<>> =>
                  /\ pass.printfGroup = printfSet
                  /\ Len(pass.layouts) = printfSet

\* The program finds each format and literal of its kernels, and the sizes of the
\* arguments, under the identifier that the kernel stores, if no number behind the
\* first text needs a second digit and all texts are ASCII, and never otherwise.
FormatsRead ==
    printfData.started =>
        (Faithful(printfData.map, Formats(program)) <=> Printable(Formats(program)))

\* What the page and the program read from the reflection is what clspv described.
ReflectionIsRead == LaunchLayouts /\ FormatsRead

\* The shared memory of a kernel is as long as its launch asks for, whole elements,
\* at least one: the override is that of the first constant, and every kernel uses
\* it unless there are shared arrays of two types or two in a kernel.
SharedIsGiven ==
    Launched /\ (\A p, q \in DOMAIN specId :
                    At(p).type = At(q).type /\ (p[1] = q[1] => p = q)) =>
        \A p \in DOMAIN specId : p[1] = pass.kernel =>
            LET length == IF specId[p] = FirstLocalId THEN pass.shared ELSE 1
            IN  (length + 1) * At(p).type.size > pass.asked

\* Once padding is inserted before structs, the index kept for an argument by value
\* is that of the member that holds it ("Fix the index for the offset of the
\* argument"): the index from which its offset is reflected and its uses are read.
IndexesFixed ==
    \A k \in DOMAIN lines :
        LET args == program[k].args
        IN  \A j \in DOMAIN PodTypes(args) :
                Members(args)[MemberOf(args, j)] = PodTypes(args)[j]
===============================================================================
