----------------------------- MODULE PrintfBuffer -----------------------------
(***************************************************************************)
(* printf in device code: PrintfPass.cpp, webgpu.js and printf.cpp.        *)
(*                                                                         *)
(* The compiler turns each call into code that reserves a record of the    *)
(* printf buffer with one atomic addition to word 0, stores the arguments  *)
(* and stores the identifier of the call.  The invocations of a kernel do  *)
(* that concurrently.  After the kernel the page copies the buffer, resets *)
(* word 0 and no other word, and the host thread walks the records.        *)
(*                                                                         *)
(* A word of the model is a word of the buffer; every argument takes one.  *)
(***************************************************************************)
EXTENDS Naturals, Sequences, FiniteSets

CONSTANTS
    Inv,          \* invocations of a kernel
    Args,         \* Args[k]: the arguments of the k-th printf of the module
    Conv,         \* Conv[k]: how many of them its format converts
    IntVal,       \* values of the arguments that are not string literals
    BuffWords,    \* size of the buffer
    MaxCalls,     \* bound: printf calls of an invocation in a launch
    MaxLaunches   \* bound: launches

Site == 1 .. Len(Args)

ASSUME PrintfAssumption ==
    /\ Args \in Seq(Seq({"int", "str"})) /\ Conv \in Seq(Nat)
    /\ DOMAIN Conv = Site /\ \A k \in Site : Conv[k] <= Len(Args[k])
    /\ IntVal \subseteq Nat
    /\ BuffWords \in Nat \ {0} /\ MaxCalls \in Nat /\ MaxLaunches \in Nat

VARIABLES
    buf,       \* the buffer on the device
    dev,       \* what each invocation does
    calls,     \* calls of each invocation in this launch
    records,   \* history: the records reserved in this launch, in order
    host,      \* the host's copy of the buffer
    stage,     \* the kernel runs, the host walks, is done, or has thrown
    pos,       \* the host's data pointer
    printed,   \* what it printed for this launch
    warned,    \* it said that printfs were skipped
    launches

device == <<dev, calls, records>>
walk   == <<pos, printed, warned>>
vars   == <<buf, device, host, stage, walk, launches>>

---------------------------------------------------------------------------
(* Identifiers.  A call takes the next one, then each of its literals.     *)

Literals == UNION {{<<k, i>> : i \in {j \in DOMAIN Args[k] : Args[k][j] = "str"}}
                     : k \in Site}

Id(k) == (k - 1) + Cardinality({l \in Literals : l[1] < k})

StringId(k, i) ==
    Id(k) + Cardinality({l \in Literals : l[1] = k /\ l[2] <= i})

Ids == {Id(k) : k \in Site} \cup {StringId(l[1], l[2]) : l \in Literals}

\* What a call may pass: a literal is passed as its identifier.
Arguments(k) ==
    {v \in [DOMAIN Args[k] -> IntVal \cup {StringId(l[1], l[2]) : l \in Literals}] :
        \A i \in DOMAIN Args[k] :
            IF Args[k][i] = "str" THEN v[i] = StringId(k, i) ELSE v[i] \in IntVal}

AllocSizeNoId(k) == Len(Args[k])

AllocSize(k) == 1 + Len(Args[k])

---------------------------------------------------------------------------
(* The device.                                                             *)

Idle == [pc |-> "idle"]

\* The buffer has room for the whole record, or for its identifier only.
FitsAll(off, k) == off + AllocSize(k) <= BuffWords
FitsId(off)     == off + 1 <= BuffWords

\* The whole record is stored, arguments first; or the identifier alone; or
\* nothing.
Plan(off, k, v) ==
    IF FitsAll(off, k)
    THEN [pc |-> IF v = <<>> THEN "id" ELSE "args", rec |-> Len(records) + 1, next |-> 1]
    ELSE IF FitsId(off)
         THEN [pc |-> "id", rec |-> Len(records) + 1, next |-> 1]
         ELSE Idle

Reserve(i, k, v) ==
    /\ stage = "run" /\ dev[i].pc = "idle" /\ calls[i] < MaxCalls
    /\ LET off == buf[0] + 1 IN
        /\ buf' = [buf EXCEPT ![0] = @ + AllocSize(k)]
        /\ dev' = [dev EXCEPT ![i] = Plan(off, k, v)]
        /\ records' = Append(records, [off |-> off, site |-> k, args |-> v])
    /\ calls' = [calls EXCEPT ![i] = @ + 1]
    /\ UNCHANGED <<host, stage, walk, launches>>

\* Where the arguments begin is ArgsOffset, one past Offset.
ArgWordShifted(r, n) == r.off + n - 1

ArgWord(r, n) == r.off + n

StoreArg(i) ==
    /\ dev[i].pc = "args"
    /\ LET r == records[dev[i].rec]
           n == dev[i].next IN
        /\ buf' = [buf EXCEPT ![ArgWord(r, n)] = r.args[n]]
        /\ dev' = [dev EXCEPT ![i] = [pc |-> IF n = Len(r.args) THEN "id" ELSE "args",
                                      rec |-> @.rec, next |-> n + 1]]
    /\ UNCHANGED <<calls, records, host, stage, walk, launches>>

StoreId(i) ==
    /\ dev[i].pc = "id"
    /\ LET r == records[dev[i].rec] IN buf' = [buf EXCEPT ![r.off] = Id(r.site)]
    /\ dev' = [dev EXCEPT ![i] = Idle]
    /\ UNCHANGED <<calls, records, host, stage, walk, launches>>

---------------------------------------------------------------------------
(* The host.                                                               *)

\* The page copies the words that were used and resets the offset.
Copied == [w \in DOMAIN buf |-> IF w < buf[0] + 1 THEN buf[w] ELSE host[w]]

NotCleared == buf

Cleared == [buf EXCEPT ![0] = 0]

Collect ==
    /\ stage = "run" /\ \A i \in Inv : dev[i].pc = "idle"
    /\ host' = Copied
    /\ buf' = Cleared
    /\ stage' = IF buf[0] = 0 THEN "done" ELSE "walk"
    /\ pos' = 1 /\ UNCHANGED <<device, printed, warned, launches>>

\* The first word past the records: data_end.
DataEnd == 1 + (IF host[0] < BuffWords - 1 THEN host[0] ELSE BuffWords - 1)

\* The conversions of a record at p: of site k they read the words after p.
\* Those that are past the end, and the strings that the map does not have.
Missing(k, p) == {i \in 1 .. Conv[k] : p + i >= DataEnd}
Unknown(k, p) == {i \in 1 .. Conv[k] : /\ p + i < DataEnd
                                       /\ Args[k][i] = "str" /\ host[p + i] \notin Ids}

\* A literal's own entry of the map has a format and no arguments.
Conversions(id) == IF \E k \in Site : Id(k) = id
                   THEN Conv[CHOOSE k \in Site : Id(k) = id] ELSE 0

PrintRecord ==
    /\ stage = "walk" /\ pos < DataEnd /\ host[pos] \in Ids
    /\ LET n == Conversions(host[pos]) IN
        /\ \A k \in Site : Id(k) = host[pos] => Missing(k, pos) \cup Unknown(k, pos) = {}
        /\ printed' = Append(printed, [id |-> host[pos], args |-> [i \in 1 .. n |-> host[pos + i]]])
        /\ pos' = pos + 1 + n
    /\ UNCHANGED <<buf, device, host, stage, warned, launches>>

\* Where the data pointer is when argument i does not fit: past it.
Behind(i) == pos

Beyond(i) == pos + i + 1

\* An argument lies past the end: the record is given up at that argument.
SkipRecord ==
    /\ stage = "walk" /\ pos < DataEnd
    /\ \E k \in Site :
        /\ Id(k) = host[pos] /\ Unknown(k, pos) = {}
        /\ \E i \in Missing(k, pos) :
            /\ \A j \in Missing(k, pos) : i <= j
            /\ pos' = Beyond(i)
    /\ UNCHANGED <<buf, device, host, stage, printed, warned, launches>>

\* descs.at has no such identifier: std::out_of_range leaves hipLaunchKernel.
Throw ==
    /\ stage = "walk" /\ pos < DataEnd
    /\ \/ host[pos] \notin Ids
       \/ \E k \in Site : Id(k) = host[pos] /\ Unknown(k, pos) # {}
    /\ stage' = "threw"
    /\ UNCHANGED <<buf, device, host, walk, launches>>

OverflowedEarly == BuffWords - 1 <= host[0]

\* buffer_size < bytes_written
Overflowed == BuffWords < host[0]

EndWalk ==
    /\ stage = "walk" /\ pos >= DataEnd
    /\ warned' = Overflowed
    /\ stage' = "done"
    /\ UNCHANGED <<buf, device, host, pos, printed, launches>>

NextLaunch ==
    /\ stage = "done" /\ launches < MaxLaunches
    /\ launches' = launches + 1
    /\ stage' = "run" /\ printed' = <<>> /\ warned' = FALSE
    /\ records' = <<>> /\ calls' = [i \in Inv |-> 0]
    /\ UNCHANGED <<buf, dev, host, pos>>

---------------------------------------------------------------------------
\* The page creates the buffer and writes 0 to word 0; WebGPU zeroes the
\* rest.  The host's copy is not initialised, and is not read before Collect.
Init ==
    /\ buf = [w \in 0 .. BuffWords - 1 |-> 0]
    /\ dev = [i \in Inv |-> Idle] /\ calls = [i \in Inv |-> 0]
    /\ records = <<>>
    /\ host = [w \in 0 .. BuffWords - 1 |-> 0]
    /\ stage = "run" /\ pos = 1 /\ printed = <<>> /\ warned = FALSE
    /\ launches = 1

PrintfCall(i) == \E k \in Site : \E v \in Arguments(k) : Reserve(i, k, v)

Next ==
    \/ \E i \in Inv : PrintfCall(i) \/ StoreArg(i) \/ StoreId(i)
    \/ Collect
    \/ PrintRecord \/ SkipRecord \/ Throw \/ EndWalk
    \/ NextLaunch

Spec == Init /\ [][Next]_vars

\* The host's loop runs on a thread of its own and waits for nothing.
HostStep == PrintRecord \/ SkipRecord \/ Throw \/ EndWalk

FairSpec == Spec /\ WF_vars(HostStep)

---------------------------------------------------------------------------
(* Properties.                                                             *)

\* The numbers of the records that fit, and how the host prints one.
Whole(r)   == FitsAll(r.off, r.site)
Written    == {n \in DOMAIN records : Whole(records[n])}
Decoded(r) == [id |-> Id(r.site), args |-> [i \in 1 .. Conv[r.site] |-> r.args[i]]]

\* Records of different calls share no word, and none reaches the offset
\* in word 0 (PrintfPass.cpp: the atomic addition that reserves a record).
Area(r) == r.off .. (r.off + Len(r.args))

RecordsDisjoint ==
    \A m, n \in DOMAIN records :
        /\ 0 \notin Area(records[m])
        /\ m # n => Area(records[m]) \cap Area(records[n]) = {}

\* Until the page collects them, the words of a record that fits and whose
\* call has returned hold that call's identifier and arguments, whatever the
\* other invocations stored meanwhile (PrintfPass.cpp:137-223).
Stored(r) == /\ buf[r.off] = Id(r.site)
             /\ \A n \in 1 .. Len(r.args) : buf[r.off + n] = r.args[n]

RecordsIntact ==
    stage = "run" =>
        \A n \in DOMAIN records :
            (Whole(records[n]) /\ \A i \in Inv : dev[i].pc # "idle" => dev[i].rec # n)
                => Stored(records[n])

\* When the host has walked the buffer, it has printed the calls whose
\* records fit, each once, with its own arguments, in the order the device
\* reserved them, although words of earlier launches are left in the buffer
\* and the last record may be cut off (printf.cpp:166-284).
PrintedIsWritten ==
    stage = "done" => /\ DOMAIN printed = Written
                      /\ \A n \in Written : printed[n] = Decoded(records[n])

\* The host says that printfs were skipped only when some were.
WarningIsTrue ==
    stage = "done" /\ warned => Written # DOMAIN records

\* Whatever the buffer holds, the host's loop ends (printf.cpp:274-276).
WalkEnds == stage = "walk" ~> stage \in {"done", "threw"}
=============================================================================
