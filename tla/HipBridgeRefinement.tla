-------------------------- MODULE HipBridgeRefinement --------------------------
(* HipBridge implements HipDevice: a proxied function takes effect when the  *)
(* main thread starts it, because the device's queue is in order.            *)
EXTENDS HipBridge

CONSTANTS NoCall, Absent

\* The arguments of a call; hipMalloc learns its handle only later.
Arguments(o) ==
    [fn |-> o.fn, kind |-> o.kind, src |-> o.src, val |-> o.val,
     dst |-> IF o.fn = "hipMalloc" THEN 0 ELSE o.dst,
     kernel |-> o.kernel, fault |-> o.fault, asserts |-> o.asserts]

Requests ==
    [fn : ApiNames, kind : CopyKinds \cup {"none"}, src : Handle \cup {0},
     val : Val, dst : Handle \cup {0}, kernel : Kernel \cup {"none"},
     fault : FaultKinds, asserts : BOOLEAN]

\* NoCall is neither, and Absent is no value of a buffer.
ASSUME AbstractionAssumption ==
    /\ Absent \notin Val
    /\ NoCall \notin Requests
    /\ NoCall \notin [code : Code, data : Val \cup {Absent}]

\* A buffer whose creation failed never belongs to the program.
Stillborn == {op[t].dst : t \in {u \in Busy : /\ op[u].fn = "hipMalloc"
                                              /\ op[u].own}}

\* The code a started call is going to return, if only its own operation counts.
Due(o) ==
    IF o.fn = "hipLaunchKernel" /\ ~o.own /\ o.asserts THEN "hipErrorAssert"
    ELSE Result([o EXCEPT !.failed = o.own])

\* The device's buffers; what each call asks of the device, and what it has been
\* answered.
Store ==
    [h \in Handle |-> IF mgr[h] = "live" /\ h \notin Stillborn THEN mem[h]
                      ELSE Absent]

Requested ==
    [t \in Thread |-> IF pc[t] = "idle" THEN NoCall ELSE Arguments(op[t])]

Answered ==
    [t \in Thread |->
        IF pc[t] \in {"idle", "queued"} THEN NoCall
        ELSE [code |-> Due(op[t]),
              data |-> IF pc[t] = "copy" THEN op[t].data ELSE Absent]]

Device == INSTANCE HipDevice WITH
    Vars       <- 1 .. NVars,
    store      <- Store,
    fresh      <- nextHandle,
    request    <- Requested,
    answer     <- Answered,
    returned   <- ret,
    remembered <- lastError,
    readBack   <- hostMem

\* Every runtime call is one atomic step on the device, between its invocation
\* and its return, and returns the outcome of that step.
ImplementsDevice == Device!Spec
=============================================================================
