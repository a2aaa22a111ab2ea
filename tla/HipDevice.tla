------------------------------- MODULE HipDevice -------------------------------
(***************************************************************************)
(* What the HIP runtime promises a host program: each runtime call takes   *)
(* effect on the device at one instant between its invocation and its      *)
(* return, and what it returns is about that call alone.  HipBridge is     *)
(* shown to implement this module (HipBridgeRefinement).                   *)
(***************************************************************************)
EXTENDS Naturals

CONSTANTS Thread, Val, Zero, Handle, Vars, Requests, Code,
          KernelMap, NoCall, Absent

VARIABLES
    store,      \* [Handle -> Val or Absent]: the live buffers
    fresh,      \* handles below fresh have been given out
    request,    \* [Thread -> a request or NoCall]
    answer,     \* [Thread -> the code the call will return and the data it
                \*  still has to deliver, or NoCall]
    returned,   \* [Thread -> Code]: what the last call returned
    remembered, \* [Thread -> Code]: what hipGetLastError would return
    readBack    \* [Thread -> Val]: what the last copy to the host delivered

vars == <<store, fresh, request, answer, returned, remembered, readBack>>

Init ==
    /\ store = [h \in Handle |-> IF h \in Vars THEN Zero ELSE Absent]
    /\ fresh \in Handle \cup {h + 1 : h \in Handle}
    /\ \A h \in Vars : h < fresh
    /\ request = [t \in Thread |-> NoCall]
    /\ answer = [t \in Thread |-> NoCall]
    /\ returned = [t \in Thread |-> "hipSuccess"]
    /\ remembered = [t \in Thread |-> "hipSuccess"]
    /\ readBack = [t \in Thread |-> Zero]

--------------------------------------------------------------------------------
Alive(h) == h \in Handle /\ store[h] # Absent

\* Whether the device carries the request out.
Accepted(r) ==
    /\ r.fault = "none"
    /\ r.fn = "hipMemcpy" =>
           /\ r.kind # "Default"
           /\ r.kind \in {"DeviceToHost", "DeviceToDevice"} => Alive(r.src)
           /\ r.kind \in {"HostToDevice", "DeviceToDevice"} => Alive(r.dst)
           /\ r.kind = "DeviceToDevice" => r.src # r.dst
    /\ r.fn = "hipLaunchKernel" => r.kernel \in KernelMap /\ Alive(r.dst)

\* What an accepted request does to the device.
Effect(r) ==
    IF r.fn = "hipMalloc" THEN [store EXCEPT ![fresh] = Zero]
    ELSE IF r.fn = "hipFree" THEN [store EXCEPT ![r.dst] = Absent]
    ELSE IF r.fn = "hipLaunchKernel" \/ r.kind = "HostToDevice"
    THEN [store EXCEPT ![r.dst] = r.val]
    ELSE IF r.kind = "DeviceToHost" THEN store
    ELSE [store EXCEPT ![r.dst] = store[r.src]]

Verdict(r) ==
    IF r.fn = "hipLaunchKernel" /\ r.kernel \notin KernelMap
    THEN "hipErrorInvalidDeviceFunction"
    ELSE IF Accepted(r) THEN IF r.asserts THEN "hipErrorAssert" ELSE "hipSuccess"
    ELSE IF r.fn = "hipMalloc" THEN "hipErrorOutOfMemory" ELSE "hipErrorInvalidValue"

\* What a copy to the host delivers: a copy the device refused may still deliver
\* the zeros of its staging buffer, unless it failed before that was created.
Data(r) ==
    IF ~(r.kind = "DeviceToHost" /\ r.fault # "throw" /\ Alive(r.src)) THEN Absent
    ELSE IF Accepted(r) THEN store[r.src] ELSE Zero

--------------------------------------------------------------------------------
Remember(t, code) ==
    remembered' = IF code = "hipSuccess" THEN remembered
                  ELSE [remembered EXCEPT ![t] = code]

Invoke(t) ==
    /\ request[t] = NoCall
    /\ request'[t] \in Requests
    /\ request' = [request EXCEPT ![t] = request'[t]]
    /\ UNCHANGED <<store, fresh, answer, returned, remembered, readBack>>

\* A call decided by its arguments alone.
Refuse(t) ==
    /\ request[t] = NoCall
    /\ \E code \in {"hipSuccess", "hipErrorInvalidValue"} :
          /\ returned' = [returned EXCEPT ![t] = code]
          /\ Remember(t, code)
    /\ UNCHANGED <<store, fresh, request, answer, readBack>>

\* A copy to an unknown symbol returns any code; it is remembered as an error.
RefuseSymbol(t) ==
    /\ request[t] = NoCall
    /\ \E code \in Code :
          /\ returned' = [returned EXCEPT ![t] = code]
          /\ Remember(t, IF code = "hipSuccess" THEN "hipErrorInvalidSymbol"
                         ELSE code)
    /\ UNCHANGED <<store, fresh, request, answer, readBack>>

\* The instant at which the call takes effect.
Apply(t) ==
    LET r == request[t]
    IN  /\ r # NoCall /\ answer[t] = NoCall
        /\ answer' = [answer EXCEPT ![t] = [code |-> Verdict(r), data |-> Data(r)]]
        /\ store' = IF Accepted(r) THEN Effect(r) ELSE store
        /\ fresh' = IF r.fn = "hipMalloc" THEN fresh + 1 ELSE fresh
        /\ UNCHANGED <<request, returned, remembered, readBack>>

Deliver(t) ==
    /\ answer[t] # NoCall /\ answer[t].data # Absent
    /\ readBack' = [readBack EXCEPT ![t] = answer[t].data]
    /\ answer' = [answer EXCEPT ![t].data = Absent]
    /\ UNCHANGED <<store, fresh, request, returned, remembered>>

\* A copy that fails need not deliver them.
Withhold(t) ==
    /\ answer[t] # NoCall /\ answer[t].code # "hipSuccess"
    /\ answer' = [answer EXCEPT ![t].data = Absent]
    /\ UNCHANGED <<store, fresh, request, returned, remembered, readBack>>

Respond(t) ==
    /\ answer[t] # NoCall /\ answer[t].data = Absent
    /\ returned' = [returned EXCEPT ![t] = answer[t].code]
    /\ Remember(t, answer[t].code)
    /\ request' = [request EXCEPT ![t] = NoCall]
    /\ answer' = [answer EXCEPT ![t] = NoCall]
    /\ UNCHANGED <<store, fresh, readBack>>

\* hipGetLastError.
Forget(t) ==
    /\ request[t] = NoCall
    /\ returned' = [returned EXCEPT ![t] = remembered[t]]
    /\ remembered' = [remembered EXCEPT ![t] = "hipSuccess"]
    /\ UNCHANGED <<store, fresh, request, answer, readBack>>

Next == \E t \in Thread :
            \/ Invoke(t) \/ Refuse(t) \/ RefuseSymbol(t) \/ Apply(t)
            \/ Deliver(t) \/ Withhold(t) \/ Respond(t) \/ Forget(t)

Spec == Init /\ [][Next]_vars
=============================================================================
