----------------------------- MODULE WasmerWorker -----------------------------
(***************************************************************************)
(* The start of a worker of the compiler's thread pool: wasmer.worker.js.  *)
(*                                                                         *)
(* The pool posts "init" and then work.  Handlers of messages are          *)
(* asynchronous functions: while the worker initialises, and while it      *)
(* works off the messages it had to put aside, more messages arrive.       *)
(***************************************************************************)
EXTENDS Naturals, Sequences, FiniteSets, SequencesExt

CONSTANT
    N           \* bound: messages the pool posts after "init"

ASSUME WorkerAssumption == N \in Nat

Message == 1 .. N

VARIABLES
    inbox,       \* messages posted and not yet dispatched
    posted,      \* how many were posted
    start,       \* where the handler of "init" is
    worker,      \* the variable worker is set
    pending,     \* pendingMessages
    drain,       \* the messages spliced from it and not yet handled
    busy,        \* messages whose handler runs
    buffered,    \* history: the messages that were put aside
    handled      \* history: the messages whose handler was called, in order

vars == <<inbox, posted, start, worker, pending, drain, busy, buffered, handled>>

Init ==
    /\ inbox = <<>> /\ posted = 0 /\ start = "importing" /\ worker = FALSE
    /\ pending = <<>> /\ drain = <<>> /\ busy = {}
    /\ buffered = <<>> /\ handled = <<>>

\* The pool posts the next message.
Post ==
    /\ posted < N
    /\ posted' = posted + 1
    /\ inbox' = Append(inbox, posted + 1)
    /\ UNCHANGED <<start, worker, pending, drain, busy, buffered, handled>>

\* worker.handle(msg): its first part runs at once.
Handle(m) ==
    /\ handled' = Append(handled, m)
    /\ busy' = busy \cup {m}

\* The handler of the next message: handled at once if worker is set.
Receive ==
    /\ inbox # <<>>
    /\ inbox' = Tail(inbox)
    /\ IF worker
       THEN Handle(Head(inbox)) /\ UNCHANGED <<pending, buffered>>
       ELSE /\ pending' = Append(pending, Head(inbox))
            /\ buffered' = Append(buffered, Head(inbox))
            /\ UNCHANGED <<busy, handled>>
    /\ UNCHANGED <<posted, start, worker, drain>>

\* The SDK is imported; the module is instantiated on the shared memory.
Imported ==
    /\ start = "importing" /\ start' = "instantiating"
    /\ UNCHANGED <<inbox, posted, worker, pending, drain, busy, buffered, handled>>

\* The SDK cannot be imported, the module not instantiated, or the worker not made:
\* the handler of "init" ends, and nobody is told.
StartFails ==
    /\ start \in {"importing", "instantiating"} /\ start' = "broken"
    /\ UNCHANGED <<inbox, posted, worker, pending, drain, busy, buffered, handled>>

\* What the variable worker holds when the messages are taken.
WorkerSetLater == FALSE

WorkerSet == TRUE

\* What splice leaves in the list.
NotSpliced == pending

Spliced == <<>>

\* The list the loop works off: what splice takes out keeps its order.
TakenFromEnd == Reverse(pending)

Taken == pending

\* worker is set and the messages put aside are taken, in one step.
Instantiated ==
    /\ start = "instantiating"
    /\ worker' = WorkerSet
    /\ drain' = Taken /\ pending' = Spliced
    /\ start' = "draining"
    /\ UNCHANGED <<inbox, posted, busy, buffered, handled>>

\* The next of them is handled when the handler of the one before has ended.
DrainNext ==
    /\ start = "draining" /\ drain # <<>>
    /\ Range(buffered) \cap busy = {}
    /\ Handle(Head(drain))
    /\ drain' = Tail(drain)
    /\ UNCHANGED <<inbox, posted, start, worker, pending, buffered>>

Drained ==
    /\ start = "draining" /\ drain = <<>> /\ Range(buffered) \cap busy = {}
    /\ start' = "started"
    /\ UNCHANGED <<inbox, posted, worker, pending, drain, busy, buffered, handled>>

Done(m) ==
    /\ m \in busy /\ busy' = busy \ {m}
    /\ UNCHANGED <<inbox, posted, start, worker, pending, drain, buffered, handled>>

\* A handler fails.  One that the loop awaits ends the loop.
Reject(m) ==
    /\ m \in busy /\ busy' = busy \ {m}
    /\ IF m \in Range(buffered)
       THEN start' = "failed" /\ drain' = <<>>
       ELSE UNCHANGED <<start, drain>>
    /\ UNCHANGED <<inbox, posted, worker, pending, buffered, handled>>

Next ==
    \/ Post \/ Receive
    \/ Imported \/ Instantiated \/ StartFails \/ DrainNext \/ Drained
    \/ \E m \in Message : Done(m) \/ Reject(m)

Spec == Init /\ [][Next]_vars

\* The event loop dispatches what arrived, and what was awaited settles.
FairSpec ==
    /\ Spec
    /\ WF_vars(Receive)
    /\ WF_vars(Imported \/ Instantiated \/ StartFails \/ DrainNext \/ Drained)
    /\ \A m \in Message : WF_vars(Done(m) \/ Reject(m))

---------------------------------------------------------------------------
\* A message is handled once, and while it waits it waits in one place
\* (wasmer.worker.js:8-15, 26-28: a message is put aside or handled, and
\* splice takes the ones put aside out of the list).
EachOnce ==
    LET all == inbox \o pending \o drain \o handled IN
        IsInjective(all) /\ (start # "failed" => Range(all) = 1 .. posted)

\* Messages that were put aside are handled in the order they arrived: when one
\* is, those before it were, although newer ones may overtake them
\* (wasmer.worker.js:26-31).
BufferedInOrder ==
    \A k \in DOMAIN buffered, j \in DOMAIN handled :
        handled[j] = buffered[k] =>
            \A l \in 1 .. k - 1 : \E i \in 1 .. j - 1 : handled[i] = buffered[l]

\* Every message is handled in the end, whenever it arrived.  Only what was put
\* aside can be left: for good when the start fails before worker is set, and when
\* the handler of another such message fails (wasmer.worker.js:12-14, 20-31).
AllHandled ==
    \A m \in Message :
        posted >= m ~> \/ m \in Range(handled)
                       \/ start \in {"broken", "failed"} /\ m \in Range(buffered)
=============================================================================
