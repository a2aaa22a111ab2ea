------------------------------- MODULE Compilers -------------------------------
(***************************************************************************)
(* The compiler: runCompilers in run.ts and compiler.worker.ts.            *)
(*                                                                         *)
(* The page compiles the code for the device and for the host in two       *)
(* workers.  Each runs its commands one after the other and posts what     *)
(* they print, and its result or its failure at last.  The page takes the  *)
(* messages of a worker in order, those of different workers as they come. *)
(* With little memory the second worker starts when the first has ended.   *)
(*                                                                         *)
(* The caller is init, which precompiles headers, or compile, whose        *)
(* finally block cuts the terminal off when the compilation fails.         *)
(***************************************************************************)
EXTENDS Naturals, Sequences, FiniteSets, SequencesExt

CONSTANTS
    Fault,     \* what may go wrong in a worker
    None       \* nothing

ASSUME CompilersAssumption == Fault \subseteq {"fails", "throws", "dies", "free"}

\* The lists of instances of the two callers, by what they compile.
Precompile == <<"device-pch", "host-pch">>
Compile    == <<"device", "host">>

Job == 1 .. 2

VARIABLES
    stages,    \* the list of instances
    parallel,  \* navigator.deviceMemory >= 8
    worker,    \* where each worker is
    inbox,     \* the messages it posted and the page did not take yet
    promise,   \* the promise of each job
    data,      \* what it was resolved with
    outcome,   \* the promise of runCompilers
    results,   \* what that was resolved with
    shown      \* history: the feedback written to the terminal

setting == <<stages, parallel>>
vars == <<setting, worker, inbox, promise, data, outcome, results, shown>>

Commands == [
    device      |-> <<"clang++", "clspv", "clspv-reflection", "spirv-tools-opt", "tint">>,
    host        |-> <<"clang++", "wasm-ld">>]

CommandsOf(j) ==
    IF stages[j] \in DOMAIN Commands THEN Commands[stages[j]] ELSE <<"clang++">>

\* init only listens to 'err'; compile also to the feedback of a command that
\* failed.
ForInit == stages = Precompile

NoWorker  == [pc |-> "none", cmd |-> 0, files |-> {}]
NewWorker == [pc |-> "starting", cmd |-> 0, files |-> {}]

Running == {"starting", "running", "finishing"}

---------------------------------------------------------------------------
(* compiler.worker.ts                                                      *)

Feedback(j, err) == [type |-> "feedback", cmd |-> worker[j].cmd, err |-> err]
Err              == [type |-> "err"]
Res(files)       == [type |-> "res", files |-> files]

Post(j, msgs)    == inbox' = [inbox EXCEPT ![j] = @ \o msgs]
Move(j, pc, cmd) == worker' = [worker EXCEPT ![j] = [@ EXCEPT !.pc = pc, !.cmd = cmd]]
Page             == <<setting, promise, data, outcome, results, shown>>

\* The run-time system of the compiler and its package are loaded.
Loaded(j) ==
    /\ worker[j].pc = "starting"
    /\ Move(j, "running", 1)
    /\ UNCHANGED <<inbox, Page>>

\* The device code has no kernel: the last commands are left out, and so are
\* most of the files.
NoKernels(j) ==
    /\ worker[j].pc = "running"
    /\ CommandsOf(j)[worker[j].cmd] = "clspv-reflection"
    /\ Post(j, <<Feedback(j, FALSE)>>)
    /\ worker' = [worker EXCEPT ![j] = [@ EXCEPT !.pc = "finishing",
                                                 !.files = {"reflection", "shader"}]]
    /\ UNCHANGED Page

AllFiles(j) ==
    CASE stages[j] = "device" -> {"reflection", "bc", "cl", "shader"}
      [] stages[j] = "host"   -> {"wasm", "wasmMap"}
      [] OTHER                -> {stages[j]}

IsLast(j) == worker[j].cmd = Len(CommandsOf(j))

CommandEnds(j) ==
    /\ worker[j].pc = "running"
    /\ Post(j, <<Feedback(j, FALSE)>>)
    /\ \/ /\ ~IsLast(j)
          /\ Move(j, "running", worker[j].cmd + 1)
       \/ /\ IsLast(j)
          /\ worker' = [worker EXCEPT ![j] = [@ EXCEPT !.pc = "finishing",
                                                       !.files = AllFiles(j)]]
    /\ UNCHANGED Page

\* run posts what the command printed before it throws.
ErrFirst(j) == <<Err, Feedback(j, TRUE)>>

FailurePosts(j) == <<Feedback(j, TRUE), Err>>

CommandFails(j) ==
    /\ "fails" \in Fault /\ worker[j].pc = "running"
    /\ Post(j, FailurePosts(j))
    /\ Move(j, "failed", worker[j].cmd)
    /\ UNCHANGED Page

\* Anything else throws: loading the package, a command that cannot start.
Throws(j) ==
    /\ "throws" \in Fault /\ worker[j].pc \in Running
    /\ Post(j, <<Err>>)
    /\ Move(j, "closed", worker[j].cmd)
    /\ UNCHANGED Page

\* The result is posted; freeing the run-time system afterwards may throw.
Finish(j) ==
    /\ worker[j].pc = "finishing"
    /\ \E late \in {<<>>} \cup {<<Err>> : f \in Fault \cap {"free"}} :
        Post(j, <<Res(worker[j].files)>> \o late)
    /\ Move(j, "closed", worker[j].cmd)
    /\ UNCHANGED Page

\* The browser ends the worker, for want of memory.  Nobody is told.
Dies(j) ==
    /\ "dies" \in Fault /\ worker[j].pc \in Running
    /\ Move(j, "dead", worker[j].cmd)
    /\ UNCHANGED <<inbox, Page>>

WorkerStep(j) ==
    \/ Loaded(j) \/ NoKernels(j) \/ CommandEnds(j) \/ CommandFails(j)
    \/ Throws(j) \/ Finish(j) \/ Dies(j)

---------------------------------------------------------------------------
(* runCompilers                                                            *)

\* The workers created at once.
Created == IF parallel THEN Job ELSE {1}

Begin ==
    /\ \A j \in Job : promise[j] = "none"
    /\ worker'  = [j \in Job |-> IF j \in Created THEN NewWorker ELSE worker[j]]
    /\ promise' = [j \in Job |-> IF j \in Created THEN "pending" ELSE "none"]
    /\ UNCHANGED <<setting, inbox, data, outcome, results, shown>>

\* Does the message reject the promise of its job?
RejectsOnFeedback(m) == ~ForInit /\ m.type = "feedback" /\ m.err

Rejects(m) == m.type = "err" \/ (~ForInit /\ m.type = "feedback" /\ m.err)

\* compile rejected: its finally block has set pty to null.
CutOff == ~ForInit /\ outcome = "rejected"

Settled(old, m) ==
    IF old # "pending" THEN old
    ELSE CASE m.type = "res" -> "resolved"
           [] Rejects(m)     -> "rejected"
           [] OTHER          -> "pending"

\* The next job of a list that is worked off serially.
Successor(j, p) == {k \in Job : ~parallel /\ k = j + 1 /\ p[j] = "resolved" /\ p[k] = "none"}

\* The promise of all: rejected by the first that is, resolved by the last.
AnyResolved(p) ==
    IF \E j \in Job : p[j] = "rejected" THEN "rejected"
    ELSE IF \E j \in Job : p[j] = "resolved" THEN "resolved" ELSE "pending"

Overall(p) ==
    IF \E j \in Job : p[j] = "rejected" THEN "rejected"
    ELSE IF \A j \in Job : p[j] = "resolved" THEN "resolved" ELSE "pending"

\* The page takes a message; whoever awaits a promise that it settles goes on
\* before the next message is taken.
Deliver(j) ==
    /\ inbox[j] # <<>>
    /\ LET m == Head(inbox[j])
           p == [promise EXCEPT ![j] = IF CutOff /\ m.type = "feedback" THEN @ ELSE Settled(@, m)]
           d == [data EXCEPT ![j] = IF @ = None /\ m.type = "res" THEN m.files ELSE @]
           next == Successor(j, p) IN
        /\ inbox' = [inbox EXCEPT ![j] = Tail(@)]
        /\ promise' = [k \in Job |-> IF k \in next THEN "pending" ELSE p[k]]
        /\ worker' = [k \in Job |-> IF k \in next THEN NewWorker ELSE worker[k]]
        /\ data' = d
        /\ outcome' = IF outcome = "pending" THEN Overall(p) ELSE outcome
        /\ results' = IF outcome = "pending" /\ outcome' = "resolved" THEN d ELSE results
        /\ shown' = IF m.type = "feedback" /\ ~CutOff
                    THEN Append(shown, <<j, m.cmd, m.err>>) ELSE shown
    /\ UNCHANGED setting

---------------------------------------------------------------------------
Init ==
    /\ stages \in {Precompile, Compile} /\ parallel \in BOOLEAN
    /\ worker = [j \in Job |-> NoWorker]
    /\ inbox = [j \in Job |-> <<>>]
    /\ promise = [j \in Job |-> "none"]
    /\ data = [j \in Job |-> None] /\ results = [j \in Job |-> None]
    /\ outcome = "pending" /\ shown = <<>>

Next == Begin \/ \E j \in Job : WorkerStep(j) \/ Deliver(j)

Spec == Init /\ [][Next]_vars

\* Commands end, and the page's event loop takes every message.
FairSpec ==
    /\ Spec /\ WF_vars(Begin)
    /\ \A j \in Job : WF_vars(WorkerStep(j)) /\ WF_vars(Deliver(j))

---------------------------------------------------------------------------
\* What a job may produce.
Files(j) ==
    IF j = 1 THEN {{"reflection", "bc", "cl", "shader"}, {"reflection", "shader"}, {Precompile[1]}}
             ELSE {{"wasm", "wasmMap"}, {Precompile[2]}}

\* runCompilers settles once, with the result of each job in its place
\* (run.ts:16-48).
Promise == INSTANCE CompilePromise WITH Produces <- Files

KeepsPromise == Promise!Spec

\* When a command made the compilation fail, what it printed is on the
\* terminal: it was written before compile cut the terminal off, although
\* the other worker goes on posting (run.ts:201-208, compiler.worker.ts:70-71).
FailureIsExplained ==
    outcome = "rejected" =>
        \E j \in Job :
            /\ promise[j] = "rejected"
            /\ worker[j].pc = "failed" => <<j, worker[j].cmd, TRUE>> \in Range(shown)

\* As long as no worker dies, the promise settles (run.ts:16-48).
Settles == <>(outcome # "pending" \/ \E j \in Job : worker[j].pc = "dead")
=============================================================================
