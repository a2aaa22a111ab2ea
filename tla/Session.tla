-------------------------------- MODULE Session --------------------------------
(***************************************************************************)
(* A page of HipScript: +page.svelte, RunControl.svelte and run.ts.        *)
(*                                                                         *)
(* A click on Run starts a run: it waits for the precompiled headers,      *)
(* reads the editor, compiles or takes the code of the last compilation,   *)
(* asks for a device, loads the program and waits for its end.  The button *)
(* then says Cancel and sets an abort signal, which the run looks at in    *)
(* three places and listens to while it waits for the program.  Everything *)
(* awaited may end at any time, and the user may edit and click meanwhile. *)
(* The compilers are those of Compilers: here they succeed or fail.        *)
(***************************************************************************)
EXTENDS Naturals, FiniteSets

CONSTANTS
    MaxRuns,   \* bound: clicks on Run
    Contents,  \* what the editor may hold
    Empty,     \* the empty text
    Fails,     \* what may fail of what a run awaits
    None

Run == 1 .. MaxRuns

Awaits == {"init", "compile", "adapter", "device", "shader", "module", "running",
           "timestamps"}

ASSUME SessionAssumption ==
    /\ MaxRuns \in Nat /\ Empty \in Contents
    /\ Fails \subseteq Awaits /\ None \notin Run \cup Contents

VARIABLES
    lib,         \* the page has loaded run.ts
    libInit,     \* the promise of init
    compiling,   \* the button says Cancel
    editor,      \* what the editor holds
    codeCache,   \* the last compilation; its URL is named by its run
    revoked,     \* URLs that cacheCleaner revoked
    cur,         \* the run the controller belongs to: the last one
    wgpuDevice,  \* window.wgpuDevice, named by its run
    run          \* the runs

page == <<lib, libInit, compiling, editor, cur>>
vars == <<page, codeCache, revoked, wgpuDevice, run>>

NotStarted == [pc |-> "none", aborted |-> FALSE, contents |-> None, code |-> None,
               url |-> None, device |-> "none", program |-> "none"]

At(r, pc) == run[r].pc = pc

Active(r) == run[r].pc \in Awaits

---------------------------------------------------------------------------
(* The page and the user.                                                  *)

\* initOk: the terminal is open, run.ts is loaded, and unless the last page
\* crashed the headers are precompiled at once.
PageReady ==
    /\ ~lib /\ lib' = TRUE
    /\ libInit' \in {"none", "pending"}
    /\ UNCHANGED <<compiling, editor, cur, codeCache, revoked, wgpuDevice, run>>

InitSettles ==
    /\ libInit = "pending"
    /\ libInit' \in {"ok"} \cup {"failed" : f \in Fails \cap {"init"}}
    /\ UNCHANGED <<lib, compiling, editor, cur, codeCache, revoked, wgpuDevice, run>>

Edit ==
    /\ \E c \in Contents : c # editor /\ editor' = c
    /\ UNCHANGED <<lib, libInit, compiling, cur, codeCache, revoked, wgpuDevice, run>>

\* What compiling is when the click has been handled.
SetLater == FALSE

SetAtOnce == TRUE

\* The first click asks for init if nobody did; before the page has loaded
\* run.ts that throws, and the run is over at once.
ClickRun ==
    /\ ~compiling /\ cur < MaxRuns
    /\ cur' = cur + 1
    /\ IF lib \/ libInit # "none"
       THEN /\ compiling' = SetAtOnce
            /\ libInit' = IF libInit = "none" THEN "pending" ELSE libInit
            /\ run' = [run EXCEPT ![cur + 1].pc = "init"]
       ELSE /\ run' = [run EXCEPT ![cur + 1].pc = "ended"]
            /\ UNCHANGED <<compiling, libInit>>
    /\ UNCHANGED <<lib, editor, codeCache, revoked, wgpuDevice>>

\* kill raises SIGKILL in the program, which exits.
Killed(p) == IF p = "running" THEN "exited" ELSE p

\* The signal is set, and kill is called if it listens.
ClickCancel ==
    /\ compiling /\ ~run[cur].aborted
    /\ run' = [run EXCEPT ![cur] = [run[cur] EXCEPT
                  !.aborted = TRUE,
                  !.program = IF At(cur, "running") THEN Killed(@) ELSE @]]
    /\ UNCHANGED <<page, codeCache, revoked, wgpuDevice>>

---------------------------------------------------------------------------
(* A run.                                                                  *)

\* The finally blocks of compile and of the page: the device is destroyed and
\* the button says Run again.  rec is the run's record at that time.
End(r, rec) ==
    /\ run' = [run EXCEPT ![r] = [rec EXCEPT
                  !.pc = "ended",
                  !.device = IF rec.device = "live" THEN "destroyed" ELSE rec.device]]
    /\ compiling' = FALSE

GoOn(r, pc, rec) ==
    /\ run' = [run EXCEPT ![r] = [rec EXCEPT !.pc = pc]]
    /\ UNCHANGED compiling

\* aborter.throwIfAborted()
Unchecked(r) == FALSE

ThrowsIfAborted(r) == run[r].aborted

GoOnUnlessAborted(r, pc, rec) ==
    IF ThrowsIfAborted(r) THEN End(r, rec) ELSE GoOn(r, pc, rec)

\* Is the code of the last compilation that of the text?
Hit(c) == codeCache.contents = c

\* The headers are there: compile starts.
InitDone(r) ==
    /\ At(r, "init") /\ libInit = "ok"
    /\ IF Hit(editor)
       THEN GoOnUnlessAborted(r, "adapter",
                [run[r] EXCEPT !.contents = editor, !.code = codeCache.code, !.url = codeCache.url])
       ELSE GoOnUnlessAborted(r, "compile", [run[r] EXCEPT !.contents = editor])
    /\ UNCHANGED <<lib, libInit, editor, cur, codeCache, revoked, wgpuDevice>>

\* What the cache is labelled with: what compile was given.
LatestText(r) == editor

OwnText(r) == run[r].contents

\* The compilers succeed: the code replaces the last compilation's.
Compiled(r) ==
    /\ At(r, "compile")
    /\ codeCache' = [contents |-> OwnText(r), code |-> run[r].contents, url |-> r]
    /\ GoOnUnlessAborted(r, "adapter", [run[r] EXCEPT !.code = run[r].contents, !.url = r])
    /\ UNCHANGED <<lib, libInit, editor, cur, revoked, wgpuDevice>>

AdapterGot(r) ==
    /\ At(r, "adapter") /\ GoOn(r, "device", run[r])
    /\ UNCHANGED <<lib, libInit, editor, cur, codeCache, revoked, wgpuDevice>>

\* What window.wgpuDevice is when the device of run r is there.
FirstDevice(r) == IF wgpuDevice = None THEN r ELSE wgpuDevice

LastDevice(r) == r

DeviceGot(r) ==
    /\ At(r, "device")
    /\ GoOn(r, "shader", [run[r] EXCEPT !.device = "live"])
    /\ wgpuDevice' = LastDevice(r)
    /\ UNCHANGED <<lib, libInit, editor, cur, codeCache, revoked>>

ShaderValid(r) ==
    /\ At(r, "shader") /\ GoOn(r, "module", run[r])
    /\ UNCHANGED <<lib, libInit, editor, cur, codeCache, revoked, wgpuDevice>>

\* The module is instantiated and main has been started; only then is the
\* signal looked at, and only then does kill listen to it.
ModuleLoaded(r) ==
    /\ At(r, "module")
    /\ GoOnUnlessAborted(r, "running", [run[r] EXCEPT !.program = "running"])
    /\ UNCHANGED <<lib, libInit, editor, cur, codeCache, revoked, wgpuDevice>>

\* Whatever is awaited fails: init, the compilers, the adapter or the device
\* (null, or rejected), the shader's validation, the module.
AwaitFails(r) ==
    /\ \/ run[r].pc \in Fails \ {"init", "running", "timestamps"}
       \/ At(r, "init") /\ libInit = "failed"
    /\ End(r, run[r])
    /\ UNCHANGED <<lib, libInit, editor, cur, codeCache, revoked, wgpuDevice>>

\* The program exits or aborts: onExit, onAbort.
ProgramExits(r) ==
    /\ run[r].program = "running"
    /\ run' = [run EXCEPT ![r].program = "exited"]
    /\ UNCHANGED <<page, codeCache, revoked, wgpuDevice>>

\* compile goes on: the program's threads are stopped.
Exited(r) ==
    /\ At(r, "running") /\ run[r].program = "exited"
    /\ GoOn(r, "timestamps", run[r])
    /\ UNCHANGED <<lib, libInit, editor, cur, codeCache, revoked, wgpuDevice>>

\* The timestamps are read, or reading them fails: compile returns.
TimesRead(r) ==
    /\ At(r, "timestamps") /\ End(r, run[r])
    /\ UNCHANGED <<lib, libInit, editor, cur, codeCache, revoked, wgpuDevice>>

\* The garbage collector finds an object of the cache that was replaced, and
\* cacheCleaner revokes its URL.
AnyUrl(u) == TRUE

Replaced(u) == codeCache.url # u

Revoke(u) ==
    /\ run[u].url = u /\ u \notin revoked /\ Replaced(u)
    /\ revoked' = revoked \cup {u}
    /\ UNCHANGED <<page, codeCache, wgpuDevice, run>>

---------------------------------------------------------------------------
Init ==
    /\ lib = FALSE /\ libInit = "none" /\ compiling = FALSE
    /\ editor \in Contents
    /\ codeCache = [contents |-> Empty, code |-> None, url |-> None]
    /\ revoked = {} /\ cur = 0 /\ wgpuDevice = None
    /\ run = [r \in Run |-> NotStarted]

RunStep(r) ==
    \/ InitDone(r) \/ Compiled(r) \/ AdapterGot(r) \/ DeviceGot(r) \/ ShaderValid(r)
    \/ ModuleLoaded(r) \/ AwaitFails(r) \/ Exited(r) \/ TimesRead(r)

Next ==
    \/ PageReady \/ InitSettles \/ Edit \/ ClickRun \/ ClickCancel
    \/ \E r \in Run : RunStep(r) \/ ProgramExits(r) \/ Revoke(r)

Spec == Init /\ [][Next]_vars

\* What a run awaits of the browser and of the compilers settles.  A program
\* need not end, and the user need not do anything.
FairSpec == Spec /\ WF_vars(InitSettles) /\ \A r \in Run : WF_vars(RunStep(r))

---------------------------------------------------------------------------
SessionTypeOK ==
    /\ lib \in BOOLEAN /\ libInit \in {"none", "pending", "ok", "failed"}
    /\ compiling \in BOOLEAN /\ editor \in Contents
    /\ codeCache.contents \in Contents /\ codeCache.code \in Contents \cup {None}
    /\ codeCache.url \in Run \cup {None}
    /\ revoked \subseteq Run /\ cur \in 0 .. MaxRuns /\ wgpuDevice \in Run \cup {None}
    /\ run \in [Run -> [pc : Awaits \cup {"none", "ended"}, aborted : BOOLEAN,
                        contents : Contents \cup {None}, code : Contents \cup {None},
                        url : Run \cup {None}, device : {"none", "live", "destroyed"},
                        program : {"none", "running", "exited"}]]

\* The button says Cancel exactly while a run is on, that run is the one the
\* controller belongs to, and there is no other: runs share the terminal, the
\* cache and window.wgpuDevice (RunControl.svelte:68-76, +page.svelte:79-98).
OneRun == \A r \in Run : Active(r) <=> compiling /\ r = cur

\* A program that runs was compiled from the text the run read, although the
\* user may have edited it, and the cache may have been filled, since.  The
\* cache starts out labelled with the empty text (run.ts:163-195, 210-225).
RunsItsText ==
    \A r \in Run :
        run[r].program # "none" =>
            \/ run[r].code = run[r].contents
            \/ run[r].contents = Empty /\ run[r].url = None

\* While a run is on, the URL of its code is not revoked (run.ts:172-174, 225).
UrlLives == \A r \in Run : Active(r) => run[r].url \notin revoked

\* While a run is on, the device that the runtime calls of its program use,
\* and whose scopes they push and pop, is its own and has not been destroyed,
\* whatever became of the runs before it (run.ts:283, 519; webgpu.js:12-18, 43).
OwnDevice ==
    \A r \in Run :
        Active(r) /\ run[r].program = "running" => wgpuDevice = r /\ run[r].device = "live"

\* A run that is cancelled ends, wherever it was (run.ts:185, 232, 472-478).
CancelledEnds == \A r \in Run : run[r].aborted ~> At(r, "ended")

\* When the button that said "Cancel" (RunControl.svelte:232) says Run again,
\* no program is running.
CancelStopsProgram == ~compiling => \A r \in Run : run[r].program # "running"
=============================================================================
