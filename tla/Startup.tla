-------------------------------- MODULE Startup --------------------------------
(***************************************************************************)
(* The start of a page: initOk in +page.svelte and init in run.ts.         *)
(*                                                                         *)
(* init takes the compiler's package from the browser's cache, or fetches  *)
(* it and replaces what the cache holds, and precompiles the headers.  The *)
(* browser may not survive that, so a flag in the local storage is set     *)
(* before and removed after it, and by the pagehide event of a page that   *)
(* is left; a page that finds the flag starts nothing by itself.  Cache    *)
(* and local storage outlive a page and belong to all the pages of the     *)
(* site.                                                                   *)
(***************************************************************************)
EXTENDS Naturals, FiniteSets

CONSTANTS
    Tab,       \* the pages of the site that may be open
    MaxLoads,  \* bound: times a tab is loaded
    Replies    \* what the server may send for the package

ASSUME StartupAssumption ==
    /\ IsFiniteSet(Tab) /\ MaxLoads \in Nat
    /\ Replies \subseteq {"package", "error page"}

\* The requests the cache may have an answer to.
Url == {"current", "old"}

VARIABLES
    crashFlag,   \* hipscript-crash is in the local storage
    cache,       \* what the cache holds under each URL, or "none"
    tab,         \* the open pages
    cleaner,     \* the cache operations each page has under way
    loads,       \* how often each tab was loaded
    crashedIn    \* history: where the last page of each tab that tried to compile
                 \* the headers was when it crashed; "" if it was left

vars == <<crashFlag, cache, tab, cleaner, loads, crashedIn>>

\* unread: the page could not read the entry it found.
Closed == [pc |-> "closed", auto |-> FALSE, clears |-> FALSE, blob |-> "none",
           unread |-> FALSE]

\* refused: one of the operations was rejected, which nobody hears.
NoCleaner == [keys |-> FALSE, delete |-> {}, put |-> "none", refused |-> FALSE]

Set(t, rec) == tab' = [tab EXCEPT ![t] = rec]

---------------------------------------------------------------------------
Load(t) ==
    /\ tab[t].pc = "closed" /\ loads[t] < MaxLoads
    /\ loads' = [loads EXCEPT ![t] = @ + 1]
    /\ Set(t, [Closed EXCEPT !.pc = "loading"])
    /\ UNCHANGED <<crashFlag, cache, cleaner, crashedIn>>

\* initOk: init is called at once, unless the flag is there; a browser without
\* WebGPU is told so and loads nothing.
InitOk(t) ==
    /\ tab[t].pc = "loading"
    /\ \/ Set(t, [tab[t] EXCEPT !.pc = "unsupported"])
       \/ crashFlag /\ Set(t, [tab[t] EXCEPT !.pc = "waiting"])
       \/ ~crashFlag /\ Set(t, [tab[t] EXCEPT !.pc = "matching", !.auto = TRUE])
    /\ UNCHANGED <<crashFlag, cache, cleaner, loads, crashedIn>>

\* The first click on Run.
Click(t) ==
    /\ tab[t].pc = "waiting"
    /\ Set(t, [tab[t] EXCEPT !.pc = "matching"])
    /\ UNCHANGED <<crashFlag, cache, cleaner, loads, crashedIn>>

\* The flag while the headers are compiled.
FlagUnset == crashFlag

FlagSet == TRUE

\* init goes on to the headers with a blob: the flag is set, and the pagehide
\* event removes it.
Precompile(t, blob) ==
    /\ crashFlag' = FlagSet
    /\ Set(t, [tab[t] EXCEPT !.pc = "headers", !.clears = TRUE, !.blob = blob])

\* The cache has the package and can read it.
Matched(t) ==
    /\ tab[t].pc = "matching" /\ cache["current"] # "none"
    /\ Precompile(t, cache["current"])
    /\ UNCHANGED <<cache, cleaner, loads, crashedIn>>

\* It has not, or match or blob is rejected: the package is requested, and when
\* the reply begins the page asks for the cache's keys and goes on to read the
\* body.
Fetched(t) ==
    /\ tab[t].pc = "matching"
    /\ \E blob \in Replies :
           Set(t, [tab[t] EXCEPT !.pc = "reading", !.blob = blob,
                                 !.unread = cache["current"] # "none"])
    /\ cleaner' = [cleaner EXCEPT ![t] = [@ EXCEPT !.keys = TRUE]]
    /\ UNCHANGED <<crashFlag, cache, loads, crashedIn>>

\* The cache cannot be opened, or the request fails.
FetchFails(t) ==
    /\ tab[t].pc = "matching"
    /\ Set(t, [tab[t] EXCEPT !.pc = "failed"])
    /\ UNCHANGED <<crashFlag, cache, cleaner, loads, crashedIn>>

\* What is deleted: the entries listed before the package is stored.
Everything == Url

Listed == {u \in Url : cache[u] # "none"}

\* The keys: every entry is to be deleted and the reply put; nobody waits.
KeysGot(t) ==
    /\ cleaner[t].keys
    /\ cleaner' = [cleaner EXCEPT ![t] =
           [@ EXCEPT !.keys = FALSE, !.delete = Listed, !.put = tab[t].blob]]
    /\ UNCHANGED <<crashFlag, cache, tab, loads, crashedIn>>

Deleted(t) ==
    /\ \E u \in cleaner[t].delete :
        /\ cache' = [cache EXCEPT ![u] = "none"]
        /\ cleaner' = [cleaner EXCEPT ![t].delete = @ \ {u}]
    /\ UNCHANGED <<crashFlag, tab, loads, crashedIn>>

\* Storing the reply needs all of its body.
Put(t) ==
    /\ cleaner[t].put # "none" /\ tab[t].pc # "reading"
    /\ cache' = [cache EXCEPT !["current"] = cleaner[t].put]
    /\ cleaner' = [cleaner EXCEPT ![t] = [@ EXCEPT !.put = "none"]]
    /\ UNCHANGED <<crashFlag, tab, loads, crashedIn>>

\* An operation is rejected, a put for the quota or for a reply that cannot be
\* stored: it leaves the cache as it is, and the other operations go on.
CacheRefuses(t) ==
    /\ \/ /\ cleaner[t].keys
          /\ cleaner' = [cleaner EXCEPT ![t] = [@ EXCEPT !.keys = FALSE, !.refused = TRUE]]
       \/ \E u \in cleaner[t].delete :
              cleaner' = [cleaner EXCEPT ![t] =
                  [cleaner[t] EXCEPT !.delete = @ \ {u}, !.refused = TRUE]]
       \/ /\ cleaner[t].put # "none"
          /\ cleaner' = [cleaner EXCEPT ![t] = [@ EXCEPT !.put = "none", !.refused = TRUE]]
    /\ UNCHANGED <<crashFlag, cache, tab, loads, crashedIn>>

\* The body breaks off: init rejects, and the reply cannot be stored either.
ReadFails(t) ==
    /\ tab[t].pc = "reading"
    /\ Set(t, [tab[t] EXCEPT !.pc = "failed", !.blob = "none"])
    /\ cleaner' = [cleaner EXCEPT ![t] = [@ EXCEPT !.put = "none"]]
    /\ UNCHANGED <<crashFlag, cache, loads, crashedIn>>

\* "Downloaded LLVM"
Downloaded(t) ==
    /\ tab[t].pc = "reading"
    /\ Precompile(t, tab[t].blob)
    /\ UNCHANGED <<cache, cleaner, loads, crashedIn>>

\* The headers are compiled: the page no longer clears the flag when it is
\* left, and clears it now.
KeptFlag == crashFlag

ClearedFlag == FALSE

HeadersDone(t) ==
    /\ tab[t].pc = "headers"
    /\ crashFlag' = ClearedFlag
    /\ Set(t, [tab[t] EXCEPT !.pc = "ready", !.clears = FALSE])
    /\ UNCHANGED <<cache, cleaner, loads, crashedIn>>

HeadersFail(t) ==
    /\ tab[t].pc = "headers"
    /\ Set(t, [tab[t] EXCEPT !.pc = "failed"])
    /\ UNCHANGED <<crashFlag, cache, cleaner, loads, crashedIn>>

Tried(t) == tab[t].blob # "none" /\ tab[t].pc # "reading"

\* The page is left: pagehide.  Cache operations that were requested may be
\* lost with the page.
Leave(t) ==
    /\ tab[t].pc # "closed"
    /\ crashFlag' = IF tab[t].clears THEN FALSE ELSE crashFlag
    /\ Set(t, Closed) /\ cleaner' = [cleaner EXCEPT ![t] = NoCleaner]
    /\ crashedIn' = [crashedIn EXCEPT ![t] = IF Tried(t) THEN "" ELSE @]
    /\ UNCHANGED <<cache, loads>>

\* The page crashes: no event.
Crash(t) ==
    /\ tab[t].pc # "closed"
    /\ Set(t, Closed) /\ cleaner' = [cleaner EXCEPT ![t] = NoCleaner]
    /\ crashedIn' = [crashedIn EXCEPT ![t] = IF Tried(t) THEN tab[t].pc ELSE @]
    /\ UNCHANGED <<crashFlag, cache, loads>>

---------------------------------------------------------------------------
Init ==
    /\ crashFlag = FALSE
    /\ cache \in [Url -> {"none", "package"}] /\ cache["current"] = "none"
    /\ tab = [t \in Tab |-> Closed]
    /\ cleaner = [t \in Tab |-> NoCleaner]
    /\ loads = [t \in Tab |-> 0]
    /\ crashedIn = [t \in Tab |-> ""]

PageStep(t) ==
    \/ InitOk(t) \/ Matched(t) \/ Fetched(t) \/ FetchFails(t) \/ ReadFails(t)
    \/ Downloaded(t) \/ HeadersDone(t) \/ HeadersFail(t)

CacheStep(t) == KeysGot(t) \/ Deleted(t) \/ Put(t) \/ CacheRefuses(t)

Next ==
    \E t \in Tab : \/ Load(t) \/ Click(t) \/ PageStep(t) \/ CacheStep(t)
                   \/ Leave(t) \/ Crash(t)

Spec == Init /\ [][Next]_vars

---------------------------------------------------------------------------
\* A page that crashed while the headers were compiled is not followed by one
\* that compiles them by itself (+page.svelte:70-75).
CrashStopsAutoStart ==
    \A t \in Tab : tab[t].auto => crashedIn[t] # "headers"

\* A page is held back only if the last attempt was not survived ("Your browser
\* might have crashed during the last attempt", +page.svelte:72): a page that was
\* left meanwhile, and one that has its headers, leave no flag behind.
HeldBackAfterCrash ==
    (\E t \in Tab : tab[t].pc = "waiting") => \E u \in Tab : crashedIn[u] \in {"headers", "failed"}

\* When a page has its headers and its cache operations have ended, what it used
\* is in the cache for the next page, although nobody awaits the operations and
\* they delete whatever the cache held (run.ts:95-100).  Nothing is there under its
\* URL only if an operation was refused or the page found an entry it could not
\* read, which the delete may hit after the put; something else, only if both.
CacheEnded(t) == ~cleaner[t].keys /\ cleaner[t].delete = {} /\ cleaner[t].put = "none"

DownloadIsCached ==
    \A t \in Tab : tab[t].pc = "ready" /\ CacheEnded(t) =>
        \/ cache["current"] = tab[t].blob
        \/ cache["current"] = "none" /\ (cleaner[t].refused \/ tab[t].unread)
        \/ cleaner[t].refused /\ tab[t].unread
=============================================================================
