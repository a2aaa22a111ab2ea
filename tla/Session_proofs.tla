---------------------------- MODULE Session_proofs ----------------------------
(* One run at a time, on its own device, with code compiled from its own     *)
(* text: proofs for any number of runs and any texts.                        *)
EXTENDS Session, TLAPS

(***************************************************************************)
(* The inductive invariant, in parts.                                      *)
(***************************************************************************)

\* Before a run has its code it has no program either, and the runs after the
\* controller's have not been started.
NoCodeYet ==
    /\ compiling => cur \in Run
    /\ \A r \in Run :
        /\ run[r].pc \in {"none", "init", "compile"} =>
              run[r].program = "none" /\ run[r].url = None
        /\ At(r, "compile") => run[r].contents \in Contents
        /\ r > cur => At(r, "none")

\* Code that is labelled with a text was compiled from it, but for the cache
\* as it starts out.
Labelled(c) == c.code = c.contents \/ (c.contents = Empty /\ c.url = None)

HasCode(r) == run[r].pc \in {"adapter", "device", "shader", "module", "running",
                             "timestamps"}

TextOK ==
    /\ Labelled(codeCache)
    /\ \A r \in Run : HasCode(r) \/ run[r].program # "none" => Labelled(run[r])

\* A run uses the code of the cache, which is never revoked.
UrlOK ==
    /\ codeCache.url \notin revoked
    /\ \A u \in revoked : run[u].url = u
    /\ \A r \in Run : Active(r) => run[r].url \in {None, codeCache.url}

\* From the device on, the device is the run's own; before it, there is no
\* program.
DeviceOK == \A r \in Run :
    /\ run[r].pc \in {"shader", "module", "running", "timestamps"} =>
          wgpuDevice = r /\ run[r].device = "live"
    /\ run[r].pc \in {"adapter", "device"} => run[r].program = "none"

IInv == SessionTypeOK /\ OneRun /\ NoCodeYet /\ TextOK /\ UrlOK /\ DeviceOK

-------------------------------------------------------------------------------
(* Facts about a step of one run.                                            *)

RunType == [pc : Awaits \cup {"none", "ended"}, aborted : BOOLEAN,
            contents : Contents \cup {None}, code : Contents \cup {None},
            url : Run \cup {None}, device : {"none", "live", "destroyed"},
            program : {"none", "running", "exited"}]

\* What a step may leave in the cache.
CacheOK(c) ==
    /\ c.contents \in Contents /\ c.code \in Contents \cup {None}
    /\ c.url \in (Run \cup {None}) \ revoked
    /\ Labelled(c)

\* A step of an active run is one of the run the controller belongs to.
LEMMA ActiveIsCurrent ==
    ASSUME IInv, NEW r \in Run, Active(r)
    PROVE  compiling /\ r = cur /\ \A q \in Run : Active(q) => q = r
BY DEF IInv, OneRun

\* The step of a run changes its record and no other.
LEMMA RecordChanges ==
    ASSUME SessionTypeOK, NEW r \in Run, NEW rec \in RunType,
           run' = [run EXCEPT ![r] = rec]
    PROVE  /\ run' \in [Run -> RunType]
           /\ run'[r] = rec
           /\ \A q \in Run : q # r => run'[q] = run[q]
BY DEF SessionTypeOK, RunType

\* How a run ends: its device is destroyed and its program is left alone.
LEMMA EndFacts ==
    ASSUME IInv, NEW r \in Run, Active(r), NEW rec \in RunType, End(r, rec),
           UNCHANGED <<lib, libInit, editor, cur, revoked, wgpuDevice>>,
           CacheOK(codeCache'),
           rec.program # "none" => Labelled(rec),
           r \in revoked => rec.url = r
    PROVE  IInv'
<1> DEFINE last == [rec EXCEPT !.pc = "ended",
                               !.device = IF rec.device = "live" THEN "destroyed"
                                         ELSE rec.device]
<1>1. last \in RunType /\ last.pc = "ended" /\ last.program = rec.program
      /\ last.url = rec.url /\ last.code = rec.code /\ last.contents = rec.contents
  BY DEF RunType
<1>2. run' = [run EXCEPT ![r] = last] /\ compiling' = FALSE
  BY DEF End
<1>3. /\ run' \in [Run -> RunType] /\ run'[r] = last
      /\ \A q \in Run : q # r => run'[q] = run[q]
  BY <1>1, <1>2, RecordChanges DEF IInv
<1>4. r = cur /\ \A q \in Run : ~Active(q)'
  BY <1>1, <1>3, ActiveIsCurrent DEF Active, Awaits
<1> HIDE DEF last
<1>5. SessionTypeOK'
  BY <1>2, <1>3 DEF IInv, SessionTypeOK, RunType, CacheOK
<1>6. OneRun'
  BY <1>2, <1>4 DEF OneRun
<1>7. NoCodeYet'
  BY <1>1, <1>3, <1>4 DEF IInv, NoCodeYet, At, Run, SessionTypeOK
<1>8. TextOK'
  BY <1>1, <1>3 DEF IInv, TextOK, HasCode, Labelled, CacheOK
<1>9. UrlOK'
  BY <1>1, <1>3, <1>4 DEF IInv, UrlOK, SessionTypeOK, CacheOK
<1>10. DeviceOK'
  <2> SUFFICES ASSUME NEW q \in Run PROVE ~(run'[q].pc \in Awaits)
    BY DEF DeviceOK, Awaits
  <2> QED BY <1>4 DEF Active
<1> QED BY <1>5, <1>6, <1>7, <1>8, <1>9, <1>10 DEF IInv

\* How a run goes on to its next await.
LEMMA GoOnFacts ==
    ASSUME IInv, NEW r \in Run, Active(r), NEW rec \in RunType,
           NEW pc \in Awaits \ {"init"}, GoOn(r, pc, rec),
           UNCHANGED <<lib, libInit, editor, cur, revoked>>,
           wgpuDevice' \in Run \cup {None},
           CacheOK(codeCache'),
           pc = "compile" => /\ rec.program = "none" /\ rec.url = None
                             /\ rec.contents \in Contents,
           pc # "compile" => Labelled(rec),
           r \in revoked => rec.url = r,
           rec.url \in {None, codeCache'.url},
           pc \in {"adapter", "device"} => rec.program = "none",
           pc \in {"shader", "module", "running", "timestamps"} =>
               wgpuDevice' = r /\ rec.device = "live"
    PROVE  IInv'
<1> DEFINE next == [rec EXCEPT !.pc = pc]
<1>1. next \in RunType /\ next.pc = pc /\ next.program = rec.program
      /\ next.url = rec.url /\ next.code = rec.code /\ next.contents = rec.contents
      /\ next.device = rec.device
  BY DEF RunType
<1>2. run' = [run EXCEPT ![r] = next] /\ compiling' = compiling
  BY DEF GoOn
<1>3. /\ run' \in [Run -> RunType] /\ run'[r] = next
      /\ \A q \in Run : q # r => run'[q] = run[q]
  BY <1>1, <1>2, RecordChanges DEF IInv
<1>4. compiling /\ r = cur /\ \A q \in Run : q # r => ~Active(q) /\ ~(run'[q].pc \in Awaits)
  BY <1>3, ActiveIsCurrent DEF Active
<1> HIDE DEF next
<1>5. SessionTypeOK'
  BY <1>2, <1>3 DEF IInv, SessionTypeOK, RunType, CacheOK
<1>6. OneRun'
  BY <1>1, <1>2, <1>3, <1>4 DEF OneRun, Active
<1>7. NoCodeYet'
  BY <1>1, <1>3, <1>4 DEF IInv, NoCodeYet, At, Run, SessionTypeOK, Awaits
<1>8. TextOK'
  <2> SUFFICES ASSUME NEW q \in Run, HasCode(q)' \/ run'[q].program # "none"
               PROVE  Labelled(run'[q])
    BY DEF TextOK, Labelled, CacheOK
  <2>1. CASE q = r
    BY <1>1, <1>3, <2>1 DEF HasCode, Labelled
  <2>2. CASE q # r
    BY <1>3, <2>2 DEF IInv, TextOK, HasCode
  <2> QED BY <2>1, <2>2
<1>9. UrlOK'
  <2>1. \A q \in Run : Active(q)' => run'[q].url \in {None, codeCache'.url}
    BY <1>1, <1>3, <1>4 DEF Active
  <2> QED BY <2>1, <1>1, <1>3 DEF IInv, UrlOK, SessionTypeOK, CacheOK
<1>10. DeviceOK'
  BY <1>1, <1>3, <1>4 DEF DeviceOK, Awaits
<1> QED BY <1>5, <1>6, <1>7, <1>8, <1>9, <1>10 DEF IInv

\* A run that is on, and the cache.
LEMMA RunFacts ==
    ASSUME IInv, NEW r \in Run
    PROVE  /\ run[r] \in RunType /\ CacheOK(codeCache)
           /\ wgpuDevice \in Run \cup {None}
           /\ r \notin revoked \/ (run[r].url = r /\ r # None)
           /\ Active(r) => run[r].url \in {None, codeCache.url}
           /\ HasCode(r) => Labelled(run[r])
           /\ run[r].program # "none" => Labelled(run[r])
BY SessionAssumption DEF IInv, SessionTypeOK, RunType, CacheOK, UrlOK, TextOK

-------------------------------------------------------------------------------
(* The steps of a run.                                                       *)

LEMMA InitDoneInv == ASSUME IInv, NEW r \in Run, InitDone(r) PROVE IInv'
<1>1. /\ Active(r) /\ run[r].program = "none" /\ run[r].url = None
      /\ UNCHANGED <<lib, libInit, editor, cur, codeCache, revoked, wgpuDevice>>
  BY DEF InitDone, At, Active, Awaits, IInv, NoCodeYet
<1>2. /\ run[r] \in RunType /\ CacheOK(codeCache) /\ CacheOK(codeCache')
      /\ wgpuDevice' \in Run \cup {None} /\ r \notin revoked /\ editor \in Contents
  BY <1>1, RunFacts DEF CacheOK, Labelled, IInv, SessionTypeOK
<1>3. CASE Hit(editor)
  <2> DEFINE rec == [run[r] EXCEPT !.contents = editor, !.code = codeCache.code,
                                   !.url = codeCache.url]
  <2>1. /\ rec \in RunType /\ rec.program = "none" /\ rec.contents = editor
        /\ rec.code = codeCache.code /\ rec.url = codeCache.url
    BY <1>1, <1>2 DEF RunType, CacheOK
  <2>2. Labelled(rec)
    BY <1>2, <1>3, <2>1 DEF Labelled, CacheOK, Hit
  <2>3. End(r, rec) \/ GoOn(r, "adapter", rec)
    BY <1>3 DEF InitDone, GoOnUnlessAborted
  <2> HIDE DEF rec
  <2>4. CASE End(r, rec)
    BY <1>1, <1>2, <2>1, <2>2, <2>4, EndFacts
  <2>5. CASE GoOn(r, "adapter", rec)
    BY <1>1, <1>2, <2>1, <2>2, <2>5, GoOnFacts DEF Awaits
  <2> QED BY <2>3, <2>4, <2>5
<1>4. CASE ~Hit(editor)
  <2> DEFINE rec == [run[r] EXCEPT !.contents = editor]
  <2>1. /\ rec \in RunType /\ rec.program = "none" /\ rec.url = None
        /\ rec.contents = editor
    BY <1>1, <1>2 DEF RunType
  <2>2. End(r, rec) \/ GoOn(r, "compile", rec)
    BY <1>4 DEF InitDone, GoOnUnlessAborted
  <2> HIDE DEF rec
  <2>3. CASE End(r, rec)
    BY <1>1, <1>2, <2>1, <2>3, EndFacts
  <2>4. CASE GoOn(r, "compile", rec)
    BY <1>1, <1>2, <2>1, <2>4, GoOnFacts DEF Awaits
  <2> QED BY <2>2, <2>3, <2>4
<1> QED BY <1>3, <1>4

LEMMA CompiledInv == ASSUME IInv, NEW r \in Run, Compiled(r) PROVE IInv'
<1>1. /\ Active(r) /\ run[r].program = "none" /\ run[r].url = None
      /\ run[r].contents \in Contents
      /\ UNCHANGED <<lib, libInit, editor, cur, revoked, wgpuDevice>>
  BY DEF Compiled, At, Active, Awaits, IInv, NoCodeYet
<1>2. /\ run[r] \in RunType /\ wgpuDevice' \in Run \cup {None} /\ r \notin revoked
  BY <1>1, RunFacts
<1> DEFINE rec == [run[r] EXCEPT !.code = run[r].contents, !.url = r]
<1>3. /\ rec \in RunType /\ rec.program = "none" /\ rec.url = r
      /\ rec.code = rec.contents
  BY <1>1, <1>2 DEF RunType
<1>4. CacheOK(codeCache') /\ codeCache'.url = r
  BY <1>1, <1>2 DEF Compiled, OwnText, CacheOK, Labelled
<1>5. End(r, rec) \/ GoOn(r, "adapter", rec)
  BY DEF Compiled, GoOnUnlessAborted
<1>6. Labelled(rec)
  BY <1>3 DEF Labelled
<1> HIDE DEF rec
<1>7. CASE End(r, rec)
  BY <1>1, <1>2, <1>3, <1>4, <1>6, <1>7, EndFacts
<1>8. CASE GoOn(r, "adapter", rec)
  BY <1>1, <1>2, <1>3, <1>4, <1>6, <1>8, GoOnFacts DEF Awaits
<1> QED BY <1>5, <1>7, <1>8

LEMMA AdapterGotInv == ASSUME IInv, NEW r \in Run, AdapterGot(r) PROVE IInv'
<1>1. /\ Active(r) /\ HasCode(r) /\ run[r].program = "none" /\ GoOn(r, "device", run[r])
      /\ UNCHANGED <<lib, libInit, editor, cur, codeCache, revoked, wgpuDevice>>
  BY DEF AdapterGot, At, Active, Awaits, HasCode, IInv, DeviceOK
<1>2. /\ run[r] \in RunType /\ CacheOK(codeCache') /\ Labelled(run[r])
      /\ wgpuDevice' \in Run \cup {None} /\ run[r].url \in {None, codeCache'.url}
      /\ (r \in revoked => run[r].url = r)
  BY <1>1, RunFacts DEF CacheOK, Labelled
<1> QED BY <1>1, <1>2, GoOnFacts DEF Awaits

LEMMA DeviceGotInv == ASSUME IInv, NEW r \in Run, DeviceGot(r) PROVE IInv'
<1> DEFINE rec == [run[r] EXCEPT !.device = "live"]
<1>1. /\ Active(r) /\ HasCode(r) /\ run[r].program = "none" /\ GoOn(r, "shader", rec)
      /\ wgpuDevice' = r
      /\ UNCHANGED <<lib, libInit, editor, cur, codeCache, revoked>>
  BY DEF DeviceGot, LastDevice, At, Active, Awaits, HasCode, IInv, DeviceOK
<1>2. /\ run[r] \in RunType /\ CacheOK(codeCache') /\ Labelled(run[r])
      /\ run[r].url \in {None, codeCache'.url} /\ (r \in revoked => run[r].url = r)
  BY <1>1, RunFacts DEF CacheOK, Labelled
<1>3. /\ rec \in RunType /\ rec.device = "live" /\ Labelled(rec) /\ rec.url = run[r].url
  BY <1>2 DEF RunType, Labelled
<1> HIDE DEF rec
<1> QED BY <1>1, <1>2, <1>3, GoOnFacts DEF Awaits

LEMMA ShaderValidInv == ASSUME IInv, NEW r \in Run, ShaderValid(r) PROVE IInv'
<1>1. /\ Active(r) /\ HasCode(r) /\ GoOn(r, "module", run[r])
      /\ wgpuDevice' = r /\ run[r].device = "live"
      /\ UNCHANGED <<lib, libInit, editor, cur, codeCache, revoked, wgpuDevice>>
  BY DEF ShaderValid, At, Active, Awaits, HasCode, IInv, DeviceOK
<1>2. /\ run[r] \in RunType /\ CacheOK(codeCache') /\ Labelled(run[r])
      /\ run[r].url \in {None, codeCache'.url} /\ (r \in revoked => run[r].url = r)
  BY <1>1, RunFacts DEF CacheOK, Labelled
<1> QED BY <1>1, <1>2, GoOnFacts DEF Awaits

LEMMA ModuleLoadedInv == ASSUME IInv, NEW r \in Run, ModuleLoaded(r) PROVE IInv'
<1> DEFINE rec == [run[r] EXCEPT !.program = "running"]
<1>1. /\ Active(r) /\ HasCode(r) /\ (End(r, rec) \/ GoOn(r, "running", rec))
      /\ wgpuDevice' = r /\ run[r].device = "live"
      /\ UNCHANGED <<lib, libInit, editor, cur, codeCache, revoked, wgpuDevice>>
  BY DEF ModuleLoaded, GoOnUnlessAborted, At, Active, Awaits, HasCode, IInv, DeviceOK
<1>2. /\ run[r] \in RunType /\ CacheOK(codeCache') /\ Labelled(run[r])
      /\ run[r].url \in {None, codeCache'.url} /\ (r \in revoked => run[r].url = r)
  BY <1>1, RunFacts DEF CacheOK, Labelled
<1>3. /\ rec \in RunType /\ rec.device = "live" /\ Labelled(rec) /\ rec.url = run[r].url
  BY <1>1, <1>2 DEF RunType, Labelled
<1> HIDE DEF rec
<1>4. CASE End(r, rec)
  BY <1>1, <1>2, <1>3, <1>4, EndFacts
<1>5. CASE GoOn(r, "running", rec)
  BY <1>1, <1>2, <1>3, <1>5, GoOnFacts DEF Awaits
<1> QED BY <1>1, <1>4, <1>5

\* A run that ends with its record as it is.
LEMMA EndsInv ==
    ASSUME IInv, NEW r \in Run, Active(r), End(r, run[r]),
           UNCHANGED <<lib, libInit, editor, cur, codeCache, revoked, wgpuDevice>>
    PROVE  IInv'
<1>1. /\ run[r] \in RunType /\ CacheOK(codeCache')
      /\ (run[r].program # "none" => Labelled(run[r])) /\ (r \in revoked => run[r].url = r)
  BY RunFacts DEF CacheOK, Labelled
<1> QED BY <1>1, EndFacts

LEMMA AwaitFailsInv == ASSUME IInv, NEW r \in Run, AwaitFails(r) PROVE IInv'
<1>1. Active(r)
  BY SessionAssumption DEF AwaitFails, At, Active, Awaits
<1> QED BY <1>1, EndsInv DEF AwaitFails

LEMMA TimesReadInv == ASSUME IInv, NEW r \in Run, TimesRead(r) PROVE IInv'
<1>1. Active(r)
  BY DEF TimesRead, At, Active, Awaits
<1> QED BY <1>1, EndsInv DEF TimesRead

LEMMA ExitedInv == ASSUME IInv, NEW r \in Run, Exited(r) PROVE IInv'
<1>1. /\ Active(r) /\ HasCode(r) /\ GoOn(r, "timestamps", run[r])
      /\ wgpuDevice' = r /\ run[r].device = "live"
      /\ UNCHANGED <<lib, libInit, editor, cur, codeCache, revoked, wgpuDevice>>
  BY DEF Exited, At, Active, Awaits, HasCode, IInv, DeviceOK
<1>2. /\ run[r] \in RunType /\ CacheOK(codeCache') /\ Labelled(run[r])
      /\ run[r].url \in {None, codeCache'.url} /\ (r \in revoked => run[r].url = r)
  BY <1>1, RunFacts DEF CacheOK, Labelled
<1> QED BY <1>1, <1>2, GoOnFacts DEF Awaits

-------------------------------------------------------------------------------
(* The program, the garbage collector, the page and the user.                *)

\* A step that changes nothing of a run but its signal, and which program that
\* was started still runs.
LEMMA SameButProgram ==
    ASSUME IInv, UNCHANGED <<page, codeCache, revoked, wgpuDevice>>,
           run' \in [Run -> RunType],
           \A q \in Run : /\ run'[q].pc = run[q].pc /\ run'[q].url = run[q].url
                         /\ run'[q].device = run[q].device
                         /\ run'[q].code = run[q].code /\ run'[q].contents = run[q].contents
                         /\ (run'[q].program # "none" <=> run[q].program # "none")
    PROVE  IInv'
<1>1. SessionTypeOK'
  BY DEF IInv, SessionTypeOK, RunType, page
<1>2. OneRun' /\ NoCodeYet' /\ UrlOK' /\ DeviceOK'
  BY DEF IInv, OneRun, NoCodeYet, UrlOK, DeviceOK, Active, At, page, SessionTypeOK
<1>3. TextOK'
  BY DEF IInv, TextOK, HasCode, Labelled
<1> QED BY <1>1, <1>2, <1>3 DEF IInv

LEMMA ProgramExitsInv == ASSUME IInv, NEW r \in Run, ProgramExits(r) PROVE IInv'
<1> DEFINE rec == [run[r] EXCEPT !.program = "exited"]
<1>1. /\ run[r] \in RunType /\ run[r].program = "running"
      /\ UNCHANGED <<page, codeCache, revoked, wgpuDevice>>
  BY RunFacts DEF ProgramExits
<1>2. /\ rec \in RunType /\ rec.pc = run[r].pc /\ rec.url = run[r].url
      /\ rec.device = run[r].device /\ rec.program = "exited"
      /\ rec.code = run[r].code /\ rec.contents = run[r].contents
  BY <1>1 DEF RunType
<1>3. run' = [run EXCEPT ![r] = rec]
  BY <1>1 DEF ProgramExits
<1> HIDE DEF rec
<1>4. /\ run' \in [Run -> RunType] /\ run'[r] = rec
      /\ \A q \in Run : q # r => run'[q] = run[q]
  BY <1>2, <1>3, RecordChanges DEF IInv
<1>5. \A q \in Run : /\ run'[q].pc = run[q].pc /\ run'[q].url = run[q].url
                     /\ run'[q].device = run[q].device
                     /\ run'[q].code = run[q].code /\ run'[q].contents = run[q].contents
                     /\ (run'[q].program # "none" <=> run[q].program # "none")
  BY <1>1, <1>2, <1>4
<1> QED BY <1>1, <1>4, <1>5, SameButProgram

LEMMA RevokeInv == ASSUME IInv, NEW u \in Run, Revoke(u) PROVE IInv'
BY DEF IInv, Revoke, Replaced, SessionTypeOK, OneRun, NoCodeYet, TextOK, UrlOK, DeviceOK,
       Active, At, HasCode, Labelled, page

LEMMA PageInv == ASSUME IInv, PageReady \/ InitSettles \/ Edit PROVE IInv'
<1>1. /\ UNCHANGED <<compiling, cur, codeCache, revoked, wgpuDevice, run>>
      /\ lib' \in BOOLEAN /\ libInit' \in {"none", "pending", "ok", "failed"}
      /\ editor' \in Contents
  BY DEF PageReady, InitSettles, Edit, IInv, SessionTypeOK
<1> QED BY <1>1 DEF IInv, SessionTypeOK, OneRun, NoCodeYet, TextOK, UrlOK, DeviceOK,
                    Active, At, HasCode, Labelled

LEMMA ClickRunInv == ASSUME IInv, ClickRun PROVE IInv'
<1> DEFINE r == cur + 1
<1>1. r \in Run /\ run[r].pc = "none" /\ run[r].program = "none" /\ run[r].url = None
  BY SessionAssumption DEF ClickRun, IInv, NoCodeYet, SessionTypeOK, Run, At
<1>2. PICK pc \in {"init", "ended"} :
         /\ run' = [run EXCEPT ![r] = [run[r] EXCEPT !.pc = pc]]
         /\ compiling' = (pc = "init")
         /\ libInit' \in {"none", "pending", "ok", "failed"}
  BY DEF ClickRun, SetAtOnce, IInv, SessionTypeOK
<1>3. /\ ~compiling /\ cur' = r
      /\ UNCHANGED <<lib, editor, codeCache, revoked, wgpuDevice>>
  BY DEF ClickRun
<1> DEFINE rec == [run[r] EXCEPT !.pc = pc]
<1>4. rec \in RunType /\ rec.pc = pc /\ rec.program = "none" /\ rec.url = None
  BY <1>1, <1>2, RunFacts DEF RunType, Awaits
<1>5. /\ run' \in [Run -> RunType] /\ run'[r] = rec
      /\ \A q \in Run : q # r => run'[q] = run[q] /\ ~Active(q)
  BY <1>1, <1>2, <1>3, <1>4, RecordChanges DEF IInv, OneRun
<1> HIDE DEF rec
<1>6. SessionTypeOK'
  BY <1>1, <1>2, <1>3, <1>5 DEF IInv, SessionTypeOK, RunType, Run
<1>7. OneRun'
  BY <1>1, <1>2, <1>3, <1>4, <1>5 DEF OneRun, Active, Awaits
<1>8. NoCodeYet'
  BY <1>1, <1>2, <1>3, <1>4, <1>5 DEF IInv, NoCodeYet, At, SessionTypeOK, Run
<1>9. TextOK'
  BY <1>1, <1>2, <1>3, <1>4, <1>5 DEF IInv, TextOK, HasCode, Labelled
<1>10. UrlOK'
  <2>1. r \notin revoked
    BY <1>1, RunFacts
  <2> QED BY <1>3, <1>4, <1>5, <2>1 DEF IInv, UrlOK, Active, SessionTypeOK
<1>11. DeviceOK'
  BY <1>2, <1>3, <1>4, <1>5 DEF IInv, DeviceOK
<1> QED BY <1>6, <1>7, <1>8, <1>9, <1>10, <1>11 DEF IInv

LEMMA ClickCancelInv == ASSUME IInv, ClickCancel PROVE IInv'
<1> DEFINE rec == [run[cur] EXCEPT
                     !.aborted = TRUE,
                     !.program = IF At(cur, "running") THEN Killed(@) ELSE @]
<1>1. cur \in Run
  BY DEF ClickCancel, IInv, NoCodeYet
<1>2. /\ run[cur] \in RunType /\ UNCHANGED <<page, codeCache, revoked, wgpuDevice>>
  BY <1>1, RunFacts DEF ClickCancel
<1>3. run' = [run EXCEPT ![cur] = rec]
  BY DEF ClickCancel
<1>4. /\ rec \in RunType /\ rec.pc = run[cur].pc /\ rec.url = run[cur].url
      /\ rec.device = run[cur].device
      /\ rec.code = run[cur].code /\ rec.contents = run[cur].contents
      /\ (rec.program # "none" <=> run[cur].program # "none")
  BY <1>2 DEF RunType, Killed
<1> HIDE DEF rec
<1>5. /\ run' \in [Run -> RunType] /\ run'[cur] = rec
      /\ \A q \in Run : q # cur => run'[q] = run[q]
  BY <1>1, <1>3, <1>4, RecordChanges DEF IInv
<1>6. \A q \in Run : /\ run'[q].pc = run[q].pc /\ run'[q].url = run[q].url
                     /\ run'[q].device = run[q].device
                     /\ run'[q].code = run[q].code /\ run'[q].contents = run[q].contents
                     /\ (run'[q].program # "none" <=> run[q].program # "none")
  BY <1>4, <1>5
<1> QED BY <1>2, <1>5, <1>6, SameButProgram

LEMMA InitInv == Init => IInv
<1> SUFFICES ASSUME Init PROVE IInv
  OBVIOUS
<1>1. /\ NotStarted \in RunType /\ NotStarted.pc = "none"
      /\ NotStarted.program = "none" /\ NotStarted.url = None
  BY DEF NotStarted, RunType
<1>2. /\ \A r \in Run : run[r] = NotStarted
      /\ codeCache.contents = Empty /\ codeCache.code = None /\ codeCache.url = None
  BY DEF Init
<1>3. run \in [Run -> RunType]
  BY <1>1 DEF Init
<1>4. SessionTypeOK
  <2>1. run \in [Run -> RunType] /\ cur \in 0 .. MaxRuns /\ revoked \subseteq Run
    BY <1>3, SessionAssumption DEF Init
  <2> QED BY <1>2, <2>1, SessionAssumption DEF Init, SessionTypeOK, RunType
<1>5. OneRun /\ NoCodeYet /\ TextOK /\ UrlOK /\ DeviceOK
  BY <1>1, <1>2 DEF Init, OneRun, NoCodeYet, TextOK, UrlOK, DeviceOK, Active, At,
     Awaits, HasCode, Labelled
<1> QED BY <1>4, <1>5 DEF IInv

LEMMA StepInv == IInv /\ [Next]_vars => IInv'
<1> SUFFICES ASSUME IInv, [Next]_vars PROVE IInv'
  OBVIOUS
<1>1. CASE \E r \in Run : RunStep(r)
  BY <1>1, InitDoneInv, CompiledInv, AdapterGotInv, DeviceGotInv, ShaderValidInv,
     ModuleLoadedInv, AwaitFailsInv, ExitedInv, TimesReadInv DEF RunStep
<1>2. CASE \E r \in Run : ProgramExits(r) \/ Revoke(r)
  BY <1>2, ProgramExitsInv, RevokeInv
<1>3. CASE PageReady \/ InitSettles \/ Edit
  BY <1>3, PageInv
<1>4. CASE ClickRun \/ ClickCancel
  BY <1>4, ClickRunInv, ClickCancelInv
<1>5. CASE UNCHANGED vars
  BY <1>5 DEF vars, page, IInv, SessionTypeOK, OneRun, NoCodeYet, TextOK, UrlOK, DeviceOK,
         Active, At, HasCode, Labelled
<1> QED BY <1>1, <1>2, <1>3, <1>4, <1>5 DEF Next

LEMMA Inductive == Spec => []IInv
BY InitInv, StepInv, PTL DEF Spec

-------------------------------------------------------------------------------
\* Every variable holds a value of its kind.
THEOREM TypeKept == Spec => []SessionTypeOK
<1>1. IInv => SessionTypeOK
  BY DEF IInv
<1> QED BY <1>1, Inductive, PTL

\* At most one run is on, and the button says Cancel exactly then.
THEOREM OneRunAtATime == Spec => []OneRun
<1>1. IInv => OneRun
  BY DEF IInv
<1> QED BY <1>1, Inductive, PTL

\* A program is compiled from the text its run read, whatever the user did to
\* the editor, and other runs to the cache, since then.
THEOREM TextKept == Spec => []RunsItsText
<1>1. IInv => RunsItsText
  BY DEF IInv, TextOK, RunsItsText, Labelled
<1> QED BY <1>1, Inductive, PTL

\* The URL a run loads its program from is not revoked while the run is on.
THEOREM UrlKept == Spec => []UrlLives
<1>1. IInv => UrlLives
  BY SessionAssumption DEF IInv, SessionTypeOK, UrlOK, UrlLives
<1> QED BY <1>1, Inductive, PTL

\* The device the program of an active run works on is that run's, and alive.
THEOREM DeviceKept == Spec => []OwnDevice
<1>1. IInv => OwnDevice
  BY DEF IInv, OneRun, NoCodeYet, DeviceOK, OwnDevice, Active, Awaits
<1> QED BY <1>1, Inductive, PTL

===============================================================================
