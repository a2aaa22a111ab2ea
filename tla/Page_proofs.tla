------------------------------ MODULE Page_proofs ------------------------------
(***************************************************************************)
(* Proofs about the start of a page and its editor, for one tab: what the  *)
(* cache and the local storage hold is shared, so that the steps of        *)
(* another tab break each of the four invariants.  The tab may be loaded,  *)
(* left and lost any number of times.                                      *)
(***************************************************************************)
EXTENDS Page, TLAPS

Pc == {"closed", "loading", "unsupported", "waiting", "matching", "reading",
       "headers", "ready", "failed"}

Blob == {"none", "package", "error page"}

TabRecord == [pc : Pc, auto : BOOLEAN, clears : BOOLEAN, blob : Blob, unread : BOOLEAN]

CleanerRecord == [keys : BOOLEAN, delete : SUBSET Url, put : Blob, refused : BOOLEAN]

\* The type of the variables of Startup, and the loads of the tab.
StartupTypeOK ==
    /\ crashFlag \in BOOLEAN
    /\ cache \in [Url -> Blob]
    /\ tab \in [Tab -> TabRecord]
    /\ cleaner \in [Tab -> CleanerRecord]
    /\ crashedIn \in [Tab -> Pc \cup {""}]

\* Only a page whose headers were not compiled clears the flag when it is left,
\* and a page that has a package and does not clear it has its headers.
ClearsOK(t) ==
    /\ tab[t].clears => tab[t].pc \in {"headers", "failed"} /\ tab[t].blob # "none"
    /\ Tried(t) => tab[t].clears \/ tab[t].pc = "ready"
    /\ tab[t].pc \in {"reading", "headers", "ready"} => tab[t].blob # "none"
    /\ tab[t].pc \in {"closed", "loading", "unsupported", "waiting", "matching"} =>
           tab[t].blob = "none"

\* The flag is there while the headers are compiled, and since a page that
\* tried to was lost until one has its headers or is left; it is there for no
\* other reason.
FlagOK(t) ==
    /\ tab[t].pc = "headers" => crashFlag
    /\ tab[t].pc = "ready" => ~crashFlag
    /\ crashFlag => tab[t].clears \/ crashedIn[t] \in {"headers", "failed"}
    /\ crashedIn[t] = "headers" => crashFlag \/ tab[t].pc = "ready"
    /\ tab[t].auto => crashedIn[t] # "headers"
    /\ tab[t].pc = "waiting" => crashedIn[t] \in {"headers", "failed"}

\* What a page that found an entry it could not read, or one of whose operations
\* was refused, may leave in the cache instead of its reply.
Excused(t) ==
    \/ cache["current"] = "none" /\ (cleaner[t].refused \/ tab[t].unread)
    \/ cleaner[t].refused /\ tab[t].unread

\* The cache operations of a page delete the entry it puts only if the page found
\* an entry there that it could not read; until the page's reply is put, that is
\* asked for, about to be, or refused.
CacheOK(t) ==
    /\ "current" \in cleaner[t].delete => tab[t].unread
    /\ cleaner[t].keys => cleaner[t].put = "none"
    /\ cleaner[t].keys \/ cleaner[t].put # "none" =>
           cache["current"] = "none" \/ tab[t].unread
    /\ cleaner[t].put # "none" => cleaner[t].put = tab[t].blob
    /\ tab[t].pc \in {"closed", "loading", "unsupported", "waiting", "matching"} =>
           cleaner[t] = NoCleaner
    /\ tab[t].pc = "reading" => cleaner[t].keys \/ cleaner[t].put = tab[t].blob \/ Excused(t)
    /\ tab[t].pc \in {"headers", "ready"} =>
           \/ cleaner[t].keys \/ cleaner[t].put = tab[t].blob
           \/ cache["current"] = tab[t].blob
           \/ Excused(t)

\* The inductive invariant.
StartupInv(t) == StartupTypeOK /\ ClearsOK(t) /\ FlagOK(t) /\ CacheOK(t)

EditorRecord == [shown : BOOLEAN, text : Texts, willSave : BOOLEAN, due : BOOLEAN]

\* What is stored or due is what the editor shows, until storing fails.
EditorOK(t) ==
    /\ editor \in [Tab -> EditorRecord]
    /\ threw \in [Tab -> BOOLEAN]
    /\ stored \in Texts \cup {"none"}
    /\ editor[t].shown /\ ~threw[t] =>
           /\ editor[t].willSave => editor[t].due
           /\ editor[t].text # "" => editor[t].due \/ Contents = editor[t].text

--------------------------------------------------------------------------------
(* Startup: every step of the one tab keeps the invariant.                   *)

LEMMA InitHolds ==
    ASSUME NEW t, Tab = {t}, Init PROVE StartupInv(t)
<1>1. Closed \in TabRecord /\ NoCleaner \in CleanerRecord
  BY DEF Closed, NoCleaner, TabRecord, CleanerRecord, Pc, Blob
<1>2. StartupTypeOK
  BY <1>1 DEF Init, StartupTypeOK, Blob
<1>3. ClearsOK(t) /\ FlagOK(t) /\ CacheOK(t)
  BY DEF Init, ClearsOK, FlagOK, CacheOK, Excused, Tried, Closed, NoCleaner
<1> QED BY <1>2, <1>3 DEF StartupInv

\* The records of the tab, and what Set and an assignment to its cleaner do.
LEMMA Records ==
    ASSUME NEW t, Tab = {t}, StartupTypeOK
    PROVE  /\ tab[t] \in TabRecord /\ cleaner[t] \in CleanerRecord
           /\ cache["current"] \in Blob /\ crashedIn[t] \in Pc \cup {""}
  BY DEF StartupTypeOK, Url

LEMMA Moved ==
    ASSUME NEW t, Tab = {t}, StartupTypeOK, NEW r \in TabRecord, Set(t, r)
    PROVE  tab' \in [Tab -> TabRecord] /\ tab'[t] = r
  BY DEF Set, StartupTypeOK

LEMMA NothingToClean ==
    /\ ~NoCleaner.keys /\ NoCleaner.delete = {}
    /\ NoCleaner.put = "none" /\ ~NoCleaner.refused
  BY DEF NoCleaner

LEMMA Cleaned ==
    ASSUME NEW t, Tab = {t}, StartupTypeOK, NEW c \in CleanerRecord,
           cleaner' = [cleaner EXCEPT ![t] = c]
    PROVE  cleaner' \in [Tab -> CleanerRecord] /\ cleaner'[t] = c
  BY DEF StartupTypeOK

LEMMA LoadKeeps ==
    ASSUME NEW t, Tab = {t}, StartupInv(t), Load(t) PROVE StartupInv(t)'
<1> USE DEF StartupInv, Load
<1>1. /\ tab[t] \in TabRecord /\ cleaner[t] \in CleanerRecord
      /\ cache["current"] \in Blob /\ crashedIn[t] \in Pc \cup {""}
  BY Records
<1> DEFINE r == [Closed EXCEPT !.pc = "loading"]
<1>2. r \in TabRecord
  BY <1>1 DEF TabRecord, Pc, Blob, Closed
<1>3. tab' \in [Tab -> TabRecord] /\ tab'[t] = r
  BY <1>2, Moved
<1>4. r.pc = "loading" /\ ~r.auto /\ ~r.clears /\ r.blob = "none"
  BY <1>1 DEF TabRecord, Closed
<1> HIDE DEF r
<1>5. StartupTypeOK'
  BY <1>3, <1>4 DEF StartupTypeOK
<1>6. ClearsOK(t)'
  BY <1>3, <1>4 DEF ClearsOK, Tried
<1>7. FlagOK(t)'
  BY <1>3, <1>4 DEF FlagOK, ClearsOK, Tried
<1>8. CacheOK(t)'
  BY <1>1, NothingToClean, <1>3, <1>4 DEF CacheOK, Excused, ClearsOK, CleanerRecord
<1> QED BY <1>5, <1>6, <1>7, <1>8

LEMMA ClickKeeps ==
    ASSUME NEW t, Tab = {t}, StartupInv(t), Click(t) PROVE StartupInv(t)'
<1> USE DEF StartupInv, Click
<1>1. /\ tab[t] \in TabRecord /\ cleaner[t] \in CleanerRecord
      /\ cache["current"] \in Blob /\ crashedIn[t] \in Pc \cup {""}
  BY Records
<1> DEFINE r == [tab[t] EXCEPT !.pc = "matching"]
<1>2. r \in TabRecord
  BY <1>1 DEF TabRecord, Pc, Blob, Closed
<1>3. tab' \in [Tab -> TabRecord] /\ tab'[t] = r
  BY <1>2, Moved
<1>4. r.pc = "matching" /\ r.auto = tab[t].auto /\ r.unread = tab[t].unread /\ r.clears = tab[t].clears /\ r.blob = tab[t].blob
  BY <1>1 DEF TabRecord, Closed
<1> HIDE DEF r
<1>5. StartupTypeOK'
  BY <1>3, <1>4 DEF StartupTypeOK
<1>6. ClearsOK(t)'
  BY <1>3, <1>4 DEF ClearsOK, Tried
<1>7. FlagOK(t)'
  BY <1>3, <1>4 DEF FlagOK, ClearsOK, Tried
<1>8. CacheOK(t)'
  BY <1>1, NothingToClean, <1>3, <1>4 DEF CacheOK, Excused, ClearsOK, CleanerRecord
<1> QED BY <1>5, <1>6, <1>7, <1>8

LEMMA MatchedKeeps ==
    ASSUME NEW t, Tab = {t}, StartupInv(t), Matched(t) PROVE StartupInv(t)'
<1> USE DEF StartupInv, Matched, Precompile, FlagSet
<1>1. /\ tab[t] \in TabRecord /\ cleaner[t] \in CleanerRecord
      /\ cache["current"] \in Blob /\ crashedIn[t] \in Pc \cup {""}
  BY Records
<1> DEFINE r == [tab[t] EXCEPT !.pc = "headers", !.clears = TRUE, !.blob = cache["current"]]
<1>2. r \in TabRecord
  BY <1>1 DEF TabRecord, Pc, Blob, Closed
<1>3. tab' \in [Tab -> TabRecord] /\ tab'[t] = r
  BY <1>2, Moved
<1>4. r.pc = "headers" /\ r.auto = tab[t].auto /\ r.unread = tab[t].unread /\ r.clears /\ r.blob = cache["current"]
  BY <1>1 DEF TabRecord, Closed
<1> HIDE DEF r
<1>5. StartupTypeOK'
  BY <1>3, <1>4 DEF StartupTypeOK
<1>6. ClearsOK(t)'
  BY <1>3, <1>4 DEF ClearsOK, Tried
<1>7. FlagOK(t)'
  BY <1>3, <1>4 DEF FlagOK, ClearsOK, Tried
<1>8. CacheOK(t)'
  BY <1>1, NothingToClean, <1>3, <1>4 DEF CacheOK, Excused, ClearsOK, CleanerRecord
<1> QED BY <1>5, <1>6, <1>7, <1>8

LEMMA FetchFailsKeeps ==
    ASSUME NEW t, Tab = {t}, StartupInv(t), FetchFails(t) PROVE StartupInv(t)'
<1> USE DEF StartupInv, FetchFails
<1>1. /\ tab[t] \in TabRecord /\ cleaner[t] \in CleanerRecord
      /\ cache["current"] \in Blob /\ crashedIn[t] \in Pc \cup {""}
  BY Records
<1> DEFINE r == [tab[t] EXCEPT !.pc = "failed"]
<1>2. r \in TabRecord
  BY <1>1 DEF TabRecord, Pc, Blob, Closed
<1>3. tab' \in [Tab -> TabRecord] /\ tab'[t] = r
  BY <1>2, Moved
<1>4. r.pc = "failed" /\ r.auto = tab[t].auto /\ r.unread = tab[t].unread /\ r.clears = tab[t].clears /\ r.blob = tab[t].blob
  BY <1>1 DEF TabRecord, Closed
<1> HIDE DEF r
<1>5. StartupTypeOK'
  BY <1>3, <1>4 DEF StartupTypeOK
<1>6. ClearsOK(t)'
  BY <1>3, <1>4 DEF ClearsOK, Tried
<1>7. FlagOK(t)'
  BY <1>3, <1>4 DEF FlagOK, ClearsOK, Tried
<1>8. CacheOK(t)'
  BY <1>1, NothingToClean, <1>3, <1>4 DEF CacheOK, Excused, ClearsOK, CleanerRecord
<1> QED BY <1>5, <1>6, <1>7, <1>8

LEMMA ReadFailsKeeps ==
    ASSUME NEW t, Tab = {t}, StartupInv(t), ReadFails(t) PROVE StartupInv(t)'
<1> USE DEF StartupInv, ReadFails
<1>1. /\ tab[t] \in TabRecord /\ cleaner[t] \in CleanerRecord
      /\ cache["current"] \in Blob /\ crashedIn[t] \in Pc \cup {""}
  BY Records
<1> DEFINE r == [tab[t] EXCEPT !.pc = "failed", !.blob = "none"]
<1>2. r \in TabRecord
  BY <1>1 DEF TabRecord, Pc, Blob, Closed
<1>3. tab' \in [Tab -> TabRecord] /\ tab'[t] = r
  BY <1>2, Moved
<1>4. r.pc = "failed" /\ r.auto = tab[t].auto /\ r.unread = tab[t].unread /\ r.clears = tab[t].clears /\ r.blob = "none"
  BY <1>1 DEF TabRecord, Closed
<1> DEFINE c == [cleaner[t] EXCEPT !.put = "none"]
<1>5. c \in CleanerRecord
  BY <1>1 DEF CleanerRecord, TabRecord, Blob, Url, NoCleaner, Listed
<1>6. cleaner' \in [Tab -> CleanerRecord] /\ cleaner'[t] = c
  BY <1>5, Cleaned
<1>7. /\ c.keys = cleaner[t].keys /\ c.delete = cleaner[t].delete
      /\ c.put = "none" /\ c.refused = cleaner[t].refused
  BY <1>1 DEF CleanerRecord
<1> HIDE DEF r, c
<1>8. StartupTypeOK'
  BY <1>3, <1>4, <1>6, <1>7 DEF StartupTypeOK
<1>9. ClearsOK(t)'
  BY <1>3, <1>4, <1>6, <1>7 DEF ClearsOK, Tried
<1>10. FlagOK(t)'
  BY <1>3, <1>4, <1>6, <1>7 DEF FlagOK, ClearsOK, Tried
<1>11. CacheOK(t)'
  BY <1>1, NothingToClean, <1>3, <1>4, <1>6, <1>7 DEF CacheOK, Excused, ClearsOK, CleanerRecord
<1> QED BY <1>8, <1>9, <1>10, <1>11

LEMMA DownloadedKeeps ==
    ASSUME NEW t, Tab = {t}, StartupInv(t), Downloaded(t) PROVE StartupInv(t)'
<1> USE DEF StartupInv, Downloaded, Precompile, FlagSet
<1>1. /\ tab[t] \in TabRecord /\ cleaner[t] \in CleanerRecord
      /\ cache["current"] \in Blob /\ crashedIn[t] \in Pc \cup {""}
  BY Records
<1> DEFINE r == [tab[t] EXCEPT !.pc = "headers", !.clears = TRUE, !.blob = tab[t].blob]
<1>2. r \in TabRecord
  BY <1>1 DEF TabRecord, Pc, Blob, Closed
<1>3. tab' \in [Tab -> TabRecord] /\ tab'[t] = r
  BY <1>2, Moved
<1>4. r.pc = "headers" /\ r.auto = tab[t].auto /\ r.unread = tab[t].unread /\ r.clears /\ r.blob = tab[t].blob
  BY <1>1 DEF TabRecord, Closed
<1> HIDE DEF r
<1>5. StartupTypeOK'
  BY <1>3, <1>4 DEF StartupTypeOK
<1>6. ClearsOK(t)'
  BY <1>3, <1>4 DEF ClearsOK, Tried
<1>7. FlagOK(t)'
  BY <1>3, <1>4 DEF FlagOK, ClearsOK, Tried
<1>8. CacheOK(t)'
  BY <1>1, NothingToClean, <1>3, <1>4 DEF CacheOK, Excused, ClearsOK, CleanerRecord
<1> QED BY <1>5, <1>6, <1>7, <1>8

LEMMA HeadersDoneKeeps ==
    ASSUME NEW t, Tab = {t}, StartupInv(t), HeadersDone(t) PROVE StartupInv(t)'
<1> USE DEF StartupInv, HeadersDone, ClearedFlag
<1>1. /\ tab[t] \in TabRecord /\ cleaner[t] \in CleanerRecord
      /\ cache["current"] \in Blob /\ crashedIn[t] \in Pc \cup {""}
  BY Records
<1> DEFINE r == [tab[t] EXCEPT !.pc = "ready", !.clears = FALSE]
<1>2. r \in TabRecord
  BY <1>1 DEF TabRecord, Pc, Blob, Closed
<1>3. tab' \in [Tab -> TabRecord] /\ tab'[t] = r
  BY <1>2, Moved
<1>4. r.pc = "ready" /\ r.auto = tab[t].auto /\ r.unread = tab[t].unread /\ ~r.clears /\ r.blob = tab[t].blob
  BY <1>1 DEF TabRecord, Closed
<1> HIDE DEF r
<1>5. StartupTypeOK'
  BY <1>3, <1>4 DEF StartupTypeOK
<1>6. ClearsOK(t)'
  BY <1>3, <1>4 DEF ClearsOK, Tried
<1>7. FlagOK(t)'
  BY <1>3, <1>4 DEF FlagOK, ClearsOK, Tried
<1>8. CacheOK(t)'
  BY <1>1, NothingToClean, <1>3, <1>4 DEF CacheOK, Excused, ClearsOK, CleanerRecord
<1> QED BY <1>5, <1>6, <1>7, <1>8

LEMMA HeadersFailKeeps ==
    ASSUME NEW t, Tab = {t}, StartupInv(t), HeadersFail(t) PROVE StartupInv(t)'
<1> USE DEF StartupInv, HeadersFail
<1>1. /\ tab[t] \in TabRecord /\ cleaner[t] \in CleanerRecord
      /\ cache["current"] \in Blob /\ crashedIn[t] \in Pc \cup {""}
  BY Records
<1> DEFINE r == [tab[t] EXCEPT !.pc = "failed"]
<1>2. r \in TabRecord
  BY <1>1 DEF TabRecord, Pc, Blob, Closed
<1>3. tab' \in [Tab -> TabRecord] /\ tab'[t] = r
  BY <1>2, Moved
<1>4. r.pc = "failed" /\ r.auto = tab[t].auto /\ r.unread = tab[t].unread /\ r.clears = tab[t].clears /\ r.blob = tab[t].blob
  BY <1>1 DEF TabRecord, Closed
<1> HIDE DEF r
<1>5. StartupTypeOK'
  BY <1>3, <1>4 DEF StartupTypeOK
<1>6. ClearsOK(t)'
  BY <1>3, <1>4 DEF ClearsOK, Tried
<1>7. FlagOK(t)'
  BY <1>3, <1>4 DEF FlagOK, ClearsOK, Tried
<1>8. CacheOK(t)'
  BY <1>1, NothingToClean, <1>3, <1>4 DEF CacheOK, Excused, ClearsOK, CleanerRecord
<1> QED BY <1>5, <1>6, <1>7, <1>8

LEMMA KeysGotKeeps ==
    ASSUME NEW t, Tab = {t}, StartupInv(t), KeysGot(t) PROVE StartupInv(t)'
<1> USE DEF StartupInv, KeysGot, Listed
<1>1. /\ tab[t] \in TabRecord /\ cleaner[t] \in CleanerRecord
      /\ cache["current"] \in Blob /\ crashedIn[t] \in Pc \cup {""}
  BY Records
<1> DEFINE c == [cleaner[t] EXCEPT !.keys = FALSE, !.delete = Listed, !.put = tab[t].blob]
<1>2. c \in CleanerRecord
  BY <1>1 DEF CleanerRecord, TabRecord, Blob, Url, NoCleaner, Listed
<1>3. cleaner' \in [Tab -> CleanerRecord] /\ cleaner'[t] = c
  BY <1>2, Cleaned
<1>4. ~c.keys /\ c.delete = Listed /\ c.put = tab[t].blob /\ c.refused = cleaner[t].refused
  BY <1>1 DEF CleanerRecord
<1> HIDE DEF c
<1>5. StartupTypeOK'
  BY <1>3, <1>4 DEF StartupTypeOK
<1>6. ClearsOK(t)'
  BY <1>3, <1>4 DEF ClearsOK, Tried
<1>7. FlagOK(t)'
  BY <1>3, <1>4 DEF FlagOK, ClearsOK, Tried
<1>8. CacheOK(t)'
  BY <1>1, NothingToClean, <1>3, <1>4 DEF CacheOK, Excused, ClearsOK, CleanerRecord
<1> QED BY <1>5, <1>6, <1>7, <1>8

LEMMA InitOkKeeps ==
    ASSUME NEW t, Tab = {t}, StartupInv(t), InitOk(t) PROVE StartupInv(t)'
<1> USE DEF StartupInv, InitOk
<1>1. /\ tab[t] \in TabRecord /\ cleaner[t] \in CleanerRecord
      /\ cache["current"] \in Blob /\ crashedIn[t] \in Pc \cup {""}
  BY Records
<1>2. PICK r \in TabRecord :
          /\ tab' \in [Tab -> TabRecord] /\ tab'[t] = r
          /\ r.clears = tab[t].clears /\ r.blob = tab[t].blob
          /\ \/ r.pc = "unsupported" /\ r.auto = tab[t].auto /\ r.unread = tab[t].unread
             \/ r.pc = "waiting" /\ r.auto = tab[t].auto /\ r.unread = tab[t].unread /\ crashFlag
             \/ r.pc = "matching" /\ r.auto /\ ~crashFlag
  <2>1. ASSUME NEW p \in Pc, NEW b \in BOOLEAN
        PROVE  /\ [tab[t] EXCEPT !.pc = p] \in TabRecord
               /\ [tab[t] EXCEPT !.pc = p, !.auto = b] \in TabRecord
    BY <1>1 DEF TabRecord
  <2>2. CASE Set(t, [tab[t] EXCEPT !.pc = "unsupported"])
    <3> DEFINE r == [tab[t] EXCEPT !.pc = "unsupported"]
    <3>1. r \in TabRecord
      BY <2>1 DEF Pc
    <3>2. tab' \in [Tab -> TabRecord] /\ tab'[t] = r
      BY <2>2, <3>1, Moved
    <3> QED BY <1>1, <3>1, <3>2 DEF TabRecord
  <2>3. CASE crashFlag /\ Set(t, [tab[t] EXCEPT !.pc = "waiting"])
    <3> DEFINE r == [tab[t] EXCEPT !.pc = "waiting"]
    <3>1. r \in TabRecord
      BY <2>1 DEF Pc
    <3>2. tab' \in [Tab -> TabRecord] /\ tab'[t] = r
      BY <2>3, <3>1, Moved
    <3> QED BY <1>1, <2>3, <3>1, <3>2 DEF TabRecord
  <2>4. CASE ~crashFlag /\ Set(t, [tab[t] EXCEPT !.pc = "matching", !.auto = TRUE])
    <3> DEFINE r == [tab[t] EXCEPT !.pc = "matching", !.auto = TRUE]
    <3>1. r \in TabRecord
      BY <1>1 DEF TabRecord, Pc
    <3>2. tab' \in [Tab -> TabRecord] /\ tab'[t] = r
      BY <2>4, <3>1, Moved
    <3> QED BY <1>1, <2>4, <3>1, <3>2 DEF TabRecord
  <2> QED BY <2>2, <2>3, <2>4
<1>3. StartupTypeOK'
  BY <1>2 DEF StartupTypeOK
<1>4. ClearsOK(t)'
  BY <1>2 DEF ClearsOK, Tried
<1>5. FlagOK(t)'
  BY <1>2 DEF FlagOK, ClearsOK, Tried
<1>6. CacheOK(t)'
  BY <1>2, NothingToClean DEF CacheOK, Excused
<1> QED BY <1>3, <1>4, <1>5, <1>6

LEMMA FetchedKeeps ==
    ASSUME NEW t, Tab = {t}, StartupInv(t), Fetched(t) PROVE StartupInv(t)'
<1> USE DEF StartupInv, Fetched
<1>1. /\ tab[t] \in TabRecord /\ cleaner[t] \in CleanerRecord
      /\ cache["current"] \in Blob /\ crashedIn[t] \in Pc \cup {""}
  BY Records
<1> DEFINE u == cache["current"] # "none"
<1>2. PICK blob \in Replies :
          Set(t, [tab[t] EXCEPT !.pc = "reading", !.blob = blob, !.unread = u])
  OBVIOUS
<1> DEFINE r == [tab[t] EXCEPT !.pc = "reading", !.blob = blob, !.unread = u]
<1>3. blob \in Blob \ {"none"}
  BY StartupAssumption DEF Blob
<1>4. r \in TabRecord
  BY <1>1, <1>3 DEF TabRecord, Pc
<1>5. tab' \in [Tab -> TabRecord] /\ tab'[t] = r
  BY <1>2, <1>4, Moved
<1>6. /\ r.pc = "reading" /\ r.blob = blob /\ (r.unread <=> u)
      /\ r.auto = tab[t].auto /\ r.clears = tab[t].clears
  BY <1>1 DEF TabRecord
<1> DEFINE c == [cleaner[t] EXCEPT !.keys = TRUE]
<1>7. c \in CleanerRecord
  BY <1>1 DEF CleanerRecord
<1>8. cleaner' \in [Tab -> CleanerRecord] /\ cleaner'[t] = c
  BY <1>7, Cleaned
<1>9. c.keys /\ c.delete = cleaner[t].delete /\ c.put = cleaner[t].put
  BY <1>1 DEF CleanerRecord
<1> HIDE DEF r, c
<1>10. StartupTypeOK'
  BY <1>5, <1>8 DEF StartupTypeOK
<1>11. ClearsOK(t)'
  BY <1>3, <1>5, <1>6 DEF ClearsOK, Tried
<1>12. FlagOK(t)'
  BY <1>5, <1>6 DEF FlagOK
<1>13. CacheOK(t)'
  BY NothingToClean, <1>5, <1>6, <1>8, <1>9 DEF CacheOK, Excused
<1> QED BY <1>10, <1>11, <1>12, <1>13

LEMMA DeletedKeeps ==
    ASSUME NEW t, Tab = {t}, StartupInv(t), Deleted(t) PROVE StartupInv(t)'
<1> USE DEF StartupInv, Deleted
<1>1. /\ tab[t] \in TabRecord /\ cleaner[t] \in CleanerRecord
      /\ cache["current"] \in Blob /\ crashedIn[t] \in Pc \cup {""}
  BY Records
<1>2. PICK u \in cleaner[t].delete :
          /\ cache' = [cache EXCEPT ![u] = "none"]
          /\ cleaner' = [cleaner EXCEPT ![t].delete = @ \ {u}]
  OBVIOUS
<1>3. u \in Url /\ (u = "current" => tab[t].unread)
  BY <1>1 DEF CleanerRecord, CacheOK
<1> DEFINE c == [cleaner[t] EXCEPT !.delete = @ \ {u}]
<1>4. c \in CleanerRecord
  BY <1>1 DEF CleanerRecord
<1>5. cleaner' \in [Tab -> CleanerRecord] /\ cleaner'[t] = c
  <2>1. cleaner' = [cleaner EXCEPT ![t] = c]
    BY <1>2 DEF StartupTypeOK
  <2> HIDE DEF c
  <2> QED BY <1>4, <2>1, Cleaned
<1>6. /\ c.keys = cleaner[t].keys /\ c.delete = cleaner[t].delete \ {u}
      /\ c.put = cleaner[t].put /\ c.refused = cleaner[t].refused
  BY <1>1 DEF CleanerRecord
<1>7. /\ cache' \in [Url -> Blob]
      /\ cache'["current"] = IF u = "current" THEN "none" ELSE cache["current"]
  BY <1>2, <1>3 DEF StartupTypeOK, Blob, Url
<1> HIDE DEF c
<1>8. StartupTypeOK'
  BY <1>5, <1>7 DEF StartupTypeOK
<1>9. ClearsOK(t)'
  BY DEF ClearsOK, Tried
<1>10. FlagOK(t)'
  BY DEF FlagOK
<1>11. CacheOK(t)'
  BY NothingToClean, <1>5, <1>6, <1>7 DEF CacheOK, Excused
<1> QED BY <1>8, <1>9, <1>10, <1>11

LEMMA PutKeeps ==
    ASSUME NEW t, Tab = {t}, StartupInv(t), Put(t) PROVE StartupInv(t)'
<1> USE DEF StartupInv, Put
<1>1. /\ tab[t] \in TabRecord /\ cleaner[t] \in CleanerRecord
      /\ cache["current"] \in Blob /\ crashedIn[t] \in Pc \cup {""}
  BY Records
<1> DEFINE c == [cleaner[t] EXCEPT !.put = "none"]
<1>2. c \in CleanerRecord
  BY <1>1 DEF CleanerRecord, Blob
<1>3. cleaner' \in [Tab -> CleanerRecord] /\ cleaner'[t] = c
  BY <1>2, Cleaned
<1>4. /\ c.keys = cleaner[t].keys /\ c.delete = cleaner[t].delete
      /\ c.put = "none" /\ c.refused = cleaner[t].refused
  BY <1>1 DEF CleanerRecord
<1>5. cleaner[t].put \in Blob
  BY <1>1 DEF CleanerRecord
<1>6. cache' \in [Url -> Blob] /\ cache'["current"] = cleaner[t].put
  BY <1>5 DEF StartupTypeOK, Url
<1> HIDE DEF c
<1>7. StartupTypeOK'
  BY <1>3, <1>6 DEF StartupTypeOK
<1>8. ClearsOK(t)'
  BY DEF ClearsOK, Tried
<1>9. FlagOK(t)'
  BY DEF FlagOK
<1>10. CacheOK(t)'
  BY NothingToClean, <1>3, <1>4, <1>6 DEF CacheOK, Excused
<1> QED BY <1>7, <1>8, <1>9, <1>10

\* A page whose operations become those of c, with one refused: what the cache
\* holds stays.
LEMMA RefusalKeeps ==
    ASSUME NEW t, Tab = {t}, StartupInv(t), NEW c \in CleanerRecord, c.refused,
           cleaner' = [cleaner EXCEPT ![t] = c],
           UNCHANGED <<crashFlag, cache, tab, loads, crashedIn>>,
           cleaner[t] # NoCleaner,
           c.delete \subseteq cleaner[t].delete,
           c.keys => cleaner[t].keys,
           c.put \in {"none", cleaner[t].put}
    PROVE  StartupInv(t)'
<1>1. cleaner' \in [Tab -> CleanerRecord] /\ cleaner'[t] = c
  BY Cleaned DEF StartupInv
<1>2. StartupTypeOK'
  BY <1>1 DEF StartupInv, StartupTypeOK
<1>3. ClearsOK(t)' /\ FlagOK(t)'
  BY DEF StartupInv, ClearsOK, FlagOK, Tried
<1>4. CacheOK(t)'
  BY <1>1 DEF StartupInv, ClearsOK, CacheOK, Excused
<1> QED BY <1>2, <1>3, <1>4 DEF StartupInv

LEMMA CacheRefusesKeeps ==
    ASSUME NEW t, Tab = {t}, StartupInv(t), CacheRefuses(t) PROVE StartupInv(t)'
<1>1. cleaner[t] \in CleanerRecord
  BY Records DEF StartupInv
<1>2. UNCHANGED <<crashFlag, cache, tab, loads, crashedIn>>
  BY DEF CacheRefuses
<1>3. CASE /\ cleaner[t].keys
           /\ cleaner' = [cleaner EXCEPT ![t] = [@ EXCEPT !.keys = FALSE, !.refused = TRUE]]
  <2> DEFINE c == [cleaner[t] EXCEPT !.keys = FALSE, !.refused = TRUE]
  <2>1. c \in CleanerRecord
    BY <1>1 DEF CleanerRecord
  <2>2. c.refused /\ ~c.keys /\ c.delete = cleaner[t].delete /\ c.put = cleaner[t].put
    BY <1>1 DEF CleanerRecord
  <2>3. cleaner' = [cleaner EXCEPT ![t] = c]
    BY <1>3
  <2> HIDE DEF c
  <2> QED BY <1>2, <1>3, <2>1, <2>2, <2>3, NothingToClean, RefusalKeeps
<1>4. ASSUME NEW u \in cleaner[t].delete,
             cleaner' = [cleaner EXCEPT ![t] =
                 [cleaner[t] EXCEPT !.delete = @ \ {u}, !.refused = TRUE]]
      PROVE  StartupInv(t)'
  <2> DEFINE c == [cleaner[t] EXCEPT !.delete = @ \ {u}, !.refused = TRUE]
  <2>1. c \in CleanerRecord
    BY <1>1 DEF CleanerRecord
  <2>2. /\ c.refused /\ c.keys = cleaner[t].keys
        /\ c.delete = cleaner[t].delete \ {u} /\ c.put = cleaner[t].put
    BY <1>1 DEF CleanerRecord
  <2>3. cleaner' = [cleaner EXCEPT ![t] = c]
    BY <1>4
  <2> HIDE DEF c
  <2> QED BY <1>2, <2>1, <2>2, <2>3, NothingToClean, RefusalKeeps
<1>5. CASE /\ cleaner[t].put # "none"
           /\ cleaner' = [cleaner EXCEPT ![t] = [@ EXCEPT !.put = "none", !.refused = TRUE]]
  <2> DEFINE c == [cleaner[t] EXCEPT !.put = "none", !.refused = TRUE]
  <2>1. c \in CleanerRecord
    BY <1>1 DEF CleanerRecord, Blob
  <2>2. /\ c.refused /\ c.keys = cleaner[t].keys
        /\ c.delete = cleaner[t].delete /\ c.put = "none"
    BY <1>1 DEF CleanerRecord
  <2>3. cleaner' = [cleaner EXCEPT ![t] = c]
    BY <1>5
  <2> HIDE DEF c
  <2> QED BY <1>2, <1>5, <2>1, <2>2, <2>3, NothingToClean, RefusalKeeps
<1> QED BY <1>3, <1>4, <1>5 DEF CacheRefuses

LEMMA LeaveKeeps ==
    ASSUME NEW t, Tab = {t}, StartupInv(t), Leave(t) PROVE StartupInv(t)'
<1> USE DEF StartupInv, Leave
<1>1. /\ tab[t] \in TabRecord /\ cleaner[t] \in CleanerRecord
      /\ cache["current"] \in Blob /\ crashedIn[t] \in Pc \cup {""}
  BY Records
<1>2. Closed \in TabRecord /\ NoCleaner \in CleanerRecord
  BY DEF Closed, NoCleaner, TabRecord, CleanerRecord, Pc, Blob
<1>3. tab' \in [Tab -> TabRecord] /\ tab'[t] = Closed
  BY <1>2, Moved
<1>4. cleaner' \in [Tab -> CleanerRecord] /\ cleaner'[t] = NoCleaner
  BY <1>2, Cleaned
<1>5. /\ Closed.pc = "closed" /\ Closed.auto = FALSE
      /\ Closed.clears = FALSE /\ Closed.blob = "none"
  BY DEF Closed
<1>6. tab[t].pc \in Pc /\ tab[t].clears \in BOOLEAN
  BY <1>1 DEF TabRecord
<1>7. /\ crashedIn' \in [Tab -> Pc \cup {""}]
      /\ crashedIn'[t] = IF Tried(t) THEN "" ELSE crashedIn[t]
  BY <1>1, <1>6 DEF StartupTypeOK
<1>8. crashFlag' \in BOOLEAN /\ (crashFlag' <=> crashFlag /\ ~tab[t].clears)
  BY <1>6 DEF StartupTypeOK
<1>9. StartupTypeOK'
  BY <1>3, <1>4, <1>7, <1>8 DEF StartupTypeOK
<1>10. ClearsOK(t)'
  BY <1>3, <1>5 DEF ClearsOK, Tried
<1>11. FlagOK(t)'
  <2>1. Tried(t) <=> tab[t].clears \/ tab[t].pc = "ready"
    BY DEF ClearsOK, Tried
  <2>2. CASE Tried(t)
    BY <1>3, <1>5, <1>7, <1>8, <2>1, <2>2 DEF FlagOK, ClearsOK
  <2>3. CASE ~Tried(t)
    BY <1>3, <1>5, <1>7, <1>8, <2>1, <2>3 DEF FlagOK
  <2> QED BY <2>2, <2>3
<1>12. CacheOK(t)'
  BY NothingToClean, <1>3, <1>4, <1>5 DEF CacheOK, Excused
<1> QED BY <1>9, <1>10, <1>11, <1>12

LEMMA CrashKeeps ==
    ASSUME NEW t, Tab = {t}, StartupInv(t), Crash(t) PROVE StartupInv(t)'
<1> USE DEF StartupInv, Crash
<1>1. /\ tab[t] \in TabRecord /\ cleaner[t] \in CleanerRecord
      /\ cache["current"] \in Blob /\ crashedIn[t] \in Pc \cup {""}
  BY Records
<1>2. Closed \in TabRecord /\ NoCleaner \in CleanerRecord
  BY DEF Closed, NoCleaner, TabRecord, CleanerRecord, Pc, Blob
<1>3. tab' \in [Tab -> TabRecord] /\ tab'[t] = Closed
  BY <1>2, Moved
<1>4. cleaner' \in [Tab -> CleanerRecord] /\ cleaner'[t] = NoCleaner
  BY <1>2, Cleaned
<1>5. /\ Closed.pc = "closed" /\ Closed.auto = FALSE
      /\ Closed.clears = FALSE /\ Closed.blob = "none"
  BY DEF Closed
<1>6. tab[t].pc \in Pc /\ tab[t].clears \in BOOLEAN
  BY <1>1 DEF TabRecord
<1>7. /\ crashedIn' \in [Tab -> Pc \cup {""}]
      /\ crashedIn'[t] = IF Tried(t) THEN tab[t].pc ELSE crashedIn[t]
  BY <1>1, <1>6 DEF StartupTypeOK
<1>8. crashFlag' \in BOOLEAN /\ (crashFlag' <=> crashFlag)
  BY <1>6 DEF StartupTypeOK
<1>9. StartupTypeOK'
  BY <1>3, <1>4, <1>7, <1>8 DEF StartupTypeOK
<1>10. ClearsOK(t)'
  BY <1>3, <1>5 DEF ClearsOK, Tried
<1>11. FlagOK(t)'
  <2>1. Tried(t) <=> tab[t].clears \/ tab[t].pc = "ready"
    BY DEF ClearsOK, Tried
  <2>2. CASE Tried(t)
    BY <1>3, <1>5, <1>7, <1>8, <2>1, <2>2 DEF FlagOK, ClearsOK
  <2>3. CASE ~Tried(t)
    BY <1>3, <1>5, <1>7, <1>8, <2>1, <2>3 DEF FlagOK
  <2> QED BY <2>2, <2>3
<1>12. CacheOK(t)'
  BY NothingToClean, <1>3, <1>4, <1>5 DEF CacheOK, Excused
<1> QED BY <1>9, <1>10, <1>11, <1>12

LEMMA StepKeeps ==
    ASSUME NEW t, Tab = {t}
    PROVE  StartupInv(t) /\ [Next]_vars => StartupInv(t)'
<1> SUFFICES ASSUME StartupInv(t), [Next]_vars PROVE StartupInv(t)'
  OBVIOUS
<1>1. CASE UNCHANGED vars
  BY <1>1 DEF vars, StartupInv, StartupTypeOK, ClearsOK, FlagOK, CacheOK, Excused, Tried
<1>2. CASE Load(t) \/ Click(t) \/ PageStep(t)
  BY <1>2, LoadKeeps, ClickKeeps, InitOkKeeps, MatchedKeeps, FetchedKeeps, FetchFailsKeeps,
     ReadFailsKeeps, DownloadedKeeps, HeadersDoneKeeps, HeadersFailKeeps DEF PageStep
<1>3. CASE CacheStep(t)
  BY <1>3, KeysGotKeeps, DeletedKeeps, PutKeeps, CacheRefusesKeeps DEF CacheStep
<1>4. CASE Leave(t) \/ Crash(t)
  BY <1>4, LeaveKeeps, CrashKeeps
<1> QED BY <1>1, <1>2, <1>3, <1>4 DEF Next

\* The three properties of Startup follow from the invariant.
LEMMA StartupProperties ==
    ASSUME NEW t, Tab = {t}, StartupInv(t)
    PROVE  CrashStopsAutoStart /\ HeldBackAfterCrash /\ DownloadIsCached
<1>1. CrashStopsAutoStart
  BY DEF StartupInv, FlagOK, CrashStopsAutoStart
<1>2. HeldBackAfterCrash
  BY DEF StartupInv, FlagOK, HeldBackAfterCrash
<1>3. DownloadIsCached
  BY NothingToClean DEF StartupInv, ClearsOK, CacheOK, Excused, CacheEnded, DownloadIsCached
<1> QED BY <1>1, <1>2, <1>3

LEMMA Inductive ==
    ASSUME NEW t, Tab = {t} PROVE Spec => []StartupInv(t)
<1>1. Init => StartupInv(t)
  BY InitHolds
<1>2. StartupInv(t) /\ [Next]_vars => StartupInv(t)'
  BY StepKeeps
<1> QED BY <1>1, <1>2, PTL DEF Spec

\* A page that is lost while the headers are compiled is not followed by one that
\* compiles them by itself, however often the tab is loaded, left and lost.
THEOREM CrashStops ==
    ASSUME NEW t, Tab = {t} PROVE Spec => []CrashStopsAutoStart
<1>1. StartupInv(t) => CrashStopsAutoStart
  BY StartupProperties
<1> QED BY <1>1, Inductive, PTL

\* A page is held back only when the last one that tried to compile the headers
\* was lost before it had them.
THEOREM HeldBack ==
    ASSUME NEW t, Tab = {t} PROVE Spec => []HeldBackAfterCrash
<1>1. StartupInv(t) => HeldBackAfterCrash
  BY StartupProperties
<1> QED BY <1>1, Inductive, PTL

\* When a page has its headers and its cache operations have ended, in whatever
\* order they end and whichever of them are refused, what it used is in the cache
\* under the current URL, with the exceptions that DownloadIsCached names.
THEOREM Cached ==
    ASSUME NEW t, Tab = {t} PROVE Spec => []DownloadIsCached
<1>1. StartupInv(t) => DownloadIsCached
  BY StartupProperties
<1> QED BY <1>1, Inductive, PTL

--------------------------------------------------------------------------------
(* Page.                                                                     *)

\* A page with its editor starts, is left and is lost as Startup says: for any
\* tabs, what holds of Startup holds of it.
THEOREM PageImplementsStartup == PageSpec => Spec
<1>1. PageInit => Init
  BY DEF PageInit
<1>2. [PageNext]_pageVars => [Next]_vars
  BY DEF PageNext, pageVars, Mount, Change, Save, Lifetime, Next
<1> QED BY <1>1, <1>2, PTL DEF PageSpec, Spec

LEMMA Edited ==
    ASSUME NEW t, Tab = {t}, EditorOK(t), NEW e \in EditorRecord,
           editor' = [editor EXCEPT ![t] = e]
    PROVE  editor' \in [Tab -> EditorRecord] /\ editor'[t] = e
  BY DEF EditorOK, EditorRecord

LEMMA NoEditorFacts ==
    /\ NoEditor \in EditorRecord
    /\ ~NoEditor.shown /\ ~NoEditor.willSave /\ ~NoEditor.due
  BY TextsAssumption DEF NoEditor, EditorRecord

LEMMA EditorInit ==
    ASSUME NEW t, Tab = {t}, PageInit PROVE EditorOK(t)
  BY NoEditorFacts DEF PageInit, EditorOK, EditorRecord

LEMMA MountKeeps ==
    ASSUME NEW t, Tab = {t}, EditorOK(t), Mount(t) PROVE EditorOK(t)'
<1> DEFINE e == [NoEditor EXCEPT !.shown = TRUE, !.text = Contents]
<1>1. Contents \in Texts
  BY TextsAssumption DEF Contents, EditorOK
<1>2. e \in EditorRecord
  BY <1>1, NoEditorFacts DEF EditorRecord
<1>3. editor' \in [Tab -> EditorRecord] /\ editor'[t] = e
  BY <1>2, Edited DEF Mount
<1>4. ~e.willSave /\ e.text = Contents
  BY NoEditorFacts DEF EditorRecord
<1> HIDE DEF e
<1>5. Contents' = Contents
  BY DEF Mount, Contents
<1> QED BY <1>3, <1>4, <1>5 DEF EditorOK, EditorRecord, Mount

LEMMA ChangeKeeps ==
    ASSUME NEW t, Tab = {t}, EditorOK(t), Change(t) PROVE EditorOK(t)'
<1>1. PICK text \in Texts :
          editor' = [editor EXCEPT ![t] = [editor[t] EXCEPT
                        !.text = text, !.willSave = TRUE, !.due = @ \/ ~editor[t].willSave]]
  BY DEF Change
<1> DEFINE e == [editor[t] EXCEPT !.text = text, !.willSave = TRUE,
                                  !.due = editor[t].due \/ ~editor[t].willSave]
<1>2. editor[t] \in EditorRecord
  BY DEF EditorOK, EditorRecord
<1>3. e \in EditorRecord
  BY <1>2 DEF EditorRecord
<1>4. editor' = [editor EXCEPT ![t] = e]
  BY <1>1
<1>5. editor' \in [Tab -> EditorRecord] /\ editor'[t] = e
  BY <1>3, <1>4, Edited
<1>6. e.shown = editor[t].shown /\ (e.due <=> editor[t].due \/ ~editor[t].willSave)
  BY <1>2 DEF EditorRecord
<1> HIDE DEF e
<1> QED BY <1>2, <1>5, <1>6 DEF EditorOK, EditorRecord, Change

LEMMA SaveKeeps ==
    ASSUME NEW t, Tab = {t}, EditorOK(t), Save(t) PROVE EditorOK(t)'
<1>1. editor[t] \in EditorRecord
  BY DEF EditorOK, EditorRecord
<1>2. CASE stored' = editor[t].text /\ editor' = [editor EXCEPT ![t] = AfterSave(@)]
           /\ UNCHANGED threw
  <2> DEFINE e == AfterSave(editor[t])
  <2>1. e \in EditorRecord
    BY <1>1 DEF AfterSave, EditorRecord
  <2>2. editor' \in [Tab -> EditorRecord] /\ editor'[t] = e
    BY <1>2, <2>1, Edited
  <2>3. e.text = editor[t].text /\ ~e.willSave
    BY <1>1 DEF AfterSave, EditorRecord
  <2>4. editor[t].text \in Texts /\ editor[t].text # "none"
    BY <1>1, TextsAssumption DEF EditorRecord
  <2>5. editor[t].text # "" => Contents' = editor[t].text
    BY <1>2, <2>4 DEF Contents
  <2> HIDE DEF e
  <2> QED BY <1>2, <2>2, <2>3, <2>4, <2>5 DEF EditorOK, EditorRecord
<1>3. CASE editor' = [editor EXCEPT ![t].due = FALSE] /\ threw' = [threw EXCEPT ![t] = TRUE]
           /\ UNCHANGED stored
  <2>1. editor' \in [Tab -> EditorRecord]
    BY <1>1, <1>3 DEF EditorOK, EditorRecord
  <2>2. threw' \in [Tab -> BOOLEAN] /\ threw'[t]
    BY <1>3 DEF EditorOK
  <2> QED BY <1>3, <2>1, <2>2 DEF EditorOK, EditorRecord
<1> QED BY <1>2, <1>3 DEF Save

LEMMA LifetimeKeeps ==
    ASSUME NEW t, Tab = {t}, EditorOK(t), Lifetime(t), UNCHANGED stored PROVE EditorOK(t)'
<1>1. CASE UNCHANGED <<editor, threw>>
  BY <1>1 DEF EditorOK, EditorRecord, Contents
<1>2. CASE editor' = [editor EXCEPT ![t] = NoEditor] /\ threw' = [threw EXCEPT ![t] = FALSE]
  <2>1. editor' \in [Tab -> EditorRecord] /\ editor'[t] = NoEditor
    BY <1>2, NoEditorFacts, Edited
  <2>2. threw' \in [Tab -> BOOLEAN]
    BY <1>2 DEF EditorOK
  <2> QED BY <2>1, <2>2, NoEditorFacts DEF EditorOK, EditorRecord
<1> QED BY <1>1, <1>2 DEF Lifetime

\* Unless storing failed, what the editor shows is stored or about to be, whatever
\* the user types and whenever the page is lost.
THEOREM EditsSaved ==
    ASSUME NEW t, Tab = {t} PROVE PageSpec => []EditsAreSaved
<1>1. PageInit => EditorOK(t)
  BY EditorInit
<1>2. EditorOK(t) /\ [PageNext]_pageVars => EditorOK(t)'
  <2> SUFFICES ASSUME EditorOK(t), [PageNext]_pageVars PROVE EditorOK(t)'
    OBVIOUS
  <2>1. CASE UNCHANGED pageVars
    BY <2>1 DEF pageVars, EditorOK, Contents
  <2>2. CASE PageNext
    BY <2>2, MountKeeps, ChangeKeeps, SaveKeeps, LifetimeKeeps DEF PageNext
  <2> QED BY <2>1, <2>2
<1>3. EditorOK(t) => EditsAreSaved
  BY DEF EditorOK, EditsAreSaved
<1> QED BY <1>1, <1>2, <1>3, PTL DEF PageSpec
================================================================================
