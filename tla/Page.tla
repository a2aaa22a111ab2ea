---------------------------------- MODULE Page ----------------------------------
(***************************************************************************)
(* A page with its editor (Monaco.svelte).  The page starts (Startup) with *)
(* the text that the local storage has, or with a sample; an edit asks the *)
(* browser for a callback in which the text is stored, unless one is due.  *)
(* What is due is lost with the page, and storing fails when the quota of  *)
(* the site is used up.                                                    *)
(***************************************************************************)
EXTENDS Startup

CONSTANTS Texts, Sample

\* No text is the mark of an absent entry.
ASSUME TextsAssumption == {"", Sample} \subseteq Texts /\ "none" \notin Texts

VARIABLES
    stored,   \* hipscript-content in the local storage, or "none"
    editor,   \* the editor of each page
    threw     \* history: storing failed in a page

pageVars == <<vars, stored, editor, threw>>

NoEditor == [shown |-> FALSE, text |-> "", willSave |-> FALSE, due |-> FALSE]

\* The text of a page that opens: the empty text counts as none.
Contents == IF stored \in {"none", ""} THEN Sample ELSE stored

---------------------------------------------------------------------------
\* The component is imported and the editor created.
Mount(t) ==
    /\ tab[t].pc # "closed" /\ ~editor[t].shown
    /\ editor' = [editor EXCEPT ![t] = [NoEditor EXCEPT !.shown = TRUE, !.text = Contents]]
    /\ UNCHANGED <<vars, stored, threw>>

\* The user types or selects a sample.
Change(t) ==
    /\ editor[t].shown
    /\ \E text \in Texts :
           editor' = [editor EXCEPT ![t] = [editor[t] EXCEPT
                         !.text = text, !.willSave = TRUE, !.due = @ \/ ~editor[t].willSave]]
    /\ UNCHANGED <<vars, stored, threw>>

\* Wrong: further edits do not ask for a callback.
StillSaving(e) == [e EXCEPT !.due = FALSE]

AfterSave(e) == [e EXCEPT !.due = FALSE, !.willSave = FALSE]

\* The callback; when setItem throws, willSave stays.
Save(t) ==
    /\ editor[t].due
    /\ \/ /\ stored' = editor[t].text
          /\ editor' = [editor EXCEPT ![t] = AfterSave(@)]
          /\ UNCHANGED threw
       \/ /\ editor' = [editor EXCEPT ![t].due = FALSE]
          /\ threw' = [threw EXCEPT ![t] = TRUE]
          /\ UNCHANGED stored
    /\ UNCHANGED vars

\* The page starts, is left or crashes.
Lifetime(t) ==
    \/ (Load(t) \/ Click(t) \/ PageStep(t) \/ CacheStep(t)) /\ UNCHANGED <<editor, threw>>
    \/ /\ Leave(t) \/ Crash(t)
       /\ editor' = [editor EXCEPT ![t] = NoEditor]
       /\ threw' = [threw EXCEPT ![t] = FALSE]

PageInit ==
    /\ Init
    /\ stored = "none"
    /\ editor = [t \in Tab |-> NoEditor]
    /\ threw = [t \in Tab |-> FALSE]

PageNext ==
    \E t \in Tab : Mount(t) \/ Change(t) \/ Save(t) \/ (Lifetime(t) /\ UNCHANGED stored)

PageSpec == PageInit /\ [][PageNext]_pageVars

---------------------------------------------------------------------------
\* Unless storing failed in this page, a page that opened now would show the text
\* of the editor, or a callback is due that stores it: whenever the page is lost,
\* only the edits since the last callback are (Monaco.svelte:30-41).  The empty
\* text is not shown again.
EditsAreSaved ==
    \A t \in Tab : editor[t].shown /\ editor[t].text # "" /\ ~threw[t] =>
        editor[t].due \/ Contents = editor[t].text
===============================================================================
