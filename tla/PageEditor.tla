------------------------------- MODULE PageEditor -------------------------------
(***************************************************************************)
(* The page editor's requests (ai-layout/page.tsx, useAiLayout.ts) and     *)
(* what the server does with them (store_page_service.py).  The seller     *)
(* chooses a page, edits it on the canvas, saves and publishes it, asks    *)
(* the AI to edit it, reverts to a version, applies a template, confirms   *)
(* what the AI has staged.  Every answer replaces the page on the screen;  *)
(* loads alone are cancelled when another page is chosen.                  *)
(*                                                                         *)
(* The content of a page is the page it was made for and a number.  What a *)
(* save checks of its sections is left out, but that it may be refused;    *)
(* titles, colours, messages and the lists of pages and versions are, too. *)
(***************************************************************************)
EXTENDS Naturals, FiniteSets, Sequences

CONSTANTS Keys,         \* page keys of one type
          TemplatePages, \* those a template has
          MaxContents,  \* bound: contents made
          MaxVersions,  \* MAX_VERSIONS_PER_PAGE
          MaxRequests,  \* bound: requests in progress
          MaxEditorMoves \* bound: what the seller does, and requests that fail

ASSUME PageEditorAssumption ==
  TemplatePages \subseteq Keys /\ MaxContents \in Nat /\ MaxVersions \in Nat
  /\ MaxRequests \in Nat \ {0} /\ MaxEditorMoves \in Nat

VARIABLES
  pageKey,    \* the page that is being edited
  page,       \* what is on the screen
  unsaved,    \* it was changed on the canvas since it was set
  calls,      \* requests in progress
  draft, published, versions,  \* the server's, by page
  contents, editorMoves,
  excused,    \* history: the screen may differ from the draft for a known reason
  saved,      \* history: contents that were once a draft
  pruned,     \* history: versions dropped for their age
  raced       \* history: pages with two writes at the same time

editorVars == <<pageKey, page, unsaved, calls, draft, published, versions,
                contents, editorMoves, excused, saved, pruned, raced>>
database == <<draft, published, versions, saved, pruned, raced>>

None == [key |-> "none", n |-> 0]
Contents == [key : Keys, n : 0..MaxContents]

\* A request: the page it was sent for, what it carries, the page it is writing
\* and what it read of it, the pages it has still to write.
Call(kind, key, body) ==
  [kind |-> kind, key |-> key, body |-> body, at |-> "sent", target |-> key, seen |-> None,
   left |-> {}, answer |-> None, live |-> TRUE]

InProgress(kind) == \E r \in calls : r.kind = kind
Room == Cardinality(calls) < MaxRequests
EditorMove == editorMoves < MaxEditorMoves /\ editorMoves' = editorMoves + 1

-------------------------------------------------------------------------------
EditorInit ==
  /\ pageKey \in Keys
  /\ draft \in [Keys -> {None} \cup [key : Keys, n : {0}]]
  /\ \A k \in Keys : draft[k].key \in {"none", k}
  /\ published = [k \in Keys |-> None] /\ versions = [k \in Keys |-> <<>>]
  /\ page = None /\ unsaved = FALSE
  /\ calls = {Call("load", pageKey, None)}
  /\ contents = 0 /\ editorMoves = 0
  /\ excused = FALSE /\ saved = {draft[k] : k \in Keys} \ {None} /\ pruned = {} /\ raced = {}

\* The page on the screen is none until it is loaded; a load of the page before
\* is cancelled, nothing else is.
SetContext(k) ==
  /\ k # pageKey /\ draft[k] # None /\ Room /\ EditorMove
  /\ pageKey' = k /\ page' = None /\ unsaved' = FALSE
  /\ calls' = {[r EXCEPT !.live = r.kind # "load"] : r \in calls} \cup {Call("load", k, None)}
  /\ excused' = \E r \in calls : r.kind # "load"
  /\ UNCHANGED <<database, contents>>

\* On the canvas and in the panel: what is typed is new.
HandleSectionsReorder ==
  /\ page # None /\ contents < MaxContents /\ EditorMove
  /\ contents' = contents + 1
  /\ page' = [key |-> page.key, n |-> contents + 1] /\ unsaved' = TRUE
  /\ UNCHANGED <<pageKey, calls, database, excused>>

\* One thing at a time, or the screen may be wrong.
SendCall(r) ==
  /\ Room /\ EditorMove /\ r \notin calls
  /\ calls' = calls \cup {r}
  /\ excused' = (excused \/ \E q \in calls : q.live)
  /\ UNCHANGED <<pageKey, page, unsaved, database, contents>>

\* Mutant: saved under the page that is chosen now.
SaveLayoutOfContext == SendCall(Call("save", pageKey, page))

SaveLayout == SendCall(Call("save", page.key, page))
HandleSaveLayout == page # None /\ ~InProgress("save") /\ SaveLayout
HandlePublish ==
  page # None /\ ~InProgress("publish") /\ SendCall(Call("publish", pageKey, None))
HandleSend == contents < MaxContents /\ SendCall(Call("chat", pageKey, None))
HandleApplyTemplate ==
  /\ contents + Cardinality(TemplatePages) <= MaxContents /\ ~InProgress("template")
  /\ SendCall([Call("template", pageKey, None) EXCEPT !.left = TemplatePages])

\* A version of the list on the screen, which may still be another page's.
HandleRevert(v) == SendCall(Call("revert", pageKey, v))

\* The AI has staged an action of its own, a template or an edit of any page.
HandleConfirmAction(k) ==
  contents < MaxContents /\ SendCall([Call("confirm", k, None) EXCEPT !.left = {k}])

-------------------------------------------------------------------------------
\* The server.  A write reads the page, adds what it read to the versions, and
\* commits; two of them may have read the same.
Replace(r, q) == calls' = (calls \ {r}) \cup {q}
Answered(r, c) == Replace(r, [r EXCEPT !.at = "answered", !.answer = c])
ClientOnly == UNCHANGED <<pageKey, page, unsaved, editorMoves, excused>>

Open(r, k) ==
  /\ Replace(r, [r EXCEPT !.at = "open", !.target = k, !.seen = draft[k]])
  /\ raced' = IF \E q \in calls \ {r} : q.at = "open" /\ q.target = k
                THEN raced \cup {k} ELSE raced
  /\ UNCHANGED <<draft, published, versions, saved, pruned, contents>> /\ ClientOnly

\* A version is one of the page it is asked for.
VersionIn(list, v) == \E i \in DOMAIN list : list[i] = v

GetPageSchema(r) ==
  /\ r.kind = "load" /\ r.at = "sent"
  /\ Answered(r, draft[r.key])
  /\ UNCHANGED <<database, contents>> /\ ClientOnly

\* What each request may write; the AI any page there is, or a new one.
Begin(r) ==
  /\ r.at = "sent"
  /\ \/ r.kind = "save" /\ Open(r, r.key)
     \/ r.kind = "revert" /\ VersionIn(versions[r.key], r.body) /\ Open(r, r.key)
     \/ r.kind = "chat" /\ contents < MaxContents /\ \E k \in Keys : Open(r, k)
     \/ r.kind \in {"template", "confirm"} /\ \E k \in r.left : Open(r, k)

\* _snapshot_version: of a page that exists, the newest MAX_VERSIONS_PER_PAGE.
SnapshotVersion(r) ==
  IF r.seen = None THEN versions[r.target] ELSE Append(versions[r.target], r.seen)
TooMany(list) == IF Len(list) > MaxVersions THEN Len(list) - MaxVersions ELSE 0
Newest(list) == SubSeq(list, TooMany(list) + 1, Len(list))
Oldest(list) == {list[i] : i \in 1..TooMany(list)}

WritePage(r, c) ==
  LET list == SnapshotVersion(r) IN
  /\ versions' = [versions EXCEPT ![r.target] = Newest(list)]
  /\ pruned' = pruned \cup Oldest(list)
  /\ draft' = [draft EXCEPT ![r.target] = c] /\ saved' = saved \cup {c}
  /\ UNCHANGED <<published, raced>>

\* A save and a revert write what they were given, and answer with it; the others
\* write something new, and may go on; or have nothing more to write.
UpsertPageSections(r) ==
  /\ r.at = "open" /\ r.kind \in {"save", "revert"}
  /\ WritePage(r, r.body) /\ Answered(r, r.body)
  /\ UNCHANGED contents /\ ClientOnly

UpsertNewSections(r) ==
  /\ r.at = "open" /\ r.kind \in {"chat", "template", "confirm"} /\ contents < MaxContents
  /\ contents' = contents + 1
  /\ WritePage(r, [key |-> r.target, n |-> contents + 1])
  /\ Replace(r, [r EXCEPT !.at = "sent", !.left = r.left \ {r.target}])
  /\ ClientOnly

PostAiChat(r) ==
  /\ r.kind = "chat" /\ r.at = "sent" /\ Answered(r, draft[r.key])
  /\ UNCHANGED <<database, contents>> /\ ClientOnly

ApplyStorefrontTemplate(r) ==
  /\ r.kind = "template" /\ r.at = "sent" /\ r.left = {} /\ Answered(r, None)
  /\ UNCHANGED <<database, contents>> /\ ClientOnly

\* A confirmed template is published as well.
ConfirmPendingAction(r) ==
  /\ r.kind = "confirm" /\ r.at = "sent" /\ r.left = {} /\ Answered(r, None)
  /\ published' \in {published, [published EXCEPT ![r.key] = draft[r.key]]}
  /\ UNCHANGED <<draft, versions, saved, pruned, raced, contents>> /\ ClientOnly

\* The draft that the server has, whatever is on the screen.
PublishPage(r) ==
  /\ r.kind = "publish" /\ r.at = "sent" /\ draft[r.key] # None
  /\ published' = [published EXCEPT ![r.key] = draft[r.key]]
  /\ Answered(r, draft[r.key])
  /\ UNCHANGED <<draft, versions, saved, pruned, raced, contents>> /\ ClientOnly

-------------------------------------------------------------------------------
\* Mutant: a load is heard even when another page was chosen since.
HeardAll(r) == TRUE

\* Only loads are ever cancelled.
Heard(r) == r.live

\* The answer is the page from now on: the draft of the page it was sent for,
\* none when there is no such page.
SetPage(r) ==
  /\ r.at = "answered" /\ r.kind \in {"load", "save", "publish", "revert", "chat"}
  /\ calls' = calls \ {r}
  /\ IF Heard(r) /\ (r.kind # "chat" \/ r.answer # None)
       THEN page' = r.answer /\ unsaved' = FALSE
       ELSE UNCHANGED <<page, unsaved>>
  /\ UNCHANGED <<pageKey, database, contents, editorMoves, excused>>

\* A template was applied: the page is loaded again, for the page of the click.
TemplateApplied(r) ==
  /\ r.at = "answered" /\ r.kind = "template"
  /\ calls' = (calls \ {r}) \cup {[Call("load", r.key, None) EXCEPT !.left = {r.key}]}
  /\ excused' = (excused \/ r.key # pageKey)
  /\ UNCHANGED <<pageKey, page, unsaved, database, contents, editorMoves>>

\* An action was confirmed: nothing is loaded.
ActionConfirmed(r) ==
  /\ r.at = "answered" /\ r.kind = "confirm"
  /\ calls' = calls \ {r} /\ excused' = TRUE
  /\ UNCHANGED <<pageKey, page, unsaved, database, contents, editorMoves>>

\* A request fails: refused, lost, or its answer is.  What it has committed stays.
CallFails(r) ==
  /\ EditorMove
  /\ calls' = calls \ {r} /\ excused' = TRUE
  /\ UNCHANGED <<pageKey, page, unsaved, database, contents>>

Refused(r) ==
  /\ r.at = "sent"
  /\ \/ r.kind = "revert" /\ ~VersionIn(versions[r.key], r.body)
     \/ r.kind = "publish" /\ draft[r.key] = None
  /\ calls' = calls \ {r}
  /\ UNCHANGED <<pageKey, page, unsaved, database, contents, editorMoves,
                 excused>>

AiLayoutPage ==
  \/ HandleSectionsReorder \/ HandleSaveLayout \/ HandlePublish \/ HandleSend
  \/ HandleApplyTemplate
  \/ \E k \in Keys : SetContext(k) \/ HandleConfirmAction(k)
  \/ \E k \in Keys : \E i \in DOMAIN versions[k] : HandleRevert(versions[k][i])

EditorNext ==
  \/ AiLayoutPage
  \/ \E r \in calls :
       \/ GetPageSchema(r) \/ Begin(r) \/ UpsertPageSections(r) \/ UpsertNewSections(r)
       \/ PostAiChat(r) \/ ApplyStorefrontTemplate(r) \/ ConfirmPendingAction(r)
       \/ PublishPage(r) \/ Refused(r)
       \/ SetPage(r) \/ TemplateApplied(r) \/ ActionConfirmed(r) \/ CallFails(r)

EditorSpec == EditorInit /\ [][EditorNext]_editorVars

-------------------------------------------------------------------------------
\* However fast the seller goes from page to page, what is on the screen in the
\* end is the draft of the page that is chosen, if he lets each change be answered
\* before the next one or another page, and no request fails.  What was confirmed
\* of the AI's suggestions is on no screen until the page is chosen again
\* (ai-layout/page.tsx:66-94).
ScreenIsDraft ==
  calls = {} /\ ~excused /\ ~unsaved => page = draft[pageKey]

\* The pages of a store stay apart: a draft, a published page or a version is only
\* ever one of its own page's contents, whichever page is chosen while a save, a
\* revert or an answer is on its way, and whichever versions the list still shows
\* (useAiLayout.ts:98-110, store_page_service.py:403-412).
PagesStayApart ==
  \A k \in Keys :
    /\ {draft[k], published[k]} \subseteq [key : {k}, n : 0..MaxContents] \cup {None}
    /\ \A i \in DOMAIN versions[k] : versions[k][i].key = k

\* What was a draft once can be brought back: it is the draft, or a version, or it
\* was dropped for newer ones; unless two writes of the page ran at the same time,
\* when both keep the same draft and the first to commit is lost
\* (store_page_service.py:330-358, 387-425, 574-607).
Recoverable ==
  \A c \in saved : \/ c \in pruned \/ c.key \in raced
                   \/ \E k \in Keys : c = draft[k] \/ VersionIn(versions[k], c)

\* Drafts are safe: the two together, whatever is saved, published, reverted,
\* applied from a template or confirmed, and whatever fails.
DraftsAreSafe == PagesStayApart /\ Recoverable
===============================================================================
