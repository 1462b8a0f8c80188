------------------------------ MODULE PageSections ------------------------------
(***************************************************************************)
(* The canvas of the page editor (DraggablePageEditor.tsx): a page is a    *)
(* list of sections; a grid holds one more list, a two-column layout two.  *)
(* Sections are dragged within their list, put beside each other, split    *)
(* again, added, and edited in the panel beside the canvas.  All of it is  *)
(* local, until the page is saved; and an answer of the server replaces    *)
(* the page, whatever the seller is doing at the time.                     *)
(*                                                                         *)
(* A section is a number, as its id is random.  The tree is kept flat:     *)
(* lists maps the name of each list to its sections.                       *)
(***************************************************************************)
EXTENDS Naturals, FiniteSets, SequencesExt

CONSTANTS MaxSections,  \* bound: ids made
          MaxTexts,     \* bound: what is typed into one section
          MaxDocEdits   \* bound: what the seller and the server do to the page

ASSUME PageSectionsAssumption ==
  MaxSections \in Nat /\ MaxSections >= 4 /\ MaxTexts \in Nat /\ MaxDocEdits \in Nat

VARIABLES
  doc,      \* page: the type, the lists and the text of its sections
  sectionsMade, \* ids that exist
  divider,  \* the page that a dragged divider remembers, if one is
  docEdits,
  alive,    \* history: sections the page must have
  typed,    \* history: what was typed last into each of them
  late      \* history: a page arrived while a divider was dragged

docVars == <<doc, sectionsMade, divider, docEdits, alive, typed, late>>

Sections == 1..MaxSections
Containers == {"grid_container", "two_column_layout"}
ListNames == {<<0, "top">>} \cup (Sections \X {"left", "right", "children"})
Top == <<0, "top">>

At(page, name) == page.lists[name]

\* findSection: from the top, through children and zones.
Within(page) ==
  LET Step(S) == S \cup UNION {ToSet(At(page, n)) : n \in {m \in ListNames : m[1] \in S}}
      reach[n \in 0..MaxSections] == IF n = 0 THEN ToSet(At(page, Top)) ELSE Step(reach[n - 1])
  IN reach[MaxSections]
FindSection(page, id) == id \in Within(page)

\* How often a section is listed, in all the lists of the page.
Places(page, id) ==
  {p \in ListNames \X Sections : p[2] \in DOMAIN At(page, p[1]) /\ At(page, p[1])[p[2]] = id}

-------------------------------------------------------------------------------
EmptyPage == [type |-> [s \in Sections |-> "none"], lists |-> [n \in ListNames |-> <<>>],
              text |-> [s \in Sections |-> 0]]

\* What the AI or a template left: an empty page, or a grid with two sections in
\* it and one below, for the canvas itself never puts anything into a grid.
Grid == [EmptyPage EXCEPT !.type[1] = "grid_container",
                          !.type[2] = "content", !.type[3] = "content", !.type[4] = "content",
                          !.lists[Top] = <<1, 4>>, !.lists[<<1, "children">>] = <<2, 3>>]

DocInit ==
  /\ doc \in {EmptyPage, Grid}
  /\ sectionsMade = IF doc = Grid THEN 4 ELSE 0
  /\ divider = {} /\ docEdits = 0
  /\ alive = Within(doc) /\ typed = doc.text /\ late = FALSE

Edit == docEdits < MaxDocEdits /\ docEdits' = docEdits + 1
\* The mouse is not holding a divider.
Free == divider = {} /\ Edit /\ UNCHANGED <<divider, late>>

\* arrayMove, within one list.
HandleDragEnd(name, from, to) ==
  /\ Free /\ from # to
  /\ LET list == At(doc, name) IN
       doc' = [doc EXCEPT !.lists[name] = InsertAt(RemoveAt(list, from), to, list[from])]
  /\ UNCHANGED <<sectionsMade, alive, typed>>

\* The section and the one below it become the columns of a new section.
HandleMergeWithNext(name, i) ==
  LET list == At(doc, name)  new == sectionsMade + 1 IN
  /\ Free /\ i < Len(list) /\ new \in Sections
  /\ doc' = [doc EXCEPT !.lists[name] = SubSeq(list, 1, i - 1) \o <<new>>
                                          \o SubSeq(list, i + 2, Len(list)),
                        !.lists[<<new, "left">>] = <<list[i]>>,
                        !.lists[<<new, "right">>] = <<list[i + 1]>>,
                        !.type[new] = "two_column_layout"]
  /\ sectionsMade' = new /\ alive' = alive \cup {new}
  /\ UNCHANGED typed

\* Mutant: the right column is forgotten.
UngroupLeftOnly(page, id) == At(page, <<id, "left">>)

\* What the columns hold, the left one first.
Flattened(page, id) == At(page, <<id, "left">>) \o At(page, <<id, "right">>)

\* The layout goes, its settings with it; its columns take its place.
HandleUngroup(name, i) ==
  LET list == At(doc, name)  id == list[i] IN
  /\ Free /\ doc.type[id] = "two_column_layout"
  /\ doc' = [doc EXCEPT !.lists[name] = SubSeq(list, 1, i - 1) \o Flattened(doc, id)
                                          \o SubSeq(list, i + 1, Len(list)),
                        !.lists[<<id, "left">>] = <<>>, !.lists[<<id, "right">>] = <<>>,
                        !.type[id] = "none", !.text[id] = 0]
  /\ alive' = alive \ {id} /\ typed' = [typed EXCEPT ![id] = 0]
  /\ UNCHANGED sectionsMade

\* At the end of the page.
CreateDefaultSection(type) ==
  LET new == sectionsMade + 1 IN
  /\ Free /\ new \in Sections
  /\ doc' = [doc EXCEPT !.lists[Top] = Append(@, new), !.type[new] = type]
  /\ sectionsMade' = new /\ alive' = alive \cup {new}
  /\ UNCHANGED typed

-------------------------------------------------------------------------------
\* patchSectionRecursively: from the panel beside the canvas, which any section
\* that is found can be opened in, or of a text edited in place.
PatchSection(id) ==
  /\ FindSection(doc, id) /\ doc.text[id] < MaxTexts /\ Free
  /\ doc' = [doc EXCEPT !.text[id] = @ + 1]
  /\ typed' = [typed EXCEPT ![id] = @ + 1]
  /\ UNCHANGED <<sectionsMade, alive>>

\* The divider of a layout: every move writes the page as it was when the button
\* went down, with another split.
StartDrag(id) ==
  /\ divider = {} /\ doc.type[id] = "two_column_layout" /\ divider' = {doc}
  /\ UNCHANGED <<doc, sectionsMade, docEdits, alive, typed, late>>

DragMove ==
  /\ divider # {} /\ doc' \in divider
  /\ UNCHANGED <<sectionsMade, divider, docEdits, alive, typed, late>>

DragUp ==
  /\ divider # {} /\ divider' = {}
  /\ UNCHANGED <<doc, sectionsMade, docEdits, alive, typed, late>>

-------------------------------------------------------------------------------
\* What the server may answer with: this page with a section that the AI added, or
\* another one.
AiAdds(page, name) ==
  LET new == sectionsMade + 1
  IN  [page EXCEPT !.lists[name] = Append(@, new), !.type[new] = "content"]

AiPlaces ==
  {name \in ListNames :
     /\ sectionsMade < MaxSections
     /\ \/ name = Top
        \/ /\ name[1] \in Within(doc) /\ name[2] = "children"
           /\ doc.type[name[1]] = "grid_container"}
Answers == {EmptyPage} \cup {AiAdds(doc, name) : name \in AiPlaces}

\* It is the page from now on.
LoadPage(answer) ==
  /\ Edit
  /\ doc' = answer /\ alive' = Within(answer) /\ typed' = answer.text
  /\ sectionsMade' = IF answer = EmptyPage THEN sectionsMade ELSE sectionsMade + 1
  /\ late' = (late \/ divider # {})
  /\ UNCHANGED divider

DraggableSectionList(name) ==
  \/ \E i, j \in DOMAIN At(doc, name) : HandleDragEnd(name, i, j)
  \/ \E i \in DOMAIN At(doc, name) : HandleMergeWithNext(name, i) \/ HandleUngroup(name, i)

DocNext ==
  \/ \E name \in ListNames : DraggableSectionList(name)
  \/ \E type \in Containers \cup {"content"} : CreateDefaultSection(type)
  \/ \E id \in Within(doc) : PatchSection(id) \/ StartDrag(id)
  \/ DragMove \/ DragUp
  \/ \E answer \in Answers : LoadPage(answer)

DocSpec == DocInit /\ [][DocNext]_docVars

-------------------------------------------------------------------------------
\* Nothing is lost on the canvas: however sections are dragged, put side by side,
\* split and edited, at whatever depth, each of them is on the page, once, with
\* what was typed into it last.  Excepted is a page that arrives while a divider
\* is dragged, which the next move of the mouse undoes
\* (DraggablePageEditor.tsx:184-217, 291-308, 368-387).
NoSectionLost ==
  ~late => /\ Within(doc) = alive
           /\ \A id \in alive : Cardinality(Places(doc, id)) = 1 /\ doc.text[id] = typed[id]
===============================================================================
