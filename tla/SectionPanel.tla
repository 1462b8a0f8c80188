------------------------------ MODULE SectionPanel ------------------------------
(***************************************************************************)
(* The panel that edits one section of a page (SectionPropertiesEditor).   *)
(* A text is kept in every language of the store; the tabs choose which    *)
(* one the fields show and change.  A section from before that has plain   *)
(* strings, the same for every language.  Every field writes all settings: *)
(* those of the last render, with its own key changed.                     *)
(*                                                                         *)
(* A section has one localized title, one option (a size, a colour, a      *)
(* number of columns) and a list of texts or a table of them, as its type  *)
(* says; a testimonial's three texts are one here.                         *)
(***************************************************************************)
EXTENDS Naturals, SequencesExt

CONSTANTS Langs,      \* supportedLanguages
          MaxWords,   \* bound: different texts
          MaxItems    \* bound: items of a list, columns and rows of a table

ASSUME SectionPanelAssumption == MaxWords \in Nat \ {0} /\ MaxItems \in Nat \ {0}

VARIABLES
  type,      \* section.type
  settings,  \* section.settings
  editingLang,
  want,      \* history: what was typed last, for every text and language
  spoiled    \* history: a text was edited in one of the ways that lose some

panelVars == <<type, settings, editingLang, want, spoiled>>

Words == 0..MaxWords
Characters == MaxWords + 1  \* what a string spread into an object leaves
Plain == {"text_block", "hero_banner", "grid_container", "product_grid", "video_embed"}
Lists == {"gallery", "button_group", "testimonials", "feature_highlights"}

Nothing == [l \in Langs |-> 0]
New == [legacy |-> FALSE, text |-> Nothing]
Old(w) == [legacy |-> TRUE, text |-> [l \in Langs |-> w]]

\* { ...value, [lang]: text }, as the canvas has it: a string leaves its characters.
\* (Mutant: so does the panel.)
SpreadOnly(value, l) ==
  IF value.legacy THEN [legacy |-> FALSE, text |-> [m \in Langs |-> Characters]] ELSE value

\* A string is that text in every language.
NormalizeLocalized(value, l) == [value EXCEPT !.legacy = FALSE]

\* The field changes the text of the language whose tab is open, and keeps the rest.
LocalizedInput(value, w) ==
  [NormalizeLocalized(value, editingLang) EXCEPT !.text[editingLang] = w]

\* A plain field has one text.
PlainInput(w) == Old(w)

-------------------------------------------------------------------------------
Shape(ty) ==
  [title |-> New, option |-> 0,
   items |-> IF ty \in Lists THEN <<Old(1)>> ELSE <<>>,
   headers |-> IF ty = "table" THEN <<New>> ELSE <<>>,
   rows |-> IF ty = "table" THEN <<<<New>>>> ELSE <<>>]

Shown(s) == [title |-> s.title.text, items |-> [i \in DOMAIN s.items |-> s.items[i].text],
             rows |-> [r \in DOMAIN s.rows |-> [c \in DOMAIN s.rows[r] |-> s.rows[r][c].text]]]

PanelInit ==
  /\ type \in Plain \cup Lists \cup {"table"}
  /\ \E title \in {New, Old(1)} : settings = [Shape(type) EXCEPT !.title = title]
  /\ editingLang \in Langs
  /\ want = Shown(settings) /\ spoiled = FALSE

LanguageTabs(l) ==
  /\ l # editingLang /\ editingLang' = l
  /\ UNCHANGED <<type, settings, want, spoiled>>

\* handleSettingChange: the settings of the last render, with one key changed.
HandleSettingChange(key, value) ==
  /\ settings' = [settings EXCEPT ![key] = value]
  /\ UNCHANGED <<type, editingLang>>

Title(w) ==
  /\ HandleSettingChange("title", LocalizedInput(settings.title, w))
  /\ want' = [want EXCEPT !.title[editingLang] = w]
  /\ UNCHANGED spoiled

\* A colour, a font, a size: selects, swatches and checkboxes.
Option == HandleSettingChange("option", 1 - settings.option) /\ UNCHANGED <<want, spoiled>>

\* The panel's list of texts: one is changed, added, or thrown away.
UpdateItem(i, w) ==
  /\ HandleSettingChange("items", [settings.items EXCEPT ![i] = LocalizedInput(@, w)])
  /\ want' = [want EXCEPT !.items[i][editingLang] = w]
  /\ UNCHANGED spoiled

AddItem ==
  /\ Len(settings.items) < MaxItems
  /\ HandleSettingChange("items", Append(settings.items, New))
  /\ want' = [want EXCEPT !.items = Append(@, Nothing)]
  /\ UNCHANGED spoiled

RemoveItem(i) ==
  /\ HandleSettingChange("items", RemoveAt(settings.items, i))
  /\ want' = [want EXCEPT !.items = RemoveAt(@, i)]
  /\ UNCHANGED spoiled

ItemFields(w) ==
  \/ Title(w) \/ AddItem
  \/ \E i \in DOMAIN settings.items : UpdateItem(i, w) \/ RemoveItem(i)

\* The addresses of a gallery are not localized.
UpdateImage(i, w) ==
  /\ HandleSettingChange("items", [settings.items EXCEPT ![i] = PlainInput(w)])
  /\ want' = [want EXCEPT !.items[i] = [l \in Langs |-> w]]
  /\ UNCHANGED spoiled

-------------------------------------------------------------------------------
\* A table: the panel has a field for every header and, in each row, for every
\* header, whether the row has a cell there or not.
SetHeaderCell(c, w) ==
  /\ HandleSettingChange("headers", [settings.headers EXCEPT ![c] = LocalizedInput(@, w)])
  /\ UNCHANGED <<want, spoiled>>

SetRowCell(r, c, w) ==
  IF c \in DOMAIN settings.rows[r]
    THEN /\ HandleSettingChange("rows", [settings.rows EXCEPT ![r][c] = LocalizedInput(@, w)])
         /\ want' = [want EXCEPT !.rows[r][c][editingLang] = w]
         /\ UNCHANGED spoiled
    ELSE /\ HandleSettingChange("rows", settings.rows)
         /\ spoiled' = TRUE /\ UNCHANGED want

\* Two settings are changed by one click: the second is written with the settings
\* of before the first, so that the headers stay what they were.
AddColumn ==
  /\ \A r \in DOMAIN settings.rows : Len(settings.rows[r]) < MaxItems
  /\ HandleSettingChange("rows", [r \in DOMAIN settings.rows |-> Append(settings.rows[r], New)])
  /\ want' = [want EXCEPT !.rows = [r \in DOMAIN @ |-> Append(@[r], Nothing)]]
  /\ UNCHANGED spoiled

Without(rows, c) ==
  [r \in DOMAIN rows |-> IF c \in DOMAIN rows[r] THEN RemoveAt(rows[r], c) ELSE rows[r]]
RemoveColumn(c) ==
  /\ HandleSettingChange("rows", Without(settings.rows, c))
  /\ want' = [want EXCEPT !.rows = Without(@, c)]
  /\ UNCHANGED spoiled

AddRow ==
  /\ Len(settings.rows) < MaxItems /\ settings.headers # <<>>
  /\ HandleSettingChange("rows", Append(settings.rows, [c \in DOMAIN settings.headers |-> New]))
  /\ want' = [want EXCEPT !.rows = Append(@, [c \in DOMAIN settings.headers |-> Nothing])]
  /\ UNCHANGED spoiled

RemoveRow(r) ==
  /\ HandleSettingChange("rows", RemoveAt(settings.rows, r))
  /\ want' = [want EXCEPT !.rows = RemoveAt(@, r)]
  /\ UNCHANGED spoiled

-------------------------------------------------------------------------------
\* What the panel shows, by type.
TextFields(w) == type \in {"text_block", "hero_banner"} /\ (Title(w) \/ Option)
ContainerFields == type = "grid_container" /\ Option
ProductGridFields(w) == type = "product_grid" /\ (Title(w) \/ Option)
VideoFields(w) == type = "video_embed" /\ (Title(w) \/ Option)
GalleryFields(w) ==
  /\ type = "gallery"
  /\ \/ Title(w) \/ Option \/ AddItem
     \/ \E i \in DOMAIN settings.items : UpdateImage(i, w) \/ RemoveItem(i)
ButtonGroupFields(w) == type = "button_group" /\ (ItemFields(w) \/ Option)
TestimonialFields(w) == type = "testimonials" /\ ItemFields(w)
HighlightFields(w) == type = "feature_highlights" /\ (ItemFields(w) \/ Option)
TableFields(w) ==
  /\ type = "table"
  /\ \/ Title(w) \/ AddColumn \/ AddRow
     \/ \E c \in DOMAIN settings.headers :
          \/ SetHeaderCell(c, w) \/ RemoveColumn(c)
          \/ \E r \in DOMAIN settings.rows : SetRowCell(r, c, w)
     \/ \E r \in DOMAIN settings.rows : RemoveRow(r)

\* On the canvas: the text of a hero or a text block is edited in place, and the
\* value it had is spread, string or not.
InlineEdit(w) ==
  /\ type \in {"text_block", "hero_banner"}
  /\ w # settings.title.text[editingLang]
  /\ HandleSettingChange("title", [SpreadOnly(settings.title, editingLang)
                                     EXCEPT !.text[editingLang] = w])
  /\ want' = [want EXCEPT !.title[editingLang] = w]
  /\ spoiled' = (spoiled \/ settings.title.legacy)

PanelNext ==
  \/ \E l \in Langs : LanguageTabs(l)
  \/ ContainerFields
  \/ \E w \in Words :
       \/ TextFields(w) \/ ProductGridFields(w) \/ VideoFields(w) \/ GalleryFields(w)
       \/ ButtonGroupFields(w) \/ TestimonialFields(w) \/ HighlightFields(w)
       \/ TableFields(w) \/ InlineEdit(w)

PanelSpec == PanelInit /\ [][PanelNext]_panelVars

-------------------------------------------------------------------------------
\* What was typed is kept, in every language: switching languages, changing another
\* text or an option, adding and removing items and rows, and an old section's
\* strings, lose nothing.  Excepted are an old string that is edited in place, and
\* a cell that the row does not have because its column was removed
\* (SectionPropertiesEditor.tsx:122-137, 190-200, 586-599).
TypedIsKept == ~spoiled => Shown(settings) = want
===============================================================================
