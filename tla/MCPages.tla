-------------------------------- MODULE MCPages --------------------------------
(***************************************************************************)
(* For TLC: the cart of a shop, and the pages of the seller's console.  In *)
(* the browser they share no state, each talks to the server by itself;    *)
(* so that they are checked side by side: a behaviour is one of one of     *)
(* them, chosen at the start.                                              *)
(***************************************************************************)
EXTENDS ShopCart, PageSections, SectionPanel, PageEditor, PendingActions,
        ProductForms, StoreSettings, ProductList

VARIABLE part

others7 == <<docVars, panelVars, editorVars, pendingVars, formVars, settingsVars,
             listVars>>
vars == <<part, cartVars, docVars, panelVars, editorVars, pendingVars, formVars,
          settingsVars, listVars>>

\* A part that is not looked at rests in one of its initial states.
Init ==
  /\ part \in {"cart", "canvas", "panel", "editor", "actions", "forms", "settings", "list"}
  /\ CartInit /\ DocInit /\ PanelInit /\ EditorInit /\ PendingInit /\ ProductFormsInit
  /\ SettingsInit /\ ListInit
  /\ part # "cart" => scope = "store" /\ stored = NoCart
  /\ part # "canvas" => doc = EmptyPage
  /\ part # "panel" =>
       type = "text_block" /\ settings = Shape(type) /\ editingLang = CHOOSE l \in Langs : TRUE
  /\ part # "editor" =>
       pageKey = (CHOOSE k \in Keys : TRUE) /\ draft = [k \in Keys |-> None]
  /\ part # "forms" => rule = Default /\ ~made /\ product = Blank
  /\ part # "settings" => row = DefaultSettings /\ formData = DefaultSettings
  /\ part # "list" => catalogue = {}

\* The part that is looked at may change.
Rest ==
  /\ UNCHANGED part
  /\ IF part = "cart" THEN TRUE ELSE UNCHANGED cartVars
  /\ IF part = "canvas" THEN TRUE ELSE UNCHANGED docVars
  /\ IF part = "panel" THEN TRUE ELSE UNCHANGED panelVars
  /\ IF part = "editor" THEN TRUE ELSE UNCHANGED editorVars
  /\ IF part = "actions" THEN TRUE ELSE UNCHANGED pendingVars
  /\ IF part = "forms" THEN TRUE ELSE UNCHANGED formVars
  /\ IF part = "settings" THEN TRUE ELSE UNCHANGED settingsVars
  /\ IF part = "list" THEN TRUE ELSE UNCHANGED listVars

Next ==
  \/ part = "cart" /\ CartNext /\ Rest
  \/ part = "canvas" /\ DocNext /\ Rest
  \/ part = "panel" /\ PanelNext /\ Rest
  \/ part = "editor" /\ EditorNext /\ Rest
  \/ part = "actions" /\ PendingNext /\ Rest
  \/ part = "forms" /\ ProductFormsNext /\ Rest
  \/ part = "settings" /\ SettingsNext /\ Rest
  \/ part = "list" /\ ListNext /\ Rest

Spec == Init /\ [][Next]_vars
================================================================================
