------------------------------ MODULE StoreSettings ------------------------------
(***************************************************************************)
(* The settings page of the console (SettingsPageClient.tsx) and the row   *)
(* it saves (update_store_settings_service).  The page keeps one record,   *)
(* formData, and saves all of it; two managers, the assistant and the      *)
(* platform change the same row.  A page that could not read the row shows *)
(* defaults and saves those.                                               *)
(*                                                                         *)
(* Currency, e-mail, template, style sheet and the review switches are one *)
(* field here; a label of the menu is the set of its languages.            *)
(***************************************************************************)
EXTENDS Naturals, SequencesExt

CONSTANTS SiteLangs,  \* languages that a store may choose from; "he" is the fallback
          MaxNav,     \* bound: items of the menu
          MaxSettingEdits, \* bound: edits of the page
          MaxOthers \* bound: writes by others

ASSUME StoreSettingsAssumption ==
  /\ "he" \in SiteLangs /\ IsFiniteSet(SiteLangs)
  /\ MaxNav \in Nat /\ MaxSettingEdits \in Nat /\ MaxOthers \in Nat

VARIABLES
  row,       \* TenantSettings
  formData,
  uploads,   \* logo uploads in progress, each with the formData of when it began
  saving,    \* payloads on their way; loading while there is one
  settingEdits, others,
  lopsided   \* history: the assistant changed the languages alone

settingsVars == <<row, formData, uploads, saving, settingEdits, others, lopsided>>

NavItem(custom, label) == [custom |-> custom, enabled |-> TRUE, label |-> label]
DefaultNav == <<NavItem(FALSE, {})>>
DefaultSettings ==
  [plain |-> 0, logo |-> 0, langs |-> <<"he">>, def |-> "he", nav |-> DefaultNav,
   require |-> FALSE, force |-> FALSE]

\* The public config is read when the page is opened; if that fails, so much the worse.
LoadSettings == {row, DefaultSettings}

SettingsInit ==
  /\ row \in {DefaultSettings,
              [DefaultSettings EXCEPT !.langs = SetToSeq(SiteLangs),
                                      !.nav = <<NavItem(FALSE, SiteLangs)>>, !.require = TRUE]}
  /\ formData \in LoadSettings
  /\ uploads = {} /\ saving = {} /\ settingEdits = 0 /\ others = 0 /\ lopsided = FALSE

-------------------------------------------------------------------------------
\* Every field writes the whole record of the last render, with its own key changed.
SetFormData(new) ==
  /\ settingEdits < MaxSettingEdits /\ settingEdits' = settingEdits + 1 /\ formData' = new
  /\ UNCHANGED <<row, uploads, saving, others, lopsided>>

TypePlain == SetFormData([formData EXCEPT !.plain = 1 - @])

AddLanguage(code) ==
  /\ code \notin ToSet(formData.langs)
  /\ SetFormData([formData EXCEPT !.langs = Append(@, code)])

OtherLanguages(langs, code) ==
  FoldLeft(LAMBDA left, l : IF l = code THEN left ELSE Append(left, l), <<>>, langs)

\* Mutant: the default stays, whether it is still offered or not.
WithoutLanguageKeepDefault(settings, code) ==
  LET next == OtherLanguages(settings.langs, code)
  IN  [settings EXCEPT !.langs = IF next = <<>> THEN <<"he">> ELSE next]

WithoutLanguage(settings, code) ==
  LET left == OtherLanguages(settings.langs, code)
      next == IF left = <<>> THEN <<"he">> ELSE left
  IN  [settings EXCEPT !.langs = next, !.def = IF @ \in ToSet(next) THEN @ ELSE next[1]]

RemoveLanguage(code) ==
  code \in ToSet(formData.langs) /\ SetFormData(WithoutLanguage(formData, code))

ChooseDefault(code) ==
  /\ code \in ToSet(formData.langs) \ {formData.def}
  /\ SetFormData([formData EXCEPT !.def = code])

UpdateNavItem(i, l) ==
  SetFormData([formData EXCEPT !.nav[i].label = IF l \in @ THEN @ \ {l} ELSE @ \cup {l}])
EnableNavItem(i) == SetFormData([formData EXCEPT !.nav[i].enabled = ~@])

MoveNavItem(i) ==
  /\ i + 1 \in DOMAIN formData.nav
  /\ SetFormData([formData EXCEPT !.nav = [@ EXCEPT ![i] = formData.nav[i + 1],
                                                   ![i + 1] = formData.nav[i]]])

RemoveNavItem(i) ==
  formData.nav[i].custom /\ SetFormData([formData EXCEPT !.nav = RemoveAt(@, i)])

\* A custom item has the same label in every language of that moment.
AddCustomNav ==
  /\ Len(formData.nav) < MaxNav
  /\ SetFormData([formData EXCEPT !.nav = Append(@, NavItem(TRUE, ToSet(formData.langs)))])

TickRequire == ~formData.force /\ SetFormData([formData EXCEPT !.require = ~@])

\* An upload keeps the record of the render that it was begun in, and writes that
\* record back with the new address.
HandleLogoFile ==
  /\ settingEdits < MaxSettingEdits /\ settingEdits' = settingEdits + 1
  /\ uploads' = uploads \cup {formData}
  /\ UNCHANGED <<row, formData, saving, others, lopsided>>

LogoUploaded(base) ==
  /\ uploads' = uploads \ {base} /\ formData' \in {formData, [base EXCEPT !.logo = 1]}
  /\ UNCHANGED <<row, saving, settingEdits, others, lopsided>>

HandleSubmit ==
  /\ saving = {} /\ settingEdits < MaxSettingEdits /\ settingEdits' = settingEdits + 1
  /\ saving' = {[formData EXCEPT !.require = @ \/ formData.force]}
  /\ UNCHANGED <<row, formData, uploads, others, lopsided>>

Reopen ==
  /\ settingEdits < MaxSettingEdits /\ settingEdits' = settingEdits + 1
  /\ formData' \in LoadSettings /\ uploads' = {}
  /\ UNCHANGED <<row, saving, others, lopsided>>

-------------------------------------------------------------------------------
\* The service.  The lock of the platform wins over the manager's choice; while
\* completeness is demanded, every item of the menu is labelled in every language.
CompletenessDemanded(settings) == settings.require \/ settings.force
NavLabelled(settings) ==
  \A i \in DOMAIN settings.nav : ToSet(settings.langs) \subseteq settings.nav[i].label

Written(settings) ==
  [settings EXCEPT !.require = IF row.force THEN row.require ELSE @, !.force = row.force]
Accepted(new) == CompletenessDemanded(new) => NavLabelled(new)
DefaultSupported(settings) == settings.def \in ToSet(settings.langs)

\* The answer does not touch the page.
UpdateStoreSettings(payload) ==
  /\ DefaultSupported(payload) /\ Accepted(Written(payload))
  /\ row' = Written(payload) /\ saving' = saving \ {payload}
  /\ UNCHANGED <<formData, uploads, settingEdits, others, lopsided>>

\* Refused, or lost before it got there.
SaveFails(payload) ==
  /\ saving' = saving \ {payload}
  /\ UNCHANGED <<row, formData, uploads, settingEdits, others, lopsided>>

Other(new) ==
  /\ others < MaxOthers /\ others' = others + 1 /\ row' = new
  /\ UNCHANGED <<formData, uploads, saving, settingEdits>>

\* The assistant writes some of the keys: the default is checked if it is one of them.
AssistantSetsLanguages(langs) ==
  /\ Accepted([row EXCEPT !.langs = langs]) /\ Other([row EXCEPT !.langs = langs])
  /\ lopsided' = (lopsided \/ row.def \notin ToSet(langs))
AssistantSetsRequire ==
  /\ ~row.force /\ Accepted([row EXCEPT !.require = TRUE])
  /\ Other([row EXCEPT !.require = TRUE]) /\ UNCHANGED lopsided
SetForceProductCompleteness == Other([row EXCEPT !.force = ~@]) /\ UNCHANGED lopsided

SettingsNext ==
  \/ TypePlain \/ AddCustomNav \/ TickRequire \/ HandleLogoFile \/ HandleSubmit \/ Reopen
  \/ \E code \in SiteLangs : AddLanguage(code) \/ RemoveLanguage(code) \/ ChooseDefault(code)
  \/ \E i \in DOMAIN formData.nav :
       \/ EnableNavItem(i) \/ MoveNavItem(i) \/ RemoveNavItem(i)
       \/ \E l \in ToSet(formData.langs) : UpdateNavItem(i, l)
  \/ \E base \in uploads : LogoUploaded(base)
  \/ \E payload \in saving : UpdateStoreSettings(payload) \/ SaveFails(payload)
  \/ \E l \in SiteLangs : AssistantSetsLanguages(<<l>>)
  \/ AssistantSetsRequire \/ SetForceProductCompleteness

SettingsSpec == SettingsInit /\ [][SettingsNext]_settingsVars

-------------------------------------------------------------------------------
\* A store is never left without a language to show: the default is one of its
\* languages in the page and in the row, whatever is added, removed, restored by a late
\* upload or saved by another manager in between; and a store that demands completeness
\* has a menu that is labelled in each of them.  Excepted is the assistant, which may
\* set the languages alone: the default is then not looked at
\* (SettingsPageClient.tsx:109-165, tenant_service.py:134-150).
StoreCanSpeak ==
  /\ ~lopsided => DefaultSupported(formData) /\ DefaultSupported(row)
  /\ row.require => NavLabelled(row)
===============================================================================
