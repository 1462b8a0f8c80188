------------------------------ MODULE ProductForms ------------------------------
(***************************************************************************)
(* The two product forms of the console (products/new/page.tsx and         *)
(* EditProductClient.tsx) against the service that keeps one product       *)
(* (catalog_service.py, product_completeness.py).  A store may demand that *)
(* what is on sale is complete: every text in every language of the store, *)
(* an image, the file of a digital product.  The forms check with the rule *)
(* and the languages they got when the site was loaded; an assistant's     *)
(* tool, a manager and the platform change products and rule meanwhile.    *)
(*                                                                         *)
(* A text is the set of the languages it is there in.                      *)
(***************************************************************************)
EXTENDS Naturals, FiniteSets

CONSTANTS Extra,        \* languages besides the two that every form has
          MaxFormMoves, \* bound: what the manager, the assistant and the platform do
          MaxWrites     \* bound: writes of the product in progress

ASSUME ProductFormsAssumption ==
  MaxFormMoves \in Nat /\ MaxWrites \in Nat /\ Extra \cap {"en", "he"} = {}

VARIABLES
  rule,      \* TenantSettings: what the store demands, and its languages
  made, product, stock,  \* the product, once it is made, and its first variant
  form,      \* "none", "new" or "edit": the page that is open
  values,    \* what is in it
  seen,      \* the rule as StorefrontThemeContext has it
  uploading, \* upload fields at work
  formLoading, \* the form's flag
  writes,    \* requests
  formMoves,
  crossed    \* history: two writes, or a write and a change of the rule, at once

formVars == <<rule, made, product, stock, form, values, seen, uploading,
              formLoading, writes, formMoves, crossed>>

Languages == {"en", "he"} \cup Extra
Fields == {"name", "desc", "image", "digital", "file", "active"}
Rule == [require : BOOLEAN, force : BOOLEAN, langs : {{"he"}, {"en", "he"}, Languages}]
Default == [require |-> FALSE, force |-> FALSE, langs |-> {"en", "he"}]
HebrewOnly == [require |-> TRUE, force |-> FALSE, langs |-> {"he"}]

\* The fields of p, and those that only q has.
Over(p, q) == [f \in DOMAIN p \cup DOMAIN q |-> IF f \in DOMAIN p THEN p[f] ELSE q[f]]

Product(texts, there) ==
  [name |-> {"en"} \cup texts, desc |-> texts, image |-> there, digital |-> FALSE,
   file |-> FALSE, active |-> TRUE]

Blank == Product({}, FALSE)

CompletenessRequired(r) == r.require \/ r.force

ProductCompletenessGaps(p, langs) ==
  (IF langs \subseteq p.name THEN {} ELSE {"name"})
    \cup (IF langs \subseteq p.desc THEN {} ELSE {"description"})
    \cup (IF p.image THEN {} ELSE {"image"})
    \cup (IF p.digital /\ ~p.file THEN {"digital_file_url"} ELSE {})

ProductFormsInit ==
  /\ rule \in {Default, HebrewOnly}
  /\ made \in BOOLEAN
  /\ product \in {Product(Languages, TRUE)}
                   \cup (IF rule = Default THEN {Blank} ELSE {})
  /\ stock = 1 /\ form = "none" /\ values = Blank /\ seen = Default
  /\ uploading = {} /\ formLoading = FALSE /\ writes = {} /\ formMoves = 0 /\ crossed = FALSE

-------------------------------------------------------------------------------
\* The site: loading it anew, and the answer with the rule, which may never come.
FormMove == formMoves < MaxFormMoves /\ formMoves' = formMoves + 1
Server == UNCHANGED <<rule, made, product, stock, crossed>>

ConfigAnswers ==
  /\ seen # rule /\ seen' = rule
  /\ UNCHANGED <<form, values, uploading, formLoading, writes, formMoves>> /\ Server

\* The answer to a page that was left finds nobody, but still leads to the list.
Left == {[w EXCEPT !.heard = FALSE] : w \in {v \in writes : v.at \in {"sent", "read"}}}

Visit(page) ==
  /\ form # page /\ form' = page
  /\ \/ page = "edit" /\ made /\ values' = product
     \/ page # "edit" /\ values' = Blank
  /\ uploading' = {} /\ formLoading' = FALSE /\ writes' = Left
  /\ UNCHANGED <<seen, formMoves>> /\ Server

-------------------------------------------------------------------------------
\* The fields.  A name in English is demanded by the form itself.
Toggle(S, l) == IF l \in S THEN S \ {l} ELSE S \cup {l}

Type(new) ==
  /\ form # "none" /\ FormMove /\ values' = new
  /\ UNCHANGED <<form, seen, uploading, formLoading, writes>> /\ Server

TypeName(l) ==
  l # "en" /\ (l \in {"he"} \cup seen.langs) /\ Type([values EXCEPT !.name = Toggle(@, l)])
TypeDescription(l) ==
  l \in {"en", "he"} \cup seen.langs /\ Type([values EXCEPT !.desc = Toggle(@, l)])
TypeImage == Type([values EXCEPT !.image = ~@])
TickDigital == Type([values EXCEPT !.digital = ~@])
RemoveFile == values.digital /\ values.file /\ Type([values EXCEPT !.file = FALSE])
TickActive == Type([values EXCEPT !.active = ~@])

HandleUpload(field) ==
  /\ form # "none" /\ field \notin uploading /\ (field = "file" => values.digital) /\ FormMove
  /\ uploading' = uploading \cup {field}
  /\ UNCHANGED <<form, values, seen, formLoading, writes>> /\ Server

Uploaded(field) ==
  /\ field \in uploading /\ uploading' = uploading \ {field}
  /\ values' \in {values, [values EXCEPT ![field] = TRUE]}
  /\ UNCHANGED <<form, seen, formLoading, writes, formMoves>> /\ Server

-------------------------------------------------------------------------------
\* Without the rule, a language that has no text gets the Hebrew one, and Hebrew the
\* English one; an extra language that the page does not know of is dropped.
ExtraLangs == seen.langs \ {"en", "he"}
CompletenessSeen == CompletenessRequired(seen)

Filled(texts) ==
  LET own == texts \cap ({"en", "he"} \cup ExtraLangs)
      he == own \cup (IF "en" \in own THEN {"he"} ELSE {})
  IN  IF CompletenessSeen THEN own
      ELSE he \cup (IF "he" \in he THEN ExtraLangs ELSE {})

BuildProductI18nFields ==
  LET desc == [desc |-> Filled(values.desc)]
      asked == values.desc \cap ({"en", "he"} \cup ExtraLangs) # {} \/ CompletenessSeen
  IN  Over([name |-> Filled(values.name)], IF asked THEN desc ELSE <<>>)

CompletenessBlocked ==
  /\ CompletenessSeen /\ values.active
  /\ ProductCompletenessGaps(values, {"en", "he"} \cup ExtraLangs) # {}

Options == [digital |-> values.digital, file |-> values.digital /\ values.file,
            active |-> values.active]

NewPayload == Over(Over(BuildProductI18nFields, Options), [image |-> values.image])

\* The edit form sends an image only if there is one.
EditPayload ==
  Over(Over(BuildProductI18nFields, Options), IF values.image THEN [image |-> TRUE] ELSE <<>>)

Write(kind, payload, heard) ==
  [kind |-> kind, payload |-> payload, heard |-> heard, at |-> "sent",
   rule |-> Default, before |-> Blank]

Submit(kind, payload) ==
  /\ ~formLoading /\ Cardinality(writes) < MaxWrites /\ FormMove
  /\ IF CompletenessBlocked
       THEN UNCHANGED <<formLoading, writes>>
       ELSE formLoading' = TRUE /\ writes' = writes \cup {Write(kind, payload, TRUE)}
  /\ UNCHANGED <<form, values, seen, uploading>> /\ Server

SubmitNew == form = "new" /\ Submit("create", NewPayload)
SubmitEdit == form = "edit" /\ Submit("update", EditPayload)

\* update_product and archive_product: any one field, by the assistant.
AssistantWrites(f, value) ==
  /\ made /\ Cardinality(writes) < MaxWrites /\ FormMove
  /\ writes' = writes \cup {Write("update", [x \in {f} |-> value], FALSE)}
  /\ UNCHANGED <<form, values, seen, uploading, formLoading>> /\ Server

AssistantWrite ==
  \/ \E f \in {"name", "desc"}, l \in Languages : AssistantWrites(f, Languages \ {l})
  \/ \E f \in {"image", "digital", "active"}, b \in BOOLEAN : AssistantWrites(f, b)

-------------------------------------------------------------------------------
Page == UNCHANGED <<form, values, seen, uploading, formLoading, formMoves>>
WriteTo(w, new) == writes' = (writes \ {w}) \cup {new}
Answer(w, at) ==
  writes' = (writes \ {w})
    \cup IF w.heard THEN {[Write(w.kind, <<>>, TRUE) EXCEPT !.at = at]} ELSE {}

\* The service reads rule and product once.
ReadProduct(w) ==
  /\ w.at = "sent" /\ w.kind # "variant"
  /\ WriteTo(w, [w EXCEPT !.at = "read", !.rule = rule, !.before = product])
  /\ UNCHANGED <<rule, made, product, stock, crossed>> /\ Page

Refuse(w) ==
  /\ w.at \in {"sent", "read"} /\ Answer(w, "error")
  /\ UNCHANGED <<rule, made, product, stock, crossed>> /\ Page

\* A product that goes on sale must be complete, if the rule says so.
Accepts(r, p) ==
  p.active /\ CompletenessRequired(r) => ProductCompletenessGaps(p, r.langs) = {}

\* Every text that a new product has is there in every language of the store, whatever
\* is demanded (validate_i18n).
CreateProduct(w) ==
  LET p == Over(w.payload, [desc |-> {}])
  IN  /\ w.at = "read" /\ w.kind = "create" /\ ~made
      /\ w.rule.langs \subseteq p.name
      /\ "desc" \in DOMAIN w.payload => w.rule.langs \subseteq p.desc
      /\ Accepts(w.rule, p)
      /\ made' = TRUE /\ product' = p /\ stock' = IF p.digital THEN 0 ELSE 1
      /\ crossed' = (crossed \/ rule # w.rule \/ product # w.before)
      /\ Answer(w, "ok")
      /\ UNCHANGED rule /\ Page

\* Only what differs from the row that was read is written.
UpdateProduct(w) ==
  LET set == Over(w.payload, w.before)
      p == IF set.digital THEN set ELSE [set EXCEPT !.file = FALSE]
  IN  /\ w.at = "read" /\ w.kind = "update" /\ made
      /\ Accepts(w.rule, p)
      /\ product' = [f \in Fields |-> IF p[f] # w.before[f] THEN p[f] ELSE product[f]]
      /\ stock' = IF p.digital THEN 0 ELSE stock
      /\ crossed' = (crossed \/ rule # w.rule \/ product # w.before)
      /\ Answer(w, "ok")
      /\ UNCHANGED <<rule, made>> /\ Page

UpdateProductVariant(w) ==
  /\ w.at = "sent" /\ w.kind = "variant"
  /\ stock' = IF product.digital THEN 0 ELSE 1
  /\ Answer(w, "ok")
  /\ UNCHANGED <<rule, made, product, crossed>> /\ Page

\* Mutant: products are taken off sale only when the rule is switched on.
TakenOffWhenSwitchedOn(p, old, new) ==
  IF CompletenessRequired(new) /\ ~CompletenessRequired(old)
       /\ ProductCompletenessGaps(p, new.langs) # {}
    THEN [p EXCEPT !.active = FALSE] ELSE p

DeactivateIncomplete(p, old, new) ==
  IF CompletenessRequired(new) /\ ProductCompletenessGaps(p, new.langs) # {}
    THEN [p EXCEPT !.active = FALSE] ELSE p

Demand(new) ==
  /\ FormMove /\ rule' = new /\ product' = DeactivateIncomplete(product, rule, new)
  /\ UNCHANGED <<made, stock, form, values, seen, uploading, formLoading, writes,
                 crossed>>

\* The platform's lock wins over the manager's choice.
ChangeSettings(require, langs) ==
  Demand([rule EXCEPT !.require = IF rule.force THEN @ ELSE require, !.langs = langs])
ForceCompleteness == Demand([rule EXCEPT !.force = ~@])

-------------------------------------------------------------------------------
\* A saved product leads to the list, from whatever page is open by then; the edit form
\* saves the variant first.  A failure, or an answer that is lost, is shown.
Saved(w) ==
  /\ w.at = "ok" /\ w.kind # "update" /\ writes' = Left
  /\ form' = "none" /\ values' = Blank /\ uploading' = {} /\ formLoading' = FALSE
  /\ UNCHANGED <<seen, formMoves>> /\ Server

SaveVariant(w) ==
  /\ w.at = "ok" /\ w.kind = "update"
  /\ WriteTo(w, Write("variant", <<>>, TRUE))
  /\ UNCHANGED <<form, values, seen, uploading, formLoading, formMoves>> /\ Server

Failed(w) ==
  /\ w.heard /\ writes' = (writes \ {w})
       \cup (IF w.at \in {"sent", "read"} THEN {[w EXCEPT !.heard = FALSE]} ELSE {})
  /\ formLoading' = FALSE
  /\ UNCHANGED <<form, values, seen, uploading, formMoves>> /\ Server

ProductFormsNext ==
  \/ ConfigAnswers \/ TypeImage \/ TickDigital \/ RemoveFile \/ TickActive
  \/ SubmitNew \/ SubmitEdit \/ AssistantWrite \/ ForceCompleteness
  \/ \E page \in {"none", "new", "edit"} : Visit(page)
  \/ \E l \in Languages : TypeName(l) \/ TypeDescription(l)
  \/ \E f \in {"image", "file"} : HandleUpload(f) \/ Uploaded(f)
  \/ \E r \in Rule : ChangeSettings(r.require, r.langs)
  \/ \E w \in writes :
       \/ ReadProduct(w) \/ Refuse(w) \/ CreateProduct(w) \/ UpdateProduct(w)
       \/ UpdateProductVariant(w) \/ Saved(w) \/ SaveVariant(w) \/ Failed(w)

ProductFormsSpec == ProductFormsInit /\ [][ProductFormsNext]_formVars

-------------------------------------------------------------------------------
ProductFormsTypeOK ==
  /\ rule \in Rule /\ seen \in Rule /\ stock \in 0..1
  /\ DOMAIN product = Fields /\ DOMAIN values = Fields
  /\ uploading \subseteq {"image", "file"} /\ formLoading \in BOOLEAN

\* When the store, or the platform, demands it, a product on sale is complete in every
\* language of the store: whichever of the forms, the assistant, the settings page and
\* the platform wrote last, and however old the rule that the form checked with is.
\* Excepted are writes that cross each other or a change of the rule: each checks what
\* it read (catalog_service.py:502-583, tenant_service.py:141-153).
OnSaleIsComplete ==
  made /\ product.active /\ CompletenessRequired(rule) /\ ~crossed
    => ProductCompletenessGaps(product, rule.langs) = {}
===============================================================================
