------------------------------ MODULE EditorProofs ------------------------------
(***************************************************************************)
(* The editor of the store's pages: what is typed in the panel of a        *)
(* section is kept (SectionPanel), the drafts of the pages stay apart and  *)
(* none is lost, and the screen shows the draft (PageEditor), and no       *)
(* section is lost on the canvas (PageSections); for any languages, lists  *)
(* and tables, pages, requests and bounds.                                 *)
(*                                                                         *)
(* In the panel the texts are kept twice: in the settings, as they are     *)
(* saved, and in what was wanted, as they were typed.  Every field writes  *)
(* all settings again with one key changed, and the proof shows that each  *)
(* of them changes what is shown in the way that was wanted.  Lists and    *)
(* tables are lists of F of their elements (Each), and the lemmas about    *)
(* Each say that replacing, adding and throwing away commute with F.       *)
(*                                                                         *)
(* In the editor, drafts are about the server alone and the screen about   *)
(* the client.  A write that has begun has read the draft that is there,   *)
(* unless another write of the same page runs (SeenIsDraft): so the draft  *)
(* that it replaces is the version it keeps.  The screen is right because  *)
(* at most one request is listened to, and what that one will answer is    *)
(* the draft (Awaited).                                                    *)
(***************************************************************************)
EXTENDS PageEditor, SectionPanel, PageSections, SequenceTheorems, FiniteSetTheorems,
        WellFoundedInduction, TLAPS

-------------------------------------------------------------------------------
(***************************************************************************)
(* Lists.                                                                  *)
(***************************************************************************)
\* F of each element of a list.
Each(F, s) == [i \in DOMAIN s |-> F[s[i]]]

\* A list without one of its elements.
LEMMA RemoveAtIs ==
  ASSUME NEW S, NEW s \in Seq(S), NEW i \in 1..Len(s)
  PROVE  /\ RemoveAt(s, i) \in Seq(S)
         /\ Len(RemoveAt(s, i)) = Len(s) - 1
         /\ \A j \in 1..Len(s) - 1 : RemoveAt(s, i)[j] = IF j < i THEN s[j] ELSE s[j + 1]
<1> DEFINE a == SubSeq(s, 1, i - 1)
           b == SubSeq(s, i + 1, Len(s))
<1>1. a \in Seq(S) /\ Len(a) = i - 1 /\ \A j \in 1..i - 1 : a[j] = s[j]
  OBVIOUS
<1>2. b \in Seq(S) /\ Len(b) = Len(s) - i /\ \A j \in 1..Len(s) - i : b[j] = s[i + j]
  OBVIOUS
<1>3. RemoveAt(s, i) = a \o b
  BY DEF RemoveAt
<1> HIDE DEF a, b
<1>4. /\ a \o b \in Seq(S) /\ Len(a \o b) = Len(a) + Len(b)
      /\ \A j \in 1..Len(a) + Len(b) :
           (a \o b)[j] = IF j <= Len(a) THEN a[j] ELSE b[j - Len(a)]
  BY <1>1, <1>2, ConcatProperties
<1>5. ASSUME NEW j \in 1..Len(s) - 1
      PROVE  (a \o b)[j] = IF j < i THEN s[j] ELSE s[j + 1]
  <2>1. j \in 1..Len(a) + Len(b) /\ Len(s) \in Nat /\ i \in Nat /\ j \in Nat
    BY <1>1, <1>2
  <2>2. (a \o b)[j] = IF j <= Len(a) THEN a[j] ELSE b[j - Len(a)]
    BY <1>4, <2>1
  <2>3. CASE j < i
    <3>1. j \in 1..i - 1 /\ j <= Len(a)
      BY <1>1, <2>1, <2>3
    <3> QED
      BY <1>1, <2>2, <2>3, <3>1
  <2>4. CASE ~(j < i)
    <3>1. j - Len(a) \in 1..Len(s) - i /\ ~(j <= Len(a)) /\ i + (j - Len(a)) = j + 1
      BY <1>1, <2>1, <2>4
    <3> QED
      BY <1>2, <2>2, <2>4, <3>1
  <2> QED
    BY <2>3, <2>4
<1> QED
  BY <1>1, <1>2, <1>3, <1>4, <1>5

\* F of a list, element by element: its type, its length, its elements.
LEMMA EachSeq ==
  ASSUME NEW S, NEW T, NEW F, \A x \in S : F[x] \in T, NEW s \in Seq(S)
  PROVE  Each(F, s) \in Seq(T)
<1>1. Len(s) \in Nat /\ DOMAIN s = 1..Len(s) /\ \A i \in 1..Len(s) : s[i] \in S
  OBVIOUS
<1>2. Each(F, s) = [i \in 1..Len(s) |-> F[s[i]]] /\ \A i \in 1..Len(s) : F[s[i]] \in T
  BY <1>1 DEF Each
<1> QED
  BY <1>1, <1>2

LEMMA EachIs ==
  ASSUME NEW S, NEW F, NEW s \in Seq(S)
  PROVE  /\ Len(Each(F, s)) = Len(s)
         /\ \A i \in 1..Len(s) : Each(F, s)[i] = F[s[i]]
<1>1. Len(s) \in Nat /\ DOMAIN s = 1..Len(s)
  OBVIOUS
<1> QED
  BY <1>1 DEF Each

\* One element is replaced, one is added, one is thrown away: the same is done to
\* F of the list.
LEMMA EachPut ==
  ASSUME NEW S, NEW F, NEW s \in Seq(S), NEW i \in DOMAIN s, NEW x \in S
  PROVE  /\ [s EXCEPT ![i] = x] \in Seq(S)
         /\ Each(F, [s EXCEPT ![i] = x]) = [Each(F, s) EXCEPT ![i] = F[x]]
<1>1. [s EXCEPT ![i] = x] \in Seq(S)
  OBVIOUS
<1>2. Each(F, [s EXCEPT ![i] = x]) = [Each(F, s) EXCEPT ![i] = F[x]]
  BY DEF Each
<1> QED
  BY <1>1, <1>2

LEMMA EachAdd ==
  ASSUME NEW S, NEW F, NEW s \in Seq(S), NEW x \in S
  PROVE  Append(s, x) \in Seq(S) /\ Each(F, Append(s, x)) = Append(Each(F, s), F[x])
<1> DEFINE T == {F[y] : y \in S}
           long == Append(s, x)
           a == Each(F, long)
           t == Each(F, s)
           b == Append(t, F[x])
           n == Len(s) + 1
<1>1. \A y \in S : F[y] \in T
  OBVIOUS
<1>2. long \in Seq(S) /\ Len(long) = n
      /\ \A i \in 1..n : long[i] = IF i = n THEN x ELSE s[i]
  OBVIOUS
<1>3. t \in Seq(T) /\ Len(t) = Len(s) /\ \A i \in 1..Len(s) : t[i] = F[s[i]]
  BY <1>1, EachSeq, EachIs
<1>4. F[x] \in T /\ n \in Nat
  BY <1>1
<1> HIDE DEF T, long, t
<1>5. a \in Seq(T) /\ Len(a) = n /\ \A i \in 1..n : a[i] = F[long[i]]
  BY <1>2, <1>1, EachSeq, EachIs
<1>6. b \in Seq(T) /\ Len(b) = n /\ \A i \in 1..n : b[i] = IF i = n THEN F[x] ELSE t[i]
  BY <1>3, <1>4
<1> HIDE DEF a, b
<1>7. ASSUME NEW i \in 1..n PROVE a[i] = b[i]
  <2>1. CASE i = n
    BY <1>2, <1>5, <1>6, <2>1
  <2>2. CASE i # n
    <3>1. i \in 1..Len(s)
      BY <1>4, <2>2
    <3> QED
      BY <1>2, <1>3, <1>5, <1>6, <2>2, <3>1
  <2> QED
    BY <2>1, <2>2
<1>8. a = b
  BY <1>5, <1>6, <1>7, SeqEqual
<1> QED
  BY <1>2, <1>8 DEF a, b, long, t

LEMMA EachDrop ==
  ASSUME NEW S, NEW F, NEW s \in Seq(S), NEW i \in DOMAIN s
  PROVE  RemoveAt(s, i) \in Seq(S) /\ Each(F, RemoveAt(s, i)) = RemoveAt(Each(F, s), i)
<1> DEFINE T == {F[y] : y \in S}
           r == RemoveAt(s, i)
           a == Each(F, r)
           t == Each(F, s)
           b == RemoveAt(t, i)
           n == Len(s) - 1
<1>1. \A y \in S : F[y] \in T
  OBVIOUS
<1>2. i \in 1..Len(s) /\ Len(s) \in Nat
  OBVIOUS
<1>3. r \in Seq(S) /\ Len(r) = n /\ \A j \in 1..n : r[j] = IF j < i THEN s[j] ELSE s[j + 1]
  BY <1>2, RemoveAtIs
<1>4. t \in Seq(T) /\ Len(t) = Len(s) /\ \A j \in 1..Len(s) : t[j] = F[s[j]]
  <2>1. t \in Seq(T)
    BY <1>1, EachSeq
  <2> QED
    BY <2>1, EachIs
<1> HIDE DEF T, r, t
<1>5. a \in Seq(T) /\ Len(a) = n /\ \A j \in 1..n : a[j] = F[r[j]]
  <2>1. a \in Seq(T)
    BY <1>1, <1>3, EachSeq
  <2>2. Len(a) = Len(r) /\ \A j \in 1..Len(r) : a[j] = F[r[j]]
    BY <1>3, EachIs
  <2> QED
    BY <1>3, <2>1, <2>2
<1>6. b \in Seq(T) /\ Len(b) = n /\ \A j \in 1..n : b[j] = IF j < i THEN t[j] ELSE t[j + 1]
  <2>1. t \in Seq(T) /\ i \in 1..Len(t)
    BY <1>2, <1>4
  <2>2. /\ b \in Seq(T) /\ Len(b) = Len(t) - 1
        /\ \A j \in 1..Len(t) - 1 : b[j] = IF j < i THEN t[j] ELSE t[j + 1]
    BY <2>1, RemoveAtIs
  <2> QED
    BY <1>4, <2>2
<1> HIDE DEF a, b
<1>7. ASSUME NEW j \in 1..n PROVE a[j] = b[j]
  <2>1. j \in 1..Len(s) /\ j + 1 \in 1..Len(s)
    BY <1>2
  <2>2. CASE j < i
    BY <1>3, <1>4, <1>5, <1>6, <2>1, <2>2
  <2>3. CASE ~(j < i)
    BY <1>3, <1>4, <1>5, <1>6, <2>1, <2>3
  <2> QED
    BY <2>2, <2>3
<1>8. a = b
  BY <1>5, <1>6, <1>7, SeqEqual
<1> QED
  BY <1>3, <1>8 DEF a, b, r, t

-------------------------------------------------------------------------------
(***************************************************************************)
(* The panel of a section.                                                 *)
(***************************************************************************)
\* A text in all languages, and what the settings of a section are.
Text == [legacy : BOOLEAN, text : [Langs -> Nat]]
PanelSettings ==
  [title : Text, option : {0, 1}, items : Seq(Text), headers : Seq(Text), rows : Seq(Seq(Text))]

PanelTyped == settings \in PanelSettings /\ editingLang \in Langs

\* What a list and a table show.
TextOf == [x \in Text |-> x.text]
Texts(list) == Each(TextOf, list)
RowOf == [list \in Seq(Text) |-> Texts(list)]
Tables(rows) == Each(RowOf, rows)

\* They are texts and rows of texts.
LEMMA ShowsType ==
  TextOf \in [Text -> [Langs -> Nat]] /\ RowOf \in [Seq(Text) -> Seq([Langs -> Nat])]
<1>1. TextOf \in [Text -> [Langs -> Nat]]
  BY DEF TextOf, Text
<1>2. \A list \in Seq(Text) : Texts(list) \in Seq([Langs -> Nat])
  BY <1>1, EachSeq DEF Texts
<1> QED
  BY <1>1, <1>2 DEF RowOf

\* What the panel shows in settings of the right type.
Shows(s) == [title |-> s.title.text, items |-> Texts(s.items), rows |-> Tables(s.rows)]

\* Shown is the same, written without the bounds of the lists.
LEMMA ShownIs ==
  ASSUME NEW s \in PanelSettings
  PROVE  Shown(s) = Shows(s)
<1>1. s.items \in Seq(Text) /\ s.rows \in Seq(Seq(Text))
  BY DEF PanelSettings
<1>2. \A i \in DOMAIN s.items : s.items[i] \in Text
  BY <1>1
<1>3. \A r \in DOMAIN s.rows : s.rows[r] \in Seq(Text)
  BY <1>1
<1>4. \A r \in DOMAIN s.rows : \A c \in DOMAIN s.rows[r] : s.rows[r][c] \in Text
  BY <1>3
<1>5. [i \in DOMAIN s.items |-> s.items[i].text] = Texts(s.items)
  BY <1>2 DEF Texts, Each, TextOf
<1>6. ASSUME NEW r \in DOMAIN s.rows
      PROVE  [c \in DOMAIN s.rows[r] |-> s.rows[r][c].text] = RowOf[s.rows[r]]
  BY <1>3, <1>4 DEF Texts, Each, TextOf, RowOf
<1>7. [r \in DOMAIN s.rows |-> [c \in DOMAIN s.rows[r] |-> s.rows[r][c].text]] = Tables(s.rows)
  BY <1>6 DEF Tables, Each
<1> QED
  BY <1>5, <1>7 DEF Shown, Shows

\* The inductive invariant.
PanelInv == PanelTyped /\ TypedIsKept

\* What the fields write is a text of the right type.
LEMMA TextFacts ==
  /\ New \in Text /\ New.text = Nothing
  /\ \A w \in Nat : PlainInput(w) \in Text /\ PlainInput(w).text = [l \in Langs |-> w]
BY DEF Text, New, Nothing, PlainInput, Old

\* A localized field changes one language.
LEMMA TypedText ==
  ASSUME NEW v \in Text, NEW w \in Nat, editingLang \in Langs
  PROVE  /\ LocalizedInput(v, w) \in Text
         /\ LocalizedInput(v, w).text = [v.text EXCEPT ![editingLang] = w]
BY DEF LocalizedInput, NormalizeLocalized, Text

\* Words are numbers.
LEMMA WordsAreNat == Words \subseteq Nat /\ Characters \in Nat
BY SectionPanelAssumption DEF Words, Characters

\* One setting is written, the others stay.
LEMMA Written ==
  ASSUME PanelTyped
  PROVE  /\ \A x \in Text : HandleSettingChange("title", x) =>
              PanelTyped' /\ Shown(settings)' = [Shown(settings) EXCEPT !.title = x.text]
         /\ \A x \in Seq(Text) : HandleSettingChange("items", x) =>
              PanelTyped' /\ Shown(settings)' = [Shown(settings) EXCEPT !.items = Texts(x)]
         /\ \A x \in Seq(Seq(Text)) : HandleSettingChange("rows", x) =>
              PanelTyped' /\ Shown(settings)' = [Shown(settings) EXCEPT !.rows = Tables(x)]
         /\ \A x \in Seq(Text) : HandleSettingChange("headers", x) =>
              PanelTyped' /\ Shown(settings)' = Shown(settings)
         /\ \A x \in {0, 1} : HandleSettingChange("option", x) =>
              PanelTyped' /\ Shown(settings)' = Shown(settings)
<1>1. settings \in PanelSettings
  BY DEF PanelTyped
<1>2. ASSUME NEW x \in Text, HandleSettingChange("title", x)
      PROVE  PanelTyped' /\ Shown(settings)' = [Shown(settings) EXCEPT !.title = x.text]
  <2>1. /\ settings' \in PanelSettings /\ settings'.title = x
        /\ settings'.items = settings.items /\ settings'.rows = settings.rows
    BY <1>1, <1>2 DEF PanelSettings, HandleSettingChange
  <2>2. Shown(settings) = Shows(settings) /\ Shown(settings') = Shows(settings')
    BY <1>1, <2>1, ShownIs
  <2> QED
    BY <1>2, <2>1, <2>2 DEF PanelTyped, HandleSettingChange, Shows
<1>3. ASSUME NEW x \in Seq(Text), HandleSettingChange("items", x)
      PROVE  PanelTyped' /\ Shown(settings)' = [Shown(settings) EXCEPT !.items = Texts(x)]
  <2>1. /\ settings' \in PanelSettings /\ settings'.items = x
        /\ settings'.title = settings.title /\ settings'.rows = settings.rows
    BY <1>1, <1>3 DEF PanelSettings, HandleSettingChange
  <2>2. Shown(settings) = Shows(settings) /\ Shown(settings') = Shows(settings')
    BY <1>1, <2>1, ShownIs
  <2> QED
    BY <1>3, <2>1, <2>2 DEF PanelTyped, HandleSettingChange, Shows
<1>4. ASSUME NEW x \in Seq(Seq(Text)), HandleSettingChange("rows", x)
      PROVE  PanelTyped' /\ Shown(settings)' = [Shown(settings) EXCEPT !.rows = Tables(x)]
  <2>1. /\ settings' \in PanelSettings /\ settings'.rows = x
        /\ settings'.title = settings.title /\ settings'.items = settings.items
    BY <1>1, <1>4 DEF PanelSettings, HandleSettingChange
  <2>2. Shown(settings) = Shows(settings) /\ Shown(settings') = Shows(settings')
    BY <1>1, <2>1, ShownIs
  <2> QED
    BY <1>4, <2>1, <2>2 DEF PanelTyped, HandleSettingChange, Shows
<1>5. ASSUME NEW x \in Seq(Text), HandleSettingChange("headers", x)
      PROVE  PanelTyped' /\ Shown(settings)' = Shown(settings)
  <2>1. /\ settings' \in PanelSettings /\ settings'.title = settings.title
        /\ settings'.items = settings.items /\ settings'.rows = settings.rows
    BY <1>1, <1>5 DEF PanelSettings, HandleSettingChange
  <2>2. Shown(settings) = Shows(settings) /\ Shown(settings') = Shows(settings')
    BY <1>1, <2>1, ShownIs
  <2> QED
    BY <1>5, <2>1, <2>2 DEF PanelTyped, HandleSettingChange, Shows
<1>6. ASSUME NEW x \in {0, 1}, HandleSettingChange("option", x)
      PROVE  PanelTyped' /\ Shown(settings)' = Shown(settings)
  <2>1. /\ settings' \in PanelSettings /\ settings'.title = settings.title
        /\ settings'.items = settings.items /\ settings'.rows = settings.rows
    BY <1>1, <1>6 DEF PanelSettings, HandleSettingChange
  <2>2. Shown(settings) = Shows(settings) /\ Shown(settings') = Shows(settings')
    BY <1>1, <2>1, ShownIs
  <2> QED
    BY <1>6, <2>1, <2>2 DEF PanelTyped, HandleSettingChange, Shows
<1> QED
  BY <1>2, <1>3, <1>4, <1>5, <1>6

\* What the panel is opened with.
LEMMA PanelInit0 == PanelInit => PanelInv
<1> SUFFICES ASSUME PanelInit PROVE PanelInv
  OBVIOUS
<1>1. PICK title \in {New, Old(1)} : settings = [Shape(type) EXCEPT !.title = title]
  BY DEF PanelInit
<1>2. New \in Text /\ Old(1) \in Text
  BY DEF New, Old, Nothing, Text
<1>3. Shape(type) \in PanelSettings
  <2>1. <<>> \in Seq(Text) /\ <<Old(1)>> \in Seq(Text) /\ <<New>> \in Seq(Text)
    BY <1>2
  <2>2. <<>> \in Seq(Seq(Text)) /\ <<<<New>>>> \in Seq(Seq(Text))
    BY <2>1
  <2> QED
    BY <1>2, <2>1, <2>2 DEF Shape, PanelSettings
<1>4. settings \in PanelSettings
  BY <1>1, <1>2, <1>3 DEF PanelSettings
<1> QED
  BY <1>4 DEF PanelInit, PanelInv, PanelTyped, TypedIsKept

\* What an action does to what is wanted, it does to what is shown.
LEMMA InStep ==
  ASSUME PanelTyped', ~spoiled' => Shown(settings)' = want'
  PROVE  PanelInv'
BY DEF PanelInv, TypedIsKept

\* The title, an option, and the fields of a list of texts.
LEMMA TitleStep ==
  ASSUME PanelInv, NEW w \in Words, Title(w)
  PROVE  PanelInv'
<1> DEFINE x == LocalizedInput(settings.title, w)
<1>1. PanelTyped /\ settings.title \in Text /\ w \in Nat /\ settings \in PanelSettings
  BY WordsAreNat DEF PanelInv, PanelTyped, PanelSettings
<1>2. x \in Text /\ x.text = [settings.title.text EXCEPT ![editingLang] = w]
  BY <1>1, TypedText DEF PanelTyped
<1>3. HandleSettingChange("title", x) /\ spoiled' = spoiled
      /\ want' = [want EXCEPT !.title[editingLang] = w]
  BY DEF Title
<1> HIDE DEF x
<1>4. PanelTyped' /\ Shown(settings)' = [Shown(settings) EXCEPT !.title = x.text]
  BY <1>1, <1>2, <1>3, Written
<1>5. Shown(settings).title = settings.title.text
  BY <1>1, ShownIs DEF Shows
<1>6. ASSUME ~spoiled PROVE Shown(settings)' = want'
  <2>1. want = Shown(settings)
    BY <1>6 DEF PanelInv, TypedIsKept
  <2>2. want.title = settings.title.text
    BY <1>5, <2>1
  <2>3. want' = [want EXCEPT !.title = x.text]
    BY <1>2, <1>3, <2>2
  <2> QED
    BY <1>4, <2>1, <2>3
<1> QED
  BY <1>3, <1>4, <1>6, InStep

\* An option is no text.
LEMMA OptionStep ==
  ASSUME PanelInv, Option
  PROVE  PanelInv'
<1>1. settings.option \in {0, 1} /\ PanelTyped
  BY DEF PanelInv, PanelTyped, PanelSettings
<1>2. 1 - settings.option \in {0, 1}
  BY <1>1
<1>3. HandleSettingChange("option", 1 - settings.option) /\ UNCHANGED <<want, spoiled>>
  BY DEF Option
<1>4. PanelTyped' /\ Shown(settings)' = Shown(settings)
  BY <1>1, <1>2, <1>3, Written
<1> QED
  BY <1>3, <1>4, InStep DEF PanelInv, TypedIsKept

\* The list that is written, and what is wanted of it.
LEMMA ItemsStep ==
  ASSUME PanelInv, NEW list \in Seq(Text), HandleSettingChange("items", list),
         ~spoiled' => ~spoiled /\ want' = [want EXCEPT !.items = Texts(list)]
  PROVE  PanelInv'
<1>1. PanelTyped /\ (~spoiled => want = Shown(settings))
  BY DEF PanelInv, TypedIsKept
<1>2. PanelTyped' /\ Shown(settings)' = [Shown(settings) EXCEPT !.items = Texts(list)]
  BY <1>1, Written
<1> QED
  BY <1>1, <1>2, InStep

LEMMA RowsStep ==
  ASSUME PanelInv, NEW rows \in Seq(Seq(Text)), HandleSettingChange("rows", rows),
         ~spoiled' => ~spoiled /\ want' = [want EXCEPT !.rows = Tables(rows)]
  PROVE  PanelInv'
<1>1. PanelTyped /\ (~spoiled => want = Shown(settings))
  BY DEF PanelInv, TypedIsKept
<1>2. PanelTyped' /\ Shown(settings)' = [Shown(settings) EXCEPT !.rows = Tables(rows)]
  BY <1>1, Written
<1> QED
  BY <1>1, <1>2, InStep

\* What is there, and what is wanted, before a step.
LEMMA Before ==
  ASSUME PanelInv
  PROVE  /\ PanelTyped /\ editingLang \in Langs
         /\ settings.items \in Seq(Text) /\ settings.headers \in Seq(Text)
         /\ settings.rows \in Seq(Seq(Text))
         /\ ~spoiled => want = Shows(settings) /\ want.items = Texts(settings.items)
                         /\ want.rows = Tables(settings.rows)
BY ShownIs DEF PanelInv, PanelTyped, PanelSettings, TypedIsKept, Shows

\* The texts of a list.
LEMMA UpdateItemStep ==
  ASSUME PanelInv, NEW w \in Words, NEW i \in DOMAIN settings.items, UpdateItem(i, w)
  PROVE  PanelInv'
<1> DEFINE items == settings.items
           x == LocalizedInput(items[i], w)
           list == [items EXCEPT ![i] = x]
<1>1. items \in Seq(Text) /\ i \in DOMAIN items /\ w \in Nat
  BY WordsAreNat, Before
<1>2. x \in Text /\ x.text = [items[i].text EXCEPT ![editingLang] = w]
  <2>1. items[i] \in Text
    BY <1>1
  <2> QED
    BY <1>1, <2>1, Before, TypedText
<1>3. HandleSettingChange("items", list) /\ spoiled' = spoiled
      /\ want' = [want EXCEPT !.items[i][editingLang] = w]
  BY DEF UpdateItem
<1> HIDE DEF items, x
<1>4. list \in Seq(Text) /\ Texts(list) = [Texts(items) EXCEPT ![i] = TextOf[x]]
  BY <1>1, <1>2, EachPut, ShowsType DEF Texts
<1>5. TextOf[x] = [Texts(items)[i] EXCEPT ![editingLang] = w]
  <2>1. items[i] \in Text /\ Texts(items)[i] = TextOf[items[i]]
    BY <1>1 DEF Texts, Each
  <2> QED
    BY <1>2, <2>1 DEF TextOf
<1>6. ASSUME ~spoiled PROVE want' = [want EXCEPT !.items = Texts(list)]
  <2>1. want.items = Texts(items)
    BY <1>6, Before DEF items
  <2> QED
    BY <1>3, <1>4, <1>5, <2>1
<1> QED
  BY <1>3, <1>4, <1>6, ItemsStep

\* The addresses of a gallery.
LEMMA UpdateImageStep ==
  ASSUME PanelInv, NEW w \in Words, NEW i \in DOMAIN settings.items, UpdateImage(i, w)
  PROVE  PanelInv'
<1> DEFINE items == settings.items
           x == PlainInput(w)
           list == [items EXCEPT ![i] = x]
<1>1. items \in Seq(Text) /\ i \in DOMAIN items /\ w \in Nat
  BY WordsAreNat, Before
<1>2. x \in Text
  BY <1>1, TextFacts
<1>3. TextOf[x] = [l \in Langs |-> w]
  BY <1>1, <1>2, TextFacts DEF TextOf
<1>4. HandleSettingChange("items", list) /\ spoiled' = spoiled
      /\ want' = [want EXCEPT !.items[i] = [l \in Langs |-> w]]
  BY DEF UpdateImage
<1> HIDE DEF items, x
<1>5. list \in Seq(Text) /\ Texts(list) = [Texts(items) EXCEPT ![i] = TextOf[x]]
  BY <1>1, <1>2, EachPut, ShowsType DEF Texts
<1>6. ASSUME ~spoiled PROVE want' = [want EXCEPT !.items = Texts(list)]
  <2>1. want.items = Texts(items)
    BY <1>6, Before DEF items
  <2> QED
    BY <1>3, <1>4, <1>5, <2>1
<1> QED
  BY <1>4, <1>5, <1>6, ItemsStep

LEMMA AddItemStep ==
  ASSUME PanelInv, AddItem
  PROVE  PanelInv'
<1> DEFINE items == settings.items
           list == Append(items, New)
<1>1. items \in Seq(Text)
  BY Before
<1>2. New \in Text /\ TextOf[New] = Nothing
  BY TextFacts DEF TextOf
<1>3. HandleSettingChange("items", list) /\ spoiled' = spoiled
      /\ want' = [want EXCEPT !.items = Append(@, Nothing)]
  BY DEF AddItem
<1> HIDE DEF items
<1>4. list \in Seq(Text) /\ Texts(list) = Append(Texts(items), TextOf[New])
  BY <1>1, <1>2, EachAdd, ShowsType DEF Texts
<1>5. ASSUME ~spoiled PROVE want' = [want EXCEPT !.items = Texts(list)]
  <2>1. want.items = Texts(items)
    BY <1>5, Before DEF items
  <2> QED
    BY <1>2, <1>3, <1>4, <2>1
<1> QED
  BY <1>3, <1>4, <1>5, ItemsStep

LEMMA RemoveItemStep ==
  ASSUME PanelInv, NEW i \in DOMAIN settings.items, RemoveItem(i)
  PROVE  PanelInv'
<1> DEFINE items == settings.items
           list == RemoveAt(items, i)
<1>1. items \in Seq(Text) /\ i \in DOMAIN items
  BY Before
<1>2. HandleSettingChange("items", list) /\ spoiled' = spoiled
      /\ want' = [want EXCEPT !.items = RemoveAt(@, i)]
  BY DEF RemoveItem
<1> HIDE DEF items
<1>3. list \in Seq(Text) /\ Texts(list) = RemoveAt(Texts(items), i)
  BY <1>1, EachDrop, ShowsType DEF Texts
<1>4. ASSUME ~spoiled PROVE want' = [want EXCEPT !.items = Texts(list)]
  <2>1. want.items = Texts(items)
    BY <1>4, Before DEF items
  <2> QED
    BY <1>2, <1>3, <2>1
<1> QED
  BY <1>2, <1>3, <1>4, ItemsStep

\* The headers and the cells of a table.
LEMMA HeaderStep ==
  ASSUME PanelInv, NEW w \in Words, NEW c \in DOMAIN settings.headers, SetHeaderCell(c, w)
  PROVE  PanelInv'
<1> DEFINE headers == settings.headers
           x == LocalizedInput(headers[c], w)
           list == [headers EXCEPT ![c] = x]
<1>1. headers \in Seq(Text) /\ c \in DOMAIN headers /\ w \in Nat
  BY WordsAreNat, Before
<1>2. x \in Text
  <2>1. headers[c] \in Text
    BY <1>1
  <2> QED
    BY <1>1, <2>1, Before, TypedText
<1>3. HandleSettingChange("headers", list) /\ UNCHANGED <<want, spoiled>>
  BY DEF SetHeaderCell
<1> HIDE DEF x, headers
<1>4. list \in Seq(Text)
  BY <1>1, <1>2
<1> HIDE DEF list
<1>5. PanelTyped' /\ Shown(settings)' = Shown(settings)
  BY <1>3, <1>4, Before, Written
<1> QED
  BY <1>3, <1>5, InStep DEF PanelInv, TypedIsKept

LEMMA CellStep ==
  ASSUME PanelInv, NEW w \in Words, NEW r \in DOMAIN settings.rows, NEW c, SetRowCell(r, c, w)
  PROVE  PanelInv'
<1> DEFINE rows == settings.rows
           row == rows[r]
           x == LocalizedInput(row[c], w)
           cells == [row EXCEPT ![c] = x]
           new == [rows EXCEPT ![r] = cells]
<1>1. rows \in Seq(Seq(Text)) /\ r \in DOMAIN rows /\ row \in Seq(Text) /\ w \in Nat
  <2>1. rows \in Seq(Seq(Text)) /\ r \in DOMAIN rows
    BY Before
  <2> QED
    BY <2>1, WordsAreNat
<1>2. CASE c \in DOMAIN row
  <2>1. row[c] \in Text
    BY <1>1, <1>2
  <2>2. x \in Text /\ x.text = [row[c].text EXCEPT ![editingLang] = w]
    BY <1>1, <2>1, Before, TypedText
  <2>3. /\ HandleSettingChange("rows", [rows EXCEPT ![r][c] = x]) /\ spoiled' = spoiled
        /\ want' = [want EXCEPT !.rows[r][c][editingLang] = w]
    BY <1>2 DEF SetRowCell
  <2>4. [rows EXCEPT ![r][c] = x] = new
    OBVIOUS
  <2> HIDE DEF x
  <2>5. cells \in Seq(Text) /\ Texts(cells) = [Texts(row) EXCEPT ![c] = TextOf[x]]
    <3>1. row \in Seq(Text) /\ c \in DOMAIN row /\ x \in Text
      BY <1>1, <1>2, <2>2
    <3> HIDE DEF row
    <3>2. /\ cells \in Seq(Text)
          /\ Each(TextOf, cells) = [Each(TextOf, row) EXCEPT ![c] = TextOf[x]]
      BY <3>1, EachPut
    <3> QED
      BY <3>2 DEF Texts
  <2>6. TextOf[x] = [Texts(row)[c] EXCEPT ![editingLang] = w]
    <3>1. Texts(row)[c] = TextOf[row[c]]
      BY <1>2 DEF Texts, Each
    <3> QED
      BY <2>1, <2>2, <3>1 DEF TextOf
  <2>7. new \in Seq(Seq(Text)) /\ Tables(new) = [Tables(rows) EXCEPT ![r] = Texts(cells)]
    <3>1. cells \in Seq(Text)
      BY <2>5
    <3>2. RowOf[cells] = Texts(cells)
      BY <3>1 DEF RowOf
    <3> HIDE DEF rows, cells
    <3> QED
      BY <1>1, <3>1, <3>2, EachPut DEF Tables
  <2>8. Tables(rows)[r] = Texts(row)
    BY <1>1 DEF Tables, Each, RowOf
  <2>9. ASSUME ~spoiled PROVE want' = [want EXCEPT !.rows = Tables(new)]
    <3>1. want.rows = Tables(rows)
      BY <2>9, Before
    <3> HIDE DEF rows, row, cells, new
    <3>2. Tables(new) = [Tables(rows) EXCEPT ![r] =
                           [Tables(rows)[r] EXCEPT ![c] =
                              [Tables(rows)[r][c] EXCEPT ![editingLang] = w]]]
      BY <2>5, <2>6, <2>7, <2>8
    <3> QED
      BY <2>3, <3>1, <3>2
  <2> HIDE DEF new
  <2> QED
    BY <2>3, <2>4, <2>7, <2>9, RowsStep
<1>3. CASE c \notin DOMAIN row
  <2>1. HandleSettingChange("rows", rows) /\ spoiled'
    BY <1>3 DEF SetRowCell
  <2> QED
    BY <1>1, <2>1, RowsStep
<1> QED
  BY <1>2, <1>3

\* Each row may be changed by itself.
LEMMA RowByRow ==
  ASSUME NEW rows \in Seq(Seq(Text)), NEW new, DOMAIN new = DOMAIN rows,
         \A r \in DOMAIN rows : new[r] \in Seq(Text), new = [r \in DOMAIN rows |-> new[r]]
  PROVE  new \in Seq(Seq(Text)) /\ Tables(new) = [r \in DOMAIN rows |-> Texts(new[r])]
<1>1. Len(rows) \in Nat /\ DOMAIN rows = 1..Len(rows)
  OBVIOUS
<1>2. new \in Seq(Seq(Text))
  BY <1>1
<1>3. \A r \in DOMAIN rows : RowOf[new[r]] = Texts(new[r])
  BY DEF RowOf
<1>4. Tables(new) = [r \in DOMAIN rows |-> Texts(new[r])]
  BY <1>3 DEF Tables, Each
<1> QED
  BY <1>2, <1>4

LEMMA RowsShown ==
  ASSUME NEW rows \in Seq(Seq(Text))
  PROVE  /\ DOMAIN Tables(rows) = DOMAIN rows
         /\ \A r \in DOMAIN rows : rows[r] \in Seq(Text) /\ Tables(rows)[r] = Texts(rows[r])
                                  /\ DOMAIN Texts(rows[r]) = DOMAIN rows[r]
<1>1. \A r \in DOMAIN rows : rows[r] \in Seq(Text)
  OBVIOUS
<1> QED
  BY <1>1 DEF Tables, Each, RowOf, Texts

\* Its columns.
LEMMA AddColumnStep ==
  ASSUME PanelInv, AddColumn
  PROVE  PanelInv'
<1> DEFINE rows == settings.rows
           new == [r \in DOMAIN rows |-> Append(rows[r], New)]
<1>1. rows \in Seq(Seq(Text))
  BY Before
<1>2. HandleSettingChange("rows", new) /\ spoiled' = spoiled
      /\ want' = [want EXCEPT !.rows = [r \in DOMAIN @ |-> Append(@[r], Nothing)]]
  BY DEF AddColumn
<1> HIDE DEF rows
<1>3. New \in Text /\ TextOf[New] = Nothing
  BY TextFacts DEF TextOf
<1>4. \A r \in DOMAIN rows : rows[r] \in Seq(Text)
  BY <1>1
<1>5. \A r \in DOMAIN rows : /\ Append(rows[r], New) \in Seq(Text)
                             /\ Texts(Append(rows[r], New)) = Append(Texts(rows[r]), Nothing)
  BY <1>3, <1>4, EachAdd DEF Texts
<1>6. new \in Seq(Seq(Text)) /\ Tables(new) = [r \in DOMAIN rows |-> Texts(new[r])]
  <2>1. DOMAIN new = DOMAIN rows /\ (\A r \in DOMAIN rows : new[r] \in Seq(Text))
        /\ new = [r \in DOMAIN rows |-> new[r]]
    BY <1>5
  <2> HIDE DEF new
  <2> QED
    BY <1>1, <2>1, RowByRow
<1>7. Tables(new) = [r \in DOMAIN Tables(rows) |-> Append(Tables(rows)[r], Nothing)]
  <2>1. /\ DOMAIN Tables(rows) = DOMAIN rows
        /\ \A r \in DOMAIN rows : Tables(rows)[r] = Texts(rows[r])
    BY <1>1, RowsShown
  <2>2. \A r \in DOMAIN rows : Texts(new[r]) = Append(Tables(rows)[r], Nothing)
    BY <1>5, <2>1
  <2> HIDE DEF new
  <2> QED
    BY <1>6, <2>1, <2>2
<1>8. ASSUME ~spoiled PROVE want' = [want EXCEPT !.rows = Tables(new)]
  <2>1. want.rows = Tables(rows)
    BY <1>8, Before DEF rows
  <2> QED
    BY <1>2, <1>7, <2>1
<1> HIDE DEF new
<1> QED
  BY <1>2, <1>6, <1>8, RowsStep

LEMMA RemoveColumnStep ==
  ASSUME PanelInv, NEW c, RemoveColumn(c)
  PROVE  PanelInv'
<1> DEFINE rows == settings.rows
           Cut(row) == IF c \in DOMAIN row THEN RemoveAt(row, c) ELSE row
           new == Without(rows, c)
<1>1. rows \in Seq(Seq(Text))
  BY Before
<1>2. HandleSettingChange("rows", new) /\ spoiled' = spoiled
      /\ want' = [want EXCEPT !.rows = Without(@, c)]
  BY DEF RemoveColumn
<1> HIDE DEF rows
<1>3. \A r \in DOMAIN rows : rows[r] \in Seq(Text)
  BY <1>1
<1>4. ASSUME NEW r \in DOMAIN rows
      PROVE  Cut(rows[r]) \in Seq(Text) /\ Texts(Cut(rows[r])) = Cut(Texts(rows[r]))
  <2>1. rows[r] \in Seq(Text) /\ DOMAIN Texts(rows[r]) = DOMAIN rows[r]
    BY <1>1, RowsShown
  <2>2. CASE c \in DOMAIN rows[r]
    BY <2>1, <2>2, EachDrop DEF Texts
  <2>3. CASE c \notin DOMAIN rows[r]
    BY <2>1, <2>3
  <2> QED
    BY <2>2, <2>3
<1>5. new = [r \in DOMAIN rows |-> Cut(rows[r])]
  BY DEF Without
<1>6. new \in Seq(Seq(Text)) /\ Tables(new) = [r \in DOMAIN rows |-> Texts(new[r])]
  <2>1. DOMAIN new = DOMAIN rows /\ (\A r \in DOMAIN rows : new[r] \in Seq(Text))
        /\ new = [r \in DOMAIN rows |-> new[r]]
    BY <1>4, <1>5
  <2> HIDE DEF new
  <2> QED
    BY <1>1, <2>1, RowByRow
<1>7. Tables(new) = Without(Tables(rows), c)
  <2>1. Without(Tables(rows), c) = [r \in DOMAIN rows |-> Cut(Texts(rows[r]))]
    BY <1>1, RowsShown DEF Without
  <2> HIDE DEF Cut
  <2>2. \A r \in DOMAIN rows : new[r] = Cut(rows[r])
    BY <1>5
  <2> HIDE DEF new
  <2> QED
    BY <1>4, <1>6, <2>1, <2>2
<1>8. ASSUME ~spoiled PROVE want' = [want EXCEPT !.rows = Tables(new)]
  <2>1. want.rows = Tables(rows)
    BY <1>8, Before DEF rows
  <2> QED
    BY <1>2, <1>7, <2>1
<1> HIDE DEF new
<1> QED
  BY <1>2, <1>6, <1>8, RowsStep

\* Its rows.
LEMMA AddRowStep ==
  ASSUME PanelInv, AddRow
  PROVE  PanelInv'
<1> DEFINE rows == settings.rows
           headers == settings.headers
           cells == [c \in DOMAIN headers |-> New]
           new == Append(rows, cells)
<1>1. rows \in Seq(Seq(Text)) /\ headers \in Seq(Text)
  BY Before
<1>2. HandleSettingChange("rows", new) /\ spoiled' = spoiled
      /\ want' = [want EXCEPT !.rows = Append(@, [c \in DOMAIN headers |-> Nothing])]
  BY DEF AddRow
<1> HIDE DEF rows, headers
<1>3. New \in Text /\ TextOf[New] = Nothing
  BY TextFacts DEF TextOf
<1>4. cells \in Seq(Text)
  <2>1. Len(headers) \in Nat /\ DOMAIN headers = 1..Len(headers)
    BY <1>1
  <2>2. cells = [c \in 1..Len(headers) |-> New]
    BY <2>1
  <2> HIDE DEF cells
  <2> QED
    BY <1>3, <2>1, <2>2
<1>5. RowOf[cells] = [c \in DOMAIN headers |-> Nothing]
  BY <1>3, <1>4 DEF RowOf, Texts, Each
<1> HIDE DEF cells
<1>6. new \in Seq(Seq(Text)) /\ Tables(new) = Append(Tables(rows), RowOf[cells])
  BY <1>1, <1>4, EachAdd DEF Tables
<1>7. ASSUME ~spoiled PROVE want' = [want EXCEPT !.rows = Tables(new)]
  <2>1. want.rows = Tables(rows)
    BY <1>7, Before DEF rows
  <2> QED
    BY <1>2, <1>5, <1>6, <2>1
<1> HIDE DEF new
<1> QED
  BY <1>2, <1>6, <1>7, RowsStep

LEMMA RemoveRowStep ==
  ASSUME PanelInv, NEW r \in DOMAIN settings.rows, RemoveRow(r)
  PROVE  PanelInv'
<1> DEFINE rows == settings.rows
           new == RemoveAt(rows, r)
<1>1. rows \in Seq(Seq(Text)) /\ r \in DOMAIN rows
  BY Before
<1>2. HandleSettingChange("rows", new) /\ spoiled' = spoiled
      /\ want' = [want EXCEPT !.rows = RemoveAt(@, r)]
  BY DEF RemoveRow
<1> HIDE DEF rows
<1>3. new \in Seq(Seq(Text)) /\ Tables(new) = RemoveAt(Tables(rows), r)
  BY <1>1, EachDrop DEF Tables
<1>4. ASSUME ~spoiled PROVE want' = [want EXCEPT !.rows = Tables(new)]
  <2>1. want.rows = Tables(rows)
    BY <1>4, Before DEF rows
  <2> QED
    BY <1>2, <1>3, <2>1
<1> HIDE DEF new
<1> QED
  BY <1>2, <1>3, <1>4, RowsStep

\* The tabs, and the texts that are edited on the canvas.
LEMMA TabsStep ==
  ASSUME PanelInv, NEW l \in Langs, LanguageTabs(l)
  PROVE  PanelInv'
BY DEF PanelInv, PanelTyped, TypedIsKept, LanguageTabs, Shown

LEMMA InlineStep ==
  ASSUME PanelInv, NEW w \in Words, InlineEdit(w)
  PROVE  PanelInv'
<1> DEFINE title == settings.title
           base == SpreadOnly(title, editingLang)
           x == [base EXCEPT !.text[editingLang] = w]
<1>1. /\ PanelTyped /\ title \in Text /\ w \in Nat /\ settings \in PanelSettings
      /\ editingLang \in Langs
  BY WordsAreNat DEF PanelInv, PanelTyped, PanelSettings
<1>2. base \in Text /\ (~title.legacy => base = title)
  BY <1>1, WordsAreNat DEF SpreadOnly, Text
<1>3. HandleSettingChange("title", x) /\ spoiled' = (spoiled \/ title.legacy)
      /\ want' = [want EXCEPT !.title[editingLang] = w]
  BY DEF InlineEdit
<1> HIDE DEF base, title
<1>4. x \in Text /\ x.text = [base.text EXCEPT ![editingLang] = w]
  BY <1>1, <1>2 DEF Text
<1> HIDE DEF x
<1>5. PanelTyped' /\ Shown(settings)' = [Shown(settings) EXCEPT !.title = x.text]
  BY <1>1, <1>3, <1>4, Written
<1>6. Shown(settings).title = title.text
  BY <1>1, ShownIs DEF Shows, title
<1>7. ASSUME ~spoiled, ~title.legacy PROVE Shown(settings)' = want'
  <2>1. want = Shown(settings)
    BY <1>7 DEF PanelInv, TypedIsKept
  <2>2. want.title = title.text /\ base = title
    BY <1>2, <1>6, <1>7, <2>1
  <2>3. want' = [want EXCEPT !.title = x.text]
    BY <1>3, <1>4, <2>2
  <2> QED
    BY <1>5, <2>1, <2>3
<1>8. title.legacy \in BOOLEAN
  BY <1>1 DEF Text
<1> QED
  BY <1>3, <1>5, <1>7, <1>8, InStep

\* Every step keeps the invariant.
LEMMA PanelStep == PanelInv /\ [PanelNext]_panelVars => PanelInv'
<1> SUFFICES ASSUME PanelInv, [PanelNext]_panelVars PROVE PanelInv'
  OBVIOUS
<1>1. CASE UNCHANGED panelVars
  BY <1>1 DEF panelVars, PanelInv, PanelTyped, TypedIsKept, Shown
<1>2. CASE \E l \in Langs : LanguageTabs(l)
  BY <1>2, TabsStep
<1>3. CASE ContainerFields
  BY <1>3, OptionStep DEF ContainerFields
<1>4. ASSUME NEW w \in Words,
             \/ TextFields(w) \/ ProductGridFields(w) \/ VideoFields(w) \/ GalleryFields(w)
             \/ ButtonGroupFields(w) \/ TestimonialFields(w) \/ HighlightFields(w)
      PROVE  PanelInv'
  BY <1>4, TitleStep, OptionStep, AddItemStep, UpdateItemStep, RemoveItemStep, UpdateImageStep
  DEF TextFields, ProductGridFields, VideoFields, GalleryFields, ButtonGroupFields,
      TestimonialFields, HighlightFields, ItemFields
<1>5. ASSUME NEW w \in Words, TableFields(w) PROVE PanelInv'
  BY <1>5, TitleStep, AddColumnStep, AddRowStep, HeaderStep, RemoveColumnStep, CellStep,
     RemoveRowStep
  DEF TableFields
<1> QED
  BY <1>1, <1>2, <1>3, <1>4, <1>5, InlineStep DEF PanelNext

\* What the seller types in the panel is what the section shows and what is saved,
\* in every language, and nothing of the other texts changes, whatever is added to
\* and removed from lists and tables; but for the cells that a row does not have
\* (SectionPropertiesEditor.tsx:122-137, 190-200, 586-599).
THEOREM TypedKept == PanelSpec => []TypedIsKept
<1>1. PanelSpec => []PanelInv
  BY PanelInit0, PanelStep, PTL DEF PanelSpec
<1>2. PanelInv => TypedIsKept
  BY DEF PanelInv
<1> QED
  BY <1>1, <1>2, PTL

-------------------------------------------------------------------------------
(***************************************************************************)
(* The page editor.                                                        *)
(***************************************************************************)
\* What there is of a page, and what a request is.
Kept == Contents \cup {None}
Requests ==
  [kind : {"load", "save", "publish", "revert", "chat", "template", "confirm"}, key : Keys,
   body : Kept, at : {"sent", "open", "answered"}, target : Keys, seen : Kept,
   left : SUBSET Keys, answer : Kept, live : BOOLEAN]

\* Types.
EditorTyped ==
  /\ pageKey \in Keys /\ page \in Kept /\ unsaved \in BOOLEAN /\ excused \in BOOLEAN
  /\ calls \in SUBSET Requests /\ contents \in 0..MaxContents
  /\ draft \in [Keys -> Kept] /\ published \in [Keys -> Kept]
  /\ versions \in [Keys -> Seq(Contents)]

\* What a request is going to write is of the page that it is going to write.
BodiesApart ==
  \A r \in calls :
    /\ r.kind = "save" \/ (r.kind = "revert" /\ r.at = "open") =>
         r.body # None /\ r.body.key = r.key
    /\ r.at = "open" =>
         /\ r.kind \in {"save", "revert"} => r.target = r.key
         /\ r.seen = None \/ r.seen.key = r.target
         /\ r.kind \in {"save", "revert", "chat", "template", "confirm"}

\* There is no content "none" among those that were kept.
RealContents ==
  None \notin saved /\ \A k \in Keys : \A i \in DOMAIN versions[k] : versions[k][i] # None

\* Who writes a page without a race has read what is there now.
SeenIsDraft ==
  \A r \in calls : r.at = "open" /\ r.target \notin raced =>
    /\ r.seen = draft[r.target]
    /\ \A q \in calls : q.at = "open" /\ q.target = r.target => q = r

\* The server, the screen, and both: the inductive invariant.
DraftInv == PagesStayApart /\ Recoverable /\ BodiesApart /\ RealContents /\ SeenIsDraft

\* What the request that is listened to, and the only one, will make of the screen.
Awaited(r) ==
  /\ r.kind # "confirm" => r.key = pageKey
  /\ r.at = "answered" /\ r.kind \notin {"template", "confirm"} => r.answer = draft[pageKey]
  /\ r.kind \in {"publish", "revert"} /\ r.at = "sent" /\ ~unsaved => page = draft[pageKey]
  /\ r.kind = "chat" /\ draft[pageKey] = None /\ ~unsaved => page = None

ScreenInv ==
  /\ \A r \in calls : r.live \/ r.kind = "load"
  /\ ~excused =>
       /\ \A r \in calls : r.live => Awaited(r) /\ \A q \in calls : q.live => q = r
       /\ page = None \/ page.key = pageKey
       /\ (\A r \in calls : ~r.live) /\ ~unsaved => page = draft[pageKey]

EditorInv == EditorTyped /\ DraftInv /\ ScreenInv
-------------------------------------------------------------------------------
\* The absence of a page is something that is kept, too.
LEMMA NoneIs == None = [key |-> "none", n |-> 0] /\ None \in Kept
BY DEF None, Kept

\* Versions that are dropped are kept in mind, the others are in the list.
LEMMA NewestKeeps ==
  ASSUME NEW S, NEW list \in Seq(S)
  PROVE  /\ Newest(list) \in Seq(S)
         /\ \A c : VersionIn(list, c) => VersionIn(Newest(list), c) \/ c \in Oldest(list)
         /\ \A c : VersionIn(Newest(list), c) => VersionIn(list, c)
<1> DEFINE t == TooMany(list)
           new == Newest(list)
<1>1. Len(list) \in Nat /\ t \in Nat /\ t <= Len(list) /\ DOMAIN list = 1..Len(list)
  BY PageEditorAssumption DEF TooMany
<1> HIDE DEF t
<1>2. /\ new \in Seq(S) /\ Len(new) = Len(list) - t /\ DOMAIN new = 1..Len(list) - t
      /\ \A j \in 1..Len(list) - t : new[j] = list[t + j]
  <2>1. new = SubSeq(list, t + 1, Len(list))
    BY DEF Newest, t
  <2> HIDE DEF new
  <2>2. t + 1 \in Int /\ Len(list) \in Int /\ \A i \in t + 1..Len(list) : list[i] \in S
    <3>1. \A i \in t + 1..Len(list) : i \in 1..Len(list)
      BY <1>1
    <3> QED
      BY <1>1, <3>1, ElementOfSeq
  <2>3. /\ new \in Seq(S) /\ Len(new) = IF t + 1 <= Len(list) THEN Len(list) - (t + 1) + 1 ELSE 0
        /\ \A j \in 1..Len(list) - (t + 1) + 1 : new[j] = list[(t + 1) + j - 1]
    BY <2>1, <2>2, SubSeqProperties
  <2>4. Len(list) - (t + 1) + 1 = Len(list) - t /\ Len(new) = Len(list) - t
    <3>1. Len(list) \in Nat /\ t \in Nat /\ t <= Len(list)
      BY <1>1
    <3>2. Len(new) = IF t + 1 <= Len(list) THEN Len(list) - (t + 1) + 1 ELSE 0
      BY <2>3
    <3> QED
      BY <3>1, <3>2
  <2>5. \A j \in 1..Len(list) - t : (t + 1) + j - 1 = t + j
    BY <1>1
  <2>6. \A j \in 1..Len(list) - t : new[j] = list[t + j]
    BY <2>3, <2>4, <2>5
  <2>7. DOMAIN new = 1..Len(list) - t
    BY <2>3, <2>4, LenProperties
  <2> QED
    BY <2>3, <2>4, <2>6, <2>7
<1> HIDE DEF new
<1>3. ASSUME NEW c, VersionIn(list, c) PROVE VersionIn(new, c) \/ c \in Oldest(list)
  <2>1. PICK i \in 1..Len(list) : list[i] = c
    BY <1>1, <1>3 DEF VersionIn
  <2>2. CASE i <= t
    <3>1. i \in 1..t
      BY <1>1, <2>2
    <3> QED
      BY <2>1, <3>1 DEF Oldest, t
  <2>3. CASE i > t
    <3>1. i - t \in 1..Len(list) - t /\ t + (i - t) = i
      BY <1>1, <2>3
    <3>2. new[i - t] = c
      BY <1>2, <2>1, <3>1
    <3> QED
      BY <1>2, <3>1, <3>2 DEF VersionIn
  <2> QED
    BY <1>1, <2>2, <2>3
<1>4. ASSUME NEW c, VersionIn(new, c) PROVE VersionIn(list, c)
  <2>1. PICK j \in 1..Len(list) - t : list[t + j] = c
    BY <1>2, <1>4 DEF VersionIn
  <2>2. t + j \in DOMAIN list
    <3>1. j \in Nat /\ j >= 1 /\ j <= Len(list) - t
      BY <1>1
    <3> QED
      BY <1>1, <3>1
  <2> QED
    BY <2>1, <2>2 DEF VersionIn
<1> QED
  BY <1>2, <1>3, <1>4 DEF new

\* The page of the first load.
LEMMA EditorInit0 == EditorInit => EditorInv
<1> SUFFICES ASSUME EditorInit PROVE EditorInv
  OBVIOUS
<1> DEFINE r == Call("load", pageKey, None)
<1>1. r \in Requests /\ r.kind = "load" /\ r.at = "sent" /\ r.key = pageKey /\ r.live
  <2>1. pageKey \in Keys /\ {} \in SUBSET Keys
    BY DEF EditorInit
  <2> QED
    BY <2>1, NoneIs DEF Requests, Call
<1> HIDE DEF r
<1>2. calls = {r}
  BY DEF EditorInit, r
<1>3. \A k \in Keys : draft[k] \in Kept /\ (draft[k] = None \/ draft[k] \in [key : {k}, n : 0..MaxContents])
  <2> SUFFICES ASSUME NEW k \in Keys
               PROVE  draft[k] = None \/ draft[k] \in [key : {k}, n : 0..MaxContents]
    BY DEF Kept, Contents
  <2>1. draft[k] \in {None} \cup [key : Keys, n : {0}] /\ draft[k].key \in {"none", k}
    BY DEF EditorInit
  <2>2. 0 \in 0..MaxContents
    BY PageEditorAssumption
  <2>3. CASE draft[k] \in [key : Keys, n : {0}]
    <3>1. draft[k] = [key |-> draft[k].key, n |-> 0]
      BY <2>3
    <3> QED
      BY <2>1, <2>2, <3>1 DEF None
  <2> QED
    BY <2>1, <2>3
<1>4. EditorTyped
  <2>1. draft \in [Keys -> Kept] /\ published \in [Keys -> Kept]
    BY <1>3, NoneIs DEF EditorInit
  <2>2. versions \in [Keys -> Seq(Contents)]
    <3>1. <<>> \in Seq(Contents)
      OBVIOUS
    <3> QED
      BY <3>1 DEF EditorInit
  <2>3. calls \in SUBSET Requests
    BY <1>1, <1>2
  <2>4. /\ pageKey \in Keys /\ page \in Kept /\ unsaved \in BOOLEAN /\ excused \in BOOLEAN
        /\ contents \in 0..MaxContents
    <3>1. page \in Kept
      BY NoneIs DEF EditorInit
    <3>2. unsaved \in BOOLEAN /\ excused \in BOOLEAN
      BY DEF EditorInit
    <3>3. contents \in 0..MaxContents
      BY PageEditorAssumption DEF EditorInit
    <3> QED
      BY <3>1, <3>2, <3>3 DEF EditorInit
  <2> QED
    BY <2>1, <2>2, <2>3, <2>4 DEF EditorTyped
<1>5. DraftInv
  <2>1. PagesStayApart
    BY <1>3 DEF EditorInit, PagesStayApart
  <2>2. Recoverable /\ RealContents
    BY DEF EditorInit, Recoverable, RealContents
  <2> QED
    BY <1>1, <1>2, <2>1, <2>2 DEF DraftInv, BodiesApart, SeenIsDraft
<1>6. ScreenInv
  BY <1>1, <1>2 DEF EditorInit, ScreenInv, Awaited
<1> QED
  BY <1>4, <1>5, <1>6 DEF EditorInv

-------------------------------------------------------------------------------
(***************************************************************************)
(* Drafts.                                                                 *)
(***************************************************************************)

\* A request that is not writing.
Mild(r) == r.at # "open" /\ (r.kind = "save" => r.body # None /\ r.body.key = r.key)

\* No draft is written and no write begins.
LEMMA DraftQuiet ==
  ASSUME EditorInv, UNCHANGED <<draft, versions, saved, pruned, raced>>,
         \A k \in Keys : published'[k] \in {published[k], draft[k]},
         \A r \in calls' : r \in calls \/ Mild(r)
  PROVE  DraftInv'
<1>1. PagesStayApart'
  BY DEF EditorInv, DraftInv, PagesStayApart
<1>2. Recoverable' /\ RealContents'
  BY DEF EditorInv, DraftInv, Recoverable, RealContents, VersionIn
<1>3. BodiesApart'
  BY DEF EditorInv, DraftInv, BodiesApart, Mild
<1>4. SeenIsDraft'
  BY DEF EditorInv, DraftInv, SeenIsDraft, Mild
<1> QED
  BY <1>1, <1>2, <1>3, <1>4 DEF DraftInv

\* A write begins.
LEMMA DraftOpen ==
  ASSUME EditorInv, NEW r \in calls, r.at = "sent", NEW k \in Keys, Open(r, k),
         r.kind \in {"save", "revert", "chat", "template", "confirm"},
         r.kind \in {"save", "revert"} => k = r.key /\ r.body # None /\ r.body.key = r.key
  PROVE  DraftInv'
<1> DEFINE q == [r EXCEPT !.at = "open", !.target = k, !.seen = draft[k]]
<1>1. r \in Requests /\ draft[k] \in Kept
  BY DEF EditorInv, EditorTyped
<1>2. /\ q.at = "open" /\ q.target = k /\ q.seen = draft[k] /\ q.kind = r.kind /\ q.key = r.key
      /\ q.body = r.body
  BY <1>1 DEF Requests
<1>3. /\ calls' = (calls \ {r}) \cup {q}
      /\ UNCHANGED <<draft, published, versions, saved, pruned>>
      /\ raced \subseteq raced'
      /\ k \notin raced' => \A x \in calls \ {r} : ~(x.at = "open" /\ x.target = k)
      /\ \A p \in Keys : p # k => (p \in raced' <=> p \in raced)
  BY DEF Open, Replace
<1> HIDE DEF q
<1>4. PagesStayApart' /\ RealContents'
  BY <1>3 DEF EditorInv, DraftInv, PagesStayApart, RealContents
<1>5. Recoverable'
  BY <1>3 DEF EditorInv, DraftInv, Recoverable, VersionIn
<1>6. draft[k] = None \/ draft[k].key = k
  <2>1. draft[k] \in [key : {k}, n : 0..MaxContents] \cup {None}
    BY DEF EditorInv, DraftInv, PagesStayApart
  <2> QED
    BY <2>1
<1>7. BodiesApart'
  BY <1>2, <1>3, <1>6 DEF EditorInv, DraftInv, BodiesApart
<1>8. SeenIsDraft'
  <2> SUFFICES ASSUME NEW x \in calls', x.at = "open", x.target \notin raced'
               PROVE  /\ x.seen = draft'[x.target]
                      /\ \A y \in calls' : y.at = "open" /\ y.target = x.target => y = x
    BY DEF SeenIsDraft
  <2>1. CASE x = q
    BY <1>2, <1>3, <2>1
  <2>2. CASE x # q
    <3>1. x \in calls \ {r} /\ x.target # k /\ x.target \notin raced
      BY <1>3, <2>2
    <3> QED
      BY <1>2, <1>3, <3>1 DEF EditorInv, DraftInv, SeenIsDraft
  <2> QED
    BY <2>1, <2>2
<1> QED
  BY <1>4, <1>5, <1>7, <1>8 DEF DraftInv

\* A write ends: the page is replaced, and what was there is a version.
LEMMA DraftWritten ==
  ASSUME EditorInv, NEW r \in calls, r.at = "open", NEW c \in Contents, WritePage(r, c),
         c # None, c.key = r.target, NEW q, Mild(q), calls' = (calls \ {r}) \cup {q}
  PROVE  DraftInv'
<1> DEFINE k == r.target
           list == SnapshotVersion(r)
<1>1. r \in Requests /\ k \in Keys /\ r.seen \in Kept /\ versions[k] \in Seq(Contents)
      /\ draft[k] \in Kept
  BY DEF EditorInv, EditorTyped, Requests
<1>2. r.seen = None \/ r.seen.key = k
  BY DEF EditorInv, DraftInv, BodiesApart
<1>3. list \in Seq(Contents)
  BY <1>1 DEF SnapshotVersion, Kept
<1>4. \A d : VersionIn(list, d) => VersionIn(versions[k], d) \/ (d = r.seen /\ r.seen # None)
  BY <1>1 DEF SnapshotVersion, VersionIn, Kept
<1>5. /\ \A d : VersionIn(versions[k], d) => VersionIn(list, d)
      /\ r.seen # None => VersionIn(list, r.seen)
  <2>1. CASE r.seen = None
    BY <2>1 DEF SnapshotVersion
  <2>2. CASE r.seen # None
    <3> DEFINE old == versions[k]
    <3>1. list = Append(old, r.seen) /\ r.seen \in Contents
      BY <1>1, <2>2 DEF SnapshotVersion, Kept
    <3>2. old \in Seq(Contents)
      BY <1>1
    <3> HIDE DEF old, list
    <3>3. /\ DOMAIN list = 1..Len(old) + 1 /\ list[Len(old) + 1] = r.seen
          /\ \A i \in DOMAIN old : i \in DOMAIN list /\ list[i] = old[i]
          /\ Len(old) + 1 \in DOMAIN list
      BY <3>1, <3>2
    <3> QED
      BY <3>3 DEF VersionIn, old
  <2> QED
    BY <2>1, <2>2
<1>6. /\ versions' = [versions EXCEPT ![k] = Newest(list)]
      /\ pruned' = pruned \cup Oldest(list)
      /\ draft' = [draft EXCEPT ![k] = c] /\ saved' = saved \cup {c}
      /\ UNCHANGED <<published, raced>>
  BY DEF WritePage
<1> HIDE DEF list
<1>7. /\ versions'[k] = Newest(list) /\ \A p \in Keys : p # k => versions'[p] = versions[p]
      /\ draft'[k] = c /\ \A p \in Keys : p # k => draft'[p] = draft[p]
  BY <1>1, <1>6 DEF EditorInv, EditorTyped
<1>8. \A d : VersionIn(versions'[k], d) => VersionIn(versions[k], d) \/ (d = r.seen /\ r.seen # None)
  BY <1>3, <1>4, <1>7, NewestKeeps
<1>9. \A d : VersionIn(versions[k], d) \/ (d = r.seen /\ r.seen # None) =>
        VersionIn(versions'[k], d) \/ d \in pruned'
  BY <1>3, <1>5, <1>6, <1>7, NewestKeeps
<1>10. \A p \in Keys : \A d : VersionIn(versions[p], d) => d.key = p /\ d # None
  BY DEF EditorInv, DraftInv, PagesStayApart, RealContents, VersionIn
<1>11. \A p \in Keys : \A d : VersionIn(versions'[p], d) => d.key = p /\ d # None
  BY <1>2, <1>7, <1>8, <1>10
<1>12. PagesStayApart'
  <2> SUFFICES ASSUME NEW p \in Keys
               PROVE  /\ {draft'[p], published'[p]} \subseteq [key : {p}, n : 0..MaxContents] \cup {None}
                      /\ \A i \in DOMAIN versions'[p] : versions'[p][i].key = p
    BY DEF PagesStayApart
  <2>1. {draft[p], published[p]} \subseteq [key : {p}, n : 0..MaxContents] \cup {None}
    BY DEF EditorInv, DraftInv, PagesStayApart
  <2>2. p = k => c \in [key : {p}, n : 0..MaxContents]
    BY DEF Contents
  <2>3. \A i \in DOMAIN versions'[p] : versions'[p][i].key = p
    BY <1>11 DEF VersionIn
  <2> QED
    BY <1>6, <1>7, <2>1, <2>2, <2>3
<1>13. RealContents'
  BY <1>6, <1>11 DEF EditorInv, DraftInv, RealContents, VersionIn
<1>14. Recoverable'
  <2> SUFFICES ASSUME NEW d \in saved', d \notin pruned', d.key \notin raced'
               PROVE  \E p \in Keys : d = draft'[p] \/ VersionIn(versions'[p], d)
    BY DEF Recoverable
  <2>1. CASE d = c
    BY <1>1, <1>7, <2>1
  <2>2. CASE d # c
    <3>1. d \in saved /\ d # None /\ d \notin pruned /\ d.key \notin raced
      BY <1>6, <2>2 DEF EditorInv, DraftInv, RealContents
    <3>2. PICK p \in Keys : d = draft[p] \/ VersionIn(versions[p], d)
      BY <3>1 DEF EditorInv, DraftInv, Recoverable
    <3>3. d.key = p
      <4>1. draft[p] \in [key : {p}, n : 0..MaxContents] \cup {None}
        BY DEF EditorInv, DraftInv, PagesStayApart
      <4> QED
        BY <1>10, <3>1, <3>2, <4>1
    <3>4. CASE p # k
      BY <1>7, <3>2, <3>4
    <3>5. CASE p = k
      <4>1. draft[k] = r.seen
        BY <3>1, <3>3, <3>5 DEF EditorInv, DraftInv, SeenIsDraft
      <4>2. VersionIn(versions[k], d) \/ (d = r.seen /\ r.seen # None)
        BY <3>1, <3>2, <3>5, <4>1
      <4> QED
        BY <1>1, <1>9, <4>2
    <3> QED
      BY <3>4, <3>5
  <2> QED
    BY <2>1, <2>2
<1>15. BodiesApart'
  BY DEF EditorInv, DraftInv, BodiesApart, Mild
<1>16. SeenIsDraft'
  <2> SUFFICES ASSUME NEW x \in calls', x.at = "open", x.target \notin raced'
               PROVE  /\ x.seen = draft'[x.target]
                      /\ \A y \in calls' : y.at = "open" /\ y.target = x.target => y = x
    BY DEF SeenIsDraft
  <2>1. x \in calls \ {r} /\ x.target \notin raced
    BY <1>6 DEF Mild
  <2>2. x.target # k /\ x.target \in Keys
    BY <2>1 DEF EditorInv, DraftInv, SeenIsDraft, EditorTyped, Requests
  <2> QED
    BY <1>7, <2>1, <2>2 DEF EditorInv, DraftInv, SeenIsDraft, Mild
<1> QED
  BY <1>12, <1>13, <1>14, <1>15, <1>16 DEF DraftInv

-------------------------------------------------------------------------------
(***************************************************************************)
(* The screen.                                                             *)
(***************************************************************************)

\* The server goes on with a request, or the client with another one for it.
LEMMA ScreenServer ==
  ASSUME EditorInv, NEW r \in calls, NEW q, calls' = (calls \ {r}) \cup {q},
         q.live = r.live, q.live \/ q.kind = "load", UNCHANGED <<pageKey, page, unsaved>>,
         excused => excused', ~r.live => UNCHANGED draft,
         q.live /\ ~excused' => Awaited(q)'
  PROVE  ScreenInv'
<1>1. \A x \in calls' : x = q \/ (x \in calls /\ x # r)
  OBVIOUS
<1>2. \A x \in calls' : x.live \/ x.kind = "load"
  BY <1>1 DEF EditorInv, ScreenInv
<1>3. ASSUME ~excused'
      PROVE  /\ \A x \in calls' : x.live => Awaited(x)' /\ \A y \in calls' : y.live => y = x
             /\ page' = None \/ page'.key = pageKey'
             /\ (\A x \in calls' : ~x.live) /\ ~unsaved' => page' = draft'[pageKey']
  <2>1. /\ \A x \in calls : x.live => Awaited(x) /\ \A y \in calls : y.live => y = x
        /\ page = None \/ page.key = pageKey
        /\ (\A x \in calls : ~x.live) /\ ~unsaved => page = draft[pageKey]
    BY <1>3 DEF EditorInv, ScreenInv
  <2>2. ASSUME NEW x \in calls', x.live
        PROVE  Awaited(x)' /\ \A y \in calls' : y.live => y = x
    <3>1. CASE x = q
      <4>1. r.live /\ Awaited(x)'
        BY <1>3, <2>2, <3>1
      <4> QED
        BY <1>1, <2>1, <3>1, <4>1
    <3>2. CASE x # q
      <4>1. x \in calls /\ x # r
        BY <1>1, <3>2
      <4>2. ~r.live /\ Awaited(x)
        BY <2>1, <2>2, <4>1
      <4>3. Awaited(x)'
        BY <4>2 DEF Awaited
      <4> QED
        BY <1>1, <2>1, <2>2, <4>1, <4>2, <4>3
    <3> QED
      BY <3>1, <3>2
  <2>3. (\A x \in calls' : ~x.live) /\ ~unsaved' => page' = draft'[pageKey']
    <3> SUFFICES ASSUME \A x \in calls' : ~x.live, ~unsaved PROVE page' = draft'[pageKey']
      OBVIOUS
    <3>1. ~r.live
      OBVIOUS
    <3>2. \A x \in calls : ~x.live
      BY <3>1
    <3> QED
      BY <2>1, <3>1, <3>2
  <2> QED
    BY <2>1, <2>2, <2>3
<1> QED
  BY <1>2, <1>3 DEF ScreenInv

\* The server answers with what the draft is now, or with nothing of it.
LEMMA AnsweredIs ==
  ASSUME NEW r \in Requests, NEW c \in Kept, NEW q, q = [r EXCEPT !.at = "answered", !.answer = c]
  PROVE  /\ q \in Requests /\ q.at = "answered" /\ q.answer = c
         /\ q.kind = r.kind /\ q.key = r.key /\ q.body = r.body /\ q.live = r.live
BY DEF Requests

\* What the answer does to the screen.
LEMMA ScreenAnswered ==
  ASSUME EditorInv, NEW r \in calls, NEW c \in Kept, Answered(r, c),
         UNCHANGED <<pageKey, page, unsaved, excused>>, ~r.live => UNCHANGED draft,
         r.kind = "chat" => UNCHANGED draft,
         r.kind \notin {"template", "confirm"} => c = draft'[r.key]
  PROVE  ScreenInv'
<1> DEFINE q == [r EXCEPT !.at = "answered", !.answer = c]
<1>1. r \in Requests /\ calls' = (calls \ {r}) \cup {q}
  BY DEF EditorInv, EditorTyped, Answered, Replace
<1>2. /\ q.at = "answered" /\ q.answer = c /\ q.kind = r.kind /\ q.key = r.key
      /\ q.live = r.live
  BY <1>1, AnsweredIs
<1> HIDE DEF q
<1>3. q.live \/ q.kind = "load"
  BY <1>2 DEF EditorInv, ScreenInv
<1>4. ASSUME q.live, ~excused' PROVE Awaited(q)'
  <2>1. Awaited(r)
    BY <1>2, <1>4 DEF EditorInv, ScreenInv
  <2> QED
    BY <1>2, <2>1 DEF Awaited
<1> QED
  BY <1>1, <1>2, <1>3, <1>4, ScreenServer

\* A write begins.
LEMMA ScreenOpen ==
  ASSUME EditorInv, NEW r \in calls, NEW k \in Keys, Open(r, k)
  PROVE  ScreenInv'
<1>1. PICK q : q = [r EXCEPT !.at = "open", !.target = k, !.seen = draft[k]]
  OBVIOUS
<1>2. r \in Requests /\ calls' = (calls \ {r}) \cup {q}
  BY <1>1 DEF EditorInv, EditorTyped, Open, Replace
<1>3. q.at = "open" /\ q.kind = r.kind /\ q.key = r.key /\ q.live = r.live
  BY <1>1, <1>2 DEF Requests
<1>4. UNCHANGED <<pageKey, page, unsaved, excused, draft>>
  BY DEF Open, ClientOnly
<1>5. q.live \/ q.kind = "load"
  BY <1>3 DEF EditorInv, ScreenInv
<1>6. ASSUME q.live, ~excused' PROVE Awaited(q)'
  <2>1. Awaited(r)
    BY <1>3, <1>4, <1>6 DEF EditorInv, ScreenInv
  <2> QED
    BY <1>3, <1>4, <2>1 DEF Awaited
<1> QED
  BY <1>2, <1>3, <1>4, <1>5, <1>6, ScreenServer

\* The client sends a request.
LEMMA ScreenSent ==
  ASSUME EditorInv, NEW r, SendCall(r), r.at = "sent", r.live,
         ~excused /\ r.kind # "confirm" => r.key = pageKey
  PROVE  ScreenInv'
<1>1. /\ calls' = calls \cup {r} /\ excused' = (excused \/ \E q \in calls : q.live)
      /\ UNCHANGED <<pageKey, page, unsaved, draft>>
  BY DEF SendCall, database
<1>2. \A x \in calls' : x.live \/ x.kind = "load"
  BY <1>1 DEF EditorInv, ScreenInv
<1>3. ASSUME ~excused'
      PROVE  /\ \A x \in calls' : x.live => Awaited(x)' /\ \A y \in calls' : y.live => y = x
             /\ page' = None \/ page'.key = pageKey'
             /\ (\A x \in calls' : ~x.live) /\ ~unsaved' => page' = draft'[pageKey']
  <2>1. ~excused /\ \A q \in calls : ~q.live
    BY <1>1, <1>3
  <2>2. /\ page = None \/ page.key = pageKey
        /\ ~unsaved => page = draft[pageKey]
    BY <2>1 DEF EditorInv, ScreenInv
  <2>3. Awaited(r)'
    BY <1>1, <2>1, <2>2 DEF Awaited
  <2> QED
    BY <1>1, <2>1, <2>2, <2>3
<1> QED
  BY <1>2, <1>3 DEF ScreenInv

\* A request ends without a trace on the screen, or with one that is known.
LEMMA ScreenEnded ==
  ASSUME EditorInv, NEW r \in calls, calls' = calls \ {r}, UNCHANGED <<pageKey, draft>>,
         excused => excused',
         ~excused' => (~r.live => UNCHANGED <<page, unsaved>>),
         ~excused' /\ r.live => (page' = None \/ page'.key = pageKey)
                                /\ (~unsaved' => page' = draft[pageKey])
  PROVE  ScreenInv'
<1>1. \A x \in calls' : x.live \/ x.kind = "load"
  BY DEF EditorInv, ScreenInv
<1>2. ASSUME ~excused'
      PROVE  /\ \A x \in calls' : x.live => Awaited(x)' /\ \A y \in calls' : y.live => y = x
             /\ page' = None \/ page'.key = pageKey'
             /\ (\A x \in calls' : ~x.live) /\ ~unsaved' => page' = draft'[pageKey']
  <2>1. /\ \A x \in calls : x.live => Awaited(x) /\ \A y \in calls : y.live => y = x
        /\ page = None \/ page.key = pageKey
        /\ (\A x \in calls : ~x.live) /\ ~unsaved => page = draft[pageKey]
    BY <1>2 DEF EditorInv, ScreenInv
  <2>2. CASE r.live
    <3>1. \A x \in calls' : ~x.live
      BY <2>1, <2>2
    <3> QED
      BY <1>2, <2>2, <3>1
  <2>3. CASE ~r.live
    <3>1. UNCHANGED <<page, unsaved>>
      BY <1>2, <2>3
    <3>2. \A x \in calls' : x.live => Awaited(x)'
      BY <2>1, <3>1 DEF Awaited
    <3> QED
      BY <2>1, <2>3, <3>1, <3>2
  <2> QED
    BY <2>2, <2>3
<1> QED
  BY <1>1, <1>2 DEF ScreenInv

-------------------------------------------------------------------------------
(***************************************************************************)
(* The steps, one by one.                                                  *)
(***************************************************************************)

\* A request as it is sent.
LEMMA CallIs ==
  ASSUME NEW kind \in {"load", "save", "publish", "revert", "chat", "template", "confirm"},
         NEW key \in Keys, NEW body \in Kept, NEW r, r = Call(kind, key, body)
  PROVE  /\ r \in Requests /\ r.at = "sent" /\ r.live
         /\ r.kind = kind /\ r.key = key /\ r.body = body
<1>1. {} \in SUBSET Keys
  OBVIOUS
<1> QED
  BY <1>1, NoneIs DEF Requests, Call

\* One that is about several pages.
LEMMA CallLeft ==
  ASSUME NEW q \in Requests, NEW left \in SUBSET Keys, NEW r, r = [q EXCEPT !.left = left]
  PROVE  /\ r \in Requests /\ r.at = q.at /\ r.live = q.live
         /\ r.kind = q.kind /\ r.key = q.key /\ r.body = q.body
BY DEF Requests

\* A request is sent.
LEMMA CallSent ==
  ASSUME EditorInv, NEW r \in Requests, SendCall(r), r.at = "sent", r.live, Mild(r),
         ~excused /\ r.kind # "confirm" => r.key = pageKey
  PROVE  EditorInv'
<1>1. EditorTyped'
  <2>1. calls' \in SUBSET Requests /\ excused' \in BOOLEAN
    BY DEF EditorInv, EditorTyped, SendCall
  <2> QED
    BY <2>1 DEF EditorInv, EditorTyped, SendCall, database
<1>2. DraftInv'
  <2>1. UNCHANGED <<draft, published, versions, saved, pruned, raced>>
        /\ calls' = calls \cup {r}
    BY DEF SendCall, database
  <2> QED
    BY <2>1, DraftQuiet
<1>3. ScreenInv'
  BY ScreenSent
<1> QED
  BY <1>1, <1>2, <1>3 DEF EditorInv

\* The server answers, and has written no draft.
LEMMA CallAnswered ==
  ASSUME EditorInv, NEW r \in calls, NEW c \in Kept, Answered(r, c), ClientOnly,
         UNCHANGED <<draft, versions, saved, pruned, raced, contents>>,
         published' \in [Keys -> Kept],
         \A k \in Keys : published'[k] \in {published[k], draft[k]},
         r.kind \notin {"template", "confirm"} => c = draft[r.key]
  PROVE  EditorInv'
<1>1. PICK q : q = [r EXCEPT !.at = "answered", !.answer = c]
  OBVIOUS
<1>2. r \in Requests /\ calls' = (calls \ {r}) \cup {q}
  BY <1>1 DEF EditorInv, EditorTyped, Answered, Replace
<1>3. /\ q \in Requests /\ q.at = "answered" /\ q.answer = c
      /\ q.kind = r.kind /\ q.key = r.key /\ q.body = r.body /\ q.live = r.live
  BY <1>1, <1>2, AnsweredIs
<1>4. EditorTyped'
  BY <1>2, <1>3 DEF EditorInv, EditorTyped, ClientOnly
<1>5. DraftInv'
  <2>1. Mild(q)
    BY <1>3 DEF EditorInv, DraftInv, BodiesApart, Mild
  <2> QED
    BY <1>2, <2>1, DraftQuiet
<1>6. ScreenInv'
  BY ScreenAnswered DEF ClientOnly
<1> QED
  BY <1>4, <1>5, <1>6 DEF EditorInv

\* A write begins.
LEMMA CallOpened ==
  ASSUME EditorInv, NEW r \in calls, r.at = "sent", NEW k \in Keys, Open(r, k),
         r.kind \in {"save", "revert", "chat", "template", "confirm"},
         r.kind \in {"save", "revert"} => k = r.key /\ r.body # None /\ r.body.key = r.key
  PROVE  EditorInv'
<1>1. EditorTyped'
  <2>1. PICK q : q = [r EXCEPT !.at = "open", !.target = k, !.seen = draft[k]]
    OBVIOUS
  <2>2. r \in Requests /\ calls' = (calls \ {r}) \cup {q} /\ draft[k] \in Kept
    BY <2>1 DEF EditorInv, EditorTyped, Open, Replace
  <2>3. q \in Requests
    BY <2>1, <2>2 DEF Requests
  <2> QED
    BY <2>2, <2>3 DEF EditorInv, EditorTyped, Open, ClientOnly
<1>2. DraftInv'
  BY DraftOpen
<1>3. ScreenInv'
  BY ScreenOpen
<1> QED
  BY <1>1, <1>2, <1>3 DEF EditorInv

\* A write ends: types.
LEMMA WrittenTyped ==
  ASSUME EditorInv, NEW r \in calls, NEW c \in Contents, WritePage(r, c)
  PROVE  /\ draft' \in [Keys -> Kept] /\ published' \in [Keys -> Kept]
         /\ versions' \in [Keys -> Seq(Contents)]
         /\ r.target \in Keys /\ draft' = [draft EXCEPT ![r.target] = c]
<1> DEFINE list == SnapshotVersion(r)
<1>1. r \in Requests /\ r.target \in Keys /\ r.seen \in Kept
      /\ versions[r.target] \in Seq(Contents)
  BY DEF EditorInv, EditorTyped, Requests
<1>2. list \in Seq(Contents)
  BY <1>1 DEF SnapshotVersion, Kept
<1>3. Newest(list) \in Seq(Contents)
  BY <1>2, NewestKeeps
<1>4. versions' = [versions EXCEPT ![r.target] = Newest(list)]
      /\ draft' = [draft EXCEPT ![r.target] = c] /\ published' = published
  BY DEF WritePage
<1> HIDE DEF list
<1> QED
  BY <1>1, <1>3, <1>4 DEF EditorInv, EditorTyped, Kept

\* A save or a revert is written.
LEMMA SectionsUpserted ==
  ASSUME EditorInv, NEW r \in calls, UpsertPageSections(r)
  PROVE  EditorInv'
<1>1. PICK q : q = [r EXCEPT !.at = "answered", !.answer = r.body]
  OBVIOUS
<1>2. /\ r \in Requests /\ calls' = (calls \ {r}) \cup {q} /\ r.at = "open"
      /\ r.kind \in {"save", "revert"} /\ WritePage(r, r.body) /\ Answered(r, r.body)
  BY <1>1 DEF EditorInv, EditorTyped, UpsertPageSections, Answered, Replace
<1>3. r.body \in Contents /\ r.body # None /\ r.body.key = r.target /\ r.target = r.key
  BY <1>2 DEF EditorInv, DraftInv, BodiesApart, Requests, Kept
<1>4. r.body \in Kept
  BY <1>3 DEF Kept
<1>5. /\ q \in Requests /\ q.at = "answered" /\ q.answer = r.body
      /\ q.kind = r.kind /\ q.key = r.key /\ q.body = r.body /\ q.live = r.live
  BY <1>1, <1>2, <1>4 DEF Requests
<1>6. /\ draft' \in [Keys -> Kept] /\ published' \in [Keys -> Kept]
      /\ versions' \in [Keys -> Seq(Contents)]
      /\ r.target \in Keys /\ draft' = [draft EXCEPT ![r.target] = r.body]
  BY <1>2, <1>3, WrittenTyped
<1>7. UNCHANGED <<pageKey, page, unsaved, excused, contents>>
  BY DEF UpsertPageSections, ClientOnly
<1>8. EditorTyped'
  BY <1>2, <1>5, <1>6, <1>7 DEF EditorInv, EditorTyped
<1>9. DraftInv'
  <2>1. Mild(q)
    BY <1>3, <1>5 DEF Mild
  <2> QED
    BY <1>2, <1>3, <2>1, DraftWritten
<1>10. ScreenInv'
  <2>1. r.live
    BY <1>2 DEF EditorInv, ScreenInv
  <2>2. r.body = draft'[r.key]
    BY <1>3, <1>6 DEF EditorInv, EditorTyped
  <2> QED
    BY <1>2, <1>4, <1>7, <2>1, <2>2, ScreenAnswered
<1> QED
  BY <1>8, <1>9, <1>10 DEF EditorInv

\* Something new is written, for the AI or a template.
LEMMA NewSectionsUpserted ==
  ASSUME EditorInv, NEW r \in calls, UpsertNewSections(r)
  PROVE  EditorInv'
<1>1. PICK q : q = [r EXCEPT !.at = "sent", !.left = r.left \ {r.target}]
  OBVIOUS
<1>2. PICK c : c = [key |-> r.target, n |-> contents + 1]
  OBVIOUS
<1>3. /\ r \in Requests /\ calls' = (calls \ {r}) \cup {q} /\ r.at = "open"
      /\ r.kind \in {"chat", "template", "confirm"} /\ WritePage(r, c)
      /\ contents' = contents + 1 /\ contents < MaxContents
      /\ UNCHANGED <<pageKey, page, unsaved, excused>>
  BY <1>1, <1>2 DEF EditorInv, EditorTyped, UpsertNewSections, Replace, ClientOnly
<1>4. contents' \in 0..MaxContents /\ c \in Contents /\ c # None /\ c.key = r.target
  <2>1. contents \in 0..MaxContents /\ r.target \in Keys
    BY <1>3 DEF EditorInv, EditorTyped, Requests
  <2>2. contents + 1 \in 0..MaxContents /\ contents + 1 # 0
    BY <1>3, <2>1, PageEditorAssumption
  <2> QED
    BY <1>2, <1>3, <2>1, <2>2 DEF Contents, None
<1>5. /\ q \in Requests /\ q.at = "sent" /\ q.kind = r.kind /\ q.key = r.key
      /\ q.body = r.body /\ q.live = r.live
  BY <1>1, <1>3 DEF Requests
<1>6. /\ draft' \in [Keys -> Kept] /\ published' \in [Keys -> Kept]
      /\ versions' \in [Keys -> Seq(Contents)]
      /\ r.target \in Keys /\ draft' = [draft EXCEPT ![r.target] = c]
  BY <1>3, <1>4, WrittenTyped
<1>7. EditorTyped'
  BY <1>3, <1>4, <1>5, <1>6 DEF EditorInv, EditorTyped
<1>8. DraftInv'
  <2>1. Mild(q)
    BY <1>3, <1>5 DEF Mild
  <2> QED
    BY <1>3, <1>4, <2>1, DraftWritten
<1>9. ScreenInv'
  <2>1. r.live
    BY <1>3 DEF EditorInv, ScreenInv
  <2>2. ASSUME ~excused' PROVE Awaited(q)'
    <3>1. Awaited(r)
      BY <1>3, <2>1, <2>2 DEF EditorInv, ScreenInv
    <3>2. draft'[pageKey] = None => draft[pageKey] = None
      BY <1>4, <1>6 DEF EditorInv, EditorTyped
    <3> QED
      BY <1>3, <1>5, <3>1, <3>2 DEF Awaited
  <2> QED
    BY <1>3, <1>5, <2>1, <2>2, ScreenServer
<1> QED
  BY <1>7, <1>8, <1>9 DEF EditorInv

\* Another page is chosen: loads alone are cancelled, and none is writing.
LEMMA ContextSet ==
  ASSUME EditorInv, NEW k \in Keys, SetContext(k)
  PROVE  EditorInv'
<1>1. PICK q : q = Call("load", k, None)
  OBVIOUS
<1>2. q \in Requests /\ q.kind = "load" /\ q.at = "sent" /\ q.live /\ q.key = k
  BY <1>1, NoneIs, CallIs
<1>3. /\ calls' = {[r EXCEPT !.live = r.kind # "load"] : r \in calls} \cup {q}
      /\ pageKey' = k /\ page' = None /\ unsaved' = FALSE
      /\ excused' = \E r \in calls : r.kind # "load"
      /\ UNCHANGED <<draft, published, versions, saved, pruned, raced, contents>>
  BY <1>1 DEF SetContext, database
<1>4. ASSUME NEW r \in calls, NEW x, x = [r EXCEPT !.live = r.kind # "load"]
      PROVE  /\ x \in Requests /\ x.kind = r.kind /\ x.at = r.at
             /\ x.live <=> r.kind # "load"
             /\ r.kind # "load" => x = r
  <2>1. r \in Requests /\ (r.kind # "load") \in BOOLEAN
    BY DEF EditorInv, EditorTyped
  <2>2. x \in Requests /\ x.kind = r.kind /\ x.at = r.at /\ (x.live <=> r.kind # "load")
    BY <1>4, <2>1 DEF Requests
  <2>3. ASSUME r.kind # "load" PROVE x = r
    <3>1. r.live = TRUE
      BY <2>1, <2>3 DEF EditorInv, ScreenInv, Requests
    <3>2. x = [r EXCEPT !.live = TRUE]
      BY <1>4, <2>3
    <3> QED
      BY <2>1, <3>1, <3>2 DEF Requests
  <2> QED
    BY <2>2, <2>3
<1>5. \A x \in calls' :
        \/ x = q
        \/ \E r \in calls : /\ x \in Requests /\ x.kind = r.kind /\ x.at = r.at
                            /\ x.live <=> r.kind # "load"
                            /\ r.kind # "load" => x = r
  BY <1>3, <1>4
<1>6. EditorTyped'
  <2>1. calls' \in SUBSET Requests
    BY <1>2, <1>5
  <2>2. excused' \in BOOLEAN /\ unsaved' \in BOOLEAN
    BY <1>3
  <2> QED
    BY <1>3, <2>1, <2>2, NoneIs DEF EditorInv, EditorTyped
<1>7. DraftInv'
  <2>1. ASSUME NEW x \in calls', x \notin calls PROVE Mild(x)
    <3>1. x.kind = "load" /\ x.at # "open"
      <4>1. CASE x = q
        BY <1>2, <4>1
      <4>2. CASE x # q
        <5>1. PICK r \in calls : x.kind = r.kind /\ x.at = r.at /\ (r.kind # "load" => x = r)
          BY <1>5, <4>2
        <5>2. r.kind = "load"
          BY <2>1, <5>1
        <5> QED
          BY <5>1, <5>2 DEF EditorInv, DraftInv, BodiesApart
      <4> QED
        BY <4>1, <4>2
    <3> QED
      BY <3>1 DEF Mild
  <2> QED
    BY <1>3, <2>1, DraftQuiet
<1>8. ScreenInv'
  <2>1. \A x \in calls' : x.live \/ x.kind = "load"
    BY <1>2, <1>5
  <2>2. ASSUME ~excused' PROVE \A x \in calls' : x.live => x = q
    BY <1>3, <1>5, <2>2
  <2>3. Awaited(q)'
    BY <1>2, <1>3 DEF Awaited
  <2>4. q \in calls'
    BY <1>3
  <2> QED
    BY <1>2, <1>3, <2>1, <2>2, <2>3, <2>4 DEF ScreenInv
<1> QED
  BY <1>6, <1>7, <1>8 DEF EditorInv

\* The page is edited on the canvas.
LEMMA SectionsReordered ==
  ASSUME EditorInv, HandleSectionsReorder
  PROVE  EditorInv'
<1>1. /\ page # None /\ contents < MaxContents /\ contents' = contents + 1
      /\ page' = [key |-> page.key, n |-> contents + 1] /\ unsaved' = TRUE
      /\ UNCHANGED <<pageKey, calls, draft, published, versions, saved, pruned, raced, excused>>
  BY DEF HandleSectionsReorder, database
<1>2. contents' \in 0..MaxContents /\ page' \in Contents /\ page'.key = page.key
  <2>1. contents \in 0..MaxContents /\ page \in Contents
    BY <1>1 DEF EditorInv, EditorTyped, Kept
  <2>2. contents + 1 \in 0..MaxContents
    BY <1>1, <2>1, PageEditorAssumption
  <2> QED
    BY <1>1, <2>1, <2>2 DEF Contents
<1>3. EditorTyped'
  BY <1>1, <1>2 DEF EditorInv, EditorTyped, Kept
<1>4. DraftInv'
  BY <1>1, DraftQuiet
<1>5. ScreenInv'
  <2>1. \A x \in calls' : x.live \/ x.kind = "load"
    BY <1>1 DEF EditorInv, ScreenInv
  <2>2. ASSUME ~excused' PROVE page'.key = pageKey'
    BY <1>1, <1>2, <2>2 DEF EditorInv, ScreenInv
  <2>3. ASSUME ~excused', NEW x \in calls', x.live
        PROVE  Awaited(x)' /\ \A y \in calls' : y.live => y = x
    <3>1. Awaited(x) /\ \A y \in calls : y.live => y = x
      BY <1>1, <2>3 DEF EditorInv, ScreenInv
    <3> QED
      BY <1>1, <3>1 DEF Awaited
  <2> QED
    BY <1>1, <2>1, <2>2, <2>3 DEF ScreenInv
<1> QED
  BY <1>3, <1>4, <1>5 DEF EditorInv

\* A request ends.
LEMMA CallEnded ==
  ASSUME EditorInv, NEW r \in calls, calls' = calls \ {r},
         UNCHANGED <<pageKey, database, contents>>,
         page' \in Kept, unsaved' \in BOOLEAN, excused' \in BOOLEAN, excused => excused',
         ~excused' => (~r.live => UNCHANGED <<page, unsaved>>),
         ~excused' /\ r.live => (page' = None \/ page'.key = pageKey)
                                /\ (~unsaved' => page' = draft[pageKey])
  PROVE  EditorInv'
<1>1. UNCHANGED <<pageKey, draft, published, versions, saved, pruned, raced, contents>>
  BY DEF database
<1>2. EditorTyped'
  BY <1>1 DEF EditorInv, EditorTyped
<1>3. DraftInv'
  BY <1>1, DraftQuiet
<1>4. ScreenInv'
  BY <1>1, ScreenEnded
<1> QED
  BY <1>2, <1>3, <1>4 DEF EditorInv

\* The answer is on the screen.
LEMMA PageSet ==
  ASSUME EditorInv, NEW r \in calls, SetPage(r)
  PROVE  EditorInv'
<1>1. /\ r.at = "answered" /\ r.kind \in {"load", "save", "publish", "revert", "chat"}
      /\ calls' = calls \ {r} /\ UNCHANGED <<pageKey, database, contents, excused>>
      /\ \/ r.live /\ (r.kind # "chat" \/ r.answer # None) /\ page' = r.answer /\ unsaved' = FALSE
         \/ ~(r.live /\ (r.kind # "chat" \/ r.answer # None)) /\ UNCHANGED <<page, unsaved>>
  BY DEF SetPage, Heard
<1>2. page' \in Kept /\ unsaved' \in BOOLEAN /\ excused' \in BOOLEAN
  <2>1. r.answer \in Kept /\ page \in Kept /\ unsaved \in BOOLEAN /\ excused \in BOOLEAN
    BY DEF EditorInv, EditorTyped, Requests
  <2> QED
    BY <1>1, <2>1
<1>3. ASSUME ~excused', r.live
      PROVE  (page' = None \/ page'.key = pageKey) /\ (~unsaved' => page' = draft[pageKey])
  <2>1. Awaited(r) /\ (page = None \/ page.key = pageKey)
    BY <1>1, <1>3 DEF EditorInv, ScreenInv
  <2>2. r.answer = draft[pageKey]
    BY <1>1, <2>1 DEF Awaited
  <2>3. draft[pageKey] = None \/ draft[pageKey].key = pageKey
    <3>1. draft[pageKey] \in [key : {pageKey}, n : 0..MaxContents] \cup {None}
      BY DEF EditorInv, EditorTyped, DraftInv, PagesStayApart
    <3> QED
      BY <3>1
  <2> QED
    BY <1>1, <1>3, <2>1, <2>3, <2>2 DEF Awaited
<1> QED
  BY <1>1, <1>2, <1>3, CallEnded

\* A template was applied: the page of the click is loaded.
LEMMA TemplateLoads ==
  ASSUME EditorInv, NEW r \in calls, TemplateApplied(r)
  PROVE  EditorInv'
<1>1. PICK q : q = [Call("load", r.key, None) EXCEPT !.left = {r.key}]
  OBVIOUS
<1>2. /\ r \in Requests /\ r.kind = "template" /\ calls' = (calls \ {r}) \cup {q}
      /\ excused' = (excused \/ r.key # pageKey)
      /\ UNCHANGED <<pageKey, page, unsaved, draft, published, versions, saved, pruned, raced,
                     contents>>
  BY <1>1 DEF EditorInv, EditorTyped, TemplateApplied, database
<1>3. q \in Requests /\ q.kind = "load" /\ q.at = "sent" /\ q.live /\ q.key = r.key
  <2>1. PICK k \in Keys : k = r.key
    BY <1>2 DEF Requests
  <2>2. {k} \in SUBSET Keys
    OBVIOUS
  <2>3. PICK p : p = Call("load", k, None)
    OBVIOUS
  <2>4. p \in Requests /\ p.at = "sent" /\ p.live /\ p.kind = "load" /\ p.key = k
    BY <2>3, NoneIs, CallIs
  <2>5. q = [p EXCEPT !.left = {k}]
    BY <1>1, <2>1, <2>3
  <2> QED
    BY <2>1, <2>2, <2>4, <2>5, CallLeft
<1>4. EditorTyped'
  <2>1. excused' \in BOOLEAN
    BY <1>2
  <2> QED
    BY <1>2, <1>3, <2>1 DEF EditorInv, EditorTyped
<1>5. DraftInv'
  <2>1. Mild(q)
    BY <1>3 DEF Mild
  <2> QED
    BY <1>2, <2>1, DraftQuiet
<1>6. ScreenInv'
  <2>1. r.live
    BY <1>2 DEF EditorInv, ScreenInv
  <2>2. ~excused' => Awaited(q)'
    BY <1>2, <1>3 DEF Awaited
  <2> QED
    BY <1>2, <1>3, <2>1, <2>2, ScreenServer
<1> QED
  BY <1>4, <1>5, <1>6 DEF EditorInv

\* Every step keeps the invariant.
LEMMA EditorStep == EditorInv /\ [EditorNext]_editorVars => EditorInv'
<1> SUFFICES ASSUME EditorInv, [EditorNext]_editorVars PROVE EditorInv'
  OBVIOUS
<1>1. CASE UNCHANGED editorVars
  <2>1. UNCHANGED <<pageKey, page, unsaved, calls, draft, published, versions, saved, pruned,
                    raced, contents, excused>>
    BY <1>1 DEF editorVars
  <2>2. EditorTyped'
    BY <2>1 DEF EditorInv, EditorTyped
  <2>3. DraftInv'
    BY <2>1, DraftQuiet
  <2>4. ScreenInv'
    BY <2>1 DEF EditorInv, ScreenInv, Awaited
  <2> QED
    BY <2>2, <2>3, <2>4 DEF EditorInv
<1>2. CASE HandleSectionsReorder
  BY <1>2, SectionsReordered
<1>3. CASE HandleSaveLayout
  <2>1. PICK r : r = Call("save", page.key, page)
    OBVIOUS
  <2>2. SendCall(r) /\ page # None
    BY <1>3, <2>1 DEF HandleSaveLayout, SaveLayout
  <2>3. page \in Kept /\ page.key \in Keys
    BY <2>2 DEF EditorInv, EditorTyped, Kept, Contents
  <2>4. {} \in SUBSET Keys
    OBVIOUS
  <2>5. /\ r \in Requests /\ r.at = "sent" /\ r.live /\ r.key = page.key
        /\ r.body = page
    BY <2>1, <2>3, <2>4, NoneIs DEF Call, Requests
  <2>6. Mild(r) /\ (~excused => r.key = pageKey)
    BY <2>2, <2>5 DEF Mild, EditorInv, ScreenInv
  <2> QED
    BY <2>2, <2>5, <2>6, CallSent
<1>4. CASE HandlePublish \/ HandleSend
  <2>1. PICK kind \in {"publish", "chat"} : SendCall(Call(kind, pageKey, None))
    BY <1>4 DEF HandlePublish, HandleSend
  <2>2. PICK r : r = Call(kind, pageKey, None)
    OBVIOUS
  <2>3. pageKey \in Keys /\ {} \in SUBSET Keys
    BY DEF EditorInv, EditorTyped
  <2>4. /\ r \in Requests /\ r.at = "sent" /\ r.live /\ r.key = pageKey /\ r.kind = kind
    BY <2>2, <2>3, NoneIs, CallIs
  <2> QED
    BY <2>1, <2>2, <2>4, CallSent DEF Mild
<1>5. CASE HandleApplyTemplate
  <2>1. PICK r : r = [Call("template", pageKey, None) EXCEPT !.left = TemplatePages]
    OBVIOUS
  <2>2. SendCall(r)
    BY <1>5, <2>1 DEF HandleApplyTemplate
  <2>3. pageKey \in Keys /\ TemplatePages \in SUBSET Keys
    BY PageEditorAssumption DEF EditorInv, EditorTyped
  <2>4. /\ r \in Requests /\ r.at = "sent" /\ r.live /\ r.key = pageKey
        /\ r.kind = "template"
    <3>1. PICK q : q = Call("template", pageKey, None)
      OBVIOUS
    <3>2. q \in Requests /\ q.at = "sent" /\ q.live /\ q.key = pageKey /\ q.kind = "template"
      BY <2>3, <3>1, NoneIs, CallIs
    <3> QED
      BY <2>1, <2>3, <3>1, <3>2, CallLeft
  <2> QED
    BY <2>2, <2>4, CallSent DEF Mild
<1>6. ASSUME NEW k \in Keys, SetContext(k) PROVE EditorInv'
  BY <1>6, ContextSet
<1>7. ASSUME NEW k \in Keys, HandleConfirmAction(k) PROVE EditorInv'
  <2>1. PICK r : r = [Call("confirm", k, None) EXCEPT !.left = {k}]
    OBVIOUS
  <2>2. SendCall(r)
    BY <1>7, <2>1 DEF HandleConfirmAction
  <2>3. {k} \in SUBSET Keys
    OBVIOUS
  <2>4. PICK q : q = Call("confirm", k, None)
    OBVIOUS
  <2>5. q \in Requests /\ q.at = "sent" /\ q.live /\ q.kind = "confirm"
    BY <2>3, <2>4, NoneIs, CallIs
  <2>6. r \in Requests /\ r.at = "sent" /\ r.live /\ r.kind = "confirm"
    BY <2>1, <2>3, <2>4, <2>5, CallLeft
  <2> QED
    BY <2>2, <2>6, CallSent DEF Mild
<1>8. ASSUME NEW k \in Keys, NEW i \in DOMAIN versions[k], HandleRevert(versions[k][i])
      PROVE  EditorInv'
  <2>1. PICK r : r = Call("revert", pageKey, versions[k][i])
    OBVIOUS
  <2>2. SendCall(r)
    BY <1>8, <2>1 DEF HandleRevert
  <2>3. pageKey \in Keys /\ {} \in SUBSET Keys /\ versions[k][i] \in Kept
    <3>1. versions[k] \in Seq(Contents)
      BY DEF EditorInv, EditorTyped
    <3>2. versions[k][i] \in Contents
      BY <3>1
    <3> QED
      BY <3>2 DEF EditorInv, EditorTyped, Kept
  <2>4. PICK body \in Kept : body = versions[k][i]
    BY <2>3
  <2>5. r = Call("revert", pageKey, body)
    BY <2>1, <2>4
  <2>6. r \in Requests /\ r.at = "sent" /\ r.live /\ r.key = pageKey /\ r.kind = "revert"
    BY <2>3, <2>5, CallIs
  <2> QED
    BY <2>2, <2>6, CallSent DEF Mild
<1>9. ASSUME NEW r \in calls, GetPageSchema(r) \/ PostAiChat(r) PROVE EditorInv'
  <2>1. r.key \in Keys /\ draft[r.key] \in Kept /\ published \in [Keys -> Kept]
    BY DEF EditorInv, EditorTyped, Requests
  <2>2. Answered(r, draft[r.key]) /\ UNCHANGED <<database, contents>> /\ ClientOnly
    BY <1>9 DEF GetPageSchema, PostAiChat
  <2>3. UNCHANGED <<draft, published, versions, saved, pruned, raced, contents>>
    BY <2>2 DEF database
  <2> QED
    BY <2>1, <2>2, <2>3, CallAnswered
<1>10. ASSUME NEW r \in calls, Begin(r) PROVE EditorInv'
  <2>1. r \in Requests /\ r.key \in Keys /\ r.left \subseteq Keys /\ r.body \in Kept
    BY DEF EditorInv, EditorTyped, Requests
  <2>2. r.at = "sent"
    BY <1>10 DEF Begin
  <2>3. CASE r.kind = "save" /\ Open(r, r.key)
    <3>1. r.body # None /\ r.body.key = r.key
      BY <2>3 DEF EditorInv, DraftInv, BodiesApart
    <3> QED
      BY <2>1, <2>2, <2>3, <3>1, CallOpened
  <2>4. CASE r.kind = "revert" /\ VersionIn(versions[r.key], r.body) /\ Open(r, r.key)
    <3>1. r.body # None /\ r.body.key = r.key
      BY <2>1, <2>4 DEF EditorInv, DraftInv, PagesStayApart, RealContents, VersionIn
    <3> QED
      BY <2>1, <2>2, <2>4, <3>1, CallOpened
  <2>5. CASE r.kind = "chat" /\ \E k \in Keys : Open(r, k)
    BY <2>2, <2>5, CallOpened
  <2>6. CASE r.kind \in {"template", "confirm"} /\ \E k \in r.left : Open(r, k)
    BY <2>1, <2>2, <2>6, CallOpened
  <2> QED
    BY <1>10, <2>3, <2>4, <2>5, <2>6 DEF Begin
<1>11. ASSUME NEW r \in calls, UpsertPageSections(r) PROVE EditorInv'
  BY <1>11, SectionsUpserted
<1>12. ASSUME NEW r \in calls, UpsertNewSections(r) PROVE EditorInv'
  BY <1>12, NewSectionsUpserted
<1>13. ASSUME NEW r \in calls, ApplyStorefrontTemplate(r) PROVE EditorInv'
  <2>1. /\ r.kind = "template" /\ Answered(r, None) /\ ClientOnly
        /\ UNCHANGED <<draft, published, versions, saved, pruned, raced, contents>>
    BY <1>13 DEF ApplyStorefrontTemplate, database
  <2>2. published' \in [Keys -> Kept]
    BY <2>1 DEF EditorInv, EditorTyped
  <2> QED
    BY <2>1, <2>2, NoneIs, CallAnswered
<1>14. ASSUME NEW r \in calls, ConfirmPendingAction(r) PROVE EditorInv'
  <2>1. /\ r.kind = "confirm" /\ Answered(r, None) /\ ClientOnly
        /\ published' \in {published, [published EXCEPT ![r.key] = draft[r.key]]}
        /\ UNCHANGED <<draft, versions, saved, pruned, raced, contents>>
    BY <1>14 DEF ConfirmPendingAction
  <2>2. published \in [Keys -> Kept] /\ r.key \in Keys /\ draft[r.key] \in Kept
    BY DEF EditorInv, EditorTyped, Requests
  <2>3. /\ published' \in [Keys -> Kept]
        /\ \A k \in Keys : published'[k] \in {published[k], draft[k]}
    BY <2>1, <2>2
  <2> QED
    BY <2>1, <2>3, NoneIs, CallAnswered
<1>15. ASSUME NEW r \in calls, PublishPage(r) PROVE EditorInv'
  <2>1. /\ r.kind = "publish" /\ Answered(r, draft[r.key]) /\ ClientOnly
        /\ published' = [published EXCEPT ![r.key] = draft[r.key]]
        /\ UNCHANGED <<draft, versions, saved, pruned, raced, contents>>
    BY <1>15 DEF PublishPage
  <2>2. published \in [Keys -> Kept] /\ r.key \in Keys /\ draft[r.key] \in Kept
    BY DEF EditorInv, EditorTyped, Requests
  <2>3. /\ published' \in [Keys -> Kept]
        /\ \A k \in Keys : published'[k] \in {published[k], draft[k]}
    BY <2>1, <2>2
  <2> QED
    BY <2>1, <2>2, <2>3, CallAnswered
<1>16. ASSUME NEW r \in calls, Refused(r) PROVE EditorInv'
  <2>1. /\ r.at = "sent" /\ r.kind \in {"revert", "publish"} /\ calls' = calls \ {r}
        /\ UNCHANGED <<pageKey, page, unsaved, database, contents, excused>>
    BY <1>16 DEF Refused
  <2>2. page' \in Kept /\ unsaved' \in BOOLEAN /\ excused' \in BOOLEAN
    BY <2>1 DEF EditorInv, EditorTyped
  <2>3. ASSUME ~excused', r.live
        PROVE  (page' = None \/ page'.key = pageKey) /\ (~unsaved' => page' = draft[pageKey])
    BY <2>1, <2>3 DEF EditorInv, ScreenInv, Awaited
  <2> QED
    BY <2>1, <2>2, <2>3, CallEnded
<1>17. ASSUME NEW r \in calls, SetPage(r) PROVE EditorInv'
  BY <1>17, PageSet
<1>18. ASSUME NEW r \in calls, TemplateApplied(r) PROVE EditorInv'
  BY <1>18, TemplateLoads
<1>19. ASSUME NEW r \in calls, ActionConfirmed(r) \/ CallFails(r) PROVE EditorInv'
  <2>1. /\ calls' = calls \ {r} /\ excused' = TRUE
        /\ UNCHANGED <<pageKey, page, unsaved, database, contents>>
    BY <1>19 DEF ActionConfirmed, CallFails
  <2>2. page' \in Kept /\ unsaved' \in BOOLEAN /\ excused' \in BOOLEAN
    BY <2>1 DEF EditorInv, EditorTyped
  <2> QED
    BY <2>1, <2>2, CallEnded
<1> QED
  BY <1>1, <1>2, <1>3, <1>4, <1>5, <1>6, <1>7, <1>8, <1>9, <1>10, <1>11, <1>12, <1>13, <1>14,
     <1>15, <1>16, <1>17, <1>18, <1>19 DEF EditorNext, AiLayoutPage

\* The pages of a store stay apart, and what was once a draft can be brought back,
\* whichever page is chosen while a save, a revert or an answer is on its way; only
\* two writes of the same page at the same time lose one
\* (useAiLayout.ts:98-110, store_page_service.py:330-358, 387-425, 574-607).
THEOREM DraftsKept == EditorSpec => []DraftsAreSafe
<1>1. EditorInv => DraftsAreSafe
  BY DEF EditorInv, DraftInv, DraftsAreSafe
<1> QED
  BY <1>1, EditorInit0, EditorStep, PTL DEF EditorSpec

\* When everything is answered the screen shows the draft of the page that is
\* chosen, if every request was answered before the next and none failed
\* (ai-layout/page.tsx:66-94).
THEOREM ScreenTells == EditorSpec => []ScreenIsDraft
<1>1. EditorInv => ScreenIsDraft
  BY DEF EditorInv, ScreenInv, ScreenIsDraft
<1> QED
  BY <1>1, EditorInit0, EditorStep, PTL DEF EditorSpec

-------------------------------------------------------------------------------
(***************************************************************************)
(* The canvas (PageSections).  Its page is a tree, kept flat: Within, the  *)
(* set of the sections found from the top, is the last of as many levels   *)
(* as there are ids, and so the least set that is closed under what the    *)
(* lists hold; Forest says which lists make a tree, and each action is     *)
(* shown to keep that.                                                     *)
(*                                                                         *)
(* First: lists without repetition.                                        *)
(***************************************************************************)
\* No element of a list is in it twice.
Once(s) == \A i, j \in DOMAIN s : s[i] = s[j] => i = j

\* What is in a list.
LEMMA SetOf ==
  ASSUME NEW S, NEW s \in Seq(S)
  PROVE  /\ DOMAIN s = 1..Len(s) /\ Len(s) \in Nat /\ ToSet(s) \subseteq S
         /\ \A x : x \in ToSet(s) <=> \E i \in 1..Len(s) : s[i] = x
         /\ s # <<>> <=> Len(s) # 0
         /\ s = <<>> => ToSet(s) = {}
         /\ s # <<>> => ToSet(s) # {}
<1>1. DOMAIN s = 1..Len(s) /\ Len(s) \in Nat /\ \A i \in 1..Len(s) : s[i] \in S
  OBVIOUS
<1>2. \A x : x \in ToSet(s) <=> \E i \in 1..Len(s) : s[i] = x
  BY <1>1 DEF ToSet
<1>3. s # <<>> <=> Len(s) # 0
  OBVIOUS
<1>4. s = <<>> => ToSet(s) = {}
  BY <1>2, <1>3
<1>5. s # <<>> => 1 \in 1..Len(s)
  BY <1>1, <1>3
<1>6. s # <<>> => ToSet(s) # {}
  BY <1>2, <1>5
<1> QED
  BY <1>1, <1>2, <1>3, <1>4, <1>6

\* Lists of one element, of none.
LEMMA OneOf ==
  ASSUME NEW S, NEW x \in S
  PROVE  <<x>> \in Seq(S) /\ ToSet(<<x>>) = {x} /\ Once(<<x>>) /\ <<x>> # <<>>
<1>1. <<x>> \in Seq(S) /\ DOMAIN <<x>> = {1} /\ <<x>>[1] = x /\ <<x>> # <<>>
  OBVIOUS
<1> DEFINE t == <<x>>
<1> HIDE DEF t
<1>2. DOMAIN t = {1} /\ t[1] = x
  BY <1>1 DEF t
<1>3. ToSet(t) = {x} /\ Once(t)
  BY <1>2 DEF ToSet, Once
<1> QED
  BY <1>1, <1>3 DEF t

LEMMA NoneOf == ASSUME NEW S PROVE <<>> \in Seq(S) /\ ToSet(<<>>) = {} /\ Once(<<>>)
  BY DEF ToSet, Once

\* Two lists that have nothing in common, one after the other.
LEMMA Joined ==
  ASSUME NEW S, NEW s \in Seq(S), NEW t \in Seq(S)
  PROVE  /\ s \o t \in Seq(S) /\ ToSet(s \o t) = ToSet(s) \cup ToSet(t)
         /\ Once(s) /\ Once(t) /\ ToSet(s) \cap ToSet(t) = {} => Once(s \o t)
<1>1. /\ s \o t \in Seq(S) /\ Len(s \o t) = Len(s) + Len(t)
      /\ \A j \in 1..Len(s) + Len(t) :
           (s \o t)[j] = IF j <= Len(s) THEN s[j] ELSE t[j - Len(s)]
  BY ConcatProperties
<1>2. PICK u \in Seq(S) : u = s \o t
  BY <1>1
<1>3. PICK n \in Nat : n = Len(s)
  OBVIOUS
<1>4. PICK m \in Nat : m = Len(t)
  OBVIOUS
<1>5. /\ DOMAIN u = 1..n + m /\ DOMAIN s = 1..n /\ DOMAIN t = 1..m
      /\ \A j \in 1..n + m : u[j] = IF j <= n THEN s[j] ELSE t[j - n]
  BY <1>1, <1>2, <1>3, <1>4
<1>6. /\ \A j \in 1..n : j \in 1..n + m /\ u[j] = s[j]
      /\ \A j \in 1..m : n + j \in 1..n + m /\ u[n + j] = t[j]
  <2>1. ASSUME NEW j \in 1..n PROVE j \in 1..n + m /\ u[j] = s[j]
    BY <1>5
  <2>2. ASSUME NEW j \in 1..m PROVE n + j \in 1..n + m /\ u[n + j] = t[j]
    <3>1. n + j \in 1..n + m /\ ~(n + j <= n) /\ n + j - n = j
      OBVIOUS
    <3> QED
      BY <1>5, <3>1
  <2> QED
    BY <2>1, <2>2
<1>7. \A j \in 1..n + m : \/ j \in 1..n /\ u[j] = s[j]
                          \/ j - n \in 1..m /\ u[j] = t[j - n]
  BY <1>5
<1>8. ToSet(u) = ToSet(s) \cup ToSet(t)
  <2>1. \A x : /\ x \in ToSet(u) <=> \E j \in 1..n + m : u[j] = x
               /\ x \in ToSet(s) <=> \E j \in 1..n : s[j] = x
               /\ x \in ToSet(t) <=> \E j \in 1..m : t[j] = x
    BY <1>5 DEF ToSet
  <2>2. ASSUME NEW x \in ToSet(u) PROVE x \in ToSet(s) \cup ToSet(t)
    <3>1. PICK j \in 1..n + m : u[j] = x
      BY <2>1, <2>2
    <3>2. CASE j \in 1..n /\ u[j] = s[j]
      BY <2>1, <3>1, <3>2
    <3>3. CASE j - n \in 1..m /\ u[j] = t[j - n]
      BY <2>1, <3>1, <3>3
    <3> QED
      BY <1>7, <3>2, <3>3
  <2>3. ASSUME NEW x \in ToSet(s) PROVE x \in ToSet(u)
    <3>1. PICK j \in 1..n : s[j] = x
      BY <2>1, <2>3
    <3> QED
      BY <1>6, <2>1, <3>1
  <2>4. ASSUME NEW x \in ToSet(t) PROVE x \in ToSet(u)
    <3>1. PICK j \in 1..m : t[j] = x
      BY <2>1, <2>4
    <3>2. n + j \in 1..n + m /\ u[n + j] = x
      BY <1>6, <3>1
    <3> QED
      BY <2>1, <3>2
  <2> QED
    BY <2>2, <2>3, <2>4
<1>9. ASSUME Once(s), Once(t), ToSet(s) \cap ToSet(t) = {} PROVE Once(u)
  <2> SUFFICES ASSUME NEW i \in 1..n + m, NEW j \in 1..n + m, u[i] = u[j] PROVE i = j
    BY <1>5 DEF Once
  <2>1. \A k \in 1..n, l \in 1..m : s[k] # t[l]
    BY <1>5, <1>9 DEF ToSet
  <2>2. CASE i \in 1..n /\ u[i] = s[i]
    <3>1. j \in 1..n /\ u[j] = s[j]
      BY <1>7, <2>1, <2>2
    <3> QED
      BY <1>5, <1>9, <2>2, <3>1 DEF Once
  <2>3. CASE i - n \in 1..m /\ u[i] = t[i - n]
    <3>1. j - n \in 1..m /\ u[j] = t[j - n]
      BY <1>7, <2>1, <2>3
    <3>2. i - n = j - n
      BY <1>5, <1>9, <2>3, <3>1 DEF Once
    <3> QED
      BY <3>2
  <2> QED
    BY <1>7, <2>2, <2>3
<1> QED
  BY <1>2, <1>8, <1>9

\* A list, cut before j and from j on.
LEMMA CutAt ==
  ASSUME NEW S, NEW s \in Seq(S), NEW j \in 1..Len(s) + 1
  PROVE  /\ SubSeq(s, 1, j - 1) \in Seq(S) /\ SubSeq(s, j, Len(s)) \in Seq(S)
         /\ ToSet(s) = ToSet(SubSeq(s, 1, j - 1)) \cup ToSet(SubSeq(s, j, Len(s)))
         /\ Once(s) => /\ Once(SubSeq(s, 1, j - 1)) /\ Once(SubSeq(s, j, Len(s)))
                       /\ ToSet(SubSeq(s, 1, j - 1)) \cap ToSet(SubSeq(s, j, Len(s))) = {}
<1>1. PICK n \in Nat : n = Len(s) /\ DOMAIN s = 1..n /\ j \in 1..n + 1
  OBVIOUS
<1>2. /\ SubSeq(s, 1, j - 1) \in Seq(S) /\ DOMAIN SubSeq(s, 1, j - 1) = 1..j - 1
      /\ \A i \in 1..j - 1 : SubSeq(s, 1, j - 1)[i] = s[i]
  BY <1>1
<1>3. /\ SubSeq(s, j, n) \in Seq(S) /\ DOMAIN SubSeq(s, j, n) = 1..n + 1 - j
      /\ \A i \in 1..n + 1 - j : SubSeq(s, j, n)[i] = s[i + j - 1]
  BY <1>1
<1> DEFINE a == SubSeq(s, 1, j - 1)
           b == SubSeq(s, j, n)
<1>4. /\ DOMAIN a = 1..j - 1 /\ \A i \in 1..j - 1 : a[i] = s[i] /\ i \in 1..n
      /\ DOMAIN b = 1..n + 1 - j
      /\ \A i \in 1..n + 1 - j : b[i] = s[i + j - 1] /\ i + j - 1 \in 1..n
  BY <1>1, <1>2, <1>3
<1>5. \A i \in 1..n : \/ i \in 1..j - 1 /\ a[i] = s[i]
                      \/ i + 1 - j \in 1..n + 1 - j /\ b[i + 1 - j] = s[i]
  <2> SUFFICES ASSUME NEW i \in 1..n
               PROVE  \/ i \in 1..j - 1 /\ a[i] = s[i]
                      \/ i + 1 - j \in 1..n + 1 - j /\ b[i + 1 - j] = s[i]
    OBVIOUS
  <2> HIDE DEF a, b
  <2>1. CASE i < j
    BY <1>4, <2>1
  <2>2. CASE ~(i < j)
    <3>1. i + 1 - j \in 1..n + 1 - j /\ (i + 1 - j) + j - 1 = i
      BY <1>1, <2>2
    <3> QED
      BY <1>4, <3>1
  <2> QED
    BY <2>1, <2>2
<1> HIDE DEF a, b
<1>6. ToSet(s) = ToSet(a) \cup ToSet(b)
  <2>1. \A x : /\ x \in ToSet(s) <=> \E i \in 1..n : s[i] = x
               /\ x \in ToSet(a) <=> \E i \in 1..j - 1 : a[i] = x
               /\ x \in ToSet(b) <=> \E i \in 1..n + 1 - j : b[i] = x
    BY <1>1, <1>4 DEF ToSet
  <2>2. ASSUME NEW x \in ToSet(s) PROVE x \in ToSet(a) \cup ToSet(b)
    <3>1. PICK i \in 1..n : s[i] = x
      BY <2>1, <2>2
    <3>2. CASE i \in 1..j - 1 /\ a[i] = s[i]
      BY <2>1, <3>1, <3>2
    <3>3. CASE i + 1 - j \in 1..n + 1 - j /\ b[i + 1 - j] = s[i]
      BY <2>1, <3>1, <3>3
    <3> QED
      BY <1>5, <3>2, <3>3
  <2>3. ASSUME NEW x \in ToSet(a) PROVE x \in ToSet(s)
    <3>1. PICK i \in 1..j - 1 : a[i] = x
      BY <2>1, <2>3
    <3>2. i \in 1..n /\ s[i] = x
      BY <1>1, <1>4, <3>1
    <3> QED
      BY <2>1, <3>2
  <2>4. ASSUME NEW x \in ToSet(b) PROVE x \in ToSet(s)
    <3>1. PICK i \in 1..n + 1 - j : b[i] = x
      BY <2>1, <2>4
    <3>2. i + j - 1 \in 1..n /\ s[i + j - 1] = x
      BY <1>1, <1>4, <3>1
    <3> QED
      BY <2>1, <3>2
  <2> QED
    BY <2>2, <2>3, <2>4
<1>7. ASSUME Once(s) PROVE Once(a) /\ Once(b) /\ ToSet(a) \cap ToSet(b) = {}
  <2>1. \A k, l \in 1..n : s[k] = s[l] => k = l
    BY <1>1, <1>7 DEF Once
  <2>2. Once(a)
    BY <1>4, <2>1 DEF Once
  <2>3. Once(b)
    <3> SUFFICES ASSUME NEW k \in 1..n + 1 - j, NEW l \in 1..n + 1 - j, b[k] = b[l]
                 PROVE  k = l
      BY <1>4 DEF Once
    <3>1. k + j - 1 = l + j - 1
      BY <1>4, <2>1
    <3> QED
      BY <3>1, <1>1
  <2>4. ASSUME NEW k \in 1..j - 1, NEW l \in 1..n + 1 - j PROVE a[k] # b[l]
    <3>1. k # l + j - 1
      BY <1>1
    <3> QED
      BY <1>4, <2>1, <3>1
  <2>5. ToSet(a) \cap ToSet(b) = {}
    BY <1>4, <2>4 DEF ToSet
  <2> QED
    BY <2>2, <2>3, <2>5
<1> QED
  BY <1>1, <1>2, <1>3, <1>6, <1>7 DEF a, b

\* What is left of a list when the element at i is cut out.
LEMMA CutOut ==
  ASSUME NEW S, NEW s \in Seq(S), NEW i \in 1..Len(s), Once(s)
  PROVE  LET a == SubSeq(s, 1, i - 1)  b == SubSeq(s, i + 1, Len(s)) IN
         /\ a \in Seq(S) /\ b \in Seq(S) /\ Once(a) /\ Once(b)
         /\ ToSet(a) \cap ToSet(b) = {} /\ s[i] \in ToSet(s)
         /\ ToSet(a) \cup ToSet(b) = ToSet(s) \ {s[i]}
<1>1. PICK n \in Nat : n = Len(s) /\ DOMAIN s = 1..n /\ i \in 1..n /\ i + 1 \in 1..n + 1
  OBVIOUS
<1> DEFINE a == SubSeq(s, 1, i - 1)
           b == SubSeq(s, i + 1, Len(s))
           c == SubSeq(s, i, Len(s))
           d == SubSeq(s, 1, (i + 1) - 1)
<1>2. /\ a \in Seq(S) /\ Once(a)
      /\ ToSet(s) = ToSet(a) \cup ToSet(c) /\ ToSet(a) \cap ToSet(c) = {}
  <2>1. i \in 1..Len(s) + 1
    OBVIOUS
  <2> QED
    BY <2>1, CutAt
<1>3. /\ b \in Seq(S) /\ Once(b)
      /\ ToSet(s) = ToSet(d) \cup ToSet(b) /\ ToSet(d) \cap ToSet(b) = {}
  <2>1. i + 1 \in 1..Len(s) + 1
    OBVIOUS
  <2> QED
    BY <2>1, CutAt
<1>4. /\ DOMAIN a = 1..i - 1 /\ \A k \in 1..i - 1 : a[k] = s[k]
      /\ DOMAIN d = 1..i /\ \A k \in 1..i : d[k] = s[k]
      /\ DOMAIN c = 1..n + 1 - i /\ \A k \in 1..n + 1 - i : c[k] = s[k + i - 1]
  BY <1>1
<1> HIDE DEF a, b, c, d
<1>5. s[i] \in ToSet(c)
  <2>1. 1 \in 1..n + 1 - i /\ 1 + i - 1 = i
    BY <1>1
  <2>2. c[1] = s[i]
    BY <1>4, <2>1
  <2> QED
    BY <1>4, <2>1, <2>2 DEF ToSet
<1>6. ToSet(d) = ToSet(a) \cup {s[i]}
  <2>1. \A k : k \in 1..i <=> k \in 1..i - 1 \/ k = i
    BY <1>1
  <2>2. \A x : /\ x \in ToSet(a) <=> \E k \in 1..i - 1 : s[k] = x
               /\ x \in ToSet(d) <=> \E k \in 1..i : s[k] = x
    BY <1>4 DEF ToSet
  <2> QED
    BY <2>1, <2>2
<1>7. /\ a \in Seq(S) /\ b \in Seq(S) /\ Once(a) /\ Once(b)
      /\ ToSet(a) \cap ToSet(b) = {} /\ s[i] \in ToSet(s)
      /\ ToSet(a) \cup ToSet(b) = ToSet(s) \ {s[i]}
  BY <1>2, <1>3, <1>5, <1>6
<1> QED
  BY <1>7 DEF a, b

\* A piece of a list is replaced by another list: a and b are what was around it.
Around(a, t, b) == a \o t \o b

LEMMA AroundIs ==
  ASSUME NEW S, NEW a \in Seq(S), NEW b \in Seq(S), NEW t \in Seq(S),
         Once(a), Once(b), Once(t), ToSet(a) \cap ToSet(b) = {},
         ToSet(t) \cap (ToSet(a) \cup ToSet(b)) = {}
  PROVE  /\ Around(a, t, b) \in Seq(S) /\ Once(Around(a, t, b))
         /\ ToSet(Around(a, t, b)) = ToSet(a) \cup ToSet(b) \cup ToSet(t)
<1>1. PICK u : u = a \o t
  OBVIOUS
<1>2. u \in Seq(S) /\ Once(u) /\ ToSet(u) = ToSet(a) \cup ToSet(t)
  BY <1>1, Joined
<1>3. ToSet(u) \cap ToSet(b) = {}
  BY <1>2
<1>4. u \o b \in Seq(S) /\ Once(u \o b) /\ ToSet(u \o b) = ToSet(u) \cup ToSet(b)
  BY <1>2, <1>3, Joined
<1> QED
  BY <1>1, <1>2, <1>4 DEF Around

\* arrayMove keeps what is in the list, once.
LEMMA ArrayMove ==
  ASSUME NEW S, NEW s \in Seq(S), Once(s), NEW i \in DOMAIN s, NEW j \in DOMAIN s, NEW q,
         q = InsertAt(RemoveAt(s, i), j, s[i])
  PROVE  q \in Seq(S) /\ Once(q) /\ ToSet(q) = ToSet(s)
<1>1. /\ i \in 1..Len(s) /\ j \in 1..Len(s) /\ s[i] \in S
  OBVIOUS
<1>2. PICK r : r = RemoveAt(s, i)
  OBVIOUS
<1>3. r \in Seq(S) /\ Len(r) = Len(s) - 1 /\ j \in 1..Len(r) + 1
  <2>1. r \in Seq(S) /\ Len(r) = Len(s) - 1
    BY <1>1, <1>2, RemoveAtIs
  <2> QED
    BY <1>1, <2>1
<1>4. Once(r) /\ ToSet(r) = ToSet(s) \ {s[i]} /\ s[i] \in ToSet(s)
  <2> DEFINE a == SubSeq(s, 1, i - 1)
             b == SubSeq(s, i + 1, Len(s))
  <2>1. /\ a \in Seq(S) /\ b \in Seq(S) /\ Once(a) /\ Once(b)
        /\ ToSet(a) \cap ToSet(b) = {} /\ s[i] \in ToSet(s)
        /\ ToSet(a) \cup ToSet(b) = ToSet(s) \ {s[i]}
    BY <1>1, CutOut
  <2>2. r = a \o b
    BY <1>2 DEF RemoveAt
  <2> HIDE DEF a, b
  <2> QED
    BY <2>1, <2>2, Joined
<1>5. PICK x \in S : x = s[i]
  BY <1>1
<1> DEFINE a == SubSeq(r, 1, j - 1)
           b == SubSeq(r, j, Len(r))
<1>6. /\ a \in Seq(S) /\ b \in Seq(S) /\ Once(a) /\ Once(b)
      /\ ToSet(a) \cap ToSet(b) = {} /\ ToSet(r) = ToSet(a) \cup ToSet(b)
  BY <1>3, <1>4, CutAt
<1>7. PICK e : e = <<x>>
  OBVIOUS
<1>8. e \in Seq(S) /\ ToSet(e) = {x} /\ Once(e)
  BY <1>7, OneOf
<1>9. q = Around(a, e, b)
  BY <1>2, <1>5, <1>7 DEF InsertAt, Around
<1> HIDE DEF a, b
<1>10. ToSet(e) \cap (ToSet(a) \cup ToSet(b)) = {}
  BY <1>4, <1>5, <1>6, <1>8
<1>11. q \in Seq(S) /\ Once(q) /\ ToSet(q) = ToSet(a) \cup ToSet(b) \cup ToSet(e)
  BY <1>6, <1>8, <1>9, <1>10, AroundIs
<1> QED
  BY <1>4, <1>5, <1>6, <1>8, <1>11

\* What is around two neighbours.
LEMMA CutTwo ==
  ASSUME NEW S, NEW s \in Seq(S), NEW i \in DOMAIN s, i < Len(s), Once(s)
  PROVE  LET a == SubSeq(s, 1, i - 1)  b == SubSeq(s, i + 2, Len(s)) IN
         /\ a \in Seq(S) /\ b \in Seq(S) /\ Once(a) /\ Once(b)
         /\ ToSet(a) \cap ToSet(b) = {} /\ s[i] # s[i + 1]
         /\ s[i] \in S /\ s[i + 1] \in S
         /\ s[i] \notin ToSet(a) \cup ToSet(b) /\ s[i + 1] \notin ToSet(a) \cup ToSet(b)
         /\ ToSet(s) = (ToSet(a) \cup ToSet(b)) \cup {s[i], s[i + 1]}
<1>1. PICK n \in Nat : /\ n = Len(s) /\ DOMAIN s = 1..n /\ i \in 1..n /\ i + 1 \in 1..n
                       /\ i \in 1..n + 1 /\ i + 2 \in 1..n + 1
  OBVIOUS
<1> DEFINE a == SubSeq(s, 1, i - 1)
           b == SubSeq(s, i + 2, Len(s))
           c == SubSeq(s, 1, (i + 2) - 1)
<1>2. a \in Seq(S) /\ Once(a)
  BY <1>1, CutAt
<1>3. /\ b \in Seq(S) /\ Once(b)
      /\ ToSet(s) = ToSet(c) \cup ToSet(b) /\ ToSet(c) \cap ToSet(b) = {}
  BY <1>1, CutAt
<1>4. /\ DOMAIN a = 1..i - 1 /\ \A k \in 1..i - 1 : a[k] = s[k]
      /\ DOMAIN c = 1..i + 1 /\ \A k \in 1..i + 1 : c[k] = s[k]
  BY <1>1
<1>5. s[i] \in S /\ s[i + 1] \in S
  BY <1>1
<1> HIDE DEF a, b, c
<1>6. \A k \in 1..n : \A l \in 1..n : s[k] = s[l] => k = l
  BY <1>1 DEF Once
<1>7. s[i] # s[i + 1] /\ \A k \in 1..i - 1 : s[k] # s[i] /\ s[k] # s[i + 1]
  <2>1. i # i + 1
    BY <1>1
  <2>2. \A k \in 1..i - 1 : k \in 1..n /\ k # i /\ k # i + 1
    BY <1>1
  <2> QED
    BY <1>1, <1>6, <2>1, <2>2
<1>8. ToSet(c) = ToSet(a) \cup {s[i], s[i + 1]}
  <2>1. \A k : k \in 1..i + 1 <=> k \in 1..i - 1 \/ k = i \/ k = i + 1
    BY <1>1
  <2>2. \A x : /\ x \in ToSet(a) <=> \E k \in 1..i - 1 : s[k] = x
               /\ x \in ToSet(c) <=> \E k \in 1..i + 1 : s[k] = x
    BY <1>4 DEF ToSet
  <2> QED
    BY <2>1, <2>2
<1>9. s[i] \notin ToSet(a) /\ s[i + 1] \notin ToSet(a)
  BY <1>4, <1>7 DEF ToSet
<1>10. /\ a \in Seq(S) /\ b \in Seq(S) /\ Once(a) /\ Once(b)
       /\ ToSet(a) \cap ToSet(b) = {} /\ s[i] # s[i + 1]
       /\ s[i] \in S /\ s[i + 1] \in S
       /\ s[i] \notin ToSet(a) \cup ToSet(b) /\ s[i + 1] \notin ToSet(a) \cup ToSet(b)
       /\ ToSet(s) = (ToSet(a) \cup ToSet(b)) \cup {s[i], s[i + 1]}
  BY <1>2, <1>3, <1>5, <1>7, <1>8, <1>9
<1> QED
  BY <1>10 DEF a, b

\* A list of sections without repetition is not longer than there are sections.
LEMMA NotLonger ==
  ASSUME NEW s \in Seq(Sections), Once(s)
  PROVE  DOMAIN s \subseteq Sections
<1>1. MaxSections \in Nat /\ Len(s) \in Nat /\ DOMAIN s = 1..Len(s) /\ s \in [1..Len(s) -> Sections]
  BY PageSectionsAssumption DEF PageSectionsAssumption
<1>2. /\ IsFiniteSet(1..Len(s)) /\ Cardinality(1..Len(s)) = Len(s)
      /\ IsFiniteSet(Sections) /\ Cardinality(Sections) = MaxSections
  <2>1. ASSUME NEW n \in Nat PROVE IsFiniteSet(1..n) /\ Cardinality(1..n) = n
    BY FS_Interval
  <2> QED
    BY <1>1, <2>1 DEF Sections
<1>3. ASSUME MaxSections < Len(s) PROVE FALSE
  <2>1. \E i, j \in 1..Len(s) : i # j /\ s[i] = s[j]
    BY <1>1, <1>2, <1>3, FS_PigeonHole
  <2> QED
    BY <1>1, <2>1 DEF Once
<1> QED
  BY <1>1, <1>3 DEF Sections

-------------------------------------------------------------------------------
(***************************************************************************)
(* What is found from the top.  WithinIs is by induction on the levels,    *)
(* which is a fact about a set of numbers (UpTo).                          *)
(***************************************************************************)
\* A set of numbers has a least one.
LEMMA LeastSet ==
  ASSUME NEW S, IsFiniteSet(S), NEW B \in SUBSET SUBSET S, B # {}
  PROVE  \E T \in B : \A U \in B : U \subseteq T => U = T
<1>1. IsWellFoundedOn(StrictSubsetOrdering(S), SUBSET S)
  BY FS_StrictSubsetOrderingWellFounded, FS_FiniteSubsetsOfFinite
<1>2. PICK T \in B : \A U \in B : ~(<<U, T>> \in StrictSubsetOrdering(S))
  BY <1>1, WFMin
<1> QED
  BY <1>2 DEF StrictSubsetOrdering

\* Induction up to m, as a fact about sets.
LEMMA UpTo ==
  ASSUME NEW m \in Nat, NEW G, 0 \in G, \A n \in 0..m : n \in G /\ n < m => n + 1 \in G
  PROVE  \A n \in 0..m : n \in G
<1>1. PICK W : W = 0..m
  OBVIOUS
<1> DEFINE B == {0..n : n \in {k \in 0..m : k \notin G}}
<1>2. ASSUME B # {} PROVE FALSE
  <2>1. PICK T \in B : \A U \in B : U \subseteq T => U = T
    <3>1. \A n \in 0..m : 0..n \subseteq 0..m
      OBVIOUS
    <3>2. \A T \in B : T \subseteq W
      BY <1>1, <3>1
    <3>3. IsFiniteSet(0..m)
      BY FS_Interval
    <3> HIDE DEF B
    <3>4. B \in SUBSET SUBSET W /\ IsFiniteSet(W)
      BY <1>1, <3>2, <3>3
    <3> QED
      BY <1>2, <3>4, LeastSet
  <2>2. PICK n \in 0..m : n \notin G /\ T = 0..n
    BY <2>1
  <2>3. n \in Nat /\ n # 0
    BY <2>2
  <2>4. n - 1 \in 0..m /\ n - 1 < m /\ (n - 1) + 1 = n /\ 0..(n - 1) # 0..n /\ 0..(n - 1) \subseteq 0..n
    <3>1. n \in 0..n /\ n \notin 0..(n - 1)
      BY <2>3
    <3> QED
      BY <2>3, <3>1
  <2>5. n - 1 \notin G
    BY <2>2, <2>4
  <2>6. 0..(n - 1) \in B
    BY <2>4, <2>5
  <2> QED
    BY <2>1, <2>2, <2>4, <2>6
<1> QED
  BY <1>2

\* One level further down the tree.
Onward(p, S) == S \cup UNION {ToSet(At(p, n)) : n \in {m \in ListNames : m[1] \in S}}
Levels(p, r, k) ==
  r = [n \in 0..k |-> IF n = 0 THEN ToSet(At(p, Top)) ELSE Onward(p, r[n - 1])]

\* Within is defined by a recursive function, which exists.
LEMMA LevelsExist == ASSUME NEW p PROVE \E r : Levels(p, r, MaxSections)
<1> DEFINE G == {k \in Nat : \E r : Levels(p, r, k)}
<1>1. 0 \in G
  <2> DEFINE r == [n \in 0..0 |-> ToSet(At(p, Top))]
  <2>1. Levels(p, r, 0)
    BY DEF Levels
  <2> QED
    BY <2>1
<1>2. ASSUME NEW k \in 0..MaxSections, k \in G PROVE k + 1 \in G
  <2>1. PICK r : Levels(p, r, k)
    BY <1>2
  <2>2. DOMAIN r = 0..k /\ \A n \in 0..k : r[n] = IF n = 0 THEN ToSet(At(p, Top))
                                                 ELSE Onward(p, r[n - 1])
    BY <2>1 DEF Levels
  <2> DEFINE q == [n \in 0..k + 1 |-> IF n = k + 1 THEN Onward(p, r[k]) ELSE r[n]]
  <2>3. ASSUME NEW n \in 0..k + 1
        PROVE  q[n] = IF n = 0 THEN ToSet(At(p, Top)) ELSE Onward(p, q[n - 1])
    <3>1. CASE n = k + 1
      <4>1. n # 0 /\ n - 1 = k /\ k \in 0..k + 1 /\ k # k + 1
        BY <3>1
      <4>2. q[k] = r[k]
        BY <4>1
      <4> QED
        BY <3>1, <4>1, <4>2
    <3>2. CASE n # k + 1
      <4>1. n \in 0..k /\ q[n] = r[n]
        BY <3>2
      <4>2. CASE n = 0
        BY <2>2, <4>1, <4>2
      <4>3. CASE n # 0
        <5>1. n - 1 \in 0..k + 1 /\ n - 1 # k + 1
          BY <4>1, <4>3
        <5>2. q[n - 1] = r[n - 1]
          BY <5>1
        <5> HIDE DEF q
        <5> QED
          BY <2>2, <4>1, <4>3, <5>2
      <4> QED
        BY <4>2, <4>3
    <3> QED
      BY <3>1, <3>2
  <2>4. Levels(p, q, k + 1)
    <3>1. q = [n \in 0..k + 1 |-> q[n]]
      OBVIOUS
    <3> HIDE DEF q
    <3> QED
      BY <2>3, <3>1 DEF Levels
  <2> QED
    BY <2>4
<1>3. MaxSections \in Nat /\ MaxSections \in 0..MaxSections
  BY PageSectionsAssumption DEF PageSectionsAssumption
<1> HIDE DEF G
<1>4. \A n \in 0..MaxSections : n \in G
  BY <1>1, <1>2, <1>3, UpTo
<1> QED
  BY <1>3, <1>4 DEF G

\* Within is its last level, whichever function with that recursion is taken.
LEMMA WithinLevels ==
  ASSUME NEW p
  PROVE  \E r : Levels(p, r, MaxSections) /\ Within(p) = r[MaxSections]
<1> DEFINE f == CHOOSE r : Levels(p, r, MaxSections)
<1>1. Within(p) = f[MaxSections]
  BY DEF Within, Levels, Onward
<1>2. Levels(p, f, MaxSections)
  BY LevelsExist
<1> QED
  BY <1>1, <1>2

\* S has what the page lists at the top, and what each of its sections holds.
Closed(p, S) ==
  /\ ToSet(At(p, Top)) \subseteq S
  /\ \A n \in ListNames : n[1] \in S => ToSet(At(p, n)) \subseteq S

\* The sections that are found are the least such set.
LEMMA WithinIs ==
  ASSUME NEW p, p.lists \in [ListNames -> Seq(Sections)]
  PROVE  /\ Within(p) \subseteq Sections /\ Closed(p, Within(p))
         /\ \A S : Closed(p, S) => Within(p) \subseteq S
<1>1. MaxSections \in Nat /\ MaxSections \in 0..MaxSections /\ 0 \in 0..MaxSections
  BY PageSectionsAssumption DEF PageSectionsAssumption
<1>2. PICK r : Levels(p, r, MaxSections) /\ Within(p) = r[MaxSections]
  BY WithinLevels
<1>3. /\ r[0] = ToSet(At(p, Top))
      /\ \A n \in 0..MaxSections : n < MaxSections => r[n + 1] = Onward(p, r[n])
  <2>1. \A n \in 0..MaxSections : r[n] = IF n = 0 THEN ToSet(At(p, Top))
                                         ELSE Onward(p, r[n - 1])
    BY <1>2 DEF Levels
  <2>2. ASSUME NEW n \in 0..MaxSections, n < MaxSections PROVE r[n + 1] = Onward(p, r[n])
    <3>1. n + 1 \in 0..MaxSections /\ n + 1 # 0 /\ (n + 1) - 1 = n
      BY <1>1, <2>2
    <3> QED
      BY <2>1, <3>1
  <2> QED
    BY <1>1, <2>1, <2>2
<1>4. Top \in ListNames /\ \A n \in ListNames : ToSet(At(p, n)) \subseteq Sections
  BY SetOf DEF ListNames, Top, At
<1>5. \A S : Onward(p, S) \subseteq S <=>
               \A n \in ListNames : n[1] \in S => ToSet(At(p, n)) \subseteq S
  BY DEF Onward
<1>6. \A S, T : S \subseteq T => Onward(p, S) \subseteq Onward(p, T)
  BY DEF Onward
<1>7. \A S : S \subseteq Onward(p, S)
  BY DEF Onward
<1>8. \A S \in SUBSET Sections : Onward(p, S) \subseteq Sections
  BY <1>4 DEF Onward
<1>9. ASSUME NEW S, Closed(p, S) PROVE \A n \in 0..MaxSections : r[n] \subseteq S
  <2> DEFINE G == {n \in 0..MaxSections : r[n] \subseteq S}
  <2>1. 0 \in G
    BY <1>1, <1>3, <1>9 DEF Closed
  <2>2. Onward(p, S) \subseteq S
    BY <1>5, <1>9 DEF Closed
  <2>3. \A n \in 0..MaxSections : n \in G /\ n < MaxSections => n + 1 \in G
    <3> SUFFICES ASSUME NEW n \in 0..MaxSections, n \in G, n < MaxSections PROVE n + 1 \in G
      OBVIOUS
    <3>1. r[n + 1] \subseteq S
      BY <1>3, <1>6, <2>2
    <3> QED
      BY <1>1, <3>1
  <2> HIDE DEF G
  <2>4. \A n \in 0..MaxSections : n \in G
    BY <1>1, <2>1, <2>3, UpTo
  <2> QED
    BY <2>4 DEF G
<1>10. \A n \in 0..MaxSections : r[n] \subseteq Sections
  <2>1. Closed(p, Sections)
    BY <1>4 DEF Closed
  <2> QED
    BY <1>9, <2>1
<1>11. \A n \in 0..MaxSections : r[0] \subseteq r[n]
  <2> DEFINE G == {n \in 0..MaxSections : r[0] \subseteq r[n]}
  <2>1. 0 \in G
    BY <1>1
  <2>2. \A n \in 0..MaxSections : n \in G /\ n < MaxSections => n + 1 \in G
    BY <1>1, <1>3, <1>7
  <2> HIDE DEF G
  <2>3. \A n \in 0..MaxSections : n \in G
    BY <1>1, <2>1, <2>2, UpTo
  <2> QED
    BY <2>3 DEF G
<1>12. \A n \in 0..MaxSections : Onward(p, r[n]) = r[n] \/ Cardinality(r[n]) >= n
  <2> DEFINE G == {n \in 0..MaxSections :
                     Onward(p, r[n]) = r[n] \/ Cardinality(r[n]) >= n}
  <2>1. \A n \in 0..MaxSections : IsFiniteSet(r[n]) /\ Cardinality(r[n]) \in Nat
    <3>1. IsFiniteSet(Sections)
      BY <1>1, FS_Interval DEF Sections
    <3> QED
      BY <1>10, <3>1, FS_Subset, FS_CardinalityType
  <2>2. 0 \in G
    BY <1>1, <2>1
  <2>3. ASSUME NEW n \in 0..MaxSections, n \in G, n < MaxSections PROVE n + 1 \in G
    <3>1. n + 1 \in 0..MaxSections
      BY <1>1, <2>3
    <3>2. r[n + 1] = Onward(p, r[n]) /\ r[n] \subseteq r[n + 1]
      BY <1>3, <1>7, <2>3
    <3>3. CASE r[n + 1] = r[n]
      BY <3>1, <3>2, <3>3
    <3>4. CASE r[n + 1] # r[n]
      <4>1. Cardinality(r[n]) >= n
        BY <2>3, <3>2, <3>4
      <4>2. Cardinality(r[n]) <= Cardinality(r[n + 1]) /\ Cardinality(r[n]) # Cardinality(r[n + 1])
        BY <2>1, <3>1, <3>2, <3>4, FS_Subset
      <4>3. Cardinality(r[n + 1]) >= n + 1
        BY <2>1, <3>1, <4>1, <4>2
      <4> QED
        BY <3>1, <4>3
    <3> QED
      BY <3>3, <3>4
  <2> HIDE DEF G
  <2>4. \A n \in 0..MaxSections : n \in G
    BY <1>1, <2>2, <2>3, UpTo
  <2> QED
    BY <2>4 DEF G
<1>13. Onward(p, r[MaxSections]) = r[MaxSections]
  <2>1. CASE Cardinality(r[MaxSections]) >= MaxSections
    <3>1. IsFiniteSet(Sections) /\ Cardinality(Sections) = MaxSections
      BY <1>1, FS_Interval DEF Sections
    <3>2. r[MaxSections] \subseteq Sections
      BY <1>1, <1>10
    <3>3. /\ Cardinality(r[MaxSections]) <= Cardinality(Sections)
          /\ Cardinality(r[MaxSections]) \in Nat
          /\ Cardinality(r[MaxSections]) = Cardinality(Sections) => r[MaxSections] = Sections
      BY <3>1, <3>2, FS_Subset, FS_CardinalityType
    <3>4. r[MaxSections] = Sections
      BY <1>1, <2>1, <3>1, <3>3
    <3>5. Onward(p, Sections) \subseteq Sections /\ Sections \subseteq Onward(p, Sections)
      BY <1>7, <1>8
    <3> QED
      BY <3>4, <3>5
  <2> QED
    BY <1>1, <1>12, <2>1
<1>14. Closed(p, Within(p))
  BY <1>1, <1>2, <1>3, <1>5, <1>11, <1>13 DEF Closed
<1> QED
  BY <1>1, <1>2, <1>9, <1>10, <1>14

-------------------------------------------------------------------------------
(***************************************************************************)
(* Trees, as sets: what a list holds, without its order.                   *)
(***************************************************************************)
\* What each list holds is found from the top: W is the least set that has it, no
\* section is in two lists, and no list of a section that is not found has any.
Rooted(L, S) == L[Top] \subseteq S /\ \A n \in ListNames : n[1] \in S => L[n] \subseteq S
Forest(L, W) ==
  /\ Rooted(L, W) /\ \A S : Rooted(L, S) => W \subseteq S
  /\ \A m, n \in ListNames : m # n => L[m] \cap L[n] = {}
  /\ \A n \in ListNames : L[n] # {} => n = Top \/ n[1] \in W

\* The names of the lists: the top, and three for each section.
LEMMA Names ==
  /\ Top \in ListNames /\ Top[1] = 0 /\ 0 \notin Sections
  /\ \A s \in Sections, z \in {"left", "right", "children"} :
       <<s, z>> \in ListNames /\ <<s, z>>[1] = s /\ <<s, z>>[2] = z /\ <<s, z>> # Top
  /\ \A n \in ListNames :
       n # Top => /\ n[1] \in Sections
                  /\ n \in {<<n[1], "left">>, <<n[1], "right">>, <<n[1], "children">>}
<1>1. Top \in ListNames /\ Top[1] = 0 /\ 0 \notin Sections
  BY DEF ListNames, Top, Sections
<1>2. ASSUME NEW s \in Sections, NEW z \in {"left", "right", "children"}
      PROVE  /\ <<s, z>> \in ListNames /\ <<s, z>>[1] = s /\ <<s, z>>[2] = z
             /\ <<s, z>> # Top
  BY DEF ListNames, Top, Sections
<1>3. ASSUME NEW n \in ListNames, n # Top
      PROVE  /\ n[1] \in Sections
             /\ n \in {<<n[1], "left">>, <<n[1], "right">>, <<n[1], "children">>}
  <2>1. n \in Sections \X {"left", "right", "children"}
    BY <1>3 DEF ListNames, Top
  <2>2. PICK s \in Sections, z \in {"left", "right", "children"} : n = <<s, z>>
    BY <2>1
  <2> QED
    BY <2>2
<1> QED
  BY <1>1, <1>2, <1>3

\* Whatever is listed is found.
LEMMA AllFound ==
  ASSUME NEW L, NEW W, Forest(L, W)
  PROVE  \A n \in ListNames : L[n] \subseteq W
<1>1. L[Top] \subseteq W /\ \A n \in ListNames : n[1] \in W => L[n] \subseteq W
  BY DEF Forest, Rooted
<1>2. \A n \in ListNames : L[n] = {} \/ n = Top \/ n[1] \in W
  BY DEF Forest
<1> QED
  BY <1>1, <1>2

\* A section is not inside itself.
LEMMA NotItself ==
  ASSUME NEW L, NEW W \in SUBSET Sections, Forest(L, W), NEW n \in ListNames, NEW s \in L[n]
  PROVE  s \in W /\ n[1] # s
<1>1. s \in W
  BY AllFound
<1>2. ASSUME n[1] = s PROVE FALSE
  <2>1. n # Top
    BY <1>1, <1>2, Names
  <2>2. \A m \in ListNames : m # n => s \notin L[m]
    BY DEF Forest
  <2>3. Rooted(L, W \ {s})
    <3>1. L[Top] \subseteq W \ {s}
      BY <2>1, <2>2, Names, AllFound
    <3>2. ASSUME NEW m \in ListNames, m[1] \in W \ {s} PROVE L[m] \subseteq W \ {s}
      BY <1>2, <2>2, <3>2, AllFound
    <3> QED
      BY <3>1, <3>2 DEF Rooted
  <2>4. W \subseteq W \ {s}
    BY <2>3 DEF Forest
  <2> QED
    BY <1>1, <2>4
<1> QED
  BY <1>1, <1>2

\* A new section is listed where the page has a list.
LEMMA ForestAdd ==
  ASSUME NEW L, NEW W \in SUBSET Sections, Forest(L, W), NEW s \in Sections \ W,
         NEW m \in ListNames, m = Top \/ m[1] \in W, NEW K,
         \A n \in ListNames : K[n] = IF n = m THEN L[n] \cup {s} ELSE L[n]
  PROVE  Forest(K, W \cup {s})
<1>1. \A n \in ListNames : L[n] \subseteq W
  BY AllFound
<1>2. Rooted(K, W \cup {s})
  <2>1. \A n \in ListNames : K[n] \subseteq W \cup {s}
    BY <1>1
  <2> QED
    BY <2>1, Names DEF Rooted
<1>3. ASSUME NEW S, Rooted(K, S) PROVE W \cup {s} \subseteq S
  <2>1. Rooted(L, S)
    <3>1. \A n \in ListNames : L[n] \subseteq K[n]
      OBVIOUS
    <3> QED
      BY <1>3, <3>1, Names DEF Rooted
  <2>2. W \subseteq S
    BY <2>1 DEF Forest
  <2>3. s \in K[m]
    OBVIOUS
  <2>4. K[m] \subseteq S
    BY <1>3, <2>2 DEF Rooted
  <2> QED
    BY <2>2, <2>3, <2>4
<1>4. ASSUME NEW i \in ListNames, NEW j \in ListNames, i # j PROVE K[i] \cap K[j] = {}
  <2>1. L[i] \cap L[j] = {}
    BY <1>4 DEF Forest
  <2> QED
    BY <1>1, <1>4, <2>1
<1>5. ASSUME NEW n \in ListNames, K[n] # {} PROVE n = Top \/ n[1] \in W \cup {s}
  BY <1>5 DEF Forest
<1> QED
  BY <1>2, <1>3, <1>4, <1>5 DEF Forest

\* Two sections move into the columns of a new one.
Merged(L, W, m, s, x, y, R, K) ==
  /\ Forest(L, W) /\ s \in Sections \ W
  /\ L[m] = R \cup {x, y} /\ x \notin R /\ y \notin R /\ x # y
  /\ L[<<s, "left">>] = {} /\ L[<<s, "right">>] = {}
  /\ \A n \in ListNames : K[n] = IF n = <<s, "left">> THEN {x}
                                  ELSE IF n = <<s, "right">> THEN {y}
                                  ELSE IF n = m THEN R \cup {s} ELSE L[n]

LEMMA ForestMerge ==
  ASSUME NEW L, NEW W \in SUBSET Sections, NEW m \in ListNames, NEW s, NEW x, NEW y, NEW R,
         NEW K, Merged(L, W, m, s, x, y, R, K)
  PROVE  Forest(K, W \cup {s})
<1> USE DEF Merged
<1> DEFINE l == <<s, "left">>
           r == <<s, "right">>
<1>1. \A n \in ListNames : L[n] \subseteq W
  BY AllFound
<1>2. /\ l \in ListNames /\ r \in ListNames /\ l # r /\ l[1] = s /\ r[1] = s
      /\ m # l /\ m # r /\ l # Top /\ r # Top
  BY Names
<1>3. /\ x \in W /\ y \in W /\ R \subseteq W /\ s \notin R /\ x # s /\ y # s
      /\ K[l] = {x} /\ K[r] = {y} /\ K[m] = R \cup {s}
      /\ \A n \in ListNames \ {l, r, m} : K[n] = L[n]
  BY <1>1, <1>2
<1>4. m = Top \/ m[1] \in W
  BY DEF Forest
<1>5. L[l] = {} /\ L[r] = {}
  OBVIOUS
<1> HIDE DEF l, r
<1>6. Rooted(K, W \cup {s})
  <2>1. \A n \in ListNames : K[n] \subseteq W \cup {s}
    BY <1>1, <1>3
  <2> QED
    BY <2>1, Names DEF Rooted
<1>7. ASSUME NEW S, Rooted(K, S) PROVE W \cup {s} \subseteq S
  <2>1. ASSUME NEW n \in ListNames, n = Top \/ n[1] \in S PROVE L[n] \subseteq S
    <3>1. K[n] \subseteq S
      BY <1>7, <2>1 DEF Rooted
    <3>2. CASE n \in ListNames \ {l, r, m}
      BY <1>3, <3>1, <3>2
    <3>3. CASE n = m
      <4>1. s \in S /\ R \subseteq S
        BY <1>3, <3>1, <3>3
      <4>2. K[l] \subseteq S /\ K[r] \subseteq S
        BY <1>2, <1>7, <4>1 DEF Rooted
      <4> QED
        BY <1>3, <3>3, <4>1, <4>2
    <3>4. CASE n \in {l, r}
      BY <1>5, <3>4
    <3> QED
      BY <3>2, <3>3, <3>4
  <2>2. Rooted(L, S)
    BY <2>1, Names DEF Rooted
  <2>3. W \subseteq S
    BY <2>2 DEF Forest
  <2>4. K[m] \subseteq S
    BY <1>4, <1>7, <2>3 DEF Rooted
  <2> QED
    BY <1>3, <2>3, <2>4
<1>8. ASSUME NEW i \in ListNames, NEW j \in ListNames, i # j PROVE K[i] \cap K[j] = {}
  <2>1. \A n \in ListNames : n # m => L[n] \cap (R \cup {x, y}) = {}
    BY DEF Forest
  <2>2. \A n \in ListNames : s \notin L[n]
    BY <1>1
  <2>3. ASSUME NEW n \in ListNames \ {l, r, m}
        PROVE  K[n] \cap K[l] = {} /\ K[n] \cap K[r] = {} /\ K[n] \cap K[m] = {}
    BY <1>3, <2>1, <2>2, <2>3
  <2>4. K[l] \cap K[r] = {} /\ K[l] \cap K[m] = {} /\ K[r] \cap K[m] = {}
    BY <1>3
  <2>5. CASE i \in ListNames \ {l, r, m} /\ j \in ListNames \ {l, r, m}
    BY <1>3, <1>8, <2>5 DEF Forest
  <2> QED
    BY <1>8, <2>3, <2>4, <2>5
<1>9. ASSUME NEW n \in ListNames, K[n] # {} PROVE n = Top \/ n[1] \in W \cup {s}
  <2>1. CASE n \in {l, r}
    BY <1>2, <2>1
  <2>2. CASE n = m
    BY <1>4, <2>2
  <2>3. CASE n \in ListNames \ {l, r, m}
    BY <1>3, <1>9, <2>3 DEF Forest
  <2> QED
    BY <2>1, <2>2, <2>3
<1> QED
  BY <1>6, <1>7, <1>8, <1>9 DEF Forest

\* A layout is replaced by what its columns hold.
Ungrouped(L, W, m, s, R, K) ==
  /\ Forest(L, W) /\ L[m] = R \cup {s} /\ s \notin R /\ L[<<s, "children">>] = {}
  /\ \A n \in ListNames :
       K[n] = IF n \in {<<s, "left">>, <<s, "right">>} THEN {}
              ELSE IF n = m THEN R \cup L[<<s, "left">>] \cup L[<<s, "right">>] ELSE L[n]

LEMMA ForestUngroup ==
  ASSUME NEW L, NEW W \in SUBSET Sections, NEW m \in ListNames, NEW s, NEW R, NEW K,
         Ungrouped(L, W, m, s, R, K)
  PROVE  Forest(K, W \ {s})
<1> USE DEF Ungrouped
<1> DEFINE l == <<s, "left">>
           r == <<s, "right">>
           c == <<s, "children">>
<1>1. \A n \in ListNames : L[n] \subseteq W
  BY AllFound
<1>2. s \in W /\ s \in Sections /\ m[1] # s
  BY NotItself
<1>3. /\ l \in ListNames /\ r \in ListNames /\ c \in ListNames
      /\ l[1] = s /\ r[1] = s /\ l # r /\ l # Top /\ r # Top
      /\ \A n \in ListNames : n[1] = s => n \in {l, r, c}
  BY <1>2, Names
<1>4. /\ m # l /\ m # r /\ m # c /\ L[c] = {} /\ K[l] = {} /\ K[r] = {}
      /\ K[m] = R \cup L[l] \cup L[r]
      /\ \A n \in ListNames \ {l, r, m} : K[n] = L[n]
      /\ L[m] = R \cup {s}
  BY <1>2, <1>3
<1>5. m = Top \/ m[1] \in W \ {s}
  BY <1>2 DEF Forest
<1> HIDE DEF l, r, c
<1>6. /\ \A n \in ListNames : n # m => s \notin L[n] /\ L[n] \cap R = {}
      /\ \A i, j \in ListNames : i # j => L[i] \cap L[j] = {}
  BY <1>4 DEF Forest
<1>7. \A n \in ListNames : K[n] \subseteq W \ {s}
  BY <1>1, <1>3, <1>4, <1>6
<1>8. Rooted(K, W \ {s})
  BY <1>7, Names DEF Rooted
<1>9. ASSUME NEW S, Rooted(K, S) PROVE W \ {s} \subseteq S
  <2>1. CASE m = Top \/ m[1] \in S
    <3>1. K[m] \subseteq S
      BY <1>9, <2>1 DEF Rooted
    <3>2. ASSUME NEW n \in ListNames, n = Top \/ n[1] \in S \cup {s}
          PROVE  L[n] \subseteq S \cup {s}
      <4>1. CASE n = m
        BY <1>4, <3>1, <4>1
      <4>2. CASE n \in {l, r, c}
        BY <1>4, <3>1, <4>2
      <4>3. CASE n \in ListNames \ {l, r, c, m}
        <5>1. n = Top \/ n[1] \in S
          BY <1>3, <3>2, <4>3
        <5>2. K[n] \subseteq S
          BY <1>9, <5>1 DEF Rooted
        <5> QED
          BY <1>4, <4>3, <5>2
      <4> QED
        BY <4>1, <4>2, <4>3
    <3>3. Rooted(L, S \cup {s})
      BY <3>2, Names DEF Rooted
    <3> QED
      BY <3>3 DEF Forest
  <2>2. CASE m # Top /\ m[1] \notin S
    <3>1. ASSUME NEW n \in ListNames, n = Top \/ n[1] \in S \ {s}
          PROVE  L[n] \subseteq S \ {s}
      <4>1. n # m /\ n # l /\ n # r
        BY <1>3, <2>2, <3>1
      <4>2. K[n] \subseteq S
        BY <1>9, <3>1 DEF Rooted
      <4> QED
        BY <1>4, <1>6, <4>1, <4>2
    <3>2. Rooted(L, S \ {s})
      BY <3>1, Names DEF Rooted
    <3> QED
      BY <3>2 DEF Forest
  <2> QED
    BY <2>1, <2>2
<1>10. ASSUME NEW i \in ListNames, NEW j \in ListNames, i # j PROVE K[i] \cap K[j] = {}
  <2>1. ASSUME NEW n \in ListNames \ {l, r, m} PROVE K[n] \cap K[m] = {}
    BY <1>3, <1>4, <1>6, <2>1
  <2>2. CASE i \in {l, r} \/ j \in {l, r}
    BY <1>4, <2>2
  <2>3. CASE i \in ListNames \ {l, r, m} /\ j \in ListNames \ {l, r, m}
    BY <1>4, <1>6, <1>10, <2>3
  <2> QED
    BY <1>10, <2>1, <2>2, <2>3
<1>11. ASSUME NEW n \in ListNames, K[n] # {} PROVE n = Top \/ n[1] \in W \ {s}
  <2>1. n # l /\ n # r
    BY <1>4, <1>11
  <2>2. CASE n = m
    BY <1>5, <2>2
  <2>3. CASE n # m
    <3>1. L[n] # {} /\ n # c
      BY <1>4, <1>11, <2>1, <2>3
    <3> QED
      BY <1>3, <2>1, <3>1 DEF Forest
  <2> QED
    BY <2>2, <2>3
<1> QED
  BY <1>8, <1>9, <1>10, <1>11 DEF Forest

-------------------------------------------------------------------------------
(***************************************************************************)
(* Pages.                                                                  *)
(***************************************************************************)
\* Pages, and what is in each of their lists.
SectionTypes == Containers \cup {"content", "none"}
Documents ==
  [type : [Sections -> SectionTypes], lists : [ListNames -> Seq(Sections)],
   text : [Sections -> Nat]]
Held(p) == [n \in ListNames |-> ToSet(At(p, n))]

\* The type of a section, and the texts, of a page.
TypeIn(p, s) == p.type[s]
TextIn(p) == p.text
Alike(q, p) == \A s \in Sections : TypeIn(q, s) = TypeIn(p, s)
Rewritten(f, s, x) == [f EXCEPT ![s] = x]

\* Each section is listed once, from the top down.  The lists of a layout are its
\* columns, and an id that was not made is nowhere.
Tree(p, made) ==
  /\ p \in Documents
  /\ \A n \in ListNames : Once(At(p, n))
  /\ Forest(Held(p), Within(p))
  /\ \A s \in Sections :
       TypeIn(p, s) = "two_column_layout" => At(p, <<s, "children">>) = <<>>
  /\ \A s \in Sections : s > made =>
       /\ TypeIn(p, s) = "none" /\ s \notin Within(p)
       /\ \A z \in {"left", "right", "children"} : At(p, <<s, z>>) = <<>>

\* Unless a page arrived while a divider was dragged, the divider remembers the page
\* that is there.
CanvasInv ==
  /\ sectionsMade \in 0..MaxSections /\ late \in BOOLEAN
  /\ ~late => /\ Tree(doc, sectionsMade) /\ alive = Within(doc) /\ typed = TextIn(doc)
              /\ divider \subseteq {doc}

\* A page with one list, one type or one text changed.
Put(p, m, t) == [p EXCEPT !.lists[m] = t]
Retype(p, s, ty) == [p EXCEPT !.type[s] = ty]
Retext(p, s, n) == [p EXCEPT !.text[s] = n]

\* q is p with another list, or another type, or another text.
Placed(p, m, t, q) ==
  p \in Documents /\ m \in ListNames /\ t \in Seq(Sections) /\ q = Put(p, m, t)
Retyped(p, s, ty, q) ==
  p \in Documents /\ s \in Sections /\ ty \in SectionTypes /\ q = Retype(p, s, ty)
Retexted(p, s, x, q) ==
  p \in Documents /\ s \in Sections /\ x \in Nat /\ q = Retext(p, s, x)

LEMMA Fields ==
  ASSUME NEW p \in Documents
  PROVE  /\ p.type \in [Sections -> SectionTypes] /\ p.text \in [Sections -> Nat]
         /\ p.lists \in [ListNames -> Seq(Sections)]
         /\ p = [type |-> p.type, lists |-> p.lists, text |-> p.text]
  BY DEF Documents

LEMMA PlacedIs ==
  ASSUME NEW p, NEW m, NEW t, NEW q, Placed(p, m, t, q)
  PROVE  /\ q \in Documents /\ TextIn(q) = TextIn(p)
         /\ Alike(q, p)
         /\ \A n \in ListNames : At(q, n) = IF n = m THEN t ELSE At(p, n)
<1>1. p \in Documents /\ m \in ListNames /\ t \in Seq(Sections) /\ q = Put(p, m, t)
  BY DEF Placed
<1>2. PICK ty, li, tx : ty = p.type /\ li = p.lists /\ tx = p.text
  OBVIOUS
<1>3. /\ ty \in [Sections -> SectionTypes] /\ li \in [ListNames -> Seq(Sections)]
      /\ tx \in [Sections -> Nat] /\ p = [type |-> ty, lists |-> li, text |-> tx]
  BY <1>1, <1>2, Fields
<1>4. PICK f : f = [li EXCEPT ![m] = t]
  OBVIOUS
<1>5. /\ f \in [ListNames -> Seq(Sections)]
      /\ \A n \in ListNames : f[n] = IF n = m THEN t ELSE li[n]
  BY <1>1, <1>3, <1>4
<1>6. q = [type |-> ty, lists |-> f, text |-> tx]
  BY <1>1, <1>3, <1>4 DEF Put
<1>7. q \in Documents /\ q.type = ty /\ q.lists = f /\ q.text = tx
  BY <1>3, <1>5, <1>6 DEF Documents
<1> QED
  BY <1>1, <1>2, <1>5, <1>7 DEF At, TypeIn, TextIn, Alike

LEMMA RetypedIs ==
  ASSUME NEW p, NEW s, NEW u, NEW q, Retyped(p, s, u, q)
  PROVE  /\ q \in Documents /\ TextIn(q) = TextIn(p)
         /\ \A r \in Sections : TypeIn(q, r) = IF r = s THEN u ELSE TypeIn(p, r)
         /\ \A n \in ListNames : At(q, n) = At(p, n)
<1>1. p \in Documents /\ s \in Sections /\ u \in SectionTypes /\ q = Retype(p, s, u)
  BY DEF Retyped
<1>2. PICK ty, li, tx : ty = p.type /\ li = p.lists /\ tx = p.text
  OBVIOUS
<1>3. /\ ty \in [Sections -> SectionTypes] /\ li \in [ListNames -> Seq(Sections)]
      /\ tx \in [Sections -> Nat] /\ p = [type |-> ty, lists |-> li, text |-> tx]
  BY <1>1, <1>2, Fields
<1>4. PICK f : f = [ty EXCEPT ![s] = u]
  OBVIOUS
<1>5. /\ f \in [Sections -> SectionTypes]
      /\ \A r \in Sections : f[r] = IF r = s THEN u ELSE ty[r]
  BY <1>1, <1>3, <1>4
<1>6. q = [type |-> f, lists |-> li, text |-> tx]
  BY <1>1, <1>3, <1>4 DEF Retype
<1>7. q \in Documents /\ q.type = f /\ q.lists = li /\ q.text = tx
  BY <1>3, <1>5, <1>6 DEF Documents
<1> QED
  BY <1>1, <1>2, <1>5, <1>7 DEF At, TypeIn, TextIn

LEMMA RetextedIs ==
  ASSUME NEW p, NEW s, NEW x, NEW q, Retexted(p, s, x, q)
  PROVE  /\ q \in Documents /\ TextIn(q) = Rewritten(TextIn(p), s, x)
         /\ Alike(q, p)
         /\ \A n \in ListNames : At(q, n) = At(p, n)
<1>1. p \in Documents /\ s \in Sections /\ x \in Nat /\ q = Retext(p, s, x)
  BY DEF Retexted
<1>2. PICK ty, li, tx : ty = p.type /\ li = p.lists /\ tx = p.text
  OBVIOUS
<1>3. /\ ty \in [Sections -> SectionTypes] /\ li \in [ListNames -> Seq(Sections)]
      /\ tx \in [Sections -> Nat] /\ p = [type |-> ty, lists |-> li, text |-> tx]
  BY <1>1, <1>2, Fields
<1>4. PICK f : f = [tx EXCEPT ![s] = x]
  OBVIOUS
<1>5. f \in [Sections -> Nat]
  BY <1>1, <1>3, <1>4
<1>6. q = [type |-> ty, lists |-> li, text |-> f]
  BY <1>1, <1>3, <1>4 DEF Retext
<1>7. q \in Documents /\ q.type = ty /\ q.lists = li /\ q.text = f
  BY <1>3, <1>5, <1>6 DEF Documents
<1> QED
  BY <1>1, <1>2, <1>4, <1>5, <1>7 DEF At, TypeIn, TextIn, Alike, Rewritten

\* The sections found are the only set that makes the lists of a page a forest.
LEMMA HeldIs ==
  ASSUME NEW p \in Documents
  PROVE  /\ Within(p) \subseteq Sections
         /\ \A W : Forest(Held(p), W) => W = Within(p)
         /\ \A n \in ListNames : /\ At(p, n) \in Seq(Sections)
                                 /\ Held(p)[n] = ToSet(At(p, n)) /\ Held(p)[n] \subseteq Sections
                                 /\ At(p, n) = <<>> <=> Held(p)[n] = {}
<1>1. p.lists \in [ListNames -> Seq(Sections)]
  BY DEF Documents
<1>2. \A n \in ListNames : /\ At(p, n) \in Seq(Sections) /\ At(p, n) = p.lists[n]
                           /\ Held(p)[n] = ToSet(At(p, n))
  BY <1>1 DEF At, Held
<1>3. \A n \in ListNames : Held(p)[n] \subseteq Sections /\ (At(p, n) = <<>> <=> Held(p)[n] = {})
  BY <1>2, SetOf
<1>4. \A S : Closed(p, S) <=> Rooted(Held(p), S)
  BY <1>2, Names DEF Closed, Rooted
<1>5. /\ Within(p) \subseteq Sections /\ Closed(p, Within(p))
      /\ \A S : Closed(p, S) => Within(p) \subseteq S
  BY <1>1, WithinIs
<1>6. ASSUME NEW W, Forest(Held(p), W) PROVE W = Within(p)
  <2>1. Rooted(Held(p), W) /\ \A S : Rooted(Held(p), S) => W \subseteq S
    BY <1>6 DEF Forest
  <2> QED
    BY <1>4, <1>5, <2>1
<1> QED
  BY <1>2, <1>3, <1>5, <1>6

\* Only the order within the lists, or the texts, changed.
LEMMA SameTree ==
  ASSUME NEW p, NEW made, Tree(p, made), NEW q \in Documents, Alike(q, p),
         \A n \in ListNames : Once(At(q, n)) /\ ToSet(At(q, n)) = ToSet(At(p, n))
  PROVE  Tree(q, made) /\ Within(q) = Within(p)
<1> USE DEF Alike
<1>1. p \in Documents
  BY DEF Tree
<1>2. Held(q) = Held(p)
  BY DEF Held
<1>3. Within(q) = Within(p)
  BY <1>1, <1>2, HeldIs DEF Tree
<1>4. \A n \in ListNames : At(q, n) = <<>> <=> At(p, n) = <<>>
  BY <1>1, <1>2, HeldIs
<1>5. \A s \in Sections, z \in {"left", "right", "children"} : <<s, z>> \in ListNames
  BY Names
<1>6. /\ Forest(Held(q), Within(q))
      /\ \A s \in Sections :
           TypeIn(q, s) = "two_column_layout" => At(q, <<s, "children">>) = <<>>
  BY <1>2, <1>3, <1>4, <1>5 DEF Tree
<1>7. ASSUME NEW s \in Sections, s > made
      PROVE  /\ TypeIn(q, s) = "none" /\ s \notin Within(q)
             /\ \A z \in {"left", "right", "children"} : At(q, <<s, z>>) = <<>>
  BY <1>3, <1>4, <1>5, <1>7 DEF Tree
<1> QED
  BY <1>3, <1>6, <1>7 DEF Tree

\* The page after HandleDragEnd, and with a new section at the end of a list.
DraggedPage(p, m, i, j) == Put(p, m, InsertAt(RemoveAt(At(p, m), i), j, At(p, m)[i]))
AddedPage(p, m, s, ty) == Retype(Put(p, m, Append(At(p, m), s)), s, ty)

\* HandleDragEnd, and what is typed into a section.
LEMMA DragTree ==
  ASSUME NEW p, NEW made, Tree(p, made), NEW m \in ListNames,
         NEW i \in DOMAIN At(p, m), NEW j \in DOMAIN At(p, m), NEW q,
         q = DraggedPage(p, m, i, j)
  PROVE  Tree(q, made) /\ Within(q) = Within(p) /\ TextIn(q) = TextIn(p)
<1>1. p \in Documents /\ \A n \in ListNames : Once(At(p, n)) /\ At(p, n) \in Seq(Sections)
  BY HeldIs DEF Tree
<1>2. PICK t : t = InsertAt(RemoveAt(At(p, m), i), j, At(p, m)[i])
  OBVIOUS
<1>3. t \in Seq(Sections) /\ Once(t) /\ ToSet(t) = ToSet(At(p, m))
  BY <1>1, <1>2, ArrayMove
<1>4. q = Put(p, m, t)
  BY <1>2 DEF DraggedPage
<1>5. /\ q \in Documents /\ Alike(q, p) /\ TextIn(q) = TextIn(p)
      /\ \A n \in ListNames : At(q, n) = IF n = m THEN t ELSE At(p, n)
  <2>1. Placed(p, m, t, q)
    BY <1>1, <1>3, <1>4 DEF Placed
  <2> QED
    BY <2>1, PlacedIs
<1>6. \A n \in ListNames : Once(At(q, n)) /\ ToSet(At(q, n)) = ToSet(At(p, n))
  BY <1>1, <1>3, <1>5
<1> QED
  BY <1>5, <1>6, SameTree

LEMMA TextTree ==
  ASSUME NEW p, NEW made, Tree(p, made), NEW s \in Sections, NEW x \in Nat, NEW q,
         q = Retext(p, s, x)
  PROVE  Tree(q, made) /\ Within(q) = Within(p) /\ TextIn(q) = Rewritten(TextIn(p), s, x)
<1>1. p \in Documents /\ \A n \in ListNames : Once(At(p, n))
  BY DEF Tree
<1>2. /\ q \in Documents /\ Alike(q, p) /\ TextIn(q) = Rewritten(TextIn(p), s, x)
      /\ \A n \in ListNames : At(q, n) = At(p, n)
  <2>1. Retexted(p, s, x, q)
    BY <1>1 DEF Retexted
  <2> QED
    BY <2>1, RetextedIs
<1> QED
  BY <1>1, <1>2, SameTree

\* A section that was not made yet, of any type, at the end of a list.
LEMMA AddTree ==
  ASSUME NEW p, NEW made \in Nat, Tree(p, made), made + 1 \in Sections,
         NEW m \in ListNames, NEW ty \in SectionTypes, NEW q,
         m = Top \/ (m[1] \in Within(p) /\ TypeIn(p, m[1]) # "two_column_layout"),
         q = AddedPage(p, m, made + 1, ty)
  PROVE  Tree(q, made + 1) /\ Within(q) = Within(p) \cup {made + 1} /\ TextIn(q) = TextIn(p)
<1> USE DEF Alike
<1>1. p \in Documents /\ \A n \in ListNames : Once(At(p, n)) /\ At(p, n) \in Seq(Sections)
  BY HeldIs DEF Tree
<1>2. PICK s \in Sections : s = made + 1
  OBVIOUS
<1>3. PICK t : t = Append(At(p, m), s)
  OBVIOUS
<1>4. /\ s \notin Within(p) /\ TypeIn(p, s) = "none"
      /\ \A z \in {"left", "right", "children"} : At(p, <<s, z>>) = <<>>
  <2>1. s > made
    BY <1>2
  <2> QED
    BY <2>1 DEF Tree
<1>5. Within(p) \in SUBSET Sections /\ Forest(Held(p), Within(p))
  BY <1>1, HeldIs DEF Tree
<1>6. s \notin ToSet(At(p, m))
  BY <1>1, <1>4, <1>5, AllFound, HeldIs
<1>7. t \in Seq(Sections) /\ Once(t) /\ ToSet(t) = ToSet(At(p, m)) \cup {s}
  <2>1. PICK e : e = <<s>>
    OBVIOUS
  <2>2. e \in Seq(Sections) /\ ToSet(e) = {s} /\ Once(e)
    BY <2>1, OneOf
  <2>3. PICK a \in Seq(Sections) : a = At(p, m)
    BY <1>1
  <2>4. t = a \o e
    BY <1>3, <2>1, <2>3
  <2>5. Once(a) /\ ToSet(a) \cap ToSet(e) = {}
    BY <1>1, <1>6, <2>2, <2>3
  <2>6. a \o e \in Seq(Sections) /\ Once(a \o e) /\ ToSet(a \o e) = ToSet(a) \cup ToSet(e)
    BY <2>2, <2>5, Joined
  <2> QED
    BY <2>2, <2>3, <2>4, <2>6
<1>8. PICK o : o = Put(p, m, t)
  OBVIOUS
<1>9. /\ o \in Documents /\ Alike(o, p) /\ TextIn(o) = TextIn(p)
      /\ \A n \in ListNames : At(o, n) = IF n = m THEN t ELSE At(p, n)
  <2>1. Placed(p, m, t, o)
    BY <1>1, <1>7, <1>8 DEF Placed
  <2> QED
    BY <2>1, PlacedIs
<1>10. q = Retype(o, s, ty)
  BY <1>2, <1>3, <1>8 DEF AddedPage
<1>11. /\ q \in Documents /\ TextIn(q) = TextIn(p)
       /\ \A u \in Sections : TypeIn(q, u) = IF u = s THEN ty ELSE TypeIn(p, u)
       /\ \A n \in ListNames : At(q, n) = IF n = m THEN t ELSE At(p, n)
  <2>1. Retyped(o, s, ty, q)
    BY <1>9, <1>10 DEF Retyped
  <2>2. /\ q \in Documents /\ TextIn(q) = TextIn(o)
        /\ \A u \in Sections : TypeIn(q, u) = IF u = s THEN ty ELSE TypeIn(o, u)
        /\ \A n \in ListNames : At(q, n) = At(o, n)
    BY <2>1, RetypedIs
  <2> QED
    BY <1>9, <2>2
<1>12. \A n \in ListNames : Held(q)[n] = IF n = m THEN Held(p)[n] \cup {s} ELSE Held(p)[n]
  <2>1. \A n \in ListNames : Held(q)[n] = ToSet(At(q, n)) /\ Held(p)[n] = ToSet(At(p, n))
    BY DEF Held
  <2>2. ASSUME NEW n \in ListNames
        PROVE  ToSet(At(q, n)) = IF n = m THEN ToSet(At(p, n)) \cup {s} ELSE ToSet(At(p, n))
    <3>1. CASE n = m
      BY <1>7, <1>11, <3>1
    <3>2. CASE n # m
      BY <1>11, <3>2
    <3> QED
      BY <3>1, <3>2
  <2> QED
    BY <2>1, <2>2
<1>13. Forest(Held(q), Within(p) \cup {s})
  <2>1. s \in Sections \ Within(p) /\ (m = Top \/ m[1] \in Within(p))
    BY <1>4
  <2> QED
    BY <1>5, <1>12, <2>1, ForestAdd
<1>14. Within(q) = Within(p) \cup {s}
  BY <1>11, <1>13, HeldIs
<1>15. \A n \in ListNames : Once(At(q, n))
  BY <1>1, <1>7, <1>11
<1>16. ASSUME NEW u \in Sections, TypeIn(q, u) = "two_column_layout"
       PROVE  At(q, <<u, "children">>) = <<>>
  <2>1. <<u, "children">> \in ListNames /\ <<u, "children">>[1] = u /\ <<u, "children">> # Top
    BY Names
  <2>2. CASE u = s
    <3>1. m[1] # s
      BY <1>4, Names
    <3> QED
      BY <1>4, <1>11, <2>1, <2>2, <3>1
  <2>3. CASE u # s
    <3>1. TypeIn(p, u) = "two_column_layout"
      BY <1>11, <1>16, <2>3
    <3>2. At(p, <<u, "children">>) = <<>> /\ m # <<u, "children">>
      BY <2>1, <3>1 DEF Tree
    <3> QED
      BY <1>11, <2>1, <3>2
  <2> QED
    BY <2>2, <2>3
<1>17. ASSUME NEW u \in Sections, u > made + 1
       PROVE  /\ TypeIn(q, u) = "none" /\ u \notin Within(q)
              /\ \A z \in {"left", "right", "children"} : At(q, <<u, z>>) = <<>>
  <2>1. u > made /\ u # s
    BY <1>2, <1>17 DEF Sections
  <2>2. /\ TypeIn(p, u) = "none" /\ u \notin Within(p)
        /\ \A z \in {"left", "right", "children"} : At(p, <<u, z>>) = <<>>
    BY <2>1 DEF Tree
  <2>3. m[1] # u
    BY <2>2, Names
  <2>4. \A z \in {"left", "right", "children"} : <<u, z>> \in ListNames /\ <<u, z>> # m
    <3>1. \A z \in {"left", "right", "children"} : <<u, z>> \in ListNames /\ <<u, z>>[1] = u
      BY Names
    <3> QED
      BY <2>3, <3>1
  <2> QED
    BY <1>11, <1>14, <2>1, <2>2, <2>4
<1>18. Tree(q, made + 1)
  BY <1>11, <1>13, <1>14, <1>15, <1>16, <1>17 DEF Tree
<1> QED
  BY <1>2, <1>11, <1>14, <1>18

\* Three lists of a page change.
ThreePut(p, m, t, l, tl, r, tr, q) ==
  /\ p \in Documents /\ {m, l, r} \subseteq ListNames /\ m # l /\ m # r /\ l # r
  /\ {t, tl, tr} \subseteq Seq(Sections)
  /\ q = Put(Put(Put(p, m, t), l, tl), r, tr)

LEMMA PutThree ==
  ASSUME NEW p, NEW m, NEW l, NEW r, NEW t, NEW tl, NEW tr, NEW q,
         ThreePut(p, m, t, l, tl, r, tr, q)
  PROVE  /\ q \in Documents /\ Alike(q, p) /\ TextIn(q) = TextIn(p)
         /\ At(q, m) = t /\ At(q, l) = tl /\ At(q, r) = tr
         /\ \A n \in ListNames : n \notin {l, r, m} => At(q, n) = At(p, n)
<1> USE DEF Alike
<1>1. /\ p \in Documents /\ {m, l, r} \subseteq ListNames /\ m # l /\ m # r /\ l # r
      /\ {t, tl, tr} \subseteq Seq(Sections)
      /\ q = Put(Put(Put(p, m, t), l, tl), r, tr)
  BY DEF ThreePut
<1>2. PICK o : o = Put(p, m, t)
  OBVIOUS
<1>3. PICK u : u = Put(o, l, tl)
  OBVIOUS
<1>4. PICK v : v = Put(u, r, tr)
  OBVIOUS
<1>5. /\ o \in Documents /\ Alike(o, p) /\ TextIn(o) = TextIn(p)
      /\ \A n \in ListNames : At(o, n) = IF n = m THEN t ELSE At(p, n)
  <2>1. Placed(p, m, t, o)
    BY <1>1, <1>2 DEF Placed
  <2> QED
    BY <2>1, PlacedIs
<1>6. /\ u \in Documents /\ Alike(u, o) /\ TextIn(u) = TextIn(o)
      /\ \A n \in ListNames : At(u, n) = IF n = l THEN tl ELSE At(o, n)
  <2>1. Placed(o, l, tl, u)
    BY <1>1, <1>3, <1>5 DEF Placed
  <2> QED
    BY <2>1, PlacedIs
<1>7. /\ v \in Documents /\ Alike(v, u) /\ TextIn(v) = TextIn(u)
      /\ \A n \in ListNames : At(v, n) = IF n = r THEN tr ELSE At(u, n)
  <2>1. Placed(u, r, tr, v)
    BY <1>1, <1>4, <1>6 DEF Placed
  <2> QED
    BY <2>1, PlacedIs
<1>8. /\ v \in Documents /\ Alike(v, p) /\ TextIn(v) = TextIn(p)
      /\ At(v, m) = t /\ At(v, l) = tl /\ At(v, r) = tr
      /\ \A n \in ListNames : n \notin {l, r, m} => At(v, n) = At(p, n)
  BY <1>1, <1>5, <1>6, <1>7
<1> QED
  BY <1>1, <1>2, <1>3, <1>4, <1>8

\* A list with f in the place of what was from i up to j.
Splice(list, i, j, f) == SubSeq(list, 1, i - 1) \o f \o SubSeq(list, j, Len(list))

\* The list in which two neighbours were merged, or a layout was split.
LEMMA MergeList ==
  ASSUME NEW list \in Seq(Sections), Once(list), NEW i \in DOMAIN list, i < Len(list),
         NEW s \in Sections \ ToSet(list), NEW e \in Seq(Sections),
         ToSet(e) = {s}, Once(e), NEW t,
         t = Splice(list, i, i + 2, e)
  PROVE  /\ t \in Seq(Sections) /\ Once(t) /\ list[i] \in Sections /\ list[i + 1] \in Sections
         /\ list[i] # list[i + 1] /\ {list[i], list[i + 1]} \subseteq ToSet(list)
         /\ ToSet(t) = (ToSet(list) \ {list[i], list[i + 1]}) \cup {s}
<1> DEFINE a == SubSeq(list, 1, i - 1)
           b == SubSeq(list, i + 2, Len(list))
<1>1. /\ a \in Seq(Sections) /\ b \in Seq(Sections) /\ Once(a) /\ Once(b)
      /\ ToSet(a) \cap ToSet(b) = {} /\ list[i] # list[i + 1]
      /\ list[i] \in Sections /\ list[i + 1] \in Sections
      /\ list[i] \notin ToSet(a) \cup ToSet(b) /\ list[i + 1] \notin ToSet(a) \cup ToSet(b)
      /\ ToSet(list) = (ToSet(a) \cup ToSet(b)) \cup {list[i], list[i + 1]}
  BY CutTwo
<1>2. t = Around(a, e, b)
  BY DEF Splice, Around
<1> HIDE DEF a, b
<1>3. ToSet(e) \cap (ToSet(a) \cup ToSet(b)) = {}
  BY <1>1
<1>4. t \in Seq(Sections) /\ Once(t) /\ ToSet(t) = ToSet(a) \cup ToSet(b) \cup ToSet(e)
  <2>1. /\ a \in Seq(Sections) /\ b \in Seq(Sections) /\ Once(a) /\ Once(b)
        /\ ToSet(a) \cap ToSet(b) = {}
    BY <1>1
  <2>2. PICK u : u = Around(a, e, b)
    OBVIOUS
  <2>3. e \in Seq(Sections) /\ Once(e)
    OBVIOUS
  <2>4. u \in Seq(Sections) /\ Once(u) /\ ToSet(u) = ToSet(a) \cup ToSet(b) \cup ToSet(e)
    BY ONLY <1>3, <2>1, <2>2, <2>3, AroundIs
  <2> QED
    BY <1>2, <2>2, <2>4
<1>5. ToSet(t) = (ToSet(list) \ {list[i], list[i + 1]}) \cup {s}
  BY <1>1, <1>4
<1> QED
  BY <1>1, <1>4, <1>5

LEMMA UngroupList ==
  ASSUME NEW list \in Seq(Sections), Once(list), NEW i \in DOMAIN list,
         NEW f \in Seq(Sections), Once(f), ToSet(f) \cap ToSet(list) = {}, NEW t,
         t = Splice(list, i, i + 1, f)
  PROVE  /\ t \in Seq(Sections) /\ Once(t) /\ list[i] \in ToSet(list)
         /\ ToSet(t) = (ToSet(list) \ {list[i]}) \cup ToSet(f)
<1> DEFINE a == SubSeq(list, 1, i - 1)
           b == SubSeq(list, i + 1, Len(list))
<1>1. /\ a \in Seq(Sections) /\ b \in Seq(Sections) /\ Once(a) /\ Once(b)
      /\ ToSet(a) \cap ToSet(b) = {} /\ list[i] \in ToSet(list)
      /\ ToSet(a) \cup ToSet(b) = ToSet(list) \ {list[i]}
  <2>1. i \in 1..Len(list)
    OBVIOUS
  <2> QED
    BY <2>1, CutOut
<1>2. t = Around(a, f, b)
  BY DEF Splice, Around
<1> HIDE DEF a, b
<1>3. ToSet(f) \cap (ToSet(a) \cup ToSet(b)) = {}
  BY <1>1
<1>4. t \in Seq(Sections) /\ Once(t) /\ ToSet(t) = ToSet(a) \cup ToSet(b) \cup ToSet(f)
  BY <1>1, <1>2, <1>3, AroundIs
<1> QED
  BY <1>1, <1>4

\* What the page has after two of its sections became the columns of s.
MergeData(p, made, s, m, l, r, x, y, q) ==
  /\ made \in Nat /\ Tree(p, made) /\ s \in Sections /\ s = made + 1
  /\ m \in ListNames /\ l \in ListNames /\ r \in ListNames
  /\ l = <<s, "left">> /\ r = <<s, "right">> /\ m # l /\ m # r /\ l # r
  /\ x \in ToSet(At(p, m)) /\ y \in ToSet(At(p, m)) /\ x # y
  /\ q \in Documents /\ \A n \in ListNames : Once(At(q, n))
  /\ \A c \in Sections : TypeIn(q, c) = IF c = s THEN "two_column_layout" ELSE TypeIn(p, c)
  /\ ToSet(At(q, m)) = (ToSet(At(p, m)) \ {x, y}) \cup {s}
  /\ ToSet(At(q, l)) = {x} /\ ToSet(At(q, r)) = {y}
  /\ \A n \in ListNames : n \notin {l, r, m} => At(q, n) = At(p, n)

LEMMA MergeShape ==
  ASSUME NEW p, NEW made, NEW s, NEW m, NEW l, NEW r, NEW x, NEW y, NEW q,
         MergeData(p, made, s, m, l, r, x, y, q)
  PROVE  Tree(q, made + 1) /\ Within(q) = Within(p) \cup {s}
<1> USE DEF MergeData
<1>1. p \in Documents
  BY DEF Tree
<1>2. Within(p) \in SUBSET Sections /\ Forest(Held(p), Within(p))
  BY <1>1, HeldIs DEF Tree
<1>3. /\ s \notin Within(p) /\ TypeIn(p, s) = "none"
      /\ \A z \in {"left", "right", "children"} : At(p, <<s, z>>) = <<>>
  <2>1. s > made
    OBVIOUS
  <2> QED
    BY <2>1 DEF Tree
<1>4. \A n \in ListNames : Held(q)[n] = ToSet(At(q, n)) /\ Held(p)[n] = ToSet(At(p, n))
  BY DEF Held
<1>5. PICK L, K, W, R : L = Held(p) /\ K = Held(q) /\ W = Within(p) /\ R = L[m] \ {x, y}
  OBVIOUS
<1>6. L[l] = {} /\ L[r] = {}
  <2>1. ToSet(At(p, l)) = {} /\ ToSet(At(p, r)) = {}
    BY <1>3, NoneOf
  <2> QED
    BY <1>4, <1>5, <2>1
<1>7. L[m] = R \cup {x, y} /\ x \notin R /\ y \notin R
  <2>1. x \in L[m] /\ y \in L[m]
    BY <1>4, <1>5
  <2> QED
    BY <1>5, <2>1
<1>8. \A n \in ListNames : K[n] = IF n = l THEN {x} ELSE IF n = r THEN {y}
                                  ELSE IF n = m THEN R \cup {s} ELSE L[n]
  <2>1. K[l] = {x} /\ K[r] = {y}
    BY <1>4, <1>5
  <2>2. K[m] = R \cup {s}
    BY <1>4, <1>5
  <2>3. ASSUME NEW n \in ListNames, n \notin {l, r, m} PROVE K[n] = L[n]
    BY <1>4, <1>5, <2>3
  <2>4. ASSUME NEW n \in ListNames
        PROVE  K[n] = IF n = l THEN {x} ELSE IF n = r THEN {y}
                      ELSE IF n = m THEN R \cup {s} ELSE L[n]
    <3>1. CASE n = l
      BY <2>1, <3>1
    <3>2. CASE n = r
      BY <2>1, <3>2
    <3>3. CASE n = m
      BY <2>2, <3>3
    <3>4. CASE n \notin {l, r, m}
      BY <2>3, <3>4
    <3> QED
      BY <3>1, <3>2, <3>3, <3>4
  <2> QED
    BY <2>4
<1>9. W \in SUBSET Sections /\ Forest(L, W) /\ s \in Sections \ W
  BY <1>2, <1>3, <1>5
<1>10. Forest(K, W \cup {s})
  <2>1. Merged(L, W, m, s, x, y, R, K)
    BY <1>6, <1>7, <1>8, <1>9 DEF Merged
  <2> QED
    BY <1>9, <2>1, ForestMerge
<1>11. Forest(Held(q), Within(p) \cup {s})
  BY <1>5, <1>10
<1>12. Within(q) = Within(p) \cup {s}
  BY <1>11, HeldIs
<1>13. At(p, m) # <<>>
  BY NoneOf
<1>14. ASSUME NEW c \in Sections, TypeIn(q, c) = "two_column_layout"
       PROVE  At(q, <<c, "children">>) = <<>>
  <2>1. <<c, "children">> \in ListNames /\ <<c, "children">> # l /\ <<c, "children">> # r
    BY Names
  <2>2. At(p, <<c, "children">>) = <<>>
    BY <1>3, <1>14 DEF Tree
  <2>3. m # <<c, "children">>
    BY <1>13, <2>2
  <2> QED
    BY <2>1, <2>2, <2>3
<1>15. ASSUME NEW c \in Sections, c > made + 1
       PROVE  /\ TypeIn(q, c) = "none" /\ c \notin Within(q)
              /\ \A z \in {"left", "right", "children"} : At(q, <<c, z>>) = <<>>
  <2>1. c > made /\ c # s
    BY <1>15 DEF Sections
  <2>2. /\ TypeIn(p, c) = "none" /\ c \notin Within(p)
        /\ \A z \in {"left", "right", "children"} : At(p, <<c, z>>) = <<>>
    BY <2>1 DEF Tree
  <2>3. ASSUME NEW z \in {"left", "right", "children"} PROVE At(q, <<c, z>>) = <<>>
    <3>1. <<c, z>> \in ListNames /\ <<c, z>> # l /\ <<c, z>> # r
      BY <2>1, Names
    <3>2. PICK n \in ListNames : n = <<c, z>> /\ n # l /\ n # r
      BY <3>1
    <3>3. At(p, n) = <<>>
      BY <2>2, <3>2
    <3>4. n # m
      BY <1>13, <3>3
    <3>5. At(q, n) = <<>>
      BY <3>2, <3>3, <3>4
    <3> QED
      BY <3>2, <3>5
  <2> QED
    BY <1>12, <2>1, <2>2, <2>3
<1> QED
  BY <1>11, <1>12, <1>14, <1>15 DEF Tree

\* What the page has after the columns of s took the place of s.
UngroupData(p, made, s, m, l, r, q) ==
  /\ made \in Nat /\ Tree(p, made) /\ s \in Sections
  /\ m \in ListNames /\ l \in ListNames /\ r \in ListNames
  /\ l = <<s, "left">> /\ r = <<s, "right">> /\ m # l /\ m # r /\ l # r
  /\ s \in ToSet(At(p, m)) /\ TypeIn(p, s) = "two_column_layout"
  /\ q \in Documents /\ \A n \in ListNames : Once(At(q, n))
  /\ \A c \in Sections : TypeIn(q, c) = IF c = s THEN "none" ELSE TypeIn(p, c)
  /\ ToSet(At(q, m)) = (ToSet(At(p, m)) \ {s}) \cup (ToSet(At(p, l)) \cup ToSet(At(p, r)))
  /\ At(q, l) = <<>> /\ At(q, r) = <<>>
  /\ \A n \in ListNames : n \notin {l, r, m} => At(q, n) = At(p, n)

LEMMA UngroupShape ==
  ASSUME NEW p, NEW made, NEW s, NEW m, NEW l, NEW r, NEW q,
         UngroupData(p, made, s, m, l, r, q)
  PROVE  Tree(q, made) /\ Within(q) = Within(p) \ {s}
<1> USE DEF UngroupData
<1>1. p \in Documents
  BY DEF Tree
<1>2. Within(p) \in SUBSET Sections /\ Forest(Held(p), Within(p))
  BY <1>1, HeldIs DEF Tree
<1>3. At(p, <<s, "children">>) = <<>>
  BY DEF Tree
<1>4. \A n \in ListNames : Held(q)[n] = ToSet(At(q, n)) /\ Held(p)[n] = ToSet(At(p, n))
  BY DEF Held
<1>5. PICK L, K, W, R : L = Held(p) /\ K = Held(q) /\ W = Within(p) /\ R = L[m] \ {s}
  OBVIOUS
<1>6. L[<<s, "children">>] = {}
  <2>1. <<s, "children">> \in ListNames
    BY Names
  <2> QED
    BY <1>3, <1>4, <1>5, <2>1, NoneOf
<1>7. L[m] = R \cup {s} /\ s \notin R
  BY <1>4, <1>5
<1>8. \A n \in ListNames : K[n] = IF n \in {l, r} THEN {}
                                  ELSE IF n = m THEN R \cup L[l] \cup L[r] ELSE L[n]
  <2>1. K[l] = {} /\ K[r] = {}
    BY <1>4, <1>5, NoneOf
  <2>2. K[m] = R \cup L[l] \cup L[r]
    BY <1>4, <1>5
  <2>3. ASSUME NEW n \in ListNames, n \notin {l, r, m} PROVE K[n] = L[n]
    BY <1>4, <1>5, <2>3
  <2>4. ASSUME NEW n \in ListNames
        PROVE  K[n] = IF n \in {l, r} THEN {}
                      ELSE IF n = m THEN R \cup L[l] \cup L[r] ELSE L[n]
    <3>1. CASE n \in {l, r}
      BY <2>1, <3>1
    <3>2. CASE n = m
      BY <2>2, <3>2
    <3>3. CASE n \notin {l, r, m}
      BY <2>3, <3>3
    <3> QED
      BY <3>1, <3>2, <3>3
  <2> QED
    BY <2>4
<1>9. W \in SUBSET Sections /\ Forest(L, W)
  BY <1>2, <1>5
<1>10. Forest(K, W \ {s})
  <2>1. Ungrouped(L, W, m, s, R, K)
    BY <1>6, <1>7, <1>8, <1>9 DEF Ungrouped
  <2> QED
    BY <1>9, <2>1, ForestUngroup
<1>11. Forest(Held(q), Within(p) \ {s})
  BY <1>5, <1>10
<1>12. Within(q) = Within(p) \ {s}
  BY <1>11, HeldIs
<1>13. At(p, m) # <<>> /\ s \in Within(p)
  BY <1>2, <1>4, AllFound, NoneOf
<1>14. ASSUME NEW c \in Sections, TypeIn(q, c) = "two_column_layout"
       PROVE  At(q, <<c, "children">>) = <<>>
  <2>1. <<c, "children">> \in ListNames /\ <<c, "children">> # l /\ <<c, "children">> # r
    BY Names
  <2>2. At(p, <<c, "children">>) = <<>>
    BY <1>14 DEF Tree
  <2>3. m # <<c, "children">>
    BY <1>13, <2>2
  <2> QED
    BY <2>1, <2>2, <2>3
<1>15. ASSUME NEW c \in Sections, c > made
       PROVE  /\ TypeIn(q, c) = "none" /\ c \notin Within(q)
              /\ \A z \in {"left", "right", "children"} : At(q, <<c, z>>) = <<>>
  <2>1. /\ TypeIn(p, c) = "none" /\ c \notin Within(p)
        /\ \A z \in {"left", "right", "children"} : At(p, <<c, z>>) = <<>>
    BY <1>15 DEF Tree
  <2>2. c # s
    BY <1>13, <2>1
  <2>3. ASSUME NEW z \in {"left", "right", "children"} PROVE At(q, <<c, z>>) = <<>>
    <3>1. <<c, z>> \in ListNames /\ <<c, z>> # l /\ <<c, z>> # r
      BY <2>2, Names
    <3>2. PICK n \in ListNames : n = <<c, z>> /\ n # l /\ n # r
      BY <3>1
    <3>3. At(p, n) = <<>>
      BY <2>1, <3>2
    <3>4. n # m
      BY <1>13, <3>3
    <3>5. At(q, n) = <<>>
      BY <3>2, <3>3, <3>4
    <3> QED
      BY <3>2, <3>5
  <2> QED
    BY <1>12, <2>1, <2>2, <2>3
<1> QED
  BY <1>11, <1>12, <1>14, <1>15 DEF Tree

\* The page after HandleMergeWithNext, and after HandleUngroup.
MergedPage(p, m, i, s) ==
  Retype(Put(Put(Put(p, m, Splice(At(p, m), i, i + 2, <<s>>)),
                 <<s, "left">>, <<At(p, m)[i]>>),
             <<s, "right">>, <<At(p, m)[i + 1]>>),
         s, "two_column_layout")
UngroupedPage(p, m, i, s) ==
  Retext(Retype(Put(Put(Put(p, m, Splice(At(p, m), i, i + 1, Flattened(p, s))),
                        <<s, "left">>, <<>>), <<s, "right">>, <<>>), s, "none"),
         s, 0)

\* HandleMergeWithNext and HandleUngroup leave a tree.
LEMMA MergeTree ==
  ASSUME NEW p, NEW made \in Nat, Tree(p, made), NEW s \in Sections, s = made + 1,
         NEW m \in ListNames, NEW i \in DOMAIN At(p, m), i < Len(At(p, m)), NEW q,
         q = MergedPage(p, m, i, s)
  PROVE  Tree(q, made + 1) /\ Within(q) = Within(p) \cup {s} /\ TextIn(q) = TextIn(p)
<1> USE DEF Alike
<1>1. p \in Documents /\ \A n \in ListNames : Once(At(p, n)) /\ At(p, n) \in Seq(Sections)
  BY HeldIs DEF Tree
<1>2. PICK l, r : l = <<s, "left">> /\ r = <<s, "right">>
  OBVIOUS
<1>3. l \in ListNames /\ r \in ListNames /\ l # r
  BY <1>2, Names
<1>4. /\ s \notin Within(p) /\ \A z \in {"left", "right", "children"} : At(p, <<s, z>>) = <<>>
  <2>1. s > made
    OBVIOUS
  <2> QED
    BY <2>1 DEF Tree
<1>5. m # l /\ m # r
  <2>1. At(p, m) # <<>>
    BY <1>1
  <2> QED
    BY <1>2, <1>4, <2>1
<1>6. s \notin ToSet(At(p, m))
  <2>1. Forest(Held(p), Within(p)) /\ Held(p)[m] = ToSet(At(p, m))
    BY DEF Tree, Held
  <2> QED
    BY <1>4, <2>1, AllFound
<1>7. PICK list \in Seq(Sections) : /\ list = At(p, m) /\ Once(list) /\ i \in DOMAIN list
                                    /\ i < Len(list) /\ s \in Sections \ ToSet(list)
  BY <1>1, <1>6
<1>8. PICK e : e = <<s>>
  OBVIOUS
<1>9. e \in Seq(Sections) /\ ToSet(e) = {s} /\ Once(e)
  BY <1>8, OneOf
<1>10. PICK t : t = Splice(list, i, i + 2, e)
  OBVIOUS
<1>11. PICK x, y : x = list[i] /\ y = list[i + 1]
  OBVIOUS
<1>12. /\ t \in Seq(Sections) /\ Once(t) /\ x \in Sections /\ y \in Sections
       /\ x # y /\ x \in ToSet(list) /\ y \in ToSet(list)
       /\ ToSet(t) = (ToSet(list) \ {x, y}) \cup {s}
  BY <1>7, <1>9, <1>10, <1>11, MergeList
<1>13. PICK ex, ey : ex = <<x>> /\ ey = <<y>>
  OBVIOUS
<1>14. /\ ex \in Seq(Sections) /\ ToSet(ex) = {x} /\ Once(ex)
       /\ ey \in Seq(Sections) /\ ToSet(ey) = {y} /\ Once(ey)
  BY <1>12, <1>13, OneOf
<1>15. PICK v : v = Put(Put(Put(p, m, t), l, ex), r, ey)
  OBVIOUS
<1>16. /\ v \in Documents /\ Alike(v, p) /\ TextIn(v) = TextIn(p)
       /\ At(v, m) = t /\ At(v, l) = ex /\ At(v, r) = ey
       /\ \A n \in ListNames : n \notin {l, r, m} => At(v, n) = At(p, n)
  <2>1. ThreePut(p, m, t, l, ex, r, ey, v)
    BY <1>1, <1>3, <1>5, <1>12, <1>14, <1>15 DEF ThreePut
  <2> QED
    BY <2>1, PutThree
<1>17. q = Retype(v, s, "two_column_layout")
  BY <1>2, <1>7, <1>8, <1>10, <1>11, <1>13, <1>15 DEF MergedPage
<1>18. /\ q \in Documents /\ TextIn(q) = TextIn(p)
       /\ \A c \in Sections : TypeIn(q, c) = IF c = s THEN "two_column_layout" ELSE TypeIn(p, c)
       /\ \A n \in ListNames : At(q, n) = At(v, n)
  <2>1. "two_column_layout" \in SectionTypes
    BY DEF SectionTypes, Containers
  <2>2. Retyped(v, s, "two_column_layout", q)
    BY <1>16, <1>17, <2>1 DEF Retyped
  <2>3. /\ q \in Documents /\ TextIn(q) = TextIn(v)
        /\ \A c \in Sections : TypeIn(q, c) = IF c = s THEN "two_column_layout" ELSE TypeIn(v, c)
        /\ \A n \in ListNames : At(q, n) = At(v, n)
    BY <2>2, RetypedIs
  <2> QED
    BY <1>16, <2>3
<1>19. \A n \in ListNames : Once(At(q, n))
  BY <1>1, <1>12, <1>14, <1>16, <1>18
<1>20. /\ ToSet(At(q, m)) = (ToSet(At(p, m)) \ {x, y}) \cup {s}
       /\ ToSet(At(q, l)) = {x} /\ ToSet(At(q, r)) = {y}
       /\ \A n \in ListNames : n \notin {l, r, m} => At(q, n) = At(p, n)
  BY <1>3, <1>7, <1>12, <1>14, <1>16, <1>18
<1>21. Tree(q, made + 1) /\ Within(q) = Within(p) \cup {s}
  <2>1. x \in ToSet(At(p, m)) /\ y \in ToSet(At(p, m)) /\ x # y
    BY <1>7, <1>12
  <2>2. MergeData(p, made, s, m, l, r, x, y, q)
    BY <1>2, <1>3, <1>5, <1>18, <1>19, <1>20, <2>1 DEF MergeData
  <2> QED
    BY <2>2, MergeShape
<1> QED
  BY <1>18, <1>21

LEMMA UngroupTree ==
  ASSUME NEW p, NEW made \in Nat, Tree(p, made),
         NEW m \in ListNames, NEW i \in DOMAIN At(p, m), NEW s, s = At(p, m)[i],
         TypeIn(p, s) = "two_column_layout", NEW q,
         q = UngroupedPage(p, m, i, s)
  PROVE  Tree(q, made) /\ Within(q) = Within(p) \ {s} /\ TextIn(q) = Rewritten(TextIn(p), s, 0)
<1> USE DEF Alike
<1>1. p \in Documents /\ \A n \in ListNames : Once(At(p, n)) /\ At(p, n) \in Seq(Sections)
  BY HeldIs DEF Tree
<1>2. PICK list \in Seq(Sections) : /\ list = At(p, m) /\ Once(list) /\ i \in DOMAIN list
                                    /\ s = list[i] /\ s \in Sections /\ s \in ToSet(list)
  <2>1. s \in ToSet(At(p, m))
    BY DEF ToSet
  <2>2. ToSet(At(p, m)) \subseteq Sections
    BY <1>1, SetOf
  <2> QED
    BY <1>1, <2>1, <2>2
<1>3. PICK l, r : l = <<s, "left">> /\ r = <<s, "right">>
  OBVIOUS
<1>4. l \in ListNames /\ r \in ListNames /\ l # r /\ l[1] = s /\ r[1] = s
  BY <1>2, <1>3, Names
<1>5. /\ Within(p) \in SUBSET Sections /\ Forest(Held(p), Within(p))
      /\ \A n \in ListNames : Held(p)[n] = ToSet(At(p, n))
  BY <1>1, HeldIs DEF Tree
<1>6. m # l /\ m # r
  <2>1. s \in Held(p)[m]
    BY <1>2, <1>5
  <2>2. m[1] # s
    BY <1>5, <2>1, NotItself
  <2> QED
    BY <1>4, <2>2
<1>7. PICK f : f = Flattened(p, s)
  OBVIOUS
<1>8. f \in Seq(Sections) /\ Once(f) /\ ToSet(f) = ToSet(At(p, l)) \cup ToSet(At(p, r))
  <2>1. f = At(p, l) \o At(p, r)
    BY <1>3, <1>7 DEF Flattened
  <2>2. ToSet(At(p, l)) \cap ToSet(At(p, r)) = {}
    BY <1>4, <1>5 DEF Forest
  <2>3. /\ At(p, l) \in Seq(Sections) /\ At(p, r) \in Seq(Sections)
        /\ Once(At(p, l)) /\ Once(At(p, r))
    BY <1>1, <1>4
  <2> QED
    BY <2>1, <2>2, <2>3, Joined
<1>9. ToSet(f) \cap ToSet(list) = {}
  <2>1. ToSet(At(p, m)) \cap ToSet(At(p, l)) = {} /\ ToSet(At(p, m)) \cap ToSet(At(p, r)) = {}
    BY <1>4, <1>5, <1>6 DEF Forest
  <2> QED
    BY <1>2, <1>8, <2>1
<1>10. PICK t : t = Splice(list, i, i + 1, f)
  OBVIOUS
<1>11. t \in Seq(Sections) /\ Once(t) /\ ToSet(t) = (ToSet(list) \ {s}) \cup ToSet(f)
  BY <1>2, <1>8, <1>9, <1>10, UngroupList
<1>12. PICK e : e = <<>>
  OBVIOUS
<1>13. e \in Seq(Sections) /\ Once(e)
  BY <1>12, NoneOf
<1>14. PICK v : v = Put(Put(Put(p, m, t), l, e), r, e)
  OBVIOUS
<1>15. /\ v \in Documents /\ Alike(v, p) /\ TextIn(v) = TextIn(p)
       /\ At(v, m) = t /\ At(v, l) = e /\ At(v, r) = e
       /\ \A n \in ListNames : n \notin {l, r, m} => At(v, n) = At(p, n)
  <2>1. ThreePut(p, m, t, l, e, r, e, v)
    BY <1>1, <1>4, <1>6, <1>11, <1>13, <1>14 DEF ThreePut
  <2> QED
    BY <2>1, PutThree
<1>16. PICK w : w = Retype(v, s, "none")
  OBVIOUS
<1>17. /\ w \in Documents /\ TextIn(w) = TextIn(p)
       /\ \A c \in Sections : TypeIn(w, c) = IF c = s THEN "none" ELSE TypeIn(p, c)
       /\ \A n \in ListNames : At(w, n) = At(v, n)
  <2>1. "none" \in SectionTypes
    BY DEF SectionTypes
  <2>2. /\ w \in Documents /\ TextIn(w) = TextIn(v)
        /\ \A c \in Sections : TypeIn(w, c) = IF c = s THEN "none" ELSE TypeIn(v, c)
        /\ \A n \in ListNames : At(w, n) = At(v, n)
    <3>1. Retyped(v, s, "none", w)
      BY <1>2, <1>15, <1>16, <2>1 DEF Retyped
    <3> QED
      BY <3>1, RetypedIs
  <2> QED
    BY <1>15, <2>2
<1>18. q = Retext(w, s, 0)
  BY <1>2, <1>3, <1>7, <1>10, <1>12, <1>14, <1>16 DEF UngroupedPage
<1>19. /\ q \in Documents /\ TextIn(q) = Rewritten(TextIn(p), s, 0)
       /\ \A c \in Sections : TypeIn(q, c) = IF c = s THEN "none" ELSE TypeIn(p, c)
       /\ \A n \in ListNames : At(q, n) = At(v, n)
  <2>1. Retexted(w, s, 0, q)
    BY <1>2, <1>17, <1>18 DEF Retexted
  <2>2. /\ q \in Documents /\ TextIn(q) = Rewritten(TextIn(w), s, 0) /\ Alike(q, w)
        /\ \A n \in ListNames : At(q, n) = At(w, n)
    BY <2>1, RetextedIs
  <2> QED
    BY <1>17, <2>2
<1>20. \A n \in ListNames : Once(At(q, n))
  BY <1>1, <1>11, <1>13, <1>15, <1>19
<1>21. /\ ToSet(At(q, m)) = (ToSet(At(p, m)) \ {s}) \cup (ToSet(At(p, l)) \cup ToSet(At(p, r)))
       /\ At(q, l) = <<>> /\ At(q, r) = <<>>
       /\ \A n \in ListNames : n \notin {l, r, m} => At(q, n) = At(p, n)
  BY <1>2, <1>4, <1>8, <1>11, <1>12, <1>15, <1>19
<1>22. Tree(q, made) /\ Within(q) = Within(p) \ {s}
  <2>1. s \in ToSet(At(p, m))
    BY <1>2
  <2>2. UngroupData(p, made, s, m, l, r, q)
    BY <1>2, <1>3, <1>4, <1>6, <1>19, <1>20, <1>21, <2>1 DEF UngroupData
  <2> QED
    BY <2>2, UngroupShape
<1> QED
  BY <1>19, <1>22

\* The pages of DocInit are trees.
LEMMA EmptyTree == EmptyPage \in Documents /\ \A made \in Nat : Tree(EmptyPage, made)
<1>1. EmptyPage \in Documents
  <2>1. /\ [s \in Sections |-> "none"] \in [Sections -> SectionTypes]
        /\ [n \in ListNames |-> <<>>] \in [ListNames -> Seq(Sections)]
        /\ [s \in Sections |-> 0] \in [Sections -> Nat]
    BY DEF SectionTypes
  <2> QED
    BY <2>1 DEF EmptyPage, Documents
<1>2. \A n \in ListNames : At(EmptyPage, n) = <<>>
  BY DEF EmptyPage, At
<1>3. \A s \in Sections : TypeIn(EmptyPage, s) = "none"
  BY DEF EmptyPage, TypeIn
<1>4. PICK L : L = Held(EmptyPage)
  OBVIOUS
<1>5. \A n \in ListNames : L[n] = {}
  BY <1>2, <1>4, NoneOf DEF Held
<1>6. Forest(L, {})
  BY <1>5, Names DEF Forest, Rooted
<1>7. Within(EmptyPage) = {}
  BY <1>1, <1>4, <1>6, HeldIs
<1>8. \A n \in ListNames : Once(At(EmptyPage, n))
  BY <1>2, NoneOf
<1>9. \A s \in Sections, z \in {"left", "right", "children"} : At(EmptyPage, <<s, z>>) = <<>>
  BY <1>2, Names
<1> QED
  BY <1>1, <1>3, <1>4, <1>6, <1>7, <1>8, <1>9 DEF Tree

LEMMA TwoOf ==
  ASSUME NEW S, NEW a \in S, NEW b \in S, a # b
  PROVE  <<a, b>> \in Seq(S) /\ Once(<<a, b>>) /\ ToSet(<<a, b>>) = {a, b} /\ <<a, b>> # <<>>
<1>1. PICK t : t = <<a, b>>
  OBVIOUS
<1>2. t \in Seq(S) /\ DOMAIN t = {1, 2} /\ t[1] = a /\ t[2] = b /\ t # <<>>
  BY <1>1
<1>3. ToSet(t) = {a, b}
  BY <1>2 DEF ToSet
<1>4. Once(t)
  BY <1>2 DEF Once
<1> QED
  BY <1>1, <1>2, <1>3, <1>4

LEMMA GridIs ==
  /\ Grid \in Documents /\ {1, 2, 3, 4} \subseteq Sections
  /\ At(Grid, Top) = <<1, 4>> /\ At(Grid, <<1, "children">>) = <<2, 3>>
  /\ \A n \in ListNames : n # Top /\ n # <<1, "children">> => At(Grid, n) = <<>>
  /\ \A s \in Sections : TypeIn(Grid, s) # "two_column_layout"
                         /\ (s > 4 => TypeIn(Grid, s) = "none")
<1> USE DEF Alike
<1>1. {1, 2, 3, 4} \subseteq Sections
  BY PageSectionsAssumption DEF PageSectionsAssumption, Sections
<1>2. PICK c : c = <<1, "children">>
  OBVIOUS
<1>3. c \in ListNames /\ c # Top /\ Top \in ListNames
  BY <1>1, <1>2, Names
<1>4. PICK t, u : t = <<1, 4>> /\ u = <<2, 3>>
  OBVIOUS
<1>5. t \in Seq(Sections) /\ u \in Seq(Sections)
  BY <1>1, <1>4, TwoOf
<1>6. /\ EmptyPage \in Documents /\ \A n \in ListNames : At(EmptyPage, n) = <<>>
      /\ \A s \in Sections : TypeIn(EmptyPage, s) = "none"
  BY EmptyTree DEF EmptyPage, At, TypeIn
<1>7. PICK i1, i2, i3, i4, gt, ct : /\ i1 = 1 /\ i2 = 2 /\ i3 = 3 /\ i4 = 4
                                    /\ gt = "grid_container" /\ ct = "content"
  OBVIOUS
<1>8. /\ i1 \in Sections /\ i2 \in Sections /\ i3 \in Sections /\ i4 \in Sections
      /\ gt \in SectionTypes /\ ct \in SectionTypes
  BY <1>1, <1>7 DEF SectionTypes, Containers
<1>9. PICK o1 : o1 = Retype(EmptyPage, i1, gt)
  OBVIOUS
<1>10. PICK o2 : o2 = Retype(o1, i2, ct)
  OBVIOUS
<1>11. PICK o3 : o3 = Retype(o2, i3, ct)
  OBVIOUS
<1>12. PICK o4 : o4 = Retype(o3, i4, ct)
  OBVIOUS
<1>13. PICK o5 : o5 = Put(o4, Top, t)
  OBVIOUS
<1>14. PICK o6 : o6 = Put(o5, c, u)
  OBVIOUS
<1>15. /\ o1 \in Documents /\ \A n \in ListNames : At(o1, n) = At(EmptyPage, n)
       /\ \A s \in Sections : TypeIn(o1, s) = IF s = i1 THEN gt ELSE TypeIn(EmptyPage, s)
  <2>1. Retyped(EmptyPage, i1, gt, o1)
    BY <1>6, <1>9, <1>8 DEF Retyped
  <2> QED
    BY <2>1, RetypedIs
<1>16. /\ o2 \in Documents /\ \A n \in ListNames : At(o2, n) = At(o1, n)
       /\ \A s \in Sections : TypeIn(o2, s) = IF s = i2 THEN ct ELSE TypeIn(o1, s)
  <2>1. Retyped(o1, i2, ct, o2)
    BY <1>10, <1>8, <1>15 DEF Retyped
  <2> QED
    BY <2>1, RetypedIs
<1>17. /\ o3 \in Documents /\ \A n \in ListNames : At(o3, n) = At(o2, n)
       /\ \A s \in Sections : TypeIn(o3, s) = IF s = i3 THEN ct ELSE TypeIn(o2, s)
  <2>1. Retyped(o2, i3, ct, o3)
    BY <1>11, <1>8, <1>16 DEF Retyped
  <2> QED
    BY <2>1, RetypedIs
<1>18. /\ o4 \in Documents /\ \A n \in ListNames : At(o4, n) = At(o3, n)
       /\ \A s \in Sections : TypeIn(o4, s) = IF s = i4 THEN ct ELSE TypeIn(o3, s)
  <2>1. Retyped(o3, i4, ct, o4)
    BY <1>12, <1>8, <1>17 DEF Retyped
  <2> QED
    BY <2>1, RetypedIs
<1>19. /\ o5 \in Documents /\ Alike(o5, o4)
       /\ \A n \in ListNames : At(o5, n) = IF n = Top THEN t ELSE At(o4, n)
  <2>1. Placed(o4, Top, t, o5)
    BY <1>3, <1>5, <1>13, <1>18 DEF Placed
  <2> QED
    BY <2>1, PlacedIs
<1>20. /\ o6 \in Documents /\ Alike(o6, o5)
       /\ \A n \in ListNames : At(o6, n) = IF n = c THEN u ELSE At(o5, n)
  <2>1. Placed(o5, c, u, o6)
    BY <1>3, <1>5, <1>14, <1>19 DEF Placed
  <2> QED
    BY <2>1, PlacedIs
<1>21. Grid = o6
  BY <1>2, <1>4, <1>7, <1>9, <1>10, <1>11, <1>12, <1>13, <1>14 DEF Grid, Put, Retype
<1>22. /\ At(o6, Top) = t /\ At(o6, c) = u
       /\ \A n \in ListNames : n # Top /\ n # c => At(o6, n) = <<>>
  BY <1>3, <1>6, <1>15, <1>16, <1>17, <1>18, <1>19, <1>20
<1>23. \A s \in Sections : TypeIn(o6, s) = IF s = 4 \/ s = 3 \/ s = 2 THEN "content"
                                          ELSE IF s = 1 THEN "grid_container" ELSE "none"
  BY <1>6, <1>7, <1>15, <1>16, <1>17, <1>18, <1>19, <1>20
<1>24. \A s \in Sections : TypeIn(o6, s) # "two_column_layout" /\ (s > 4 => TypeIn(o6, s) = "none")
  BY <1>23
<1> QED
  BY <1>1, <1>2, <1>4, <1>20, <1>21, <1>22, <1>24

LEMMA GridTree == Tree(Grid, 4)
<1>1. PICK g, c : g = Grid /\ c = <<1, "children">>
  OBVIOUS
<1>2. /\ g \in Documents /\ {1, 2, 3, 4} \subseteq Sections
      /\ At(g, Top) = <<1, 4>> /\ At(g, c) = <<2, 3>>
      /\ \A n \in ListNames : n # Top /\ n # c => At(g, n) = <<>>
      /\ \A s \in Sections : TypeIn(g, s) # "two_column_layout"
      /\ \A s \in Sections : s > 4 => TypeIn(g, s) = "none"
  BY <1>1, GridIs
<1>3. c \in ListNames /\ c # Top /\ c[1] = 1 /\ Top \in ListNames /\ Top[1] = 0 /\ 0 \notin Sections
  BY <1>1, <1>2, Names
<1>4. /\ Once(<<1, 4>>) /\ ToSet(<<1, 4>>) = {1, 4}
      /\ Once(<<2, 3>>) /\ ToSet(<<2, 3>>) = {2, 3}
  BY <1>2, TwoOf
<1>5. \A n \in ListNames : Once(At(g, n))
  <2>1. ASSUME NEW n \in ListNames PROVE Once(At(g, n))
    <3>1. CASE n = Top
      BY <1>2, <1>4, <3>1
    <3>2. CASE n = c
      BY <1>2, <1>4, <3>2
    <3>3. CASE n # Top /\ n # c
      BY <1>2, <3>3, NoneOf
    <3> QED
      BY <3>1, <3>2, <3>3
  <2> QED
    BY <2>1
<1>6. PICK L, W : L = Held(g) /\ W = {1, 2, 3, 4}
  OBVIOUS
<1>7. /\ L[Top] = {1, 4} /\ L[c] = {2, 3}
      /\ \A n \in ListNames : n # Top /\ n # c => L[n] = {}
  BY <1>2, <1>3, <1>4, <1>6, NoneOf DEF Held
<1>8. Forest(L, W)
  <2>1. Rooted(L, W)
    BY <1>3, <1>6, <1>7 DEF Rooted
  <2>2. ASSUME NEW S, Rooted(L, S) PROVE W \subseteq S
    <3>1. {1, 4} \subseteq S
      BY <1>7, <2>2 DEF Rooted
    <3>2. {2, 3} \subseteq S
      BY <1>3, <1>7, <2>2, <3>1 DEF Rooted
    <3> QED
      BY <1>6, <3>1, <3>2
  <2>3. \A m, n \in ListNames : m # n => L[m] \cap L[n] = {}
    <3>1. {1, 4} \cap {2, 3} = {}
      OBVIOUS
    <3> QED
      BY <1>7, <3>1
  <2>4. \A n \in ListNames : L[n] # {} => n = Top \/ n[1] \in W
    BY <1>3, <1>6, <1>7
  <2> QED
    BY <2>1, <2>2, <2>3, <2>4 DEF Forest
<1>9. Within(g) = W
  BY <1>2, <1>6, <1>8, HeldIs
<1>10. ASSUME NEW s \in Sections, s > 4
       PROVE  /\ TypeIn(g, s) = "none" /\ s \notin Within(g)
              /\ \A z \in {"left", "right", "children"} : At(g, <<s, z>>) = <<>>
  <2>1. s \notin W /\ s # 1
    BY <1>6, <1>10
  <2>2. ASSUME NEW z \in {"left", "right", "children"}
        PROVE  <<s, z>> \in ListNames /\ <<s, z>>[1] = s /\ <<s, z>> # Top
    BY <1>10, Names
  <2>3. \A z \in {"left", "right", "children"} : <<s, z>> # c
    BY <1>3, <2>1, <2>2
  <2> QED
    BY <1>2, <1>9, <1>10, <2>1, <2>2, <2>3
<1>11. Tree(g, 4)
  BY <1>2, <1>5, <1>6, <1>8, <1>9, <1>10 DEF Tree
<1> QED
  BY <1>1, <1>11

\* A section of a tree has one place.
LEMMA OnePlace ==
  ASSUME NEW p, NEW made, Tree(p, made), NEW id \in Within(p)
  PROVE  Cardinality(Places(p, id)) = 1
<1>1. /\ p \in Documents /\ \A n \in ListNames : Once(At(p, n)) /\ At(p, n) \in Seq(Sections)
  BY HeldIs DEF Tree
<1>2. PICK L, W : L = Held(p) /\ W = Within(p)
  OBVIOUS
<1>3. Forest(L, W) /\ \A n \in ListNames : L[n] = ToSet(At(p, n))
  BY <1>1, <1>2, HeldIs DEF Tree
<1>4. PICK n \in ListNames : id \in L[n]
  <2>1. ASSUME \A n \in ListNames : id \notin L[n] PROVE FALSE
    <3>1. \A n \in ListNames : L[n] \subseteq W \ {id}
      BY <1>3, <2>1, AllFound
    <3>2. Rooted(L, W \ {id})
      BY <3>1, Names DEF Rooted
    <3>3. W \subseteq W \ {id}
      BY <1>3, <3>2 DEF Forest
    <3> QED
      BY <1>2, <3>3
  <2> QED
    BY <2>1
<1>5. PICK i \in DOMAIN At(p, n) : At(p, n)[i] = id
  BY <1>3, <1>4 DEF ToSet
<1>6. i \in Sections
  BY <1>1, <1>5, NotLonger
<1>7. ASSUME NEW m \in ListNames, NEW j \in Sections, j \in DOMAIN At(p, m), At(p, m)[j] = id
      PROVE  m = n /\ j = i
  <2>1. id \in L[m]
    BY <1>3, <1>7 DEF ToSet
  <2>2. m = n
    BY <1>3, <1>4, <2>1 DEF Forest
  <2> QED
    BY <1>1, <1>5, <1>7, <2>2 DEF Once
<1>8. Places(p, id) = {<<n, i>>}
  BY <1>4, <1>5, <1>6, <1>7 DEF Places
<1> QED
  BY <1>8, FS_Singleton

-------------------------------------------------------------------------------
(***************************************************************************)
(* The steps of the canvas.                                                *)
(***************************************************************************)
LEMMA CanvasInit == DocInit => CanvasInv
<1> SUFFICES ASSUME DocInit PROVE CanvasInv
  OBVIOUS
<1>1. /\ doc \in {EmptyPage, Grid} /\ sectionsMade = (IF doc = Grid THEN 4 ELSE 0)
      /\ divider = {} /\ alive = Within(doc) /\ typed = TextIn(doc) /\ late = FALSE
  BY DEF DocInit, TextIn
<1>2. sectionsMade \in 0..MaxSections
  BY <1>1, PageSectionsAssumption DEF PageSectionsAssumption
<1>3. Tree(doc, sectionsMade)
  <2>1. CASE doc = Grid
    BY <1>1, <2>1, GridTree
  <2>2. CASE doc # Grid
    BY <1>1, <2>2, EmptyTree
  <2> QED
    BY <2>1, <2>2
<1> QED
  BY <1>1, <1>2, <1>3 DEF CanvasInv

\* The page is another tree from now on, of which the seller knows what is in it.
Redone == /\ sectionsMade' \in 0..MaxSections
          /\ late' \in BOOLEAN /\ (late => late')
          /\ ~late' => /\ Tree(doc', sectionsMade') /\ alive' = Within(doc')
                       /\ typed' = TextIn(doc') /\ divider' \subseteq {doc'}

LEMMA CanvasDrag ==
  ASSUME CanvasInv, NEW name \in ListNames, NEW i \in DOMAIN At(doc, name),
         NEW j \in DOMAIN At(doc, name), HandleDragEnd(name, i, j)
  PROVE  Redone
<1>1. /\ divider = {} /\ divider' = {} /\ late' = late /\ sectionsMade' = sectionsMade
      /\ alive' = alive /\ typed' = typed
      /\ doc' = DraggedPage(doc, name, i, j)
  BY DEF HandleDragEnd, Free, DraggedPage, Put, At
<1>2. ASSUME ~late
      PROVE  Tree(doc', sectionsMade) /\ Within(doc') = Within(doc) /\ TextIn(doc') = TextIn(doc)
  <2>1. Tree(doc, sectionsMade)
    BY <1>2 DEF CanvasInv
  <2>2. PICK q : q = doc'
    OBVIOUS
  <2>3. Tree(q, sectionsMade) /\ Within(q) = Within(doc) /\ TextIn(q) = TextIn(doc)
    BY <1>1, <2>1, <2>2, DragTree
  <2> QED
    BY <2>2, <2>3
<1> QED
  BY <1>1, <1>2 DEF CanvasInv, Redone

LEMMA CanvasMerge ==
  ASSUME CanvasInv, NEW name \in ListNames, NEW i \in DOMAIN At(doc, name),
         HandleMergeWithNext(name, i)
  PROVE  Redone
<1>1. PICK s \in Sections : s = sectionsMade + 1
  BY DEF HandleMergeWithNext
<1>2. /\ divider = {} /\ divider' = {} /\ late' = late /\ sectionsMade' = s
      /\ alive' = alive \cup {s} /\ typed' = typed /\ i < Len(At(doc, name))
      /\ doc' = MergedPage(doc, name, i, s)
  BY <1>1 DEF HandleMergeWithNext, Free, MergedPage, Splice, Put, Retype, At
<1>3. ASSUME ~late
      PROVE  /\ Tree(doc', sectionsMade + 1) /\ Within(doc') = Within(doc) \cup {s}
             /\ TextIn(doc') = TextIn(doc)
  <2>1. Tree(doc, sectionsMade) /\ sectionsMade \in Nat
    BY <1>3 DEF CanvasInv
  <2>2. PICK q : q = doc'
    OBVIOUS
  <2>3. Tree(q, sectionsMade + 1) /\ Within(q) = Within(doc) \cup {s} /\ TextIn(q) = TextIn(doc)
    BY <1>1, <1>2, <2>1, <2>2, MergeTree
  <2> QED
    BY <2>2, <2>3
<1>4. s \in 0..MaxSections
  BY PageSectionsAssumption DEF PageSectionsAssumption, Sections
<1> QED
  BY <1>1, <1>2, <1>3, <1>4 DEF CanvasInv, Redone

LEMMA CanvasUngroup ==
  ASSUME CanvasInv, NEW name \in ListNames, NEW i \in DOMAIN At(doc, name),
         HandleUngroup(name, i)
  PROVE  Redone
<1>1. PICK s : s = At(doc, name)[i]
  OBVIOUS
<1>2. /\ divider = {} /\ divider' = {} /\ late' = late /\ sectionsMade' = sectionsMade
      /\ alive' = alive \ {s} /\ typed' = Rewritten(typed, s, 0)
      /\ TypeIn(doc, s) = "two_column_layout" /\ doc' = UngroupedPage(doc, name, i, s)
  BY <1>1 DEF HandleUngroup, Free, UngroupedPage, Splice, Put, Retype, Retext, At, TypeIn,
                 Rewritten
<1>3. ASSUME ~late
      PROVE  /\ Tree(doc', sectionsMade) /\ Within(doc') = Within(doc) \ {s}
             /\ TextIn(doc') = Rewritten(TextIn(doc), s, 0)
  <2>1. Tree(doc, sectionsMade) /\ sectionsMade \in Nat
    BY <1>3 DEF CanvasInv
  <2>2. PICK q : q = doc'
    OBVIOUS
  <2>3. /\ Tree(q, sectionsMade) /\ Within(q) = Within(doc) \ {s}
        /\ TextIn(q) = Rewritten(TextIn(doc), s, 0)
    BY <1>1, <1>2, <2>1, <2>2, UngroupTree
  <2> QED
    BY <2>2, <2>3
<1> QED
  BY <1>1, <1>2, <1>3 DEF CanvasInv, Redone

LEMMA CanvasAdd ==
  ASSUME CanvasInv, NEW kind \in Containers \cup {"content"}, CreateDefaultSection(kind)
  PROVE  Redone
<1>1. PICK s \in Sections : s = sectionsMade + 1
  BY DEF CreateDefaultSection
<1>2. /\ divider = {} /\ divider' = {} /\ late' = late /\ sectionsMade' = s
      /\ alive' = alive \cup {s} /\ typed' = typed
      /\ doc' = AddedPage(doc, Top, s, kind)
  BY <1>1 DEF CreateDefaultSection, Free, AddedPage, Put, Retype, At
<1>3. ASSUME ~late
      PROVE  /\ Tree(doc', sectionsMade + 1) /\ Within(doc') = Within(doc) \cup {s}
             /\ TextIn(doc') = TextIn(doc)
  <2>1. /\ Tree(doc, sectionsMade) /\ sectionsMade \in Nat /\ Top \in ListNames
        /\ kind \in SectionTypes /\ sectionsMade + 1 \in Sections
    BY <1>1, <1>3, Names DEF CanvasInv, SectionTypes
  <2>2. PICK q : q = doc'
    OBVIOUS
  <2>3. /\ Tree(q, sectionsMade + 1) /\ Within(q) = Within(doc) \cup {sectionsMade + 1}
        /\ TextIn(q) = TextIn(doc)
    BY <1>1, <1>2, <2>1, <2>2, AddTree
  <2> QED
    BY <1>1, <2>2, <2>3
<1>4. s \in 0..MaxSections
  BY PageSectionsAssumption DEF PageSectionsAssumption, Sections
<1> QED
  BY <1>1, <1>2, <1>3, <1>4 DEF CanvasInv, Redone

LEMMA CanvasPatch ==
  ASSUME CanvasInv, NEW id \in Within(doc), PatchSection(id)
  PROVE  Redone
<1>1. /\ divider = {} /\ divider' = {} /\ late' = late /\ sectionsMade' = sectionsMade
      /\ alive' = alive /\ typed' = Rewritten(typed, id, typed[id] + 1)
      /\ doc' = Retext(doc, id, TextIn(doc)[id] + 1)
  BY DEF PatchSection, Free, Rewritten, Retext, TextIn
<1>2. ASSUME ~late
      PROVE  /\ Tree(doc', sectionsMade) /\ Within(doc') = Within(doc)
             /\ TextIn(doc') = Rewritten(TextIn(doc), id, TextIn(doc)[id] + 1)
  <2>1. Tree(doc, sectionsMade) /\ doc \in Documents
    BY <1>2 DEF CanvasInv, Tree
  <2>2. PICK x : x = TextIn(doc)[id] + 1
    OBVIOUS
  <2>3. id \in Sections /\ x \in Nat
    <3>1. Within(doc) \subseteq Sections /\ TextIn(doc) \in [Sections -> Nat]
      BY <2>1, HeldIs DEF Documents, TextIn
    <3> QED
      BY <2>2, <3>1
  <2>4. PICK q : q = doc'
    OBVIOUS
  <2>5. q = Retext(doc, id, x)
    BY <1>1, <2>2, <2>4
  <2>6. /\ Tree(q, sectionsMade) /\ Within(q) = Within(doc)
        /\ TextIn(q) = Rewritten(TextIn(doc), id, x)
    BY <2>1, <2>3, <2>5, TextTree
  <2> QED
    BY <2>2, <2>4, <2>6
<1> QED
  BY <1>1, <1>2 DEF CanvasInv, Redone

LEMMA CanvasDivider ==
  ASSUME CanvasInv, (\E id \in Within(doc) : StartDrag(id)) \/ DragMove \/ DragUp
  PROVE  Redone
<1>1. /\ sectionsMade' = sectionsMade /\ alive' = alive /\ typed' = typed /\ late' = late
      /\ \/ doc' = doc /\ divider' = {doc}
         \/ doc' \in divider /\ divider' = divider
         \/ doc' = doc /\ divider' = {}
  BY DEF StartDrag, DragMove, DragUp
<1>2. ASSUME ~late PROVE doc' = doc /\ divider' \subseteq {doc}
  BY <1>1, <1>2 DEF CanvasInv
<1>3. ASSUME ~late PROVE Tree(doc', sectionsMade') /\ Within(doc') = Within(doc)
  BY <1>1, <1>2, <1>3 DEF CanvasInv
<1> QED
  BY <1>1, <1>2, <1>3 DEF CanvasInv, Redone

LEMMA CanvasLoad ==
  ASSUME CanvasInv, NEW answer \in Answers, LoadPage(answer)
  PROVE  Redone
<1>1. /\ doc' = answer /\ alive' = Within(answer) /\ typed' = TextIn(answer)
      /\ sectionsMade' = (IF answer = EmptyPage THEN sectionsMade ELSE sectionsMade + 1)
      /\ late' = (late \/ divider # {}) /\ divider' = divider
  BY DEF LoadPage, TextIn
<1>2. sectionsMade \in 0..MaxSections /\ MaxSections \in Nat /\ late \in BOOLEAN
  BY PageSectionsAssumption DEF CanvasInv, PageSectionsAssumption
<1>3. CASE answer = EmptyPage
  <2>1. Tree(answer, sectionsMade)
    BY <1>2, <1>3, EmptyTree
  <2> QED
    BY <1>1, <1>2, <1>3, <2>1 DEF Redone
<1>4. CASE answer # EmptyPage
  <2>1. PICK name \in AiPlaces : answer = AiAdds(doc, name)
    BY <1>4 DEF Answers
  <2>2. sectionsMade + 1 \in Sections /\ sectionsMade + 1 \in 0..MaxSections
    BY <1>2, <2>1 DEF AiPlaces, Sections
  <2>3. /\ name \in ListNames
        /\ name = Top \/ (name[1] \in Within(doc) /\ TypeIn(doc, name[1]) # "two_column_layout")
    BY <2>1 DEF AiPlaces, TypeIn
  <2>4. ASSUME ~late PROVE Tree(answer, sectionsMade + 1)
    <3>1. Tree(doc, sectionsMade) /\ sectionsMade \in Nat /\ "content" \in SectionTypes
      BY <1>2, <2>4 DEF CanvasInv, SectionTypes
    <3>2. answer = AddedPage(doc, name, sectionsMade + 1, "content")
      BY <2>1 DEF AiAdds, AddedPage, Put, Retype, At
    <3> QED
      BY <2>2, <2>3, <3>1, <3>2, AddTree
  <2> QED
    BY <1>1, <1>2, <1>4, <2>2, <2>4 DEF Redone
<1> QED
  BY <1>3, <1>4

LEMMA CanvasStep == CanvasInv /\ [DocNext]_docVars => CanvasInv'
<1> SUFFICES ASSUME CanvasInv, [DocNext]_docVars PROVE CanvasInv'
  OBVIOUS
<1>1. ASSUME NEW name \in ListNames, DraggableSectionList(name) PROVE Redone
  BY <1>1, CanvasDrag, CanvasMerge, CanvasUngroup DEF DraggableSectionList
<1>2. ASSUME NEW kind \in Containers \cup {"content"}, CreateDefaultSection(kind) PROVE Redone
  BY <1>2, CanvasAdd
<1>3. ASSUME NEW id \in Within(doc), PatchSection(id) PROVE Redone
  BY <1>3, CanvasPatch
<1>4. ASSUME (\E id \in Within(doc) : StartDrag(id)) \/ DragMove \/ DragUp PROVE Redone
  BY <1>4, CanvasDivider
<1>5. ASSUME NEW answer \in Answers, LoadPage(answer) PROVE Redone
  BY <1>5, CanvasLoad
<1>6. CASE DocNext
  <2>1. Redone
    BY <1>1, <1>2, <1>3, <1>4, <1>5, <1>6 DEF DocNext
  <2> QED
    BY <2>1 DEF Redone, CanvasInv
<1>7. CASE UNCHANGED docVars
  BY <1>7 DEF docVars, CanvasInv
<1> QED
  BY <1>6, <1>7

\* No section is lost on the canvas, none is shown twice, and what was typed into each
\* of them stays, however deep sections are put into each other, until a page arrives
\* while a divider is dragged
\* (DraggablePageEditor.tsx:184-217, 291-308, 368-387).
THEOREM SectionsKept == DocSpec => []NoSectionLost
<1>1. CanvasInv => NoSectionLost
  <2> SUFFICES ASSUME CanvasInv, ~late, NEW id \in alive
               PROVE  Within(doc) = alive /\ Cardinality(Places(doc, id)) = 1
                      /\ doc.text[id] = typed[id]
    BY DEF NoSectionLost, CanvasInv
  <2>1. Tree(doc, sectionsMade) /\ alive = Within(doc) /\ typed = TextIn(doc)
    BY DEF CanvasInv
  <2>2. Cardinality(Places(doc, id)) = 1
    BY <2>1, OnePlace
  <2> QED
    BY <2>1, <2>2 DEF TextIn
<1> QED
  BY <1>1, CanvasInit, CanvasStep, PTL DEF DocSpec
===============================================================================
