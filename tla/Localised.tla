------------------------------ MODULE Localised ------------------------------
(***************************************************************************)
(* The language of the discovery page: which bundle its texts are taken    *)
(* from (m, A), and which of the names and icons the feed has for a        *)
(* provider is shown (ay, aE, ak).                                         *)
(*                                                                         *)
(* A language tag is a record of its whole and of the part before "-".     *)
(* The configuration may bring bundles of its own.  A name is its place in *)
(* the provider's list of names, whose languages are all that matters.     *)
(* The icons are looked for in the list of its logos, which is another     *)
(* one: of a logo its language matters and whether it is 16 by 16.         *)
(***************************************************************************)
EXTENDS Integers, Sequences, SequencesExt

CONSTANTS
  Tags,          \* tags a browser may report: [whole, part], part # whole
                 \* only if the tag has a "-"
  OwnBundles,    \* what langBundles of the configuration may be
  Defaults,      \* what defaultLanguage of the configuration may be
  NameLangs,     \* languages of names in the feed
  MaxNames,      \* bound on the names of a provider
  MaxIcons       \* bound on the logos of a provider, as ak sees them

\* The texts fall into three kinds: one error text, those of the automatic
\* redirect, and all others.
Keys == {"label", "badReturnString", "autoFollow"}

\* IdPSelectLanguages: the texts the bundles of the library have.
LibBundles ==
  [ l \in {"en", "de", "ja", "pt-br"} |->
      CASE l \in {"en", "de"} -> Keys
        [] l = "ja"           -> Keys \ {"badReturnString"}
        [] l = "pt-br"        -> {"label"} ]

\* The language of a name that has none; also S, which is never assigned.
NoLang == "none"

ASSUME LocalAssumption ==
  /\ \A own \in OwnBundles :
       own \in [DOMAIN own -> SUBSET Keys] /\ NoLang \notin DOMAIN own
  /\ NoLang \notin {t.whole : t \in Tags} \cup {t.part : t \in Tags} \cup Defaults
  /\ MaxNames \in Nat /\ MaxIcons \in Nat

VARIABLES
  drawing,       \* "start", "drawn" or "failed"
  tag, own, default,   \* the browser's tag, the configuration
  region,        \* aB: the part before "-", NoLang while it is undefined
  texts,         \* aa: the bundle of the browser's language, or the fallback
  fallback,      \* d: the bundle of the default language
  \* What was looked up last, the other two holding nothing.
  said,          \* a text: [key, from] with the bundle it came from
  named,         \* a name: [langs, name], 0 if none fits
  pictured       \* an icon: [icons, icon], 0 for null

looked == <<said, named, pictured>>
localVars == <<drawing, tag, own, default, region, texts, fallback, looked>>

NoBundle == [of |-> NoLang, keys |-> {}]
Nothing == [key |-> NoLang, from |-> NoLang]
Nobody == [langs |-> <<>>, name |-> 0]
NoIcon == [icons |-> <<>>, icon |-> 0]

LocalInit ==
  /\ drawing = "start"
  /\ tag \in Tags /\ own \in OwnBundles /\ default \in Defaults
  /\ region = NoLang /\ texts = NoBundle /\ fallback = NoBundle
  /\ said = Nothing /\ named = Nobody /\ pictured = NoIcon

\* The bundle of a language: the configuration's hides the library's.
Bundle(l) ==
  IF l \in DOMAIN own THEN [of |-> l, keys |-> own[l]]
  ELSE IF l \in DOMAIN LibBundles THEN [of |-> l, keys |-> LibBundles[l]]
  ELSE NoBundle

\* The whole tag is tried first, then the part before "-", if there is one.
\* Slip: the part is tried first.
BrowserBundlePart(part) ==
  IF Bundle(part) # NoBundle THEN Bundle(part) ELSE Bundle(tag.whole)

BrowserBundle(part) ==
  IF Bundle(tag.whole) # NoBundle THEN Bundle(tag.whole) ELSE Bundle(part)

Outcome(d) == IF d = NoBundle THEN "failed" ELSE "drawn"

\* The part of m about languages; without a default bundle nothing is drawn.
SetUp ==
  /\ drawing = "start"
  /\ region' = IF tag.part # tag.whole THEN tag.part ELSE NoLang
  /\ fallback' = Bundle(default)
  /\ texts' = IF BrowserBundle(region') # NoBundle THEN BrowserBundle(region')
              ELSE fallback'
  /\ drawing' = Outcome(fallback')
  /\ UNCHANGED <<tag, own, default, looked>>

\* A: the text of a key.
Source(key) ==
  IF key \in texts.keys THEN texts.of
  ELSE IF key \in fallback.keys THEN fallback.of ELSE NoLang

Say(key) ==
  /\ drawing = "drawn"
  /\ said' = [key |-> key, from |-> Source(key)]
  /\ named' = Nobody /\ pictured' = NoIcon
  /\ UNCHANGED <<drawing, tag, own, default, region, texts, fallback>>

\* The place of the first name of a language, 0 if there is none.
FirstOf(langs, l) == SelectInSeq(langs, LAMBDA x : x = l)

\* ay: S is tried, then the region if there is one, no language and the
\* default.  Slip: the first name of any of them is taken.
AyFirst(langs) == SelectInSeq(langs, LAMBDA x : x \in {NoLang, region, default})
Ay(langs) ==
  IF FirstOf(langs, NoLang) # 0 THEN FirstOf(langs, NoLang)
  ELSE IF region # NoLang /\ FirstOf(langs, region) # 0 THEN FirstOf(langs, region)
  ELSE FirstOf(langs, default)

\* aE: without a name that ay finds, the id is shown.
ShowName(langs) ==
  /\ drawing = "drawn"
  /\ named' = [langs |-> langs, name |-> Ay(langs)]
  /\ said' = Nothing /\ pictured' = NoIcon
  /\ UNCHANGED <<drawing, tag, own, default, region, texts, fallback>>

\* ak: the first logo of 16 by 16 in any of these languages.  A provider
\* without Logos has none, as one with an empty list.
Ak(icons) ==
  SelectInSeq(icons, LAMBDA x : x.small /\ x.lang \in {NoLang, region, default})

ShowIcon(icons) ==
  /\ drawing = "drawn"
  /\ pictured' = [icons |-> icons, icon |-> Ak(icons)]
  /\ said' = Nothing /\ named' = Nobody
  /\ UNCHANGED <<drawing, tag, own, default, region, texts, fallback>>

\* A page without a bundle stays empty.
NothingDrawn == drawing = "failed" /\ UNCHANGED localVars

EntryLangs == NameLangs \cup {NoLang}
NameLists == UNION {[1..n -> EntryLangs] : n \in 0..MaxNames}
IconLists ==
  UNION {[1..n -> [lang : EntryLangs, small : BOOLEAN]] : n \in 0..MaxIcons}

LocalNext ==
  \/ SetUp
  \/ \E key \in Keys : Say(key)
  \/ \E langs \in NameLists : ShowName(langs)
  \/ \E icons \in IconLists : ShowIcon(icons)
  \/ NothingDrawn

LocalSpec == LocalInit /\ [][LocalNext]_localVars

(***************************************************************************)
(* Properties.                                                             *)
(***************************************************************************)
\* The types of the variables; a page is drawn only with a fallback.
LocalTypeOK ==
  /\ drawing \in {"start", "drawn", "failed"}
  /\ tag \in Tags /\ own \in OwnBundles /\ default \in Defaults
  /\ drawing = "drawn" => fallback # NoBundle /\ texts # NoBundle
  /\ named.name \in 0..Len(named.langs)
  /\ pictured.icon \in 0..Len(pictured.icons)

\* A text is in the most specific language the browser asks for that has a
\* bundle at all; the default language stands in only for the texts this one
\* bundle lacks.  So no text is missing, although two of the library's bundles
\* lack texts and the configuration may bring incomplete ones, as long as the
\* bundle of the default language, which the configuration may replace as a
\* whole, has the text (m, A).
TextsInBrowsersLanguage ==
  LET wanted == {l \in {tag.whole, tag.part} : Bundle(l) # NoBundle}
      most   == IF tag.whole \in wanted THEN tag.whole ELSE tag.part
  IN  said # Nothing =>
        /\ said.from = NoLang => said.key \notin Bundle(default).keys
        /\ said.from # NoLang /\ wanted # {} /\ said.key \in Bundle(most).keys
             => said.from = most

\* A name without a language wins over all others; then the language of the
\* region decides, then the default, and among names of one language the
\* first.  A provider is shown by its id only if all its names are in other
\* languages (ay, aE).  An icon has to be a logo of 16 by 16 and needs one of
\* these languages, no matter which: the first such logo is taken, and there is
\* no icon, whatever the name, if there is no such logo (ak).
NameChosen ==
  LET langs == named.langs
      icons == pictured.icons
      usable == {k \in DOMAIN langs : langs[k] \in {NoLang, region, default}}
      small == {k \in DOMAIN icons :
                  icons[k].small /\ icons[k].lang \in {NoLang, region, default}}
  IN  /\ named.name = 0 <=> usable = {}
      /\ named.name # 0 =>
           /\ named.name \in usable
           /\ \A k \in usable :
                \/ langs[named.name] = NoLang
                \/ langs[k] # NoLang /\ langs[named.name] = region
                \/ langs[k] = langs[named.name]
           /\ \A k \in usable : langs[k] = langs[named.name] => named.name <= k
      /\ pictured.icon = 0 <=> small = {}
      /\ pictured.icon # 0 =>
           pictured.icon \in small /\ \A k \in small : pictured.icon <= k
=============================================================================
