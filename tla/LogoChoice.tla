------------------------------ MODULE LogoChoice ------------------------------
(***************************************************************************)
(* Which of the logos the feed has for a provider the discovery page shows *)
(* on its button, and how large: H of idpselect.js.  Its inner function    *)
(* runs over the logos once for each language in turn, keeping the one     *)
(* whose shape is closest to the best ratio; here a turn is a step.        *)
(*                                                                         *)
(* The region (aB) and the default language are those of Localised.        *)
(*                                                                         *)
(* log(80/60) is the best ratio.  A logo is as far from it as the ratio    *)
(* of the two ratios, taken so that it is at least 1, is large: Distance   *)
(* is that fraction, and lengths that are not whole are fractions too.     *)
(***************************************************************************)
EXTENDS Localised

CONSTANTS
  Langs,                  \* languages of logos in the feed
  Sizes,                  \* sizes of logos: [w, h]
  MaxLogos                \* bound on the logos of a provider

ASSUME LogoAssumption ==
  /\ Sizes \subseteq [w : Nat \ {0}, h : Nat \ {0}]
  /\ MaxLogos \in Nat

minWidth == 30
minHeight == 20
maxWidth == 115
maxHeight == 69

VARIABLES
  logos,                  \* aT.Logos
  pass,                   \* which language is looked for, 5 when all were
  cursor,                 \* aV: the logo looked at next
  best,                   \* aU: the place of the best one so far, 0 for null
  chosen,                 \* aP: the place of the logo shown, 0 for null
  size                    \* [w, h, den]: its size is w/den by h/den

logoVars == <<logos, pass, cursor, best, chosen, size>>

Logo(s, l) == [lang |-> l, w |-> s.w, h |-> s.h]

LogoInit ==
  /\ \E n \in 0..MaxLogos :
       logos \in [1..n -> {Logo(s, l) : s \in Sizes, l \in Langs \cup {NoLang}}]
  /\ pass = 1 /\ cursor = 1 /\ best = 0 /\ chosen = 0
  /\ size = [w |-> 0, h |-> 0, den |-> 1]

\* The languages in the order H asks for them: S, the region, none, default.
Wanted(n) == CASE n = 2 -> region [] n = 4 -> default [] OTHER -> NoLang

Usable(l, lang) == l.lang = lang /\ l.w >= minWidth /\ l.h >= minHeight

\* Distance(l) = n/d >= 1.
Distance(l) ==
  IF 3 * l.w >= 4 * l.h THEN [n |-> 3 * l.w, d |-> 4 * l.h]
                        ELSE [n |-> 4 * l.h, d |-> 3 * l.w]

\* him > me
Closer(me, him) == Distance(him).n * Distance(me).d > Distance(me).n * Distance(him).d

\* A turn of the loop of the inner function.
Look ==
  /\ drawing = "drawn" /\ pass < 5 /\ cursor <= Len(logos)
  /\ best' = IF /\ Usable(logos[cursor], Wanted(pass))
                /\ best = 0 \/ Closer(logos[cursor], logos[best])
             THEN cursor ELSE best
  /\ cursor' = cursor + 1
  /\ UNCHANGED <<logos, pass, chosen, size>>

\* The pass is over.  The next language is tried only if none was found; the
\* region is left out if there is none.
AfterPass ==
  IF best # 0 THEN 5 ELSE IF pass = 1 /\ region = NoLang THEN 3 ELSE pass + 1

EndPass ==
  /\ drawing = "drawn" /\ pass < 5 /\ cursor > Len(logos)
  /\ pass' = AfterPass
  /\ chosen' = IF best # 0 THEN best ELSE chosen
  /\ best' = 0 /\ cursor' = 1
  /\ UNCHANGED <<logos, size>>

\* The width is cut first, then the height, each taking the other along.
Whole(l) == [w |-> l.w, h |-> l.h, den |-> 1]
\* Slip: the width is cut and the height left as it is.
CutWidthAlone(s) ==
  IF s.w > maxWidth * s.den THEN [w |-> maxWidth, h |-> s.h, den |-> 1] ELSE s
CutWidth(s) ==
  IF s.w > maxWidth * s.den
  THEN [w |-> maxWidth * s.w, h |-> maxWidth * s.h, den |-> s.w] ELSE s
CutHeight(s) ==
  IF s.h > maxHeight * s.den
  THEN [w |-> maxHeight * s.w, h |-> maxHeight * s.h, den |-> s.h] ELSE s

\* The logo is drawn; without one the provider has none or the default logo.
Draw ==
  /\ pass = 5 /\ size.w = 0
  /\ size' = IF chosen = 0 THEN size ELSE CutHeight(CutWidth(Whole(logos[chosen])))
  /\ UNCHANGED <<logos, pass, cursor, best, chosen>>

\* The provider is drawn: nothing more happens to its logo.
LogoDrawn == pass = 5 /\ UNCHANGED logoVars

LogoNext == Look \/ EndPass \/ Draw \/ LogoDrawn

\* The page sets its language up before it draws a provider.
LogoSpec ==
  /\ LocalInit /\ LogoInit
  /\ [][ \/ SetUp /\ UNCHANGED logoVars
         \/ LogoNext /\ UNCHANGED localVars ]_<<localVars, logoVars>>

(***************************************************************************)
(* Properties.                                                             *)
(***************************************************************************)
\* The types of the variables; the cursor stays on the logos.
LogoTypeOK ==
  /\ pass \in 1..5 /\ cursor \in 1..(Len(logos) + 1)
  /\ best \in 0..Len(logos) /\ chosen \in 0..Len(logos)
  /\ best # 0 => best < cursor /\ Usable(logos[best], Wanted(pass))
  /\ chosen # 0 => pass = 5
  /\ size.w \in Nat /\ size.h \in Nat /\ size.den \in Nat \ {0}

\* How early H asks for the language of a logo, 5 for never.
Rank(l) == IF l.lang = NoLang THEN 1 ELSE IF l.lang = region THEN 2
           ELSE IF l.lang = default THEN 4 ELSE 5
UsableLogos ==
  {k \in DOMAIN logos : Usable(logos[k], logos[k].lang) /\ Rank(logos[k]) < 5}

\* The logo shown has the minimal size and is in the first of the languages
\* that has such a logo; none of that language has a shape closer to the best
\* ratio, and none before it is as close.  Only a provider without such a logo
\* in these languages has none (H).
ChoosesTheBest ==
  pass = 5 =>
    /\ chosen = 0 <=> UsableLogos = {}
    /\ chosen # 0 =>
         /\ chosen \in UsableLogos
         /\ \A k \in UsableLogos :
              /\ Rank(logos[chosen]) <= Rank(logos[k])
              /\ Rank(logos[chosen]) = Rank(logos[k]) =>
                   /\ ~Closer(logos[k], logos[chosen])
                   /\ k < chosen => Closer(logos[chosen], logos[k])

\* The logo keeps its shape, is never enlarged, lies within the box, and fills
\* one side of the box if it was cut (H).
FitsTheBox ==
  size.w # 0 =>
    /\ size.w * logos[chosen].h = size.h * logos[chosen].w
    /\ size.w <= logos[chosen].w * size.den
    /\ size.w <= maxWidth * size.den /\ size.h <= maxHeight * size.den
    /\ \/ size = Whole(logos[chosen])
       \/ size.w = maxWidth * size.den \/ size.h = maxHeight * size.den

\* Both together: what a button shows of a provider (H).
BestLogoInTheBox == ChoosesTheBest /\ FitsTheBox
===============================================================================
