--------------------------- MODULE TypeAhead_proofs ---------------------------
(***************************************************************************)
(* Proofs about the search box, for every feed, every set of texts and     *)
(* every cut-off.  The inductive invariant is the type invariant with the  *)
(* two safety properties: each of them needs the others, because a         *)
(* highlight reads the results and a drop-down on screen is what the       *)
(* highlight selects from.                                                 *)
(***************************************************************************)
EXTENDS TypeAhead, TLAPS

IInv == SearchTypeOK /\ ButtonMeansHighlighted /\ ShownAreSelectable

(***************************************************************************)
(* getPossible: what it returns, and that it finds a single provider only  *)
(* where there is one.                                                     *)
(***************************************************************************)
LEMMA PossibleType ==
  ASSUME NEW t \in Texts
  PROVE  /\ Candidates[t] \in Seq(Idps)
         /\ Possible(t) \in Seq(Idps)
         /\ Len(Possible(t)) \in Nat
         /\ Len(Possible(t)) = 1 => Len(Candidates[t]) = 1
<1>1. Candidates[t] \in Seq(Idps) /\ MaxResults \in Nat \ {0}
  BY TypeAheadAssumption
<1>2. Len(Candidates[t]) \in Nat
  BY <1>1
<1> DEFINE n == IF Len(Candidates[t]) > MaxResults THEN MaxResults + 1
                                                   ELSE Len(Candidates[t])
<1>3. n \in 0..Len(Candidates[t])
  BY <1>1, <1>2
<1>4. Possible(t) = SubSeq(Candidates[t], 1, n)
  BY DEF Possible
<1>5. \A k \in 1..n : Candidates[t][k] \in Idps
  BY <1>1, <1>3
<1>6. Possible(t) \in Seq(Idps) /\ Len(Possible(t)) = n
  <2> HIDE DEF n
  <2> QED BY <1>1, <1>3, <1>4, <1>5
<1>7. n = 1 => Len(Candidates[t]) = 1
  BY <1>1, <1>2
<1> QED BY <1>1, <1>3, <1>6, <1>7

(***************************************************************************)
(* The helpers: handleChange establishes what it leaves behind whatever    *)
(* was there; a highlight needs an entry to point at.                      *)
(***************************************************************************)
LEMMA EmptyResults == <<>> \in Seq(Idps) /\ 0 \in 0..Len(<<>>)
<1> QED OBVIOUS

LEMMA HandleChangeKeeps ==
  ASSUME IInv, NEW t \in Texts, HandleChange(t)
  PROVE  /\ items' \in Seq(Idps) /\ results' \in Seq(Idps)
         /\ current' \in 0..Len(results')
         /\ origin' \in Idps \cup {Dash} /\ enabled' \in BOOLEAN
         /\ visible' \in BOOLEAN
         /\ enabled' => current' # 0 /\ origin' = results'[current']
         /\ enabled' => Len(Candidates[t]) = 1
         /\ visible' => items' = results' /\ results' # <<>>
<1> DEFINE found == Possible(t)
<1>1. /\ found \in Seq(Idps) /\ Len(found) \in Nat
      /\ Len(found) = 1 => Len(Candidates[t]) = 1
  BY PossibleType
<1>2. CASE Hides(t, found)
  <2>1. /\ visible' = FALSE /\ enabled' = FALSE
        /\ results' = <<>> /\ current' = 0
        /\ items' = items /\ origin' = origin
    BY <1>2 DEF HandleChange, HideDrop
  <2>2. items' \in Seq(Idps) /\ origin' \in Idps \cup {Dash}
    BY <2>1 DEF IInv, SearchTypeOK
  <2>3. results' \in Seq(Idps) /\ current' \in 0..Len(results')
    BY <2>1, EmptyResults
  <2>4. enabled' \in BOOLEAN /\ visible' \in BOOLEAN /\ ~enabled' /\ ~visible'
    BY <2>1
  <2> QED BY <2>2, <2>3, <2>4
<1>3. CASE ~Hides(t, found)
  <2> HIDE DEF found
  <2>1. /\ visible' = TRUE /\ results' = found /\ items' = found
        /\ enabled' = (Len(found) = 1)
        /\ current' = IF Len(found) = 1 THEN 1 ELSE 0
        /\ origin' = IF Len(found) = 1 THEN found[1] ELSE origin
    BY <1>3 DEF HandleChange, found
  <2>2. found # <<>>
    BY <1>3 DEF Hides
  <2>3. CASE Len(found) = 1
    <3>1. found[1] \in Idps
      BY <1>1, <2>3
    <3>2. enabled' = TRUE /\ current' = 1 /\ origin' = found[1]
      BY <2>1, <2>3
    <3> QED BY <1>1, <2>1, <2>2, <2>3, <3>1, <3>2
  <2>4. CASE Len(found) # 1
    <3>1. enabled' = FALSE /\ current' = 0 /\ origin' = origin
      BY <2>1, <2>4
    <3>2. origin' \in Idps \cup {Dash}
      BY <3>1 DEF IInv, SearchTypeOK
    <3> QED BY <1>1, <2>1, <2>2, <3>1, <3>2
  <2> QED BY <2>3, <2>4
<1> QED BY <1>2, <1>3

LEMMA HighlightKeeps ==
  ASSUME IInv, NEW k \in 1..Len(results), Highlight(k)
  PROVE  /\ items' \in Seq(Idps) /\ results' \in Seq(Idps)
         /\ current' \in 0..Len(results')
         /\ origin' \in Idps \cup {Dash} /\ enabled' \in BOOLEAN
         /\ visible' \in BOOLEAN
         /\ enabled' => current' # 0 /\ origin' = results'[current']
         /\ visible' => visible /\ items' = items /\ results' = results
<1>1. /\ current' = k /\ enabled' = TRUE /\ origin' = results[k]
      /\ items' = items /\ results' = results /\ visible' = visible
  BY DEF Highlight
<1>2. results \in Seq(Idps) /\ items \in Seq(Idps) /\ visible \in BOOLEAN
  BY DEF IInv, SearchTypeOK
<1>3. results[k] \in Idps
  BY <1>2
<1> QED BY <1>1, <1>2, <1>3

(***************************************************************************)
(* The invariant is inductive: one step per action.                        *)
(***************************************************************************)
LEMMA InitEstablishes == SearchInit => IInv
<1> SUFFICES ASSUME SearchInit PROVE IInv
  OBVIOUS
<1>1. SearchTypeOK
  BY TypeAheadAssumption, EmptyResults DEF SearchInit, SearchTypeOK
<1> QED BY <1>1 DEF SearchInit, IInv, ButtonMeansHighlighted, ShownAreSelectable

LEMMA NextPreserves == IInv /\ [SearchNext]_searchVars => IInv'
<1> SUFFICES ASSUME IInv, [SearchNext]_searchVars PROVE IInv'
  OBVIOUS
<1> USE DEF IInv, SearchTypeOK, ButtonMeansHighlighted, ShownAreSelectable,
            search, list
<1>0. Empty \in Texts /\ NameOf \in [Idps -> Texts]
  BY TypeAheadAssumption
<1>1. CASE Focus
  <2>1. HandleChange(textBox) /\ textBox \in Texts
    BY <1>1 DEF Focus
  <2> QED BY ONLY <1>1, <2>1, IInv, HandleChangeKeeps DEF Focus
<1>2. CASE Blur
  <2>1. /\ visible' = FALSE /\ focused' = FALSE
        /\ UNCHANGED <<textBox, items, results, current, origin, list, sent>>
        /\ enabled' = IF current = 0 THEN FALSE ELSE enabled
    BY <1>2 DEF Blur, HideDrop
  <2>2. CASE current = 0
    <3>1. enabled' = FALSE
      BY <2>1, <2>2
    <3> QED BY <2>1, <3>1
  <2>3. CASE current # 0
    <3>1. enabled' = enabled
      BY <2>1, <2>3
    <3>2. enabled' \in BOOLEAN /\ (enabled' => enabled)
      BY <3>1
    <3> QED BY <2>1, <3>2
  <2> QED BY <2>2, <2>3
<1>3. CASE KeyUp
  <2>1. HandleChange(textBox) /\ textBox \in Texts
    BY <1>3 DEF KeyUp
  <2> QED BY ONLY <1>3, <2>1, IInv, HandleChangeKeeps DEF KeyUp
<1>4. CASE Escape
  <2>1. HandleChange(Empty)
    BY <1>4 DEF Escape
  <2> QED BY ONLY <1>0, <1>4, <2>1, IInv, HandleChangeKeeps DEF Escape
<1>5. CASE DownSelect
  <2>1. current + 1 \in 1..Len(results) /\ Highlight(current + 1)
    BY <1>5 DEF DownSelect
  <2> QED BY ONLY <1>5, <2>1, IInv, HighlightKeeps DEF DownSelect
<1>6. CASE UpSelect
  <2>1. current - 1 \in 1..Len(results) /\ Highlight(current - 1)
    BY <1>6 DEF UpSelect
  <2> QED BY ONLY <1>6, <2>1, IInv, HighlightKeeps DEF UpSelect
<1>7. CASE HoverOff
  <2>1. /\ current' = 0 /\ ~enabled' /\ enabled' \in BOOLEAN
        /\ visible' \in BOOLEAN /\ (visible' => visible)
        /\ UNCHANGED <<textBox, focused, items, results, origin, list, sent>>
    BY <1>7 DEF HoverOff
  <2>2. Len(results) \in Nat
    OBVIOUS
  <2> QED BY <2>1, <2>2
<1>8. CASE MouseDown
  <2>1. results[current] \in Idps
    BY <1>8 DEF MouseDown
  <2>2. textBox' \in Texts
    BY <1>0, <1>8, <2>1 DEF MouseDown
  <2> QED BY <1>8, <2>2 DEF MouseDown
<1>9. CASE Submit
  <2>1. origin \in Idps /\ textBox' \in Texts
    BY <1>0, <1>9 DEF Submit
  <2> QED BY <1>9, <2>1 DEF Submit
<1>10. CASE ShowList
  BY <1>10 DEF ShowList
<1>11. CASE ShowSearch
  BY <1>11 DEF ShowSearch
<1>12. CASE SubmitList
  BY <1>12 DEF SubmitList
<1>13. ASSUME NEW t \in Texts, Edit(t) PROVE IInv'
  BY <1>13 DEF Edit
<1>14. ASSUME NEW k \in DOMAIN items, Hover(k) PROVE IInv'
  <2>1. visible /\ items = results /\ results \in Seq(Idps) /\ Highlight(k)
    BY <1>14 DEF Hover
  <2>2. k \in 1..Len(results)
    BY <1>14, <2>1
  <2> QED BY ONLY <1>14, <2>1, <2>2, IInv, HighlightKeeps DEF Hover
<1>15. ASSUME NEW o \in Idps \cup {Dash}, PickOption(o) PROVE IInv'
  BY <1>15 DEF PickOption
<1>16. CASE UNCHANGED searchVars
  BY <1>16 DEF searchVars
<1> QED BY ONLY <1>1, <1>2, <1>3, <1>4, <1>5, <1>6, <1>7, <1>8, <1>9, <1>10,
          <1>11, <1>12, <1>13, <1>14, <1>15, <1>16, [SearchNext]_searchVars DEF SearchNext

LEMMA Inductive == SearchSpec => []IInv
<1> QED BY InitEstablishes, NextPreserves, PTL DEF SearchSpec

(***************************************************************************)
(* The theorems.                                                           *)
(***************************************************************************)
\* The variables of the search box keep their types; in particular the
\* current entry is always one of the results.
THEOREM TypeCorrect == SearchSpec => []SearchTypeOK
<1>1. IInv => SearchTypeOK
  BY DEF IInv
<1> QED BY <1>1, Inductive, PTL

\* Whatever the user does in whatever order, the form that can be submitted
\* submits the highlighted entry (doSelected, doUnselected, onsubmit).
THEOREM SubmitsTheHighlight == SearchSpec => []ButtonMeansHighlighted
<1>1. IInv => ButtonMeansHighlighted
  BY DEF IInv
<1> QED BY <1>1, Inductive, PTL

\* The entries on the screen are the results the handlers index.
THEOREM ShownIsSelectable == SearchSpec => []ShownAreSelectable
<1>1. IInv => ShownAreSelectable
  BY DEF IInv
<1> QED BY <1>1, Inductive, PTL

\* handleChange enables the button only for a text one provider matches, for
\* every positive maxResults: getPossible looks one result further.
THEOREM EnabledIsUnique == SearchSpec => EnabledOnlyIfUnique
<1> DEFINE Unique == Focus \/ KeyUp => (enabled' => Len(Candidates[textBox]) = 1)
<1>1. IInv /\ [SearchNext]_searchVars => [Unique]_searchVars
  <2> SUFFICES ASSUME IInv, Focus \/ KeyUp, enabled'
               PROVE  Len(Candidates[textBox]) = 1
    OBVIOUS
  <2>1. HandleChange(textBox) /\ textBox \in Texts
    BY DEF Focus, KeyUp, IInv, SearchTypeOK
  <2> QED BY <2>1, HandleChangeKeeps
<1>2. SearchSpec => [][Unique]_searchVars
  BY <1>1, Inductive, PTL DEF SearchSpec
<1> QED BY <1>2 DEF EnabledOnlyIfUnique
=============================================================================
