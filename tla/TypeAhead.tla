------------------------------ MODULE TypeAhead ------------------------------
(***************************************************************************)
(* The search box of the identity provider discovery page: the text box,   *)
(* its drop-down (TypeAheadControl), the form around it with the hidden    *)
(* field and the submit button (function o of IdPSelectUI), and the list   *)
(* form the user may switch to (function X).  One action per event         *)
(* handler; typing is two events, the browser's edit of the text and the   *)
(* key-up that makes the control look at it.                               *)
(*                                                                         *)
(* How a text is compared with names, ids and keywords is abstracted to    *)
(* Candidates: the providers it matches, in the order of the list.  What   *)
(* is done with them (cut-off, selection, enabling) is all here.           *)
(***************************************************************************)
EXTENDS Naturals, Sequences, FiniteSets

CONSTANTS
  Idps,         \* the identity providers of the feed (elementList)
  Texts,        \* the texts the box may hold
  Empty,        \* the empty text
  Candidates,   \* [Texts -> Seq(Idps)]: the providers a text matches
  NameOf,       \* [Idps -> Texts]: the name shown for a provider
  Dash,         \* "-", the value of the hidden field and of option 0 at first
  MaxResults,   \* maxResults of the configuration
  AlwaysShow    \* alwaysShow of the configuration

ASSUME TypeAheadAssumption ==
  /\ Empty \in Texts
  /\ Candidates \in [Texts -> Seq(Idps)]
  /\ NameOf \in [Idps -> Texts]
  /\ Dash \notin Idps
  /\ MaxResults \in Nat \ {0}
  /\ AlwaysShow \in BOOLEAN

VARIABLES
  textBox,    \* textBox.value
  focused,    \* the text box has the focus
  visible,    \* the drop-down is shown
  items,      \* the entries of the drop-down (its childNodes)
  results,    \* this.results
  current,    \* dropDown.current + 1: 0 is no entry
  origin,     \* origin.value, the hidden field that is submitted
  enabled,    \* the submit button is not disabled
  tile,       \* which of the two forms is displayed
  option,     \* the value of the selected option of the list
  sent        \* the provider last handed to the history and submitted

searchVars == <<textBox, focused, visible, items, results, current, origin, enabled,
          tile, option, sent>>

search == <<items, results, current, origin, enabled, visible>>
list == <<tile, option>>

SearchInit ==
  /\ textBox = Empty /\ focused = FALSE /\ visible = FALSE
  /\ items = <<>> /\ results = <<>> /\ current = 0
  /\ origin = Dash /\ enabled = FALSE
  /\ tile = "entry" /\ option = Dash /\ sent = Dash

(***************************************************************************)
(* The helpers of the control.                                             *)
(***************************************************************************)
\* getPossible: the loop runs while the number found is at most maxResults,
\* so it returns one result more than maxResults when there are that many.
\* The slip, PossibleCut, stops at maxResults.
PossibleCut(t) ==
  SubSeq(Candidates[t], 1,
         IF Len(Candidates[t]) > MaxResults THEN MaxResults
                                            ELSE Len(Candidates[t]))

Possible(t) ==
  SubSeq(Candidates[t], 1,
         IF Len(Candidates[t]) > MaxResults THEN MaxResults + 1
                                            ELSE Len(Candidates[t]))

\* hideDrop for a drop-down without (none) or with a current entry; the slip
\* leaves the drop-down on the screen.
LeaveDrop(none) ==
  /\ enabled' = IF none THEN FALSE ELSE enabled
  /\ UNCHANGED visible

HideDrop(none) ==
  /\ visible' = FALSE
  /\ enabled' = IF none THEN FALSE ELSE enabled

Hides(t, found) ==
  \/ t = Empty
  \/ found = <<>>
  \/ ~AlwaysShow /\ MaxResults < Len(found)

\* handleChange for the text t: getPossible resets the current entry, the
\* drop-down is filled, and a single result is selected at once.
HandleChange(t) ==
  LET found == Possible(t) IN
  IF Hides(t, found)
  THEN /\ HideDrop(TRUE)
       /\ results' = <<>> /\ current' = 0
       /\ UNCHANGED <<items, origin>>
  ELSE /\ visible' = TRUE /\ results' = found /\ items' = found
       /\ enabled' = (Len(found) = 1)
       /\ current' = IF Len(found) = 1 THEN 1 ELSE 0
       /\ origin' = IF Len(found) = 1 THEN found[1] ELSE origin

\* What select, downSelect and upSelect do to make entry k the current one;
\* the slip forgets the hidden field.
HighlightOnly(k) ==
  /\ current' = k
  /\ enabled' = TRUE
  /\ UNCHANGED <<origin, items, results, visible>>

Highlight(k) ==
  /\ current' = k
  /\ enabled' = TRUE
  /\ origin' = results[k]
  /\ UNCHANGED <<items, results, visible>>

(***************************************************************************)
(* The events of the search box.                                           *)
(***************************************************************************)
Focus ==
  /\ tile = "entry" /\ ~focused
  /\ focused' = TRUE
  /\ HandleChange(textBox)
  /\ UNCHANGED <<textBox, list, sent>>

Blur ==
  /\ focused
  /\ focused' = FALSE
  /\ HideDrop(current = 0)
  /\ UNCHANGED <<textBox, items, results, current, origin, list, sent>>

\* The browser changes the text: no handler runs.
Edit(t) ==
  /\ focused
  /\ textBox' = t
  /\ UNCHANGED <<focused, search, list, sent>>

\* handleKeyUp of a key that may have changed the text.
KeyUp ==
  /\ focused
  /\ HandleChange(textBox)
  /\ UNCHANGED <<textBox, focused, list, sent>>

Escape ==
  /\ focused
  /\ textBox' = Empty
  /\ HandleChange(Empty)
  /\ UNCHANGED <<focused, list, sent>>

DownSelect ==
  /\ focused /\ results # <<>>
  /\ current < Len(results)
  /\ Highlight(current + 1)
  /\ UNCHANGED <<textBox, focused, list, sent>>

UpSelect ==
  /\ focused /\ results # <<>>
  /\ current > 1
  /\ Highlight(current - 1)
  /\ UNCHANGED <<textBox, focused, list, sent>>

\* onmouseover with an entry as target.
Hover(k) ==
  /\ visible
  /\ Highlight(k)
  /\ UNCHANGED <<textBox, focused, list, sent>>

\* onmouseover with the icon inside an entry, or the list itself, as target:
\* select finds no entry equal to it.
HoverOff ==
  /\ visible
  /\ current' = 0 /\ enabled' = FALSE
  /\ UNCHANGED <<textBox, focused, items, results, origin, visible, list, sent>>

MouseDown ==
  /\ visible /\ current # 0
  /\ textBox' = NameOf[results[current]]
  /\ UNCHANGED <<focused, search, list, sent>>

(***************************************************************************)
(* The two forms.                                                          *)
(***************************************************************************)
Submit ==
  /\ tile = "entry" /\ enabled
  /\ origin # Dash
  /\ textBox' = NameOf[origin]
  /\ sent' = origin
  /\ UNCHANGED <<focused, search, list>>

\* The link to the list: the box has lost the focus to it.  The option whose
\* value is the hidden field's becomes the selected one.
ShowList ==
  /\ tile = "entry" /\ ~focused
  /\ tile' = "list" /\ option' = origin
  /\ UNCHANGED <<textBox, focused, search, sent>>

ShowSearch ==
  /\ tile = "list"
  /\ tile' = "entry"
  /\ UNCHANGED <<textBox, focused, search, option, sent>>

PickOption(o) ==
  /\ tile = "list"
  /\ option' = o
  /\ UNCHANGED <<textBox, focused, search, tile, sent>>

SubmitList ==
  /\ tile = "list"
  /\ option # Dash
  /\ sent' = option
  /\ UNCHANGED <<textBox, focused, search, list>>

SearchNext ==
  \/ Focus \/ Blur \/ KeyUp \/ Escape \/ DownSelect \/ UpSelect
  \/ HoverOff \/ MouseDown \/ Submit \/ ShowList \/ ShowSearch \/ SubmitList
  \/ \E t \in Texts : Edit(t)
  \/ \E k \in DOMAIN items : Hover(k)
  \/ \E o \in Idps \cup {Dash} : PickOption(o)

SearchSpec == SearchInit /\ [][SearchNext]_searchVars

(***************************************************************************)
(* Properties.                                                             *)
(***************************************************************************)
\* The types of the variables; the drop-down never shows more entries than
\* getPossible can return.
SearchTypeOK ==
  /\ textBox \in Texts /\ focused \in BOOLEAN /\ visible \in BOOLEAN
  /\ items \in Seq(Idps) /\ results \in Seq(Idps)
  /\ current \in 0..Len(results)
  /\ origin \in Idps \cup {Dash} /\ enabled \in BOOLEAN
  /\ tile \in {"entry", "list"}
  /\ option \in Idps \cup {Dash} /\ sent \in Idps \cup {Dash}

\* Whatever was typed, hovered, clicked or left in whatever order, an enabled
\* submit button submits the entry that is highlighted: the hidden field never
\* lags behind the highlight while the form can be sent.
ButtonMeansHighlighted ==
  enabled => current # 0 /\ origin = results[current]

\* A drop-down on screen shows the results the keys and the mouse select
\* from, the box it belongs to has the focus, and it is never empty.
ShownAreSelectable ==
  visible => focused /\ items = results /\ results # <<>>

\* Looking at the text enables the button only when one provider and no other
\* matches it, whatever the cut-off: a cut list is never taken for a match.
EnabledOnlyIfUnique ==
  [][Focus \/ KeyUp => (enabled' => Len(Candidates[textBox]) = 1)]_searchVars

\* idpselect_config.js on maxResults: "How many results to show at once".
AtMostMaxResultsShown == visible => Len(items) <= MaxResults
=============================================================================
