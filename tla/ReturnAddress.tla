---------------------------- MODULE ReturnAddress ----------------------------
(***************************************************************************)
(* The return address of the discovery page (IdPSelectUI): its parameters  *)
(* are taken apart once (m) and go on with a choice in one of two ways, as *)
(* fields of the two forms (ai) or in the text of the address, in the      *)
(* links of the preferred buttons (M) and the automatic redirect (draw).   *)
(*                                                                         *)
(* A parameter is what lies between two "&": a name, a number of "=" and a *)
(* value.  Names and values are kinds of texts, told apart by what a       *)
(* decoder makes of them.                                                  *)
(***************************************************************************)
EXTENDS Naturals, Sequences, SequencesExt

CONSTANT MaxParams   \* bound of the model: the parameters of an address

ASSUME ReturnAddressAssumption == MaxParams \in Nat

VARIABLES
  address,   \* B: its query, a sequence of parameters, and its fragment
  kept,      \* aA: the parameters kept for the forms
  turn,      \* a1: the parameter the loop looks at
  parsing,   \* under way, thrown, or done
  arrived    \* by each way, the parameters the service reads, once taken

returnVars == <<address, kept, turn, parsing, arrived>>

\* Texts: one that every coding leaves alone; one with a "+"; one with a
\* percent escape that stands for "+"; one with a broken escape; and what a
\* "+" is to a service, a blank.
Raw == {"simple", "plus", "escaped", "broken"}

\* The number of "=" may be 0, when there is no value, 1 or 2.
Params == [name : {"simple", "escaped"}, equals : 0..2, value : Raw]

\* Addresses: without a query there is no "?"; the fragment has none of "?&=".
Addresses ==
  [query : BOOLEAN, params : BoundedSeq(Params, MaxParams), fragment : BOOLEAN]

\* decodeURIComponent knows nothing of "+"; a broken escape makes it throw.
DecodedURI(text) == IF text = "escaped" THEN "plus" ELSE text

\* What a service makes of a text in a query, where "+" is a blank, and of a
\* field, whose text the browser encodes so that it is read as it was.
ReadInQuery(text) ==
  CASE text = "plus" -> "blank" [] text = "escaped" -> "plus" [] OTHER -> text
ReadInForm(text) == text

(***************************************************************************)
(* m, from where it looks for the "?".                                     *)
(***************************************************************************)
ReturnInit ==
  /\ address \in {b \in Addresses : b.query \/ b.params = <<>>}
  /\ kept = <<>> /\ turn = 1
  /\ parsing = IF address.query THEN "under way" ELSE "done"
  /\ arrived = <<>>

\* A parameter is kept when it falls into two at its "=".
Splits(p) == p.equals = 1

\* The name is kept as it stands, the value decoded; the slip keeps both raw.
\* The last value of an address holds its fragment.
TakenRaw(p, last) ==
  [name |-> p.name, value |-> p.value, fragment |-> last /\ address.fragment]
Taken(p, last) ==
  [name |-> p.name, value |-> DecodedURI(p.value), fragment |-> last /\ address.fragment]

Take ==
  /\ parsing = "under way" /\ turn <= Len(address.params)
  /\ LET p == address.params[turn] IN
       IF Splits(p) /\ p.value = "broken"
       THEN parsing' = "thrown" /\ UNCHANGED <<kept, turn>>
       ELSE /\ kept' = IF Splits(p)
                       THEN Append(kept, Taken(p, turn = Len(address.params)))
                       ELSE kept
            /\ turn' = turn + 1 /\ UNCHANGED parsing
  /\ UNCHANGED <<address, arrived>>

TakenAll ==
  /\ parsing = "under way" /\ turn > Len(address.params)
  /\ parsing' = "done"
  /\ UNCHANGED <<address, kept, turn, arrived>>

(***************************************************************************)
(* The two ways on.  A service reads names and values, and splits at the   *)
(* first "=".  What follows a "#" never reaches it.                        *)
(***************************************************************************)
Choice == [name |-> "entityID", more |-> 0, value |-> "chosen", fragment |-> FALSE]

\* The fields of ai, then that of the choice; the action's query is replaced.
ByForm ==
  Append([n \in DOMAIN kept |->
            [name |-> ReadInForm(kept[n].name), more |-> 0,
             value |-> ReadInForm(kept[n].value), fragment |-> kept[n].fragment]],
         Choice)

\* The whole address with the choice behind it: behind its fragment, too.
ByLink ==
  LET read == [n \in DOMAIN address.params |->
                 LET p == address.params[n] IN
                 [name |-> ReadInQuery(p.name),
                  more |-> IF p.equals = 2 THEN 1 ELSE 0,
                  value |-> IF p.equals = 0 THEN "none" ELSE ReadInQuery(p.value),
                  fragment |-> FALSE]]
  IN  IF address.fragment THEN read ELSE Append(read, Choice)

GoOn ==
  /\ parsing = "done" /\ arrived = <<>>
  /\ arrived' = [form |-> ByForm, link |-> ByLink]
  /\ UNCHANGED <<address, kept, turn, parsing>>

\* A page that threw draws nothing.
ReturnEnded == arrived # <<>> \/ parsing = "thrown"

ReturnNext == Take \/ TakenAll \/ GoOn \/ (ReturnEnded /\ UNCHANGED returnVars)

ReturnSpec == ReturnInit /\ [][ReturnNext]_returnVars

(***************************************************************************)
(* Properties.                                                             *)
(***************************************************************************)
\* The addresses both ways understand alike: every parameter has one "=", a
\* name that needs no decoding and a value without a bare "+", and there is
\* no fragment.
Portable ==
  /\ ~address.fragment
  /\ \A n \in DOMAIN address.params :
       LET p == address.params[n] IN
       p.equals = 1 /\ p.name = "simple" /\ p.value # "plus"

\* For exactly the portable addresses the service is told the same by a
\* preferred button as by a form, the choice included (ai, M): for every
\* other one it depends on the way the provider was chosen.
WaysAgreeWhenPortable ==
  arrived # <<>> => (arrived.form = arrived.link <=> Portable)
=============================================================================
