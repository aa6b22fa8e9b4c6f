----------------------------- MODULE CookieCodec -----------------------------
(***************************************************************************)
(* How an entity id is kept in the _saml_idp cookie: w turns it into the   *)
(* base64 alphabet three characters at a time, av turns an entry of the    *)
(* cookie back four characters at a time.  Both are loops, one turn each   *)
(* here.                                                                   *)
(*                                                                         *)
(* A character of the id is its code, a character of the entry its place   *)
(* in the alphabet string W.  The URL encoding around both cancels out.    *)
(***************************************************************************)
EXTENDS Integers, Sequences

CONSTANTS
  Codes,     \* the character codes an entity id is made of
  MaxLen     \* bound on the length of the ids

Byte == 0..255

ASSUME CodecAssumption == Codes \subseteq Byte /\ MaxLen \in Nat

VARIABLES
  text,      \* the entity id, aV of w
  codecStage, \* "encoding", "decoding" or "read"
  at,        \* aP of w, then aO of av: characters consumed
  entry,     \* aM of w, then aP of av: the entry of the cookie
  decoded    \* aN of av

codecVars == <<text, codecStage, at, entry, decoded>>

Pad == 64
NaN == -1

\* charCodeAt, and its NaN in a bitwise expression, where it counts as 0.
CharCodeAt(s, k) == IF k <= Len(s) THEN s[k] ELSE NaN
Bits(x) == IF x = NaN THEN 0 ELSE x

\* A turn of w: four characters for the codes x, y and z.
\* Slip: a group of two is padded like a group of three.
QuadBlunt(x, y, z) ==
  << x \div 4,
     (x % 4) * 16 + Bits(y) \div 16,
     IF y = NaN THEN Pad ELSE (Bits(y) % 16) * 4 + Bits(z) \div 64,
     IF y = NaN THEN Pad ELSE Bits(z) % 64 >>

Quad(x, y, z) ==
  << x \div 4,
     (x % 4) * 16 + Bits(y) \div 16,
     IF y = NaN THEN Pad ELSE (Bits(y) % 16) * 4 + Bits(z) \div 64,
     IF y = NaN \/ z = NaN THEN Pad ELSE Bits(z) % 64 >>

\* A turn of av: one to three codes for four characters.  The shifted halves
\* have no bit in common, so that | adds them.
FirstCode(q) == q[1] * 4 + q[2] \div 16
SecondCode(q) == IF q[3] = Pad THEN <<>> ELSE <<(q[2] % 16) * 16 + q[3] \div 4>>
ThirdCode(q) == IF q[4] = Pad THEN <<>> ELSE <<(q[3] % 4) * 64 + q[4]>>

\* Slip: the low bits of the third character are not shifted far enough.
TripleFlat(q) ==
  <<FirstCode(q)>> \o SecondCode(q)
     \o (IF q[4] = Pad THEN <<>> ELSE <<(q[3] % 4) * 16 + q[4]>>)
Triple(q) == <<FirstCode(q)>> \o SecondCode(q) \o ThirdCode(q)

\* at writes only ids that are not empty.
CodecInit ==
  /\ text \in UNION {[1..n -> Codes] : n \in 1..MaxLen}
  /\ codecStage = "encoding" /\ at = 0 /\ entry = <<>> /\ decoded = <<>>

Encode ==
  /\ codecStage = "encoding" /\ at < Len(text)
  /\ entry' = entry \o Quad(text[at + 1], CharCodeAt(text, at + 2),
                            CharCodeAt(text, at + 3))
  /\ at' = at + 3
  /\ UNCHANGED <<text, codecStage, decoded>>

\* The loop of w is over; a later visit of the page finds the entry.
Store ==
  /\ codecStage = "encoding" /\ at >= Len(text)
  /\ codecStage' = "decoding" /\ at' = 0
  /\ UNCHANGED <<text, entry, decoded>>

\* The loop tests its condition at the end.
Decode ==
  /\ codecStage = "decoding"
  /\ decoded' = decoded \o Triple(SubSeq(entry, at + 1, at + 4))
  /\ at' = at + 4
  /\ codecStage' = IF at' < Len(entry) THEN "decoding" ELSE "read"
  /\ UNCHANGED <<text, entry>>

\* The entity id has been read: nothing more happens to it.
EntryRead == codecStage = "read" /\ UNCHANGED codecVars

CodecNext == Encode \/ Store \/ Decode \/ EntryRead

CodecSpec == CodecInit /\ [][CodecNext]_codecVars

(***************************************************************************)
(* Properties.                                                             *)
(***************************************************************************)
\* The types of the variables: all characters of the entry are in W, all
\* decoded ones are codes.
CodecTypeOK ==
  /\ text \in Seq(Byte) /\ Len(text) > 0
  /\ codecStage \in {"encoding", "decoding", "read"}
  /\ at \in Nat
  /\ entry \in Seq(0..Pad)
  /\ decoded \in Seq(Byte)

\* What the page reads back is the entity id it wrote, whatever its length
\* leaves for the last group (w, av).
ReadsWhatWasWritten == codecStage = "read" => decoded = text

\* An entry is the bits of the id, most significant first, six to a
\* character, filled up with zeros and then with padding to a multiple of
\* four, as every other reader of the common cookie expects (w).
BitOfText(i) == (text[i \div 8 + 1] \div 2 ^ (7 - (i % 8))) % 2
BitOfEntry(i) == (entry[i \div 6 + 1] \div 2 ^ (5 - (i % 6))) % 2

IsBase64 ==
  codecStage = "decoding" =>
    LET padding == (2 * Len(text)) % 3
        plain   == Len(entry) - padding
    IN  /\ 3 * Len(entry) = 4 * (Len(text) + padding)
        /\ \A k \in DOMAIN entry : entry[k] = Pad <=> k > plain
        /\ \A i \in 0..(6 * plain - 1) :
             BitOfEntry(i) = IF i < 8 * Len(text) THEN BitOfText(i) ELSE 0
=============================================================================
