--------------------------- MODULE Discovery_proofs ---------------------------
(***************************************************************************)
(* The parts of the discovery page, each for any value of its constants:   *)
(* the codec of the cookie, the period of following, the language, the     *)
(* logos, the list made of the feed and the return address; and the page   *)
(* as the sum of them.  The history and the search box have modules of     *)
(* their own, IdpSelect_proofs and TypeAhead_proofs.                       *)
(***************************************************************************)
EXTENDS MCDiscovery, TypeAhead_proofs, IdpSelect_proofs, FiniteSetTheorems

-----------------------------------------------------------------------------
(***************************************************************************)
(* The arithmetic of one group.                                            *)
(***************************************************************************)
\* The four characters written for up to three codes lie in the alphabet, and
\* only the last two can be padding (w).
LEMMA QuadRange ==
  ASSUME NEW x \in Byte, NEW y \in Byte \cup {NaN}, NEW z \in Byte \cup {NaN},
         y = NaN => z = NaN
  PROVE  /\ Quad(x, y, z) \in Seq(0..Pad) /\ Len(Quad(x, y, z)) = 4
         /\ Quad(x, y, z)[1] \in 0..63 /\ Quad(x, y, z)[2] \in 0..63
         /\ Quad(x, y, z)[3] \in 0..Pad /\ Quad(x, y, z)[4] \in 0..Pad
         /\ Quad(x, y, z)[3] = Pad <=> y = NaN
         /\ Quad(x, y, z)[4] = Pad <=> z = NaN
<1>1. x \div 4 \in 0..63 /\ (x % 4) * 16 \in 0..48
  BY DEF Byte
<1>2. Bits(y) \in Byte /\ Bits(z) \in Byte
  BY DEF Bits, Byte
<1>3. Bits(y) \div 16 \in 0..15 /\ (Bits(y) % 16) * 4 \in 0..60
  BY <1>2 DEF Byte
<1>4. Bits(z) \div 64 \in 0..3 /\ Bits(z) % 64 \in 0..63
  BY <1>2 DEF Byte
<1> QED BY <1>1, <1>3, <1>4 DEF Quad, Pad

\* The first code of a group is read back (av after w).
LEMMA FirstReads ==
  ASSUME NEW x \in Byte, NEW y \in Byte \cup {NaN}, NEW z \in Byte \cup {NaN}
  PROVE  FirstCode(Quad(x, y, z)) = x
<1>1. Bits(y) \in Byte
  BY DEF Bits, Byte
<1>2. ((x % 4) * 16 + Bits(y) \div 16) \div 16 = x % 4
  BY <1>1 DEF Byte
<1> QED BY <1>2 DEF FirstCode, Quad, Byte

\* The second code of a group is read back, if the group has one.
LEMMA SecondReads ==
  ASSUME NEW x \in Byte, NEW y \in Byte \cup {NaN}, NEW z \in Byte \cup {NaN},
         y = NaN => z = NaN
  PROVE  SecondCode(Quad(x, y, z)) = IF y = NaN THEN <<>> ELSE <<y>>
<1>1. CASE y = NaN
  BY <1>1 DEF SecondCode, Quad
<1>2. CASE y # NaN
  <2>1. Bits(z) \in Byte /\ Bits(y) = y /\ y \in Byte
    BY <1>2 DEF Bits, Byte
  <2>2. ((x % 4) * 16 + y \div 16) % 16 = y \div 16
    BY <2>1 DEF Byte
  <2>3. ((y % 16) * 4 + Bits(z) \div 64) \div 4 = y % 16
    BY <2>1 DEF Byte
  <2>4. (y \div 16) * 16 + (y % 16) = y
    BY <2>1 DEF Byte
  <2>5. Quad(x, y, z)[3] # Pad
    BY QuadRange, <1>2
  <2> QED BY <1>2, <2>1, <2>2, <2>3, <2>4, <2>5 DEF SecondCode, Quad
<1> QED BY <1>1, <1>2

\* The third code of a group is read back, if the group has one.
LEMMA ThirdReads ==
  ASSUME NEW x \in Byte, NEW y \in Byte \cup {NaN}, NEW z \in Byte \cup {NaN},
         y = NaN => z = NaN
  PROVE  ThirdCode(Quad(x, y, z)) = IF z = NaN THEN <<>> ELSE <<z>>
<1>1. CASE z = NaN
  BY <1>1 DEF ThirdCode, Quad
<1>2. CASE z # NaN
  <2>1. y # NaN /\ Bits(z) = z /\ Bits(y) = y /\ y \in Byte /\ z \in Byte
    BY <1>2 DEF Bits, Byte
  <2>2. ((y % 16) * 4 + z \div 64) % 4 = z \div 64
    BY <2>1 DEF Byte
  <2>3. (z \div 64) * 64 + (z % 64) = z
    BY <2>1 DEF Byte
  <2>4. Quad(x, y, z)[4] # Pad
    BY QuadRange, <1>2
  <2> QED BY <1>2, <2>1, <2>2, <2>3, <2>4 DEF ThirdCode, Quad
<1> QED BY <1>1, <1>2

(***************************************************************************)
(* The invariant of the two loops: the entry so far is the groups of the   *)
(* id so far, and what is decoded so far is the beginning of the id.       *)
(***************************************************************************)
Group(g) == Quad(text[3 * g + 1], CharCodeAt(text, 3 * g + 2),
                 CharCodeAt(text, 3 * g + 3))

\* The entry holds the first n groups, and they are needed.
GroupsWritten(n) ==
  /\ Len(entry) = 4 * n
  /\ \A g \in 0..(n - 1) :
       /\ 3 * g < Len(text)
       /\ \A k \in 1..4 : entry[4 * g + k] = Group(g)[k]

\* m groups have been decoded.
Decoded(m) ==
  /\ Len(decoded) = IF 3 * m <= Len(text) THEN 3 * m ELSE Len(text)
  /\ \A i \in 1..Len(decoded) : decoded[i] = text[i]

Encoding(n) ==
  codecStage = "encoding" /\ at = 3 * n /\ GroupsWritten(n) /\ decoded = <<>>

Decoding(n, m) ==
  /\ codecStage = IF m < n THEN "decoding" ELSE "read"
  /\ at = 4 * m
  /\ n > 0 /\ Len(text) <= 3 * n
  /\ GroupsWritten(n) /\ Decoded(m)

Progress ==
  \/ \E n \in Nat : Encoding(n)
  \/ \E n \in Nat : \E m \in 0..n : Decoding(n, m)

CodecInv == CodecTypeOK /\ Progress

\* Appending one code.
LEMMA CodeAppended ==
  ASSUME NEW s \in Seq(Byte), NEW b \in Byte
  PROVE  /\ s \o <<b>> \in Seq(Byte)
         /\ Len(s \o <<b>>) = Len(s) + 1
         /\ \A i \in 1..Len(s) : (s \o <<b>>)[i] = s[i]
         /\ (s \o <<b>>)[Len(s) + 1] = b
<1>1. <<b>> \in Seq(Byte) /\ Len(<<b>>) = 1 /\ <<b>>[1] = b
  OBVIOUS
<1>2. Len(s) \in Nat
  OBVIOUS
<1>3. \A i \in 1..(Len(s) + 1) : (s \o <<b>>)[i] =
        IF i <= Len(s) THEN s[i] ELSE <<b>>[i - Len(s)]
  BY <1>1, ConcatProperties
<1>4. s \o <<b>> \in Seq(Byte) /\ Len(s \o <<b>>) = Len(s) + 1
  BY <1>1, ConcatProperties
<1> QED BY <1>1, <1>2, <1>3, <1>4

\* Every group of the id is one QuadRange and the three lemmas after it speak
\* of.
LEMMA GroupChars ==
  ASSUME text \in Seq(Byte), NEW g \in Nat, 3 * g < Len(text)
  PROVE  /\ text[3 * g + 1] \in Byte
         /\ CharCodeAt(text, 3 * g + 2) \in Byte \cup {NaN}
         /\ CharCodeAt(text, 3 * g + 3) \in Byte \cup {NaN}
         /\ CharCodeAt(text, 3 * g + 2) = NaN <=> 3 * g + 2 > Len(text)
         /\ CharCodeAt(text, 3 * g + 3) = NaN <=> 3 * g + 3 > Len(text)
         /\ 3 * g + 2 <= Len(text) => CharCodeAt(text, 3 * g + 2) = text[3 * g + 2]
         /\ 3 * g + 3 <= Len(text) => CharCodeAt(text, 3 * g + 3) = text[3 * g + 3]
<1>1. Len(text) \in Nat /\ \A i \in 1..Len(text) : text[i] \in Byte
  OBVIOUS
<1>2. 3 * g + 1 \in 1..Len(text) /\ 3 * g + 2 \in Nat /\ 3 * g + 3 \in Nat
  BY <1>1
<1>3. ASSUME NEW k \in {3 * g + 2, 3 * g + 3}
      PROVE  /\ CharCodeAt(text, k) \in Byte \cup {NaN}
             /\ CharCodeAt(text, k) = NaN <=> k > Len(text)
             /\ k <= Len(text) => CharCodeAt(text, k) = text[k]
  <2>1. ASSUME k <= Len(text) PROVE text[k] \in Byte /\ text[k] # NaN
    <3>1. k \in 1..Len(text)
      BY <1>1, <1>2, <2>1
    <3>2. text[k] \in Byte
      BY ONLY <1>1, <3>1
    <3> QED BY ONLY <3>2 DEF Byte, NaN
  <2> QED BY <2>1, <1>1 DEF CharCodeAt
<1> QED BY <1>1, <1>2, <1>3

\* One turn of av on a group w wrote appends the next codes of the id, three
\* or as many as are left.
LEMMA GroupReads ==
  ASSUME text \in Seq(Byte), NEW g \in Nat, 3 * g < Len(text),
         NEW q, q = Group(g)
  PROVE  /\ Triple(q) \in Seq(Byte)
         /\ Len(Triple(q)) = IF 3 * (g + 1) <= Len(text) THEN 3
                             ELSE Len(text) - 3 * g
         /\ \A i \in 1..Len(Triple(q)) : Triple(q)[i] = text[3 * g + i]
<1> DEFINE x == text[3 * g + 1]
           y == CharCodeAt(text, 3 * g + 2)
           z == CharCodeAt(text, 3 * g + 3)
<1>0. Len(text) \in Nat
  OBVIOUS
<1>1. x \in Byte /\ y \in Byte \cup {NaN} /\ z \in Byte \cup {NaN}
  BY GroupChars
<1>2. (y = NaN <=> 3 * g + 2 > Len(text)) /\ (z = NaN <=> 3 * g + 3 > Len(text))
  BY GroupChars
<1>3. /\ 3 * g + 2 <= Len(text) => y = text[3 * g + 2]
      /\ 3 * g + 3 <= Len(text) => z = text[3 * g + 3]
  BY GroupChars
<1>4. q = Quad(x, y, z)
  BY DEF Group
<1> HIDE DEF x, y, z
<1>5. y = NaN => z = NaN
  BY <1>0, <1>2
<1>6. Triple(q) = <<x>> \o (IF y = NaN THEN <<>> ELSE <<y>>)
                        \o (IF z = NaN THEN <<>> ELSE <<z>>)
  <2>1. FirstCode(q) = x
    BY <1>1, <1>4, FirstReads
  <2>2. SecondCode(q) = IF y = NaN THEN <<>> ELSE <<y>>
    BY <1>1, <1>4, <1>5, SecondReads
  <2>3. ThirdCode(q) = IF z = NaN THEN <<>> ELSE <<z>>
    BY <1>1, <1>4, <1>5, ThirdReads
  <2> QED BY ONLY <2>1, <2>2, <2>3 DEF Triple
<1>7. CASE y = NaN
  <2>1. Triple(q) = <<x>>
    BY <1>5, <1>6, <1>7
  <2>2. Len(text) - 3 * g = 1 /\ 3 * (g + 1) > Len(text)
    BY <1>0, <1>2, <1>7
  <2> QED BY <1>1, <2>1, <2>2 DEF x
<1>8. CASE y # NaN
  <2> DEFINE two == <<x>> \o <<y>>
  <2>1. y \in Byte /\ <<x>> \in Seq(Byte) /\ Len(<<x>>) = 1 /\ <<x>>[1] = x
    BY <1>1, <1>8
  <2>2. two \in Seq(Byte) /\ Len(two) = 2 /\ two[1] = x /\ two[2] = y
    BY <2>1, CodeAppended
  <2>3. x = text[3 * g + 1] /\ y = text[3 * g + 2]
    BY <1>0, <1>2, <1>3, <1>8 DEF x
  <2> HIDE DEF two
  <2>4. CASE z = NaN
    <3>1. Triple(q) = two
      BY <1>6, <1>8, <2>2, <2>4, ConcatEmptySeq DEF two
    <3>2. Len(text) - 3 * g = 2 /\ 3 * (g + 1) > Len(text)
      BY <1>0, <1>2, <1>8, <2>4
    <3>3. \A i \in 1..2 : i = 1 \/ i = 2
      OBVIOUS
    <3>4. Triple(q) \in Seq(Byte) /\ Len(Triple(q)) = 2
      BY <2>2, <3>1
    <3>5. \A i \in 1..2 : Triple(q)[i] = text[3 * g + i]
      BY ONLY <2>2, <2>3, <3>1, <3>3
    <3> QED BY ONLY <1>0, <3>2, <3>4, <3>5
  <2>5. CASE z # NaN
    <3>1. Triple(q) = two \o <<z>> /\ z \in Byte
      BY <1>1, <1>6, <1>8, <2>5 DEF two
    <3>2. /\ Triple(q) \in Seq(Byte) /\ Len(Triple(q)) = 3
          /\ Triple(q)[1] = x /\ Triple(q)[2] = y /\ Triple(q)[3] = z
      <4>1. /\ two \o <<z>> \in Seq(Byte) /\ Len(two \o <<z>>) = Len(two) + 1
            /\ \A i \in 1..Len(two) : (two \o <<z>>)[i] = two[i]
            /\ (two \o <<z>>)[Len(two) + 1] = z
        BY <2>2, <3>1, CodeAppended
      <4> QED BY ONLY <2>2, <3>1, <4>1
    <3>3. 3 * (g + 1) <= Len(text) /\ z = text[3 * g + 3]
      BY <1>0, <1>2, <1>3, <2>5
    <3>4. \A i \in 1..3 : i = 1 \/ i = 2 \/ i = 3
      OBVIOUS
    <3> QED BY ONLY <2>3, <3>2, <3>3, <3>4
  <2> QED BY <2>4, <2>5
<1> QED BY <1>7, <1>8

(***************************************************************************)
(* The invariant holds.                                                    *)
(***************************************************************************)
LEMMA CodecStart == CodecInit => CodecInv
<1> SUFFICES ASSUME CodecInit PROVE CodecInv
  OBVIOUS
<1>1. PICK n \in 1..MaxLen : text \in [1..n -> Codes]
  BY DEF CodecInit
<1>2. n \in Nat /\ n > 0 /\ text \in [1..n -> Byte]
  BY <1>1, CodecAssumption
<1>3. text \in Seq(Byte) /\ Len(text) > 0
  BY ONLY <1>2
<1>4. CodecTypeOK
  BY <1>3 DEF CodecInit, CodecTypeOK
<1>5. Encoding(0)
  BY DEF CodecInit, Encoding, GroupsWritten
<1> QED BY <1>4, <1>5 DEF CodecInv, Progress

\* A turn of w writes the next group.
LEMMA EncodeInv == CodecInv /\ Encode => CodecInv'
<1> SUFFICES ASSUME CodecInv, Encode PROVE CodecInv'
  OBVIOUS
<1>1. codecStage = "encoding" /\ at < Len(text) /\ text' = text /\ codecStage' = codecStage
      /\ at' = at + 3 /\ decoded' = decoded
  BY DEF Encode
<1>2. PICK n \in Nat : Encoding(n)
  BY <1>1 DEF CodecInv, Progress, Decoding
<1>3. at = 3 * n /\ GroupsWritten(n) /\ decoded = <<>> /\ 3 * n < Len(text)
  BY <1>1, <1>2 DEF Encoding
<1>4. text \in Seq(Byte) /\ entry \in Seq(0..Pad) /\ Len(text) \in Nat
  BY DEF CodecInv, CodecTypeOK
<1>5. entry' = entry \o Group(n)
  BY <1>1, <1>3, <1>4 DEF Encode, Group
<1>6. /\ text[3 * n + 1] \in Byte
      /\ CharCodeAt(text, 3 * n + 2) \in Byte \cup {NaN}
      /\ CharCodeAt(text, 3 * n + 3) \in Byte \cup {NaN}
      /\ CharCodeAt(text, 3 * n + 2) = NaN => CharCodeAt(text, 3 * n + 3) = NaN
  BY <1>3, <1>4, GroupChars
<1>7. Group(n) \in Seq(0..Pad) /\ Len(Group(n)) = 4
  BY <1>6, QuadRange DEF Group
<1>8. /\ entry' \in Seq(0..Pad) /\ Len(entry') = 4 * (n + 1)
      /\ \A i \in 1..(4 * n + 4) :
           entry'[i] = IF i <= 4 * n THEN entry[i] ELSE Group(n)[i - 4 * n]
  <2>1. Len(entry) = 4 * n
    BY <1>3 DEF GroupsWritten
  <2> HIDE DEF Group
  <2>2. /\ entry' \in Seq(0..Pad) /\ Len(entry') = Len(entry) + Len(Group(n))
        /\ \A i \in 1..(Len(entry) + Len(Group(n))) :
             entry'[i] = IF i <= Len(entry) THEN entry[i]
                         ELSE Group(n)[i - Len(entry)]
    BY <1>4, <1>5, <1>7, ConcatProperties
  <2> QED BY <1>7, <2>1, <2>2
<1>9. \A g \in Nat : Group(g)' = Group(g)
  BY <1>1 DEF Group
<1>10. GroupsWritten(n + 1)'
  <2> SUFFICES ASSUME NEW g \in 0..n
               PROVE  /\ 3 * g < Len(text)
                      /\ \A k \in 1..4 : entry'[4 * g + k] = Group(g)[k]
    BY <1>1, <1>8, <1>9 DEF GroupsWritten
  <2>1. CASE g = n
    BY <1>3, <1>8, <2>1
  <2>2. CASE g # n
    <3>1. g \in 0..(n - 1)
      BY <2>2
    <3>2. 3 * g < Len(text) /\ \A k \in 1..4 : entry[4 * g + k] = Group(g)[k]
      BY <1>3, <3>1 DEF GroupsWritten
    <3>3. \A k \in 1..4 : 4 * g + k \in 1..(4 * n) 
      BY <3>1
    <3> QED BY <1>8, <3>2, <3>3
  <2> QED BY <2>1, <2>2
<1>11. Encoding(n + 1)'
  BY <1>1, <1>3, <1>10 DEF Encoding
<1>12. CodecTypeOK'
  BY <1>1, <1>3, <1>8 DEF CodecInv, CodecTypeOK
<1> QED BY <1>11, <1>12 DEF CodecInv, Progress

\* The entry that is stored holds every group of the id.
LEMMA StoreInv == CodecInv /\ Store => CodecInv'
<1> SUFFICES ASSUME CodecInv, Store PROVE CodecInv'
  OBVIOUS
<1>1. /\ codecStage = "encoding" /\ at >= Len(text) /\ codecStage' = "decoding" /\ at' = 0
      /\ text' = text /\ entry' = entry /\ decoded' = decoded
  BY DEF Store
<1>2. PICK n \in Nat : Encoding(n)
  BY <1>1 DEF CodecInv, Progress, Decoding
<1>3. Len(text) \in Nat /\ Len(text) > 0 /\ Len(text) <= 3 * n
  BY <1>1, <1>2 DEF Encoding, CodecInv, CodecTypeOK
<1>4. n > 0 /\ GroupsWritten(n)' /\ Decoded(0)'
  <2>1. GroupsWritten(n)'
    BY <1>1, <1>2 DEF Encoding, GroupsWritten, Group
  <2>2. Decoded(0)'
    BY <1>1, <1>2, <1>3 DEF Encoding, Decoded
  <2> QED BY <1>3, <2>1, <2>2
<1>5. Decoding(n, 0)'
  BY <1>1, <1>3, <1>4 DEF Decoding
<1>6. CodecTypeOK'
  BY <1>1 DEF CodecInv, CodecTypeOK
<1>7. n \in Nat /\ 0 \in 0..n
  OBVIOUS
<1> QED BY <1>5, <1>6, <1>7 DEF CodecInv, Progress

\* A turn of av reads the next codes of the id.
LEMMA DecodeInv == CodecInv /\ Decode => CodecInv'
<1> SUFFICES ASSUME CodecInv, Decode PROVE CodecInv'
  OBVIOUS
<1>1. /\ codecStage = "decoding" /\ at' = at + 4 /\ text' = text /\ entry' = entry
      /\ decoded' = decoded \o Triple(SubSeq(entry, at + 1, at + 4))
      /\ codecStage' = IF at' < Len(entry) THEN "decoding" ELSE "read"
  BY DEF Decode
<1>2. PICK n \in Nat : \E m \in 0..n : Decoding(n, m)
  BY <1>1 DEF CodecInv, Progress, Encoding
<1>2a. PICK m \in 0..n : Decoding(n, m)
  BY <1>2
<1>3. /\ m < n /\ m \in Nat /\ at = 4 * m /\ Len(text) <= 3 * n
      /\ GroupsWritten(n) /\ Decoded(m)
  BY <1>1, <1>2a DEF Decoding
<1>4. /\ text \in Seq(Byte) /\ entry \in Seq(0..Pad) /\ decoded \in Seq(Byte)
      /\ Len(text) \in Nat /\ Len(entry) = 4 * n
  BY <1>3 DEF CodecInv, CodecTypeOK, GroupsWritten
<1>5. 3 * m < Len(text) /\ \A k \in 1..4 : entry[4 * m + k] = Group(m)[k]
  <2>1. m \in 0..(n - 1)
    BY <1>3
  <2> QED BY ONLY <1>3, <2>1 DEF GroupsWritten
<1> DEFINE q == SubSeq(entry, at + 1, at + 4)
<1>6. q = Group(m)
  <2>1. /\ q \in Seq(0..Pad) /\ Len(q) = 4
        /\ \A k \in 1..4 : q[k] = entry[4 * m + k]
    <3>1. at + 1 \in Int /\ at + 4 \in Int /\ at + 4 <= Len(entry)
      BY <1>3, <1>4
    <3> DEFINE lo == at + 1
               hi == at + 4
    <3>2. \A i \in lo..hi : entry[i] \in 0..Pad
      <4>1. \A i \in 1..Len(entry) : entry[i] \in 0..Pad
        <5>1. entry \in Seq(0..Pad)
          BY <1>4
        <5> HIDE DEF lo, hi, q
        <5> QED BY ONLY <5>1, ElementOfSeq
      <4>2. \A i \in lo..hi : i \in 1..Len(entry)
        BY <1>3, <1>4
      <4> QED BY <4>1, <4>2
    <3>3. lo \in Int /\ hi \in Int /\ hi - lo + 1 = 4 /\ lo <= hi
          /\ \A i \in 1..4 : lo + i - 1 = 4 * m + i
      BY <1>3
    <3>4. q = SubSeq(entry, lo, hi)
      OBVIOUS
    <3> HIDE DEF q, lo, hi
    <3>5. /\ SubSeq(entry, lo, hi) \in Seq(0..Pad)
          /\ Len(SubSeq(entry, lo, hi)) = IF lo <= hi THEN hi - lo + 1 ELSE 0
          /\ \A i \in 1..(hi - lo + 1) : SubSeq(entry, lo, hi)[i] = entry[lo + i - 1]
      BY ONLY <3>2, <3>3, SubSeqProperties
    <3> QED BY ONLY <3>3, <3>4, <3>5
  <2>2. Group(m) \in Seq(0..Pad) /\ Len(Group(m)) = 4
    <3>1. /\ text[3 * m + 1] \in Byte
          /\ CharCodeAt(text, 3 * m + 2) \in Byte \cup {NaN}
          /\ CharCodeAt(text, 3 * m + 3) \in Byte \cup {NaN}
          /\ CharCodeAt(text, 3 * m + 2) = NaN => CharCodeAt(text, 3 * m + 3) = NaN
      BY <1>3, <1>4, <1>5, GroupChars
    <3> QED BY <3>1, QuadRange DEF Group
  <2>3. \A k \in 1..Len(q) : q[k] = Group(m)[k]
    BY <1>5, <2>1
  <2> HIDE DEF q, Group
  <2> QED BY <2>1, <2>2, <2>3, SeqEqual
<1> HIDE DEF q
<1> DEFINE t == Triple(q)
<1>7. /\ t \in Seq(Byte)
      /\ Len(t) = IF 3 * (m + 1) <= Len(text) THEN 3 ELSE Len(text) - 3 * m
      /\ \A i \in 1..Len(t) : t[i] = text[3 * m + i]
  BY <1>3, <1>4, <1>5, <1>6, GroupReads
<1>8. decoded' = decoded \o t
  BY <1>1 DEF q
<1> HIDE DEF t
<1>8a. Len(t) \in Nat
  BY ONLY <1>7
<1>9. Len(decoded) = 3 * m /\ \A i \in 1..(3 * m) : decoded[i] = text[i]
  BY <1>3, <1>4, <1>5 DEF Decoded
<1>10. /\ decoded' \in Seq(Byte) /\ Len(decoded') = 3 * m + Len(t)
       /\ \A i \in 1..(3 * m + Len(t)) :
            decoded'[i] = IF i <= 3 * m THEN decoded[i] ELSE t[i - 3 * m]
  <2>1. /\ decoded' \in Seq(Byte) /\ Len(decoded') = Len(decoded) + Len(t)
        /\ \A i \in 1..(Len(decoded) + Len(t)) :
             decoded'[i] = IF i <= Len(decoded) THEN decoded[i]
                           ELSE t[i - Len(decoded)]
    BY <1>4, <1>7, <1>8, ConcatProperties
  <2> QED BY <1>9, <2>1
<1>11. Decoded(m + 1)'
  <2>1. Len(decoded') = IF 3 * (m + 1) <= Len(text) THEN 3 * (m + 1)
                        ELSE Len(text)
    <3>1. CASE 3 * (m + 1) <= Len(text)
      BY ONLY <1>3, <1>4, <1>7, <1>10, <3>1
    <3>2. CASE ~(3 * (m + 1) <= Len(text))
      BY ONLY <1>3, <1>4, <1>7, <1>10, <3>2
    <3> QED BY <3>1, <3>2
  <2>2. ASSUME NEW i \in 1..Len(decoded') PROVE decoded'[i] = text[i]
    <3>1. CASE i <= 3 * m
      BY <1>3, <1>9, <1>10, <3>1
    <3>2. CASE ~(i <= 3 * m)
      <4>1. Len(t) \in Nat /\ i \in 1..(3 * m + Len(t))
        BY <1>8a, <1>10
      <4>2. i - 3 * m \in 1..Len(t) /\ 3 * m + (i - 3 * m) = i
        BY <1>3, <3>2, <4>1
      <4>3. t[i - 3 * m] = text[i]
        BY <1>7, <4>2
      <4> QED BY <1>10, <3>2, <4>1, <4>3
    <3> QED BY <3>1, <3>2
  <2> QED BY <1>1, <2>1, <2>2 DEF Decoded
<1>12. GroupsWritten(n)'
  BY <1>1, <1>3 DEF GroupsWritten, Group
<1>13. codecStage' = IF m + 1 < n THEN "decoding" ELSE "read"
  BY <1>1, <1>3, <1>4
<1>14. Decoding(n, m + 1)'
  BY <1>1, <1>3, <1>11, <1>12, <1>13 DEF Decoding
<1>15. CodecTypeOK'
  BY <1>1, <1>3, <1>10, <1>13 DEF CodecInv, CodecTypeOK
<1>16. m + 1 \in 0..n
  BY <1>3
<1> QED BY <1>14, <1>15, <1>16 DEF CodecInv, Progress

LEMMA CodecStutter == CodecInv /\ UNCHANGED codecVars => CodecInv'
<1> SUFFICES ASSUME CodecInv, UNCHANGED codecVars PROVE CodecInv'
  OBVIOUS
<1>1. text' = text /\ codecStage' = codecStage /\ at' = at /\ entry' = entry
      /\ decoded' = decoded
  BY DEF codecVars
<1>2. CodecTypeOK'
  BY <1>1 DEF CodecInv, CodecTypeOK
<1>3. \A n \in Nat : GroupsWritten(n)' = GroupsWritten(n)
  BY <1>1 DEF GroupsWritten, Group
<1>4. \A m \in Nat : Decoded(m)' = Decoded(m)
  BY <1>1 DEF Decoded
<1>5. ASSUME NEW n \in Nat, Encoding(n) PROVE Progress'
  BY <1>1, <1>3, <1>5 DEF Encoding, Progress
<1>6. ASSUME NEW n \in Nat, NEW m \in 0..n, Decoding(n, m) PROVE Progress'
  BY <1>1, <1>3, <1>4, <1>6 DEF Decoding, Progress
<1> QED BY <1>2, <1>5, <1>6 DEF CodecInv, Progress

\* The invariant of both loops holds in every state.
THEOREM CodecInvariant == CodecSpec => []CodecInv
<1>1. CodecInv /\ [CodecNext]_codecVars => CodecInv'
  BY EncodeInv, StoreInv, DecodeInv, CodecStutter DEF CodecNext, EntryRead
<1> QED BY <1>1, CodecStart, PTL DEF CodecSpec

\* Every character w writes is in the alphabet, every code av reads is a byte.
THEOREM CodecTypeCorrect == CodecSpec => []CodecTypeOK
<1>1. CodecInv => CodecTypeOK
  BY DEF CodecInv
<1> QED BY <1>1, CodecInvariant, PTL

\* The id av reads from the cookie is the id w was given, for ids of any
\* length over any codes of a byte.
THEOREM ReadsBack == CodecSpec => []ReadsWhatWasWritten
<1>1. CodecInv => ReadsWhatWasWritten
  <2> SUFFICES ASSUME CodecInv, codecStage = "read" PROVE decoded = text
    BY DEF ReadsWhatWasWritten
  <2>1. PICK n \in Nat : \E m \in 0..n : Decoding(n, m)
    BY DEF CodecInv, Progress, Encoding
  <2>1a. PICK m \in 0..n : Decoding(n, m)
    BY <2>1
  <2>2. m = n /\ Len(text) <= 3 * n /\ Decoded(n)
    BY <2>1a DEF Decoding
  <2>3. text \in Seq(Byte) /\ decoded \in Seq(Byte) /\ Len(text) \in Nat
    BY DEF CodecInv, CodecTypeOK
  <2>4. Len(decoded) = Len(text) /\ \A i \in 1..Len(decoded) : decoded[i] = text[i]
    BY <2>2, <2>3 DEF Decoded
  <2> QED BY <2>3, <2>4, SeqEqual
<1> QED BY <1>1, CodecInvariant, PTL

-----------------------------------------------------------------------------
(***************************************************************************)
(* The entry as other readers of the common cookie see it.                 *)
(***************************************************************************)
\* A bit of a number, the last one being 0.
BitOf(c, e) == (c \div 2 ^ e) % 2

\* Four characters hold the bits of three codes, six to a character.
LEMMA QuadBits ==
  ASSUME NEW x \in Byte, NEW y \in Byte, NEW z \in Byte, NEW bit \in 0..23
  PROVE  BitOf(<<x \div 4, (x % 4) * 16 + y \div 16,
                 (y % 16) * 4 + z \div 64, z % 64>>[bit \div 6 + 1], 5 - (bit % 6))
           = BitOf(<<x, y, z>>[bit \div 8 + 1], 7 - (bit % 8))
<1>1. CASE bit = 0
  BY <1>1 DEF Byte, BitOf
<1>2. CASE bit = 1
  BY <1>2 DEF Byte, BitOf
<1>3. CASE bit = 2
  BY <1>3 DEF Byte, BitOf
<1>4. CASE bit = 3
  BY <1>4 DEF Byte, BitOf
<1>5. CASE bit = 4
  BY <1>5 DEF Byte, BitOf
<1>6. CASE bit = 5
  BY <1>6 DEF Byte, BitOf
<1>7. CASE bit = 6
  BY <1>7 DEF Byte, BitOf
<1>8. CASE bit = 7
  BY <1>8 DEF Byte, BitOf
<1>9. CASE bit = 8
  BY <1>9 DEF Byte, BitOf
<1>10. CASE bit = 9
  BY <1>10 DEF Byte, BitOf
<1>11. CASE bit = 10
  BY <1>11 DEF Byte, BitOf
<1>12. CASE bit = 11
  BY <1>12 DEF Byte, BitOf
<1>13. CASE bit = 12
  BY <1>13 DEF Byte, BitOf
<1>14. CASE bit = 13
  BY <1>14 DEF Byte, BitOf
<1>15. CASE bit = 14
  BY <1>15 DEF Byte, BitOf
<1>16. CASE bit = 15
  BY <1>16 DEF Byte, BitOf
<1>17. CASE bit = 16
  BY <1>17 DEF Byte, BitOf
<1>18. CASE bit = 17
  BY <1>18 DEF Byte, BitOf
<1>19. CASE bit = 18
  BY <1>19 DEF Byte, BitOf
<1>20. CASE bit = 19
  BY <1>20 DEF Byte, BitOf
<1>21. CASE bit = 20
  BY <1>21 DEF Byte, BitOf
<1>22. CASE bit = 21
  BY <1>22 DEF Byte, BitOf
<1>23. CASE bit = 22
  BY <1>23 DEF Byte, BitOf
<1>24. CASE bit = 23
  BY <1>24 DEF Byte, BitOf
<1>25. QED
  BY <1>1, <1>2, <1>3, <1>4, <1>5, <1>6, <1>7, <1>8, <1>9, <1>10, <1>11, <1>12,
     <1>13, <1>14, <1>15, <1>16, <1>17, <1>18, <1>19, <1>20, <1>21, <1>22, <1>23, <1>24

\* The place of a character is that of its group and its place there, and so
\* is the place of a bit.
LEMMA GroupOfBit ==
  ASSUME NEW i \in Nat
  PROVE  LET g == i \div 24
             bit == i % 24
         IN  /\ g \in Nat /\ bit \in 0..23 /\ i = 24 * g + bit
             /\ i \div 6 + 1 = 4 * g + bit \div 6 + 1 /\ i % 6 = bit % 6
             /\ i \div 8 + 1 = 3 * g + bit \div 8 + 1 /\ i % 8 = bit % 8
             /\ bit \div 6 + 1 \in 1..4 /\ bit \div 8 + 1 \in 1..3
OBVIOUS

\* The entry that is stored is the base64 of the entity id (w).
LEMMA EntryIsBase64 == CodecInv => IsBase64
<1> SUFFICES ASSUME CodecInv, codecStage = "decoding" PROVE IsBase64
  BY DEF IsBase64
<1>1. PICK n \in Nat : n > 0 /\ Len(text) <= 3 * n /\ GroupsWritten(n)
  BY DEF CodecInv, Progress, Encoding, Decoding
<1>2. text \in Seq(Byte) /\ Len(text) \in Nat /\ entry \in Seq(0..Pad)
  BY DEF CodecInv, CodecTypeOK
<1>3. /\ Len(entry) = 4 * n /\ DOMAIN entry = 1..(4 * n)
      /\ \A g \in 0..(n - 1) : /\ 3 * g < Len(text)
                               /\ \A k \in 1..4 : entry[4 * g + k] = Group(g)[k]
  BY <1>1, <1>2 DEF GroupsWritten
<1>4. 3 * (n - 1) < Len(text)
  <2>1. n - 1 \in 0..(n - 1)
    BY <1>1
  <2>2. QED
    BY <1>3, <2>1
<1> DEFINE padding == (2 * Len(text)) % 3
           plain == Len(entry) - padding
<1>5. padding = 3 * n - Len(text)
  BY <1>1, <1>2, <1>4
<1>6. plain = n + Len(text) /\ padding \in 0..2
  <2> HIDE DEF padding
  <2>1. plain = 4 * n - padding
    BY <1>3
  <2> HIDE DEF plain
  <2>2. QED
    BY <1>1, <1>2, <1>4, <1>5, <2>1
<1>7. IsBase64 <=>
        /\ 3 * Len(entry) = 4 * (Len(text) + padding)
        /\ \A k \in DOMAIN entry : entry[k] = Pad <=> k > plain
        /\ \A i \in 0..(6 * plain - 1) :
             BitOf(entry[i \div 6 + 1], 5 - (i % 6))
               = IF i < 8 * Len(text) THEN BitOf(text[i \div 8 + 1], 7 - (i % 8)) ELSE 0
  BY DEF IsBase64, BitOfEntry, BitOfText, BitOf
<1> HIDE DEF padding, plain
<1>8. ASSUME NEW g \in 0..(n - 1)
      PROVE  /\ 3 * g < Len(text)
             /\ text[3 * g + 1] \in Byte
             /\ CharCodeAt(text, 3 * g + 2) \in Byte \cup {NaN}
             /\ CharCodeAt(text, 3 * g + 3) \in Byte \cup {NaN}
             /\ CharCodeAt(text, 3 * g + 2) = NaN <=> 3 * g + 2 > Len(text)
             /\ CharCodeAt(text, 3 * g + 3) = NaN <=> 3 * g + 3 > Len(text)
             /\ 3 * g + 2 <= Len(text) => CharCodeAt(text, 3 * g + 2) = text[3 * g + 2]
             /\ 3 * g + 3 <= Len(text) => CharCodeAt(text, 3 * g + 3) = text[3 * g + 3]
  <2>1. g \in Nat /\ 3 * g < Len(text)
    BY <1>3, <1>8
  <2>2. QED
    BY <1>2, <2>1, GroupChars
<1>9. ASSUME NEW k \in 1..(4 * n)
      PROVE  entry[k] = Pad <=> k > plain
  <2> DEFINE g == (k - 1) \div 4
             j == ((k - 1) % 4) + 1
             q == Group(g)
  <2>1. g \in 0..(n - 1) /\ j \in 1..4 /\ k = 4 * g + j
    BY <1>1, <1>9
  <2> HIDE DEF g, j
  <2>2. entry[k] = q[j]
    BY <1>3, <2>1
  <2>3. /\ q[1] # Pad /\ q[2] # Pad
        /\ q[3] = Pad <=> 3 * g + 2 > Len(text)
        /\ q[4] = Pad <=> 3 * g + 3 > Len(text)
    <3> DEFINE x == text[3 * g + 1]
               y == CharCodeAt(text, 3 * g + 2)
               z == CharCodeAt(text, 3 * g + 3)
    <3>1. /\ x \in Byte /\ y \in Byte \cup {NaN} /\ z \in Byte \cup {NaN}
          /\ y = NaN <=> 3 * g + 2 > Len(text)
          /\ z = NaN <=> 3 * g + 3 > Len(text)
      BY <1>8, <2>1
    <3>2. q = Quad(x, y, z)
      BY DEF Group
    <3> HIDE DEF x, y, z, q
    <3>3. y = NaN => z = NaN
      BY <1>2, <2>1, <3>1
    <3>4. /\ q[1] \in 0..63 /\ q[2] \in 0..63
          /\ q[3] = Pad <=> y = NaN
          /\ q[4] = Pad <=> z = NaN
      BY <3>1, <3>2, <3>3, QuadRange
    <3>5. q[1] # Pad /\ q[2] # Pad
      BY ONLY <3>4 DEF Pad
    <3>6. QED
      BY ONLY <3>1, <3>4, <3>5
  <2> HIDE DEF q
  <2>4. g = n - 1 \/ g <= n - 2
    BY <2>1
  <2>5. g <= n - 2 => 3 * g + 3 <= Len(text) /\ k <= plain
    BY <1>1, <1>2, <1>4, <1>6, <2>1
  <2>6. CASE j \in {1, 2}
    BY <1>1, <1>2, <1>4, <1>6, <2>1, <2>2, <2>3, <2>6
  <2>7. CASE j = 3
    BY <1>1, <1>2, <1>4, <1>6, <2>1, <2>2, <2>3, <2>4, <2>5, <2>7
  <2>8. CASE j = 4
    BY <1>1, <1>2, <1>4, <1>6, <2>1, <2>2, <2>3, <2>4, <2>5, <2>8
  <2>9. QED
    BY <2>1, <2>6, <2>7, <2>8
<1>10. ASSUME NEW i \in 0..(6 * plain - 1)
       PROVE  BitOf(entry[i \div 6 + 1], 5 - (i % 6))
               = IF i < 8 * Len(text) THEN BitOf(text[i \div 8 + 1], 7 - (i % 8)) ELSE 0
  <2> DEFINE g == i \div 24
             bit == i % 24
             j == bit \div 6 + 1
             b == bit \div 8 + 1
             x == text[3 * g + 1]
             y == CharCodeAt(text, 3 * g + 2)
             z == CharCodeAt(text, 3 * g + 3)
             q == <<x \div 4, (x % 4) * 16 + Bits(y) \div 16,
                    (Bits(y) % 16) * 4 + Bits(z) \div 64, Bits(z) % 64>>
             c == <<x, Bits(y), Bits(z)>>
  <2>1. i \in Nat /\ i <= 6 * plain - 1
    BY <1>2, <1>6, <1>10
  <2>2. /\ g \in Nat /\ bit \in 0..23 /\ i = 24 * g + bit
        /\ i \div 6 + 1 = 4 * g + j /\ i % 6 = bit % 6
        /\ i \div 8 + 1 = 3 * g + b /\ i % 8 = bit % 8
        /\ j \in 1..4 /\ b \in 1..3
    BY <2>1, GroupOfBit
  <2>3. 4 * g + j <= plain
    BY <1>2, <1>6, <2>1, <2>2
  <2>4. b = 1 \/ b = 2 \/ b = 3
    BY <2>2
  <2>5. i < 8 * Len(text) <=> 3 * g + b <= Len(text)
    BY <1>2, <2>2
  <2> HIDE DEF g, j, b
  <2>6. g \in 0..(n - 1)
    BY <1>1, <1>2, <1>6, <2>2, <2>3
  <2>7. 4 * g + j \in 1..(4 * n) /\ entry[4 * g + j] # Pad
    BY <1>1, <1>2, <1>6, <1>9, <2>2, <2>3
  <2>8. /\ x \in Byte /\ y \in Byte \cup {NaN} /\ z \in Byte \cup {NaN}
        /\ y = NaN <=> 3 * g + 2 > Len(text)
        /\ z = NaN <=> 3 * g + 3 > Len(text)
        /\ 3 * g + 2 <= Len(text) => y = text[3 * g + 2]
        /\ 3 * g + 3 <= Len(text) => z = text[3 * g + 3]
        /\ 3 * g < Len(text)
    BY <1>8, <2>6
  <2>9. Bits(y) \in Byte /\ Bits(z) \in Byte
    BY <2>8 DEF Bits, Byte
  <2>10. entry[4 * g + j] = q[j]
    <3>1. entry[4 * g + j] = Quad(x, y, z)[j]
      BY <1>3, <2>2, <2>6 DEF Group
    <3>2. Quad(x, y, z) = << x \div 4, (x % 4) * 16 + Bits(y) \div 16,
             IF y = NaN THEN Pad ELSE (Bits(y) % 16) * 4 + Bits(z) \div 64,
             IF y = NaN \/ z = NaN THEN Pad ELSE Bits(z) % 64 >>
      BY DEF Quad
    <3> HIDE DEF x, y, z
    <3>3. j = 1 \/ j = 2 \/ j = 3 \/ j = 4
      BY <2>2
    <3>4. QED
      BY <2>7, <3>1, <3>2, <3>3
  <2>11. BitOf(q[j], 5 - (bit % 6)) = BitOf(c[b], 7 - (bit % 8))
    <3> HIDE DEF x, y, z
    <3>1. \A s \in 0..23 :
            BitOf(q[s \div 6 + 1], 5 - (s % 6)) = BitOf(c[s \div 8 + 1], 7 - (s % 8))
      BY <2>8, <2>9, QuadBits
    <3> HIDE DEF q, c, bit
    <3>2. QED
      BY <2>2, <3>1 DEF j, b
  <2>12. c[b] = IF 3 * g + b <= Len(text) THEN text[3 * g + b] ELSE 0
    <3> HIDE DEF y, z
    <3>1. c[1] = x /\ c[2] = Bits(y) /\ c[3] = Bits(z)
      OBVIOUS
    <3>2. /\ y # NaN => Bits(y) = y
          /\ y = NaN => Bits(y) = 0
          /\ z # NaN => Bits(z) = z
          /\ z = NaN => Bits(z) = 0
      BY DEF Bits
    <3>3. x = text[3 * g + 1]
      OBVIOUS
    <3> HIDE DEF c, x
    <3>4. CASE b = 1
      BY <1>2, <2>2, <2>8, <3>1, <3>3, <3>4
    <3>5. CASE b = 2
      BY <1>2, <2>2, <2>8, <3>1, <3>2, <3>5
    <3>6. CASE b = 3
      BY <1>2, <2>2, <2>8, <3>1, <3>2, <3>6
    <3>7. QED
      BY <2>4, <3>4, <3>5, <3>6
  <2>13. BitOf(0, 7 - (bit % 8)) = 0
    <3>1. \A s \in 0..7 : BitOf(0, 7 - s) = 0
      <4> TAKE s \in 0..7
      <4>1. CASE s = 0
        BY <4>1 DEF BitOf
      <4>2. CASE s = 1
        BY <4>2 DEF BitOf
      <4>3. CASE s = 2
        BY <4>3 DEF BitOf
      <4>4. CASE s = 3
        BY <4>4 DEF BitOf
      <4>5. CASE s = 4
        BY <4>5 DEF BitOf
      <4>6. CASE s = 5
        BY <4>6 DEF BitOf
      <4>7. CASE s = 6
        BY <4>7 DEF BitOf
      <4>8. CASE s = 7
        BY <4>8 DEF BitOf
      <4>9. QED
        BY <4>1, <4>2, <4>3, <4>4, <4>5, <4>6, <4>7, <4>8
    <3>2. bit % 8 \in 0..7
      BY <2>2
    <3> HIDE DEF bit
    <3>3. QED
      BY <3>1, <3>2
  <2> HIDE DEF bit, x, y, z, q, c
  <2>14. QED
    BY <2>2, <2>5, <2>10, <2>11, <2>12, <2>13
<1>11. 3 * Len(entry) = 4 * (Len(text) + padding)
  BY <1>1, <1>2, <1>3, <1>5
<1>12. QED
  BY <1>3, <1>7, <1>9, <1>10, <1>11

\* Every entry w stores is the base64 of the entity id, whatever its length
\* leaves for the last group (w).
THEOREM EntriesAreBase64 == CodecSpec => []IsBase64
BY CodecInvariant, EntryIsBase64, PTL

-----------------------------------------------------------------------------
(***************************************************************************)
(* The period of following.                                                *)
(***************************************************************************)
\* The cookies are those of the last click and of the last choice.
Cookies ==
  /\ followUntil = IF AskedFor THEN lastClick.on + Period ELSE 0
  /\ historyUntil = IF chosenOn # 0 THEN chosenOn + samlIdPCookieTTL ELSE 0
  /\ AskedFor => lastClick.on > 0

FollowInv == FollowTypeOK /\ LastDay > 0 /\ Cookies

\* The days of a button other than the first.
LEMMA PeriodType ==
  ASSUME NEW b \in Buttons, b # 0
  PROVE  autoFollowCookieTTLs[b] \in Nat \ {0}
<1>1. b \in 1..Len(autoFollowCookieTTLs)
  BY FollowAssumption DEF Buttons
<1> QED  BY <1>1, FollowAssumption

LEMMA FollowStart ==
  ASSUME FollowInit, LastDay > 0
  PROVE  FollowInv
<1> USE FollowAssumption DEF FollowInit
<1>1. 0 \in Buttons
  BY DEF Buttons
<1>2. FollowTypeOK
  BY <1>1 DEF FollowTypeOK, AskedFor
<1>3. Cookies
  BY DEF Cookies, AskedFor
<1> QED  BY <1>2, <1>3 DEF FollowInv

\* A click sets the cookie the button stands for; everything else leaves it,
\* and only a choice touches the history (FollowNext).
LEMMA FollowStep ==
  ASSUME FollowInv, [FollowNext]_followVars
  PROVE  FollowInv'
<1> USE FollowAssumption DEF FollowInv
<1>0. LastDay \in Nat /\ LastDay' = LastDay
  OBVIOUS
<1>1. CASE OpenPage
  BY <1>1 DEF OpenPage, FollowTypeOK, Cookies, AskedFor, Period, Buttons
<1>2. CASE ChooseProvider
  <2>1. FollowTypeOK'
    BY <1>2 DEF ChooseProvider, Life, FollowTypeOK, AskedFor
  <2>2. Cookies'
    BY <1>2 DEF ChooseProvider, Life, FollowTypeOK, Cookies, AskedFor, Period
  <2> QED  BY <2>1, <2>2
<1>3. CASE LeavePage
  BY <1>3 DEF LeavePage, FollowTypeOK, Cookies, AskedFor, Period
<1>4. ASSUME NEW b \in Buttons, Click(b)
      PROVE  FollowInv'
  <2>1. lastClick' = [button |-> b, on |-> today]
    BY <1>4 DEF Click
  <2>2. CASE b = 0
    BY <1>4, <2>1, <2>2 DEF Click, Expiry, FollowTypeOK, Cookies, AskedFor, Period
  <2>3. CASE b # 0
    <3>1. autoFollowCookieTTLs[b] \in Nat \ {0}
      BY <2>3, PeriodType
    <3>2. followUntil' = today + autoFollowCookieTTLs[b]
      BY <1>4, <2>3 DEF Click, Expiry
    <3>3. FollowTypeOK'
      BY <1>4, <2>1, <2>3, <3>1, <3>2 DEF Click, FollowTypeOK, AskedFor
    <3>4. Cookies'
      BY <1>4, <2>1, <2>3, <3>2 DEF Click, FollowTypeOK, Cookies, AskedFor, Period
    <3> QED  BY <3>3, <3>4
  <2> QED  BY <2>2, <2>3
<1>5. ASSUME NEW days \in Pauses, DaysPass(days)
      PROVE  FollowInv'
  BY <1>5 DEF DaysPass, FollowTypeOK, Cookies, AskedFor, Period
<1>6. CASE UNCHANGED followVars
  BY <1>6 DEF followVars, FollowTypeOK, Cookies, AskedFor, Period
<1> QED  BY <1>1, <1>2, <1>3, <1>4, <1>5, <1>6 DEF FollowNext

\* The clock starts on a day the bound allows.
THEOREM FollowInvariant ==
  ASSUME LastDay > 0
  PROVE  FollowSpec => []FollowInv
<1>1. FollowInit => FollowInv
  BY FollowStart
<1>2. FollowInv /\ [FollowNext]_followVars => FollowInv'
  BY FollowStep
<1> QED  BY <1>1, <1>2, PTL DEF FollowSpec

\* For every list of periods: whoever is sent on asked for it, not longer ago
\* than the period last clicked, and chose not longer ago than the history is
\* kept (draw, E, at).
THEOREM SentOnAsAsked ==
  ASSUME LastDay > 0
  PROVE  FollowSpec => FollowsOnlyWhenAsked
<1>1. ASSUME FollowInv, Follows
      PROVE  /\ AskedFor /\ today < lastClick.on + Period
             /\ chosenOn # 0 /\ today < chosenOn + samlIdPCookieTTL
  <2>1. today < followUntil /\ today < historyUntil
    BY <1>1 DEF Follows, OpenPage, InForce
  <2>2. today \in Nat /\ today > 0
    BY <1>1, FollowAssumption DEF FollowInv, FollowTypeOK
  <2> QED  BY <1>1, <2>1, <2>2 DEF FollowInv, Cookies
<1>2. FollowInv /\ [FollowNext]_followVars
        => [Follows => /\ AskedFor /\ today < lastClick.on + Period
                       /\ chosenOn # 0 /\ today < chosenOn + samlIdPCookieTTL]_followVars
  BY <1>1
<1> QED  BY <1>2, FollowInvariant, PTL DEF FollowSpec, FollowsOnlyWhenAsked

\* If the history is kept at least as long as every period, which is so in the
\* shipped configuration (270 and 730 days): nobody who asked to be sent on
\* and chose is asked again within the period.
HistoryOutlives ==
  \A b \in DOMAIN autoFollowCookieTTLs : autoFollowCookieTTLs[b] <= samlIdPCookieTTL

THEOREM PeriodKept ==
  ASSUME LastDay > 0, HistoryOutlives
  PROVE  FollowSpec => NotAskedAgain
<1>1. ASSUME FollowInv, OpenPage, AskedFor, chosenOn >= lastClick.on, today < lastClick.on + Period
      PROVE  visit' = "followed"
  <2>1. /\ today \in Nat /\ lastClick.on \in Nat /\ chosenOn \in Nat
        /\ lastClick.button \in Buttons /\ lastClick.button # 0
    BY <1>1, FollowAssumption DEF FollowInv, FollowTypeOK, AskedFor
  <2>2. lastClick.button \in DOMAIN autoFollowCookieTTLs
    BY <2>1, FollowAssumption DEF Buttons
  <2>3. Period \in Nat \ {0} /\ Period <= samlIdPCookieTTL
    BY <1>1, <2>1, <2>2, PeriodType DEF Period, HistoryOutlives
  <2>4. InForce(followUntil)
    BY <1>1 DEF FollowInv, Cookies, InForce
  <2>5. chosenOn # 0
    BY <1>1, <2>1 DEF FollowInv, Cookies
  <2>6. InForce(historyUntil)
    BY <1>1, <2>1, <2>3, <2>5, FollowAssumption DEF FollowInv, Cookies, InForce
  <2> QED  BY <1>1, <2>4, <2>6 DEF OpenPage
<1>2. FollowInv /\ [FollowNext]_followVars
        => [OpenPage /\ AskedFor /\ chosenOn >= lastClick.on /\ today < lastClick.on + Period
              => visit' = "followed"]_followVars
  BY <1>1
<1> QED  BY <1>2, FollowInvariant, PTL DEF FollowSpec, NotAskedAgain
-----------------------------------------------------------------------------
(***************************************************************************)
(* The language.                                                           *)
(***************************************************************************)
\* What a search through a list finds: nothing, or the first of some places.
IsFirst(found, places, n) ==
  /\ found \in 0..n
  /\ found = 0 <=> places = {}
  /\ found # 0 => found \in places /\ \A k \in places : found <= k

LEMMA SearchFinds ==
  ASSUME NEW n \in Nat, NEW places, places \subseteq 1..n,
         NEW found, found = IF places # {} THEN Min(places) ELSE 0
  PROVE  IsFirst(found, places, n)
<1>1. CASE places = {}
  BY <1>1 DEF IsFirst
<1>2. CASE places # {}
  <2>1. places \subseteq Nat
    OBVIOUS
  <2>2. \E x \in places : \A y \in places : x <= y
    BY <1>2, <2>1, LeastOf
  <2>3. found \in places /\ \A y \in places : found <= y
    BY <1>2, <2>2 DEF Min
  <2>4. found \in 1..n /\ found # 0
    BY <2>3
  <2>5. QED
    BY <2>3, <2>4 DEF IsFirst
<1>3. QED
  BY <1>1, <1>2

\* The names of a language, and the logos that may be an icon.
NamesIn(langs, l) == {k \in 1..Len(langs) : langs[k] = l}
Small(icons) ==
  {k \in 1..Len(icons) : icons[k].small /\ icons[k].lang \in {NoLang, region, default}}

LEMMA FirstOfFinds ==
  ASSUME NEW langs, Len(langs) \in Nat, NEW l
  PROVE  IsFirst(FirstOf(langs, l), NamesIn(langs, l), Len(langs))
<1>1. FirstOf(langs, l) = IF NamesIn(langs, l) # {} THEN Min(NamesIn(langs, l)) ELSE 0
  BY DEF FirstOf, SelectInSeq, NamesIn
<1>2. NamesIn(langs, l) \subseteq 1..Len(langs)
  BY DEF NamesIn
<1>3. QED
  BY <1>1, <1>2, SearchFinds

LEMMA AkFinds ==
  ASSUME NEW icons \in IconLists
  PROVE  IsFirst(Ak(icons), Small(icons), Len(icons)) /\ DOMAIN icons = 1..Len(icons)
<1>1. Len(icons) \in Nat /\ DOMAIN icons = 1..Len(icons)
  <2>1. PICK n \in 0..MaxIcons : icons \in [1..n -> [lang : EntryLangs, small : BOOLEAN]]
    BY DEF IconLists
  <2>2. n \in Nat
    BY LocalAssumption
  <2>3. QED
    BY <2>1, <2>2
<1>2. Ak(icons) = IF Small(icons) # {} THEN Min(Small(icons)) ELSE 0
  BY DEF Ak, SelectInSeq, Small
<1>3. Small(icons) \subseteq 1..Len(icons)
  BY DEF Small
<1>4. QED
  BY <1>1, <1>2, <1>3, SearchFinds

\* What ay chooses among names.
Chosen(langs, name) ==
  LET usable == {k \in DOMAIN langs : langs[k] \in {NoLang, region, default}}
  IN  /\ name = 0 <=> usable = {}
      /\ name # 0 =>
           /\ name \in usable
           /\ \A k \in usable :
                \/ langs[name] = NoLang
                \/ langs[k] # NoLang /\ langs[name] = region
                \/ langs[k] = langs[name]
           /\ \A k \in usable : langs[k] = langs[name] => name <= k

LEMMA NameOfProvider ==
  ASSUME NEW langs \in NameLists
  PROVE  Chosen(langs, Ay(langs)) /\ Ay(langs) \in 0..Len(langs)
<1> DEFINE usable == {k \in DOMAIN langs : langs[k] \in {NoLang, region, default}}
           a == FirstOf(langs, NoLang)
           b == FirstOf(langs, region)
           c == FirstOf(langs, default)
           y == Ay(langs)
<1>1. Len(langs) \in Nat /\ DOMAIN langs = 1..Len(langs)
  <2>1. PICK n \in 0..MaxNames : langs \in [1..n -> EntryLangs]
    BY DEF NameLists
  <2>2. n \in Nat
    BY LocalAssumption
  <2>3. QED
    BY <2>1, <2>2
<1>2. /\ IsFirst(a, NamesIn(langs, NoLang), Len(langs))
      /\ IsFirst(b, NamesIn(langs, region), Len(langs))
      /\ IsFirst(c, NamesIn(langs, default), Len(langs))
  BY <1>1, FirstOfFinds
<1>3. y = IF a # 0 THEN a ELSE IF region # NoLang /\ b # 0 THEN b ELSE c
  BY DEF Ay
<1>4. \A k : k \in usable <=> /\ k \in 1..Len(langs)
                              /\ langs[k] = NoLang \/ langs[k] = region \/ langs[k] = default
  BY <1>1
<1>5. Chosen(langs, y) <=>
        /\ y = 0 <=> usable = {}
        /\ y # 0 =>
             /\ y \in usable
             /\ \A k \in usable :
                  \/ langs[y] = NoLang
                  \/ langs[k] # NoLang /\ langs[y] = region
                  \/ langs[k] = langs[y]
             /\ \A k \in usable : langs[k] = langs[y] => y <= k
  BY Zenon DEF Chosen
<1> HIDE DEF usable, a, b, c, y
<1>6. /\ a \in 0..Len(langs) /\ b \in 0..Len(langs) /\ c \in 0..Len(langs)
      /\ a = 0 <=> \A k \in 1..Len(langs) : langs[k] # NoLang
      /\ b = 0 <=> \A k \in 1..Len(langs) : langs[k] # region
      /\ c = 0 <=> \A k \in 1..Len(langs) : langs[k] # default
      /\ a # 0 => /\ a \in 1..Len(langs) /\ langs[a] = NoLang
                  /\ \A k \in 1..Len(langs) : langs[k] = NoLang => a <= k
      /\ b # 0 => /\ b \in 1..Len(langs) /\ langs[b] = region
                  /\ \A k \in 1..Len(langs) : langs[k] = region => b <= k
      /\ c # 0 => /\ c \in 1..Len(langs) /\ langs[c] = default
                  /\ \A k \in 1..Len(langs) : langs[k] = default => c <= k
  BY <1>2 DEF IsFirst, NamesIn
<1>7. CASE a # 0
  <2>1. y = a
    BY <1>3, <1>7
  <2>2. a \in usable
    BY <1>4, <1>6, <1>7
  <2>3. \A k \in usable : langs[k] = langs[a] => a <= k
    BY <1>4, <1>6, <1>7
  <2>4. QED
    BY <1>5, <1>6, <1>7, <2>1, <2>2, <2>3 DEF y
<1>8. CASE a = 0 /\ region # NoLang /\ b # 0
  <2>1. y = b
    BY <1>3, <1>8
  <2>2. b \in usable
    BY <1>4, <1>6, <1>8
  <2>3. \A k \in usable : langs[k] # NoLang /\ (langs[k] = langs[b] => b <= k)
    BY <1>4, <1>6, <1>8
  <2>4. QED
    BY <1>5, <1>6, <1>8, <2>1, <2>2, <2>3 DEF y
<1>9. CASE a = 0 /\ ~(region # NoLang /\ b # 0)
  <2>1. y = c
    BY <1>3, <1>9
  <2>2. \A k \in usable : langs[k] = default
    BY <1>4, <1>6, <1>9
  <2>3. c = 0 <=> usable = {}
    BY <1>4, <1>6, <2>2
  <2>4. c # 0 => c \in usable
    BY <1>4, <1>6
  <2>5. c # 0 => \A k \in usable : langs[k] = langs[c] /\ c <= k
    BY <1>4, <1>6, <2>2
  <2>6. QED
    BY <1>5, <1>6, <2>1, <2>3, <2>4, <2>5 DEF y
<1>10. QED
  BY <1>7, <1>8, <1>9

-----------------------------------------------------------------------------
\* A text that was said comes from the bundle of the browser's language or
\* from that of the default; a name or an icon that was looked up is the one
\* ay or ak chooses.  Before the set-up nothing was.
SetUpDone ==
  /\ region = IF tag.part # tag.whole THEN tag.part ELSE NoLang
  /\ fallback = Bundle(default)
  /\ texts = IF BrowserBundle(region) # NoBundle THEN BrowserBundle(region) ELSE fallback

NameFits == Chosen(named.langs, named.name) /\ named.name \in 0..Len(named.langs)
IconFits == /\ IsFirst(pictured.icon, Small(pictured.icons), Len(pictured.icons))
            /\ DOMAIN pictured.icons = 1..Len(pictured.icons)

LocalInv ==
  /\ drawing \in {"start", "drawn", "failed"}
  /\ tag \in Tags /\ own \in OwnBundles /\ default \in Defaults
  /\ drawing = "start" => said = Nothing /\ named = Nobody /\ pictured = NoIcon
  /\ drawing # "start" => SetUpDone
  /\ drawing = "drawn" => fallback # NoBundle
  /\ said # Nothing => drawing = "drawn" /\ said = [key |-> said.key, from |-> Source(said.key)]
  /\ NameFits
  /\ IconFits

\* No name of none and no icon of none.
LEMMA NoneFits ==
  /\ named = Nobody => NameFits
  /\ named' = Nobody => NameFits'
  /\ pictured = NoIcon => IconFits
  /\ pictured' = NoIcon => IconFits'
<1>1. Nobody.langs = <<>> /\ Nobody.name = 0 /\ NoIcon.icons = <<>> /\ NoIcon.icon = 0
  BY DEF Nobody, NoIcon
<1>2. DOMAIN <<>> = 1..0 /\ Len(<<>>) = 0
  OBVIOUS
<1>3. /\ named = Nobody => NameFits
      /\ named' = Nobody => NameFits'
  BY <1>1, <1>2 DEF NameFits, Chosen
<1>4. /\ pictured = NoIcon => IconFits
      /\ pictured' = NoIcon => IconFits'
  BY <1>1, <1>2 DEF IconFits, IsFirst, Small
<1>5. QED
  BY <1>3, <1>4

LEMMA LocalStart == LocalInit => LocalInv
<1> SUFFICES ASSUME LocalInit PROVE LocalInv
  OBVIOUS
<1>1. /\ drawing = "start" /\ tag \in Tags /\ own \in OwnBundles /\ default \in Defaults
      /\ said = Nothing /\ named = Nobody /\ pictured = NoIcon
  BY DEF LocalInit
<1>2. QED
  BY <1>1, NoneFits DEF LocalInv

LEMMA LocalStep == LocalInv /\ [LocalNext]_localVars => LocalInv'
<1> SUFFICES ASSUME LocalInv, [LocalNext]_localVars PROVE LocalInv'
  OBVIOUS
<1>1. CASE SetUp
  <2>1. /\ drawing = "start"
        /\ region' = IF tag.part # tag.whole THEN tag.part ELSE NoLang
        /\ fallback' = Bundle(default)
        /\ texts' = IF BrowserBundle(region') # NoBundle THEN BrowserBundle(region')
                    ELSE fallback'
        /\ drawing' = Outcome(fallback')
        /\ UNCHANGED <<tag, own, default, said, named, pictured>>
    BY <1>1 DEF SetUp, looked
  <2>2. SetUpDone'
    <3>1. Bundle(default)' = Bundle(default) /\ BrowserBundle(region)' = BrowserBundle(region')
      BY <2>1 DEF Bundle, BrowserBundle
    <3>2. NoBundle' = NoBundle
      BY DEF NoBundle
    <3>3. QED
      BY <2>1, <3>1, <3>2 DEF SetUpDone
  <2>3. drawing' \in {"drawn", "failed"} /\ (drawing' = "drawn" => fallback' # NoBundle)
    BY <2>1 DEF Outcome
  <2>4. said' = Nothing /\ named' = Nobody /\ pictured' = NoIcon
    BY <2>1 DEF LocalInv
  <2>5. QED
    BY <2>1, <2>2, <2>3, <2>4, NoneFits DEF LocalInv
<1>2. ASSUME UNCHANGED <<drawing, tag, own, default, region, texts, fallback>>
      PROVE  /\ drawing' \in {"start", "drawn", "failed"}
             /\ tag' \in Tags /\ own' \in OwnBundles /\ default' \in Defaults
             /\ drawing' # "start" => SetUpDone'
             /\ drawing' = "drawn" => fallback' # NoBundle
             /\ \A key : Source(key)' = Source(key)
  <2>1. SetUpDone' <=> SetUpDone
    BY <1>2 DEF SetUpDone, Bundle, BrowserBundle, NoBundle
  <2>2. \A key : Source(key)' = Source(key)
    BY <1>2 DEF Source
  <2>3. QED
    BY <1>2, <2>1, <2>2 DEF LocalInv
<1>3. ASSUME NEW key \in Keys, Say(key) PROVE LocalInv'
  <2>1. /\ drawing = "drawn" /\ said' = [key |-> key, from |-> Source(key)]
        /\ UNCHANGED <<drawing, tag, own, default, region, texts, fallback>>
        /\ named' = Nobody /\ pictured' = NoIcon
    BY <1>3 DEF Say
  <2>2. said'.key = key /\ said'.from = Source(key)
    BY <2>1
  <2>3. said' = [key |-> said'.key, from |-> Source(said.key)']
    BY <1>2, <2>1, <2>2 DEF Source
  <2>4. QED
    BY <1>2, <2>1, <2>3, NoneFits DEF LocalInv
<1>4. ASSUME NEW langs \in NameLists, ShowName(langs) PROVE LocalInv'
  <2>1. /\ drawing = "drawn" /\ named' = [langs |-> langs, name |-> Ay(langs)]
        /\ UNCHANGED <<drawing, tag, own, default, region, texts, fallback>>
        /\ said' = Nothing /\ pictured' = NoIcon
    BY <1>4 DEF ShowName
  <2>2. Chosen(langs, Ay(langs)) /\ Ay(langs) \in 0..Len(langs)
    BY NameOfProvider
  <2>3. named'.langs = langs /\ named'.name = Ay(langs)
    BY <2>1
  <2>4. Chosen(named.langs, named.name)'
    BY <2>1, <2>2, <2>3, Zenon DEF Chosen
  <2>5. NameFits'
    BY <2>2, <2>3, <2>4 DEF NameFits
  <2>6. QED
    BY <1>2, <2>1, <2>5, NoneFits DEF LocalInv
<1>5. ASSUME NEW icons \in IconLists, ShowIcon(icons) PROVE LocalInv'
  <2>1. /\ drawing = "drawn" /\ pictured' = [icons |-> icons, icon |-> Ak(icons)]
        /\ UNCHANGED <<drawing, tag, own, default, region, texts, fallback>>
        /\ said' = Nothing /\ named' = Nobody
    BY <1>5 DEF ShowIcon
  <2>2. IsFirst(Ak(icons), Small(icons), Len(icons)) /\ DOMAIN icons = 1..Len(icons)
    BY AkFinds
  <2>3. pictured'.icons = icons /\ pictured'.icon = Ak(icons)
    BY <2>1
  <2>4. IconFits'
    BY <2>1, <2>2, <2>3 DEF IconFits, IsFirst, Small
  <2>5. QED
    BY <1>2, <2>1, <2>4, NoneFits DEF LocalInv
<1>6. CASE NothingDrawn \/ UNCHANGED localVars
  <2>1. UNCHANGED localVars
    BY <1>6 DEF NothingDrawn
  <2>2. UNCHANGED <<drawing, tag, own, default, region, texts, fallback>>
        /\ named' = named /\ said' = said /\ pictured' = pictured
    BY <2>1 DEF localVars, looked
  <2>3. NameFits' /\ IconFits' /\ Source(said.key)' = Source(said.key)
    BY <2>2, Zenon DEF Source, NameFits, Chosen, IconFits, IsFirst, Small, LocalInv
  <2>4. QED
    BY <1>2, <2>2, <2>3 DEF LocalInv
<1>7. QED
  BY <1>1, <1>3, <1>4, <1>5, <1>6 DEF LocalNext

\* A bundle is that of its language, and its language is one.
LEMMA BundleOf ==
  ASSUME NEW l, Bundle(l) # NoBundle
  PROVE  Bundle(l).of = l
BY DEF Bundle, NoBundle

LEMMA BundleIsOfLanguage ==
  ASSUME own \in OwnBundles
  PROVE  Bundle(NoLang) = NoBundle
<1>1. NoLang \notin DOMAIN own
  BY LocalAssumption
<1>2. NoLang \notin DOMAIN LibBundles
  BY DEF LibBundles, NoLang
<1>3. QED
  BY <1>1, <1>2, Zenon DEF Bundle

LEMMA TextsFromInv == LocalInv => TextsInBrowsersLanguage
<1> DEFINE wanted == {l \in {tag.whole, tag.part} : Bundle(l) # NoBundle}
           most == IF tag.whole \in wanted THEN tag.whole ELSE tag.part
<1> SUFFICES ASSUME LocalInv, said # Nothing
             PROVE  /\ said.from = NoLang => said.key \notin Bundle(default).keys
                    /\ said.from # NoLang /\ wanted # {} /\ said.key \in Bundle(most).keys
                         => said.from = most
  BY DEF TextsInBrowsersLanguage
<1>1. /\ drawing = "drawn" /\ SetUpDone /\ own \in OwnBundles /\ fallback # NoBundle
      /\ said = [key |-> said.key, from |-> Source(said.key)]
  BY DEF LocalInv
<1>2. said.from = IF said.key \in texts.keys THEN texts.of
                  ELSE IF said.key \in fallback.keys THEN fallback.of ELSE NoLang
  BY <1>1 DEF Source
<1>3. /\ fallback = Bundle(default) /\ fallback.of = default
      /\ Bundle(NoLang) = NoBundle
  BY <1>1, BundleOf, BundleIsOfLanguage DEF SetUpDone
<1>4. default # NoLang
  BY <1>1, <1>3
<1>5. /\ region = IF tag.part # tag.whole THEN tag.part ELSE NoLang
      /\ texts = IF BrowserBundle(region) # NoBundle THEN BrowserBundle(region) ELSE fallback
      /\ BrowserBundle(region) = IF Bundle(tag.whole) # NoBundle THEN Bundle(tag.whole)
                                 ELSE Bundle(region)
  BY <1>1 DEF SetUpDone, BrowserBundle
<1>6. wanted # {} => texts = Bundle(most) /\ Bundle(most) # NoBundle
  <2>1. CASE Bundle(tag.whole) # NoBundle
    BY <1>5, <2>1
  <2>2. CASE Bundle(tag.whole) = NoBundle /\ Bundle(tag.part) # NoBundle
    <3>1. tag.part # tag.whole /\ region = tag.part /\ most = tag.part
      BY <1>5, <2>2
    <3>2. QED
      BY <1>5, <2>2, <3>1
  <2>3. CASE Bundle(tag.whole) = NoBundle /\ Bundle(tag.part) = NoBundle
    BY <2>3
  <2>4. QED
    BY <2>1, <2>2, <2>3
<1>7. texts.of # NoLang
  <2>1. \A l : Bundle(l) # NoBundle => Bundle(l).of # NoLang
    BY <1>3, BundleOf
  <2>2. texts = fallback \/ texts = Bundle(tag.whole) \/ texts = Bundle(region)
    BY <1>5
  <2>3. texts # NoBundle
    BY <1>1, <1>5
  <2>4. QED
    BY <1>3, <1>4, <2>1, <2>2, <2>3
<1> HIDE DEF wanted, most
<1>8. said.from = NoLang => said.key \notin Bundle(default).keys
  BY <1>2, <1>3, <1>4, <1>7
<1>9. wanted # {} /\ said.key \in Bundle(most).keys => said.from = most
  BY <1>2, <1>6, BundleOf
<1>10. QED
  BY <1>8, <1>9

LEMMA LocalTypes == LocalInv => LocalTypeOK
<1> SUFFICES ASSUME LocalInv PROVE LocalTypeOK
  OBVIOUS
<1>1. drawing = "drawn" => fallback # NoBundle /\ texts # NoBundle
  BY DEF LocalInv, SetUpDone
<1>2. /\ named.name \in 0..Len(named.langs)
      /\ pictured.icon \in 0..Len(pictured.icons)
  BY DEF LocalInv, NameFits, IconFits, IsFirst
<1>3. QED
  BY <1>1, <1>2 DEF LocalInv, LocalTypeOK

(* For any configuration and any tag of the browser: a text is in the most *)
(* specific language of the browser that has a bundle with it, and it is   *)
(* missing only if the default's bundle lacks it, too (m, A).              *)
THEOREM TextsAreLocal == LocalSpec => []TextsInBrowsersLanguage
<1>1. QED
  BY LocalStart, LocalStep, TextsFromInv, PTL DEF LocalSpec

(* For any names of a provider ay takes the first of the best language, if *)
(* it has one of these languages at all; for any logos of it, whatever its *)
(* names are, ak takes the first of 16 by 16 in one of these languages, if *)
(* there is such a logo (ay, aE, ak).                                      *)
THEOREM NameIsChosen == LocalSpec => []NameChosen
<1>1. LocalInv => NameChosen
  <2> SUFFICES ASSUME LocalInv PROVE NameChosen
    OBVIOUS
  <2>1. Chosen(named.langs, named.name)
    BY DEF LocalInv, NameFits
  <2>2. IsFirst(pictured.icon, Small(pictured.icons), Len(pictured.icons))
        /\ DOMAIN pictured.icons = 1..Len(pictured.icons)
    BY DEF LocalInv, IconFits
  <2>3. QED
    BY <2>1, <2>2 DEF Chosen, IsFirst, Small, NameChosen
<1>2. QED
  BY <1>1, LocalStart, LocalStep, PTL DEF LocalSpec

-----------------------------------------------------------------------------
(***************************************************************************)
(* The logo.                                                               *)
(***************************************************************************)
\* A logo of a feed has a width and a height; its distance is a fraction.
Proper(l) == l.w \in Nat \ {0} /\ l.h \in Nat \ {0}

LEMMA DistanceIsFraction ==
  ASSUME NEW l, Proper(l)
  PROVE  Distance(l).n \in Nat \ {0} /\ Distance(l).d \in Nat \ {0}
BY DEF Proper, Distance

\* One that is closer than the best so far is closer than all that the best
\* is at least as close as; and it is not closer than itself.
LEMMA Fractions ==
  ASSUME NEW bn \in Nat \ {0}, NEW bd \in Nat \ {0}, NEW cn \in Nat \ {0},
         NEW cd \in Nat \ {0}, NEW kn \in Nat \ {0}, NEW kd \in Nat \ {0},
         bn * cd > cn * bd, ~(bn * kd > kn * bd)
  PROVE  kn * cd > cn * kd
<1>1. (bn * cd) * kd > (cn * bd) * kd
  <2> DEFINE x == bn * cd
             y == cn * bd
  <2>1. x \in Nat /\ y \in Nat /\ x > y
    OBVIOUS
  <2> HIDE DEF x, y
  <2>2. x * kd > y * kd
    BY <2>1
  <2>3. QED
    BY <2>2 DEF x, y
<1>2. (kn * bd) * cd >= (bn * kd) * cd
  <2> DEFINE x == kn * bd
             y == bn * kd
  <2>1. x \in Nat /\ y \in Nat /\ x >= y
    OBVIOUS
  <2> HIDE DEF x, y
  <2>2. x * cd >= y * cd
    BY <2>1
  <2>3. QED
    BY <2>2 DEF x, y
<1>3. (kn * cd) * bd > (cn * kd) * bd
  BY <1>1, <1>2
<1>4. QED
  <2> DEFINE x == kn * cd
             y == cn * kd
  <2>1. x \in Nat /\ y \in Nat /\ x * bd > y * bd
    BY <1>3
  <2> HIDE DEF x, y
  <2>2. x > y
    BY <2>1
  <2>3. QED
    BY <2>2 DEF x, y

LEMMA CloserIsTransitive ==
  ASSUME NEW b, Proper(b), NEW c, Proper(c), NEW k, Proper(k),
         Closer(c, b), ~Closer(k, b)
  PROVE  Closer(c, k) /\ ~Closer(k, c)
<1> DEFINE bn == Distance(b).n  bd == Distance(b).d
           cn == Distance(c).n  cd == Distance(c).d
           kn == Distance(k).n  kd == Distance(k).d
<1>1. /\ bn \in Nat \ {0} /\ bd \in Nat \ {0} /\ cn \in Nat \ {0}
      /\ cd \in Nat \ {0} /\ kn \in Nat \ {0} /\ kd \in Nat \ {0}
  BY DistanceIsFraction
<1>2. bn * cd > cn * bd /\ ~(bn * kd > kn * bd)
  BY DEF Closer
<1>3. /\ Closer(c, k) <=> kn * cd > cn * kd
      /\ Closer(k, c) <=> cn * kd > kn * cd
  BY DEF Closer
<1> HIDE DEF bn, bd, cn, cd, kn, kd
<1>4. kn * cd > cn * kd
  BY <1>1, <1>2, Fractions
<1>5. kn * cd \in Nat /\ cn * kd \in Nat
  BY <1>1
<1> DEFINE x == kn * cd
           y == cn * kd
<1> HIDE DEF x, y
<1>6. x \in Nat /\ y \in Nat /\ x > y => ~(y > x)
  OBVIOUS
<1>7. QED
  BY <1>3, <1>4, <1>5, <1>6 DEF x, y

LEMMA NotCloserToItself ==
  ASSUME NEW c, Proper(c)
  PROVE  ~Closer(c, c)
<1> DEFINE x == Distance(c).n * Distance(c).d
<1>1. Closer(c, c) <=> x > x
  BY DEF Closer
<1>2. x \in Nat
  BY DistanceIsFraction
<1> HIDE DEF x
<1>3. QED
  BY <1>1, <1>2

\* The size a logo is drawn in.
Fits(s, l) ==
  /\ s.w \in Nat /\ s.h \in Nat /\ s.den \in Nat \ {0}
  /\ s.w * l.h = s.h * l.w
  /\ s.w <= l.w * s.den
  /\ s.w <= maxWidth * s.den /\ s.h <= maxHeight * s.den
  /\ \/ s = Whole(l)
     \/ s.w = maxWidth * s.den \/ s.h = maxHeight * s.den

LEMMA CutFits ==
  ASSUME NEW l, Proper(l)
  PROVE  Fits(CutHeight(CutWidth(Whole(l))), l)
<1> DEFINE w == l.w
           h == l.h
           s == CutHeight(CutWidth(Whole(l)))
<1> SUFFICES Fits(s, l)
  OBVIOUS
<1>1. w \in Nat /\ h \in Nat /\ w >= 1 /\ h >= 1
  BY DEF Proper
<1>2. CASE w <= 115 /\ h <= 69
  <2>1. s = Whole(l) /\ Whole(l) = [w |-> w, h |-> h, den |-> 1]
    BY <1>1, <1>2 DEF CutHeight, CutWidth, Whole, maxWidth, maxHeight
  <2>2. s.w = w /\ s.h = h /\ s.den = 1
    BY <2>1
  <2> HIDE DEF s
  <2>3. QED
    BY <1>1, <1>2, <2>1, <2>2 DEF Fits, maxWidth, maxHeight
<1>3. CASE w <= 115 /\ h > 69
  <2>1. s = [w |-> 69 * w, h |-> 69 * h, den |-> h]
    BY <1>1, <1>3 DEF CutHeight, CutWidth, Whole, maxWidth, maxHeight
  <2>2. s.w = 69 * w /\ s.h = 69 * h /\ s.den = h
    BY <2>1
  <2> HIDE DEF s
  <2>3. 69 * w <= w * h
    BY <1>1, <1>3
  <2>4. (69 * w) * h = (69 * h) * w
    BY <1>1
  <2>5. 69 * w <= 115 * h
    BY <1>1, <1>3
  <2>6. QED
    BY <1>1, <1>3, <2>2, <2>3, <2>4, <2>5 DEF Fits, maxWidth, maxHeight
<1>4. CASE w > 115 /\ 115 * h <= 69 * w
  <2>1. s = [w |-> 115 * w, h |-> 115 * h, den |-> w]
    <3>1. CutWidth(Whole(l)) = [w |-> 115 * w, h |-> 115 * h, den |-> w]
      BY <1>1, <1>4 DEF CutWidth, Whole, maxWidth
    <3>2. QED
      BY <1>1, <1>4, <3>1 DEF CutHeight, maxHeight
  <2>2. s.w = 115 * w /\ s.h = 115 * h /\ s.den = w
    BY <2>1
  <2> HIDE DEF s
  <2>3. 115 * w <= w * w
    BY <1>1, <1>4
  <2>4. (115 * w) * h = (115 * h) * w
    BY <1>1
  <2>5. QED
    BY <1>1, <1>4, <2>2, <2>3, <2>4 DEF Fits, maxWidth, maxHeight
<1>5. CASE w > 115 /\ 115 * h > 69 * w
  <2>1. s = [w |-> 69 * (115 * w), h |-> 69 * (115 * h), den |-> 115 * h]
    <3>1. CutWidth(Whole(l)) = [w |-> 115 * w, h |-> 115 * h, den |-> w]
      BY <1>1, <1>5 DEF CutWidth, Whole, maxWidth
    <3>2. QED
      BY <1>1, <1>5, <3>1 DEF CutHeight, maxHeight
  <2>2. s.w = 69 * (115 * w) /\ s.h = 69 * (115 * h) /\ s.den = 115 * h
    BY <2>1
  <2> HIDE DEF s
  <2>3. h > 69
    BY <1>1, <1>5
  <2>4. 69 * w <= w * h
    BY <1>1, <2>3
  <2>5. 69 * (115 * w) <= w * (115 * h)
    BY <1>1, <2>4
  <2>6. (69 * (115 * w)) * h = (69 * (115 * h)) * w
    BY <1>1
  <2>7. 69 * (115 * w) <= 115 * (115 * h)
    BY <1>1, <1>5
  <2>8. QED
    BY <1>1, <1>5, <2>2, <2>5, <2>6, <2>7 DEF Fits, maxWidth, maxHeight
<1>6. QED
  BY <1>1, <1>2, <1>3, <1>4, <1>5

-----------------------------------------------------------------------------
\* No logo of a language can be shown.
NoLogoIn(lang) == \A k \in 1..Len(logos) : ~Usable(logos[k], lang)

\* The best of the logos before a place, for a language.
BestBefore(b, upto, lang) ==
  IF b = 0 THEN \A k \in 1..(upto - 1) : ~Usable(logos[k], lang)
  ELSE /\ b \in 1..(upto - 1) /\ Usable(logos[b], lang)
       /\ \A k \in 1..(upto - 1) :
            Usable(logos[k], lang) => /\ ~Closer(logos[k], logos[b])
                                      /\ k < b => Closer(logos[b], logos[k])

\* The best logo so far is that of the logos the pass has looked at, and the
\* passes that are over have found nothing; before the set-up there was none.
LogoInv ==
  /\ Len(logos) \in Nat /\ DOMAIN logos = 1..Len(logos)
  /\ \A k \in 1..Len(logos) : Proper(logos[k])
  /\ default # NoLang
  /\ pass \in 1..5 /\ cursor \in 1..(Len(logos) + 1)
  /\ best \in 0..Len(logos) /\ chosen \in 0..Len(logos)
  /\ pass < 5 => chosen = 0 /\ size.w = 0 /\ BestBefore(best, cursor, Wanted(pass))
  /\ pass = 5 => best = 0
  /\ drawing = "start" => pass = 1 /\ cursor = 1 /\ best = 0
  /\ pass \in {2, 3, 4} => NoLogoIn(NoLang)
  /\ pass \in {3, 4} => NoLogoIn(region)
  /\ ChoosesTheBest
  /\ size.w \in Nat /\ size.h \in Nat /\ size.den \in Nat \ {0}
  /\ size.w # 0 => Fits(size, logos[chosen])

LEMMA LogoTypes == LogoInv => LogoTypeOK
<1> SUFFICES ASSUME LogoInv PROVE LogoTypeOK
  OBVIOUS
<1>1. best # 0 => best < cursor /\ Usable(logos[best], Wanted(pass))
  BY DEF LogoInv, BestBefore
<1>2. QED
  BY <1>1 DEF LogoInv, LogoTypeOK

LEMMA LogoStart == LocalInit /\ LogoInit => LogoInv
<1> SUFFICES ASSUME LocalInit, LogoInit PROVE LogoInv
  OBVIOUS
<1>1. /\ drawing = "start" /\ default \in Defaults
      /\ pass = 1 /\ cursor = 1 /\ best = 0 /\ chosen = 0
      /\ size = [w |-> 0, h |-> 0, den |-> 1]
  BY DEF LocalInit, LogoInit
<1>2. PICK n \in 0..MaxLogos :
        logos \in [1..n -> {Logo(s, l) : s \in Sizes, l \in Langs \cup {NoLang}}]
  BY DEF LogoInit
<1>3. n \in Nat
  BY LogoAssumption
<1>4. Len(logos) = n /\ DOMAIN logos = 1..n
  BY <1>2, <1>3
<1>5. \A k \in 1..n : Proper(logos[k])
  <2> TAKE k \in 1..n
  <2>1. PICK s \in Sizes, l \in Langs \cup {NoLang} : logos[k] = Logo(s, l)
    BY <1>2
  <2>2. s.w \in Nat \ {0} /\ s.h \in Nat \ {0}
    BY LogoAssumption
  <2>3. QED
    BY <2>1, <2>2 DEF Logo, Proper
<1>6. default # NoLang
  BY <1>1, LocalAssumption
<1>7. size.w = 0 /\ size.h = 0 /\ size.den = 1
  BY <1>1
<1>8. BestBefore(best, cursor, Wanted(pass))
  BY <1>1 DEF BestBefore
<1>9. QED
  BY <1>1, <1>3, <1>4, <1>5, <1>6, <1>7, <1>8 DEF LogoInv, ChoosesTheBest

\* The set-up finds no logo drawn, and what is drawn before leaves it alone.
LEMMA LogoSetUp == LogoInv /\ SetUp /\ UNCHANGED logoVars => LogoInv'
<1> SUFFICES ASSUME LogoInv, SetUp, UNCHANGED logoVars PROVE LogoInv'
  OBVIOUS
<1>1. drawing = "start" /\ drawing' \in {"drawn", "failed"} /\ default' = default
  BY DEF SetUp, Outcome
<1>2. /\ logos' = logos /\ pass' = 1 /\ cursor' = 1 /\ best' = 0
      /\ chosen' = 0 /\ size' = size /\ size.w = 0
  BY <1>1 DEF LogoInv, logoVars
<1>3. (\A k \in 1..Len(logos) : Proper(logos[k]))'
  BY <1>2 DEF LogoInv, Proper
<1>4. BestBefore(best, cursor, Wanted(pass))'
  BY <1>2 DEF BestBefore
<1>5. ChoosesTheBest'
  BY <1>2 DEF ChoosesTheBest
<1>6. QED
  BY <1>1, <1>2, <1>3, <1>4, <1>5 DEF LogoInv

LEMMA LogoRest ==
  LogoInv /\ UNCHANGED <<drawing, region, default>> /\ UNCHANGED logoVars => LogoInv'
<1> SUFFICES ASSUME LogoInv, UNCHANGED <<drawing, region, default>>, UNCHANGED logoVars
             PROVE  LogoInv'
  OBVIOUS
<1>1. QED
  BY DEF LogoInv, logoVars, BestBefore, Wanted, NoLogoIn, ChoosesTheBest, UsableLogos,
         Rank, Fits, Proper, Whole, Usable, Closer, Distance

\* A turn of the loop.
LEMMA LookStep == LogoInv /\ Look /\ UNCHANGED localVars => LogoInv'
<1> SUFFICES ASSUME LogoInv, Look, UNCHANGED localVars PROVE LogoInv'
  OBVIOUS
<1> DEFINE lang == Wanted(pass)
           take == Usable(logos[cursor], lang) /\ (best = 0 \/ Closer(logos[cursor], logos[best]))
<1>1. /\ drawing = "drawn" /\ pass < 5 /\ cursor <= Len(logos)
      /\ best' = IF take THEN cursor ELSE best
      /\ cursor' = cursor + 1
      /\ logos' = logos /\ pass' = pass /\ chosen' = chosen /\ size' = size
  BY DEF Look
<1>2. drawing' = drawing /\ region' = region /\ default' = default
  BY DEF localVars
<1>3. /\ Len(logos) \in Nat /\ cursor \in 1..Len(logos) /\ best \in 0..Len(logos)
      /\ \A k \in 1..Len(logos) : Proper(logos[k])
      /\ BestBefore(best, cursor, lang)
  BY <1>1 DEF LogoInv
<1>4. best' \in 0..Len(logos) /\ cursor' \in 1..(Len(logos) + 1)
  BY <1>1, <1>3
<1>5. BestBefore(best', cursor', lang)
  <2> HIDE DEF lang
  <2>1. \A k : k \in 1..(cursor' - 1) <=> k \in 1..(cursor - 1) \/ k = cursor
    BY <1>1, <1>3
  <2>2. \A k \in 1..(cursor - 1) : k < cursor /\ k \in 1..Len(logos) /\ k # 0
    BY <1>3
  <2>3. CASE ~take /\ best = 0
    BY <1>1, <1>3, <2>1, <2>3 DEF BestBefore
  <2>4. CASE ~take /\ best # 0
    <3>1. best' = best /\ best \in 1..(cursor - 1) /\ best < cursor
      BY <1>1, <1>3, <2>2, <2>4 DEF BestBefore
    <3>2. Usable(logos[cursor], lang) => ~Closer(logos[cursor], logos[best])
      BY <2>4
    <3>3. ~(cursor < best)
      BY <1>3, <3>1
    <3>4. QED
      BY <1>3, <2>1, <2>4, <3>1, <3>2, <3>3 DEF BestBefore
  <2>5. CASE take /\ best = 0
    <3>1. best' = cursor /\ cursor # 0 /\ cursor \in 1..(cursor' - 1)
      BY <1>1, <1>3, <2>5
    <3>2. ~Closer(logos[cursor], logos[cursor]) /\ ~(cursor < cursor)
      BY <1>3, NotCloserToItself
    <3>3. \A k \in 1..(cursor - 1) : ~Usable(logos[k], lang)
      BY <1>3, <2>5 DEF BestBefore
    <3>4. QED
      BY <2>1, <2>5, <3>1, <3>2, <3>3 DEF BestBefore
  <2>6. CASE take /\ best # 0
    <3>1. best' = cursor /\ cursor # 0 /\ cursor \in 1..(cursor' - 1)
      BY <1>1, <1>3, <2>6
    <3>2. ~Closer(logos[cursor], logos[cursor]) /\ ~(cursor < cursor)
      BY <1>3, NotCloserToItself
    <3>3. \A k \in 1..(cursor - 1) : Usable(logos[k], lang) => ~Closer(logos[k], logos[best])
      BY <1>3, <2>6 DEF BestBefore
    <3>4. Proper(logos[best]) /\ Proper(logos[cursor])
      BY <1>3, <2>6
    <3>5. \A k \in 1..(cursor - 1) :
            Usable(logos[k], lang) => /\ ~Closer(logos[k], logos[cursor])
                                      /\ Closer(logos[cursor], logos[k])
      BY <1>3, <2>2, <2>6, <3>3, <3>4, CloserIsTransitive
    <3>6. QED
      BY <2>1, <2>6, <3>1, <3>2, <3>5 DEF BestBefore
  <2>7. QED
    BY <2>3, <2>4, <2>5, <2>6
<1>6. BestBefore(best, cursor, Wanted(pass))'
  <2>1. Wanted(pass)' = lang
    BY <1>1, <1>2 DEF Wanted
  <2> HIDE DEF lang, take
  <2>2. \A x, l : Usable(x, l)' <=> Usable(x, l)
    BY Zenon DEF Usable, minWidth, minHeight
  <2>3. \A x, y : Closer(x, y)' <=> Closer(x, y)
    BY Zenon DEF Closer, Distance
  <2>4. logos' = logos
    BY <1>1
  <2>5. QED
    BY ONLY <1>5, <2>1, <2>2, <2>3, <2>4 DEF BestBefore
<1>7. ChoosesTheBest'
  BY <1>1 DEF ChoosesTheBest
<1>8. (NoLogoIn(NoLang)' <=> NoLogoIn(NoLang)) /\ (NoLogoIn(region)' <=> NoLogoIn(region))
  BY <1>1, <1>2 DEF NoLogoIn, Usable
<1>9. (\A k \in 1..Len(logos) : Proper(logos[k]))'
  BY <1>1, <1>3 DEF Proper
<1>10. size.w = 0
  BY <1>1 DEF LogoInv
<1> HIDE DEF take, lang
<1>11. QED
  BY <1>1, <1>2, <1>4, <1>6, <1>7, <1>8, <1>9, <1>10 DEF LogoInv

\* Two logos of the same rank are of the same language.
LEMMA RankIsLanguage ==
  ASSUME NEW x, NEW y, Rank(x) = Rank(y), Rank(x) < 5
  PROVE  x.lang = y.lang
BY DEF Rank

\* The pass is over.
LEMMA EndPassStep == LogoInv /\ EndPass /\ UNCHANGED localVars => LogoInv'
<1> SUFFICES ASSUME LogoInv, EndPass, UNCHANGED localVars PROVE LogoInv'
  OBVIOUS
<1> DEFINE lang == Wanted(pass)
<1>1. /\ drawing = "drawn" /\ pass < 5 /\ cursor > Len(logos)
      /\ pass' = AfterPass
      /\ chosen' = IF best # 0 THEN best ELSE chosen
      /\ best' = 0 /\ cursor' = 1 /\ logos' = logos /\ size' = size
  BY DEF EndPass
<1>2. drawing' = drawing /\ region' = region /\ default' = default
  BY DEF localVars
<1>3. /\ Len(logos) \in Nat /\ DOMAIN logos = 1..Len(logos)
      /\ best \in 0..Len(logos) /\ pass \in 1..4 /\ chosen = 0 /\ size.w = 0
      /\ \A k \in 1..Len(logos) : Proper(logos[k])
      /\ default # NoLang
      /\ BestBefore(best, Len(logos) + 1, lang)
  <2>1. cursor = Len(logos) + 1
    BY <1>1 DEF LogoInv
  <2>2. QED
    BY <1>1, <2>1 DEF LogoInv
<1>4. \A k : k \in 1..(Len(logos) + 1 - 1) <=> k \in 1..Len(logos)
  BY <1>3
<1>5. /\ pass \in {2, 3, 4} => NoLogoIn(NoLang)
      /\ pass \in {3, 4} => NoLogoIn(region)
  BY DEF LogoInv
<1>6. best = 0 => NoLogoIn(lang)
  BY <1>3, <1>4 DEF BestBefore, NoLogoIn
<1>7. /\ pass \in {1, 3} => lang = NoLang
      /\ pass = 2 => lang = region
      /\ pass = 4 => lang = default
  BY DEF Wanted
<1>8. pass' \in 1..5 /\ (pass' < 5 => best = 0 /\ pass # 4)
  BY <1>1, <1>3 DEF AfterPass
<1>9. /\ pass' \in {2, 3, 4} => NoLogoIn(NoLang)
      /\ pass' \in {3, 4} => NoLogoIn(region)
  <2> HIDE DEF lang
  <2>1. CASE best # 0
    BY <1>1, <2>1 DEF AfterPass
  <2>2. CASE best = 0
    <3>1. pass' = IF pass = 1 /\ region = NoLang THEN 3 ELSE pass + 1
      BY <1>1, <2>2 DEF AfterPass
    <3>2. CASE pass = 1
      BY <1>6, <1>7, <2>2, <3>1, <3>2
    <3>3. CASE pass = 2
      BY <1>5, <1>6, <1>7, <2>2, <3>1, <3>3
    <3>4. CASE pass \in {3, 4}
      BY <1>5, <3>1, <3>4
    <3>5. QED
      BY <1>3, <3>2, <3>3, <3>4
  <2>3. QED
    BY <2>1, <2>2
<1>10. (NoLogoIn(NoLang)' <=> NoLogoIn(NoLang)) /\ (NoLogoIn(region)' <=> NoLogoIn(region))
  BY <1>1, <1>2 DEF NoLogoIn, Usable
<1>11. UsableLogos' = UsableLogos /\ \A l : Rank(l)' = Rank(l)
  BY <1>1, <1>2 DEF UsableLogos, Usable, Rank
<1>12. \A k \in UsableLogos : /\ k \in 1..Len(logos) /\ Rank(logos[k]) < 5
                              /\ Usable(logos[k], logos[k].lang)
  BY <1>3 DEF UsableLogos
<1>13. CASE best # 0
  <2>1. pass' = 5 /\ chosen' = best /\ best \in 1..Len(logos) /\ Usable(logos[best], lang)
    BY <1>1, <1>3, <1>4, <1>13 DEF AfterPass, BestBefore
  <2>2. logos[best].lang = lang
    BY <2>1 DEF Usable
  <2>3. /\ Rank(logos[best]) < 5
        /\ \A k \in UsableLogos : Rank(logos[best]) <= Rank(logos[k])
    <3>1. CASE pass \in {1, 3}
      BY <1>7, <2>2, <3>1 DEF Rank
    <3>2. CASE pass = 2
      <4>1. \A k \in UsableLogos : logos[k].lang # NoLang
        BY <1>5, <1>12, <3>2 DEF NoLogoIn
      <4>2. Rank(logos[best]) \in {1, 2}
        BY <1>7, <2>2, <3>2 DEF Rank
      <4>3. \A k \in UsableLogos : Rank(logos[k]) \in {2, 4, 5}
        BY <4>1 DEF Rank
      <4>4. QED
        BY <4>2, <4>3
    <3>3. CASE pass = 4
      <4>1. \A k \in UsableLogos : logos[k].lang # NoLang /\ logos[k].lang # region
        BY <1>5, <1>12, <3>3 DEF NoLogoIn
      <4>2. default # region
        BY <1>5, <1>7, <2>1, <3>3 DEF NoLogoIn
      <4>3. Rank(logos[best]) = 4
        BY <1>3, <1>7, <2>2, <3>3, <4>2 DEF Rank
      <4>4. \A k \in UsableLogos : Rank(logos[k]) \in {4, 5}
        BY <4>1 DEF Rank
      <4>5. QED
        BY <4>3, <4>4
    <3>4. QED
      BY <1>3, <3>1, <3>2, <3>3
  <2>4. best \in UsableLogos
    BY <1>3, <2>1, <2>2, <2>3 DEF UsableLogos
  <2>5. \A k \in UsableLogos : Rank(logos[best]) = Rank(logos[k]) =>
          /\ ~Closer(logos[k], logos[best])
          /\ k < best => Closer(logos[best], logos[k])
    <3> TAKE k \in UsableLogos
    <3> HAVE Rank(logos[best]) = Rank(logos[k])
    <3>1. logos[k].lang = lang
      BY <2>2, <2>3, RankIsLanguage
    <3>2. Usable(logos[k], lang) /\ k \in 1..Len(logos)
      BY <1>12, <3>1
    <3>3. QED
      BY <1>3, <1>4, <1>13, <3>2 DEF BestBefore
  <2> HIDE DEF lang
  <2>6. ChoosesTheBest'
    <3>1. (chosen = 0)' = FALSE /\ UsableLogos' # {}
      BY <1>11, <1>13, <2>1, <2>4
    <3>2. chosen' \in UsableLogos'
      BY <1>11, <2>1, <2>4
    <3>3. (\A k \in UsableLogos :
              /\ Rank(logos[chosen]) <= Rank(logos[k])
              /\ Rank(logos[chosen]) = Rank(logos[k]) =>
                   /\ ~Closer(logos[k], logos[chosen])
                   /\ k < chosen => Closer(logos[chosen], logos[k]))'
      <4>1. \A x, y : Closer(x, y)' <=> Closer(x, y)
        BY Zenon DEF Closer, Distance
      <4>2. QED
        BY <1>1, <1>11, <2>1, <2>3, <2>5, <4>1
    <3>4. QED
      BY <3>1, <3>2, <3>3 DEF ChoosesTheBest
  <2>7. (\A k \in 1..Len(logos) : Proper(logos[k]))'
    BY <1>1, <1>3 DEF Proper
  <2>8. QED
    BY <1>1, <1>2, <1>3, <1>8, <1>13, <2>1, <2>6, <2>7 DEF LogoInv
<1>14. CASE best = 0 /\ pass' = 5
  <2>1. pass = 4
    BY <1>1, <1>3, <1>14 DEF AfterPass
  <2>2. UsableLogos = {}
    <3> SUFFICES ASSUME NEW k \in UsableLogos PROVE FALSE
      OBVIOUS
    <3>1. logos[k].lang \in {NoLang, region, default}
      BY <1>12 DEF Rank
    <3>2. QED
      BY <1>5, <1>6, <1>7, <1>12, <1>14, <2>1, <3>1 DEF NoLogoIn
  <2>3. chosen' = 0
    BY <1>1, <1>3, <1>14
  <2>4. ChoosesTheBest'
    BY <1>11, <2>2, <2>3 DEF ChoosesTheBest
  <2>5. (\A k \in 1..Len(logos) : Proper(logos[k]))'
    BY <1>1, <1>3 DEF Proper
  <2> HIDE DEF lang
  <2>6. QED
    BY <1>1, <1>2, <1>3, <1>14, <2>3, <2>4, <2>5 DEF LogoInv
<1>15. CASE best = 0 /\ pass' # 5
  <2>1. chosen' = 0 /\ pass' < 5
    BY <1>1, <1>3, <1>8, <1>15
  <2>2. ChoosesTheBest'
    BY <1>15 DEF ChoosesTheBest
  <2>3. (\A k \in 1..Len(logos) : Proper(logos[k]))'
    BY <1>1, <1>3 DEF Proper
  <2>4. BestBefore(best, cursor, Wanted(pass))'
    BY <1>1 DEF BestBefore
  <2> HIDE DEF lang
  <2>5. QED
    BY <1>1, <1>2, <1>3, <1>8, <1>9, <1>10, <2>1, <2>2, <2>3, <2>4 DEF LogoInv
<1>16. QED
  BY <1>13, <1>14, <1>15

\* The logo is drawn.
LEMMA LogoDrawStep == LogoInv /\ Draw /\ UNCHANGED localVars => LogoInv'
<1> SUFFICES ASSUME LogoInv, Draw, UNCHANGED localVars PROVE LogoInv'
  OBVIOUS
<1> DEFINE s == CutHeight(CutWidth(Whole(logos[chosen])))
<1>1. /\ pass = 5 /\ size.w = 0
      /\ size' = IF chosen = 0 THEN size ELSE s
      /\ UNCHANGED <<logos, pass, cursor, best, chosen>>
  BY DEF Draw
<1>2. drawing' = drawing /\ region' = region /\ default' = default
  BY DEF localVars
<1>3. ChoosesTheBest'
  BY <1>1, <1>2 DEF LogoInv, ChoosesTheBest, UsableLogos, Usable, Rank, Closer, Distance
<1>4. (\A k \in 1..Len(logos) : Proper(logos[k]))'
  BY <1>1 DEF LogoInv, Proper
<1>5. chosen # 0 => Fits(s, logos[chosen])
  <2> HAVE chosen # 0
  <2>1. Proper(logos[chosen])
    BY DEF LogoInv
  <2>2. QED
    BY <2>1, CutFits
<1> HIDE DEF s
<1>6. /\ size'.w \in Nat /\ size'.h \in Nat /\ size'.den \in Nat \ {0}
      /\ size'.w # 0 => Fits(size', logos[chosen])
  BY <1>1, <1>5 DEF LogoInv, Fits
<1>7. (size.w # 0 => Fits(size, logos[chosen]))'
  BY <1>1, <1>6 DEF Fits, Whole
<1>8. QED
  BY <1>1, <1>2, <1>3, <1>4, <1>6, <1>7 DEF LogoInv

LEMMA LogoStep == LogoInv /\ LogoNext /\ UNCHANGED localVars => LogoInv'
<1> SUFFICES ASSUME LogoInv, LogoNext, UNCHANGED localVars PROVE LogoInv'
  OBVIOUS
<1>1. CASE LogoDrawn
  BY <1>1, LogoRest DEF LogoDrawn, localVars
<1>2. QED
  BY <1>1, LookStep, EndPassStep, LogoDrawStep DEF LogoNext

\* The logo shown is the best one of the first language asked for that has a
\* usable logo, and it lies within the box, its shape kept (H).
THEOREM LogoIsTheBest == LogoSpec => []BestLogoInTheBox
<1>1. LocalInit /\ LogoInit => LogoInv
  BY LogoStart
<1>2. LogoInv /\ [ \/ SetUp /\ UNCHANGED logoVars
                   \/ LogoNext /\ UNCHANGED localVars ]_<<localVars, logoVars>> => LogoInv'
  BY LogoSetUp, LogoStep, LogoRest DEF localVars
<1>3. LogoInv => BestLogoInTheBox
  <2> SUFFICES ASSUME LogoInv PROVE FitsTheBox
    BY DEF LogoInv, BestLogoInTheBox
  <2>1. QED
    BY DEF LogoInv, FitsTheBox, Fits
<1>4. QED
  BY <1>1, <1>2, <1>3, PTL DEF LogoSpec

-----------------------------------------------------------------------------
(***************************************************************************)
(* The list made of the feed.  Both loops shrink the list they walk: what  *)
(* is left of it is the end of the feed, and what is before the place are  *)
(* the first entries of the providers met.                                 *)
(***************************************************************************)
\* Taking an entry out, told place by place.
LEMMA RemoveAtFacts ==
  ASSUME NEW X, NEW a \in Seq(X), NEW n \in 1..Len(a)
  PROVE  /\ RemoveAt(a, n) \in Seq(X) /\ Len(RemoveAt(a, n)) = Len(a) - 1
         /\ \A k \in 1..(Len(a) - 1) :
              RemoveAt(a, n)[k] = IF k < n THEN a[k] ELSE a[k + 1]
<1>1. Len(a) \in Nat /\ n \in Nat /\ n >= 1 /\ n <= Len(a)
      /\ \A k \in 1..Len(a) : a[k] \in X
  OBVIOUS
<1> DEFINE u == SubSeq(a, 1, n - 1)
           v == SubSeq(a, n + 1, Len(a))
<1>2. /\ u \in Seq(X) /\ Len(u) = n - 1
      /\ \A k \in 1..(n - 1) : u[k] = a[k]
  <2>1. \A k \in 1..(n - 1) : a[k] \in X
    BY <1>1
  <2>2. /\ u \in Seq(X)
        /\ Len(u) = IF 1 <= n - 1 THEN (n - 1) - 1 + 1 ELSE 0
        /\ \A k \in 1..((n - 1) - 1 + 1) : u[k] = a[1 + k - 1]
    BY <1>1, <2>1, SubSeqProperties
  <2> HIDE DEF u
  <2>3. Len(u) = n - 1 /\ (n - 1) - 1 + 1 = n - 1
    BY <1>1, <2>2
  <2>4. \A k \in 1..(n - 1) : 1 + k - 1 = k
    BY <1>1
  <2>5. QED
    BY <2>2, <2>3, <2>4
<1>3. /\ v \in Seq(X) /\ Len(v) = Len(a) - n
      /\ \A k \in 1..(Len(a) - n) : v[k] = a[n + k]
  <2>1. \A k \in (n + 1)..Len(a) : a[k] \in X
    BY <1>1
  <2>2. /\ v \in Seq(X)
        /\ Len(v) = IF n + 1 <= Len(a) THEN Len(a) - (n + 1) + 1 ELSE 0
        /\ \A k \in 1..(Len(a) - (n + 1) + 1) : v[k] = a[(n + 1) + k - 1]
    BY <1>1, <2>1, SubSeqProperties
  <2> HIDE DEF v
  <2>3. Len(v) = Len(a) - n /\ Len(a) - (n + 1) + 1 = Len(a) - n
    BY <1>1, <2>2
  <2>4. \A k \in 1..(Len(a) - n) : (n + 1) + k - 1 = n + k
    BY <1>1
  <2>5. QED
    BY <2>2, <2>3, <2>4
<1>4. RemoveAt(a, n) = u \o v
  BY DEF RemoveAt
<1> HIDE DEF u, v
<1>5. /\ u \o v \in Seq(X) /\ Len(u \o v) = Len(u) + Len(v)
      /\ \A k \in 1..(Len(u) + Len(v)) :
           (u \o v)[k] = IF k <= Len(u) THEN u[k] ELSE v[k - Len(u)]
  BY <1>2, <1>3, ConcatProperties
<1>6. Len(u) + Len(v) = Len(a) - 1
  BY <1>1, <1>2, <1>3
<1>7. ASSUME NEW k \in 1..(Len(a) - 1)
      PROVE  (u \o v)[k] = IF k < n THEN a[k] ELSE a[k + 1]
  <2>1. (u \o v)[k] = IF k <= n - 1 THEN u[k] ELSE v[k - (n - 1)]
    BY <1>2, <1>5, <1>6
  <2>2. CASE k < n
    <3>1. k \in 1..(n - 1) /\ k <= n - 1
      BY <1>1, <2>2
    <3>2. QED
      BY <1>2, <2>1, <2>2, <3>1
  <2>3. CASE ~(k < n)
    <3>1. k - (n - 1) \in 1..(Len(a) - n) /\ n + (k - (n - 1)) = k + 1 /\ ~(k <= n - 1)
      BY <1>1, <2>3
    <3>2. QED
      BY <1>3, <2>1, <2>3, <3>1
  <2>4. QED
    BY <2>2, <2>3
<1>8. QED
  BY <1>4, <1>5, <1>6, <1>7

\* What is left are the other entries.
LEMMA RemoveAtOthers ==
  ASSUME NEW X, NEW a \in Seq(X), NEW n \in 1..Len(a), NEW b, b = RemoveAt(a, n)
  PROVE  /\ b \in Seq(X) /\ Len(b) = Len(a) - 1
         /\ \A k \in 1..Len(b) : \E m \in 1..Len(a) : m # n /\ b[k] = a[m]
         /\ \A m \in 1..Len(a) : m # n => \E k \in 1..Len(b) : b[k] = a[m]
<1>1. /\ b \in Seq(X) /\ Len(b) = Len(a) - 1 /\ Len(a) \in Nat
      /\ \A k \in 1..(Len(a) - 1) : b[k] = IF k < n THEN a[k] ELSE a[k + 1]
  BY RemoveAtFacts
<1>2. ASSUME NEW k \in 1..Len(b) PROVE \E m \in 1..Len(a) : m # n /\ b[k] = a[m]
  <2>1. CASE k < n
    <3>1. k \in 1..Len(a) /\ k # n /\ b[k] = a[k]
      BY <1>1, <2>1
    <3>2. QED
      BY <3>1
  <2>2. CASE ~(k < n)
    <3>1. k + 1 \in 1..Len(a) /\ k + 1 # n /\ b[k] = a[k + 1]
      BY <1>1, <2>2
    <3>2. QED
      BY <3>1
  <2>3. QED
    BY <2>1, <2>2
<1>3. ASSUME NEW m \in 1..Len(a), m # n PROVE \E k \in 1..Len(b) : b[k] = a[m]
  <2>1. CASE m < n
    <3>1. m \in 1..Len(b) /\ b[m] = a[m]
      BY <1>1, <2>1
    <3>2. QED
      BY <3>1
  <2>2. CASE ~(m < n)
    <3>1. m - 1 \in 1..Len(b) /\ ~(m - 1 < n) /\ (m - 1) + 1 = m
      BY <1>1, <1>3, <2>2
    <3>2. b[m - 1] = a[m]
      BY <1>1, <3>1
    <3>3. QED
      BY <3>1, <3>2
  <2>3. QED
    BY <2>1, <2>2
<1>4. QED
  BY <1>1, <1>2, <1>3

-----------------------------------------------------------------------------
\* No two of the first n entries of a list are of one provider.
Distinct(a, n) == \A k, m \in 1..n : a[k].id = a[m].id => k = m

LEMMA StaysDistinct ==
  ASSUME NEW X, NEW a \in Seq(X), NEW n \in 1..Len(a), Distinct(a, Len(a))
  PROVE  Distinct(RemoveAt(a, n), Len(a) - 1)
<1> DEFINE b == RemoveAt(a, n)
<1>1. /\ Len(a) \in Nat /\ n \in 1..Len(a)
      /\ \A k \in 1..(Len(a) - 1) : b[k] = IF k < n THEN a[k] ELSE a[k + 1]
  BY RemoveAtFacts
<1> HIDE DEF b
<1> SUFFICES ASSUME NEW k \in 1..(Len(a) - 1), NEW m \in 1..(Len(a) - 1), b[k].id = b[m].id
             PROVE  k = m
  BY DEF Distinct, b
<1>2. /\ k \in 1..Len(a) /\ k + 1 \in 1..Len(a) /\ m \in 1..Len(a) /\ m + 1 \in 1..Len(a)
  BY <1>1
<1>3. /\ b[k] = IF k < n THEN a[k] ELSE a[k + 1]
      /\ b[m] = IF m < n THEN a[m] ELSE a[m + 1]
  BY <1>1
<1>4. \A x, y \in 1..Len(a) : a[x].id = a[y].id => x = y
  BY DEF Distinct
<1>5. CASE k < n /\ m < n
  BY <1>2, <1>3, <1>4, <1>5
<1>6. CASE k < n /\ ~(m < n)
  <2>1. k = m + 1
    BY <1>2, <1>3, <1>4, <1>6
  <2>2. QED
    BY <1>1, <1>6, <2>1
<1>7. CASE ~(k < n) /\ m < n
  <2>1. k + 1 = m
    BY <1>2, <1>3, <1>4, <1>7
  <2>2. QED
    BY <1>1, <1>7, <2>1
<1>8. CASE ~(k < n) /\ ~(m < n)
  <2>1. k + 1 = m + 1
    BY <1>2, <1>3, <1>4, <1>8
  <2>2. QED
    BY <1>1, <2>1
<1>9. QED
  BY <1>5, <1>6, <1>7, <1>8

\* The entries of the feed aK has looked at, and the first ones of it.
Met == place - 1 + (Len(feedSent) - Len(r))
FirstAt(k) == \A m \in 1..(k - 1) : feedSent[m].id # feedSent[k].id

CopiesInv ==
  /\ place \in 1..(Len(r) + 1)
  /\ \A m \in place..Len(r) : r[m] = feedSent[m + (Len(feedSent) - Len(r))]
  /\ \A k \in 1..Met : feedSent[k].id \in seen
  /\ \A i \in seen : \E k \in 1..Met : feedSent[k].id = i
  /\ \A m \in 1..(place - 1) : \E k \in 1..Met : FirstAt(k) /\ r[m] = feedSent[k]
  /\ \A k \in 1..Met : FirstAt(k) => \E m \in 1..(place - 1) : r[m] = feedSent[k]
  /\ Distinct(r, place - 1)

\* The hidden ids u has looked at.
PastHidden(i) == \E k \in 1..(place - 1) : HiddenIds[k] = i

HiddenInv ==
  /\ place \in 1..(Len(HiddenIds) + 1)
  /\ Distinct(r, Len(r))
  /\ \A m \in 1..Len(r) : r[m] \in Firsts /\ ~PastHidden(r[m].id)
  /\ \A e \in Firsts : ~PastHidden(e.id) => \E m \in 1..Len(r) : r[m] = e

FeedInv ==
  /\ feedSent \in Seq(FeedEntries) /\ r \in Seq(FeedEntries)
  /\ Len(r) <= Len(feedSent)
  /\ work \in {"copies", "hidden", "done"}
  /\ work = "copies" => CopiesInv
  /\ work = "hidden" => HiddenInv
  /\ EachProviderOnce

LEMMA FeedStart == FeedInit => FeedInv
<1> SUFFICES ASSUME FeedInit PROVE FeedInv
  OBVIOUS
<1>1. feedSent \in Seq(FeedEntries)
  <2>1. PICK m \in 0..MaxFeed : feedSent \in [1..m -> FeedEntries]
    BY Zenon DEF FeedInit, BoundedSeq, SeqOf
  <2>2. m \in Nat
    BY FeedListAssumption
  <2>3. QED
    BY <2>1, <2>2
<1>2. r = feedSent /\ seen = {} /\ place = 1 /\ work = "copies"
  BY DEF FeedInit
<1>3. Len(feedSent) \in Nat /\ Len(r) = Len(feedSent)
  BY <1>1, <1>2
<1>4. Met = 0 /\ place - 1 = 0
  BY <1>2, <1>3 DEF Met
<1>5. CopiesInv
  <2>1. \A m \in place..Len(r) : r[m] = feedSent[m + (Len(feedSent) - Len(r))]
    BY <1>2, <1>3
  <2>2. place \in 1..(Len(r) + 1)
    BY <1>2, <1>3
  <2>3. 1..Met = {} /\ 1..(place - 1) = {}
    BY <1>4
  <2>4. QED
    BY <1>2, <2>1, <2>2, <2>3 DEF CopiesInv, Distinct
<1>6. QED
  BY <1>1, <1>2, <1>3, <1>5 DEF FeedInv, EachProviderOnce

\* A turn of aK.
LEMMA DropCopiesStep == FeedInv /\ DropCopies => FeedInv'
<1> SUFFICES ASSUME FeedInv, DropCopies PROVE FeedInv'
  OBVIOUS
<1> DEFINE d == Len(feedSent) - Len(r)
           q == Met + 1
<1>1. /\ work = "copies" /\ place <= Len(r) /\ feedSent' = feedSent /\ work' = work
  BY DEF DropCopies
<1>2. /\ feedSent \in Seq(FeedEntries) /\ r \in Seq(FeedEntries)
      /\ Len(r) <= Len(feedSent) /\ Len(r) \in Nat /\ Len(feedSent) \in Nat
  BY DEF FeedInv
<1>3. /\ place \in 1..(Len(r) + 1)
      /\ \A m \in place..Len(r) : r[m] = feedSent[m + d]
      /\ \A k \in 1..Met : feedSent[k].id \in seen
      /\ \A i \in seen : \E k \in 1..Met : feedSent[k].id = i
      /\ \A m \in 1..(place - 1) : \E k \in 1..Met : FirstAt(k) /\ r[m] = feedSent[k]
      /\ \A k \in 1..Met : FirstAt(k) => \E m \in 1..(place - 1) : r[m] = feedSent[k]
      /\ Distinct(r, place - 1)
  BY <1>1 DEF FeedInv, CopiesInv
<1>4. /\ place \in 1..Len(r) /\ d \in Nat /\ Met \in Nat /\ q = place + d
      /\ \A k \in 1..q : k \in 1..Met \/ k = q
      /\ \A k \in 1..Met : k \in 1..q
      /\ q \in 1..q /\ q - 1 = Met
  <2>1. place \in Nat /\ place >= 1 /\ place <= Len(r)
    BY <1>1, <1>2, <1>3
  <2>2. Met = place - 1 + d
    BY DEF Met
  <2>3. d \in Nat
    BY <1>2
  <2> HIDE DEF d
  <2>4. Met \in Nat /\ q = place + d
    BY <2>1, <2>2, <2>3
  <2> HIDE DEF q
  <2>5. q = Met + 1
    BY DEF q
  <2>6. QED
    BY <1>2, <2>1, <2>3, <2>4, <2>5
<1>5. feedSent[q] = r[place]
  BY <1>3, <1>4
<1>6. \A k : FirstAt(k)' <=> FirstAt(k)
  BY <1>1 DEF FirstAt
<1>7. FirstAt(q) <=> r[place].id \notin seen
  <2>1. FirstAt(q) <=> \A m \in 1..Met : feedSent[m].id # r[place].id
    BY <1>4, <1>5 DEF FirstAt
  <2>2. QED
    BY <1>3, <2>1
<1> HIDE DEF d, q
<1>8. CASE r[place].id \in seen
  <2>1. r' = RemoveAt(r, place) /\ place' = place /\ seen' = seen
    BY <1>8 DEF DropCopies, AfterRemoval
  <2>2. /\ r' \in Seq(FeedEntries) /\ Len(r') = Len(r) - 1
        /\ \A k \in 1..(Len(r) - 1) : r'[k] = IF k < place THEN r[k] ELSE r[k + 1]
    BY <1>2, <1>4, <2>1, RemoveAtFacts
  <2>3. Met' = q
    BY <1>1, <1>2, <1>3, <1>4, <2>1, <2>2 DEF Met, q
  <2>4. \A m \in 1..(place - 1) : r'[m] = r[m]
    BY <1>2, <1>4, <2>2
  <2>5. \A m \in place'..Len(r') : r'[m] = feedSent'[m + (Len(feedSent') - Len(r'))]
    <3> SUFFICES ASSUME NEW m \in place..Len(r')
                 PROVE  r'[m] = feedSent[m + (Len(feedSent) - Len(r'))]
      BY <1>1, <2>1
    <3>1. /\ m \in 1..(Len(r) - 1) /\ ~(m < place) /\ m + 1 \in place..Len(r)
          /\ m + (Len(feedSent) - Len(r')) = (m + 1) + d
      BY <1>2, <1>4, <2>2 DEF d
    <3>2. QED
      BY <1>3, <2>2, <3>1
  <2>6. place' \in 1..(Len(r') + 1)
    BY <1>2, <1>4, <2>1, <2>2
  <2>7. \A k \in 1..q : feedSent[k].id \in seen
    BY <1>3, <1>4, <1>5, <1>8
  <2>8. \A i \in seen : \E k \in 1..q : feedSent[k].id = i
    BY <1>3, <1>4
  <2>9. \A m \in 1..(place - 1) : \E k \in 1..q : FirstAt(k) /\ r'[m] = feedSent[k]
    <3> SUFFICES ASSUME NEW m \in 1..(place - 1)
                 PROVE  \E k \in 1..q : FirstAt(k) /\ r'[m] = feedSent[k]
      OBVIOUS
    <3>1. PICK k \in 1..Met : FirstAt(k) /\ r[m] = feedSent[k]
      BY <1>3
    <3>2. k \in 1..q /\ r'[m] = r[m]
      BY <1>4, <2>4
    <3>3. QED
      BY <3>1, <3>2
  <2>10. \A k \in 1..q : FirstAt(k) => \E m \in 1..(place - 1) : r'[m] = feedSent[k]
    <3> SUFFICES ASSUME NEW k \in 1..q, FirstAt(k)
                 PROVE  \E m \in 1..(place - 1) : r'[m] = feedSent[k]
      OBVIOUS
    <3>1. k \in 1..Met
      BY <1>4, <1>7, <1>8
    <3>2. QED
      BY <1>3, <2>4, <3>1
  <2>11. Distinct(r', place - 1)
    BY <1>3, <2>4 DEF Distinct
  <2>12. CopiesInv'
    BY <1>1, <1>6, <2>1, <2>3, <2>5, <2>6, <2>7, <2>8, <2>9, <2>10, <2>11 DEF CopiesInv, Distinct
  <2>13. Len(r') <= Len(feedSent')
    BY <1>1, <1>2, <2>2
  <2>14. QED
    BY <1>1, <1>2, <2>2, <2>12, <2>13 DEF FeedInv, EachProviderOnce
<1>9. CASE r[place].id \notin seen
  <2>1. r' = r /\ place' = place + 1 /\ seen' = seen \cup {r[place].id}
    BY <1>9 DEF DropCopies
  <2>2. Met' = q /\ place' - 1 = place
    <3>1. Met' = place' - 1 + (Len(feedSent') - Len(r'))
      BY DEF Met
    <3>2. Met = place - 1 + (Len(feedSent) - Len(r))
      BY DEF Met
    <3>3. place \in Nat /\ Len(feedSent) \in Nat /\ Len(r) \in Nat
      BY <1>2, <1>3
    <3>4. q - 1 = Met /\ q \in Nat
      BY <1>4
    <3>5. QED
      BY ONLY <1>1, <2>1, <3>1, <3>2, <3>3, <3>4
  <2>3. \A m \in place'..Len(r') : r'[m] = feedSent'[m + (Len(feedSent') - Len(r'))]
    <3> SUFFICES ASSUME NEW m \in (place + 1)..Len(r) PROVE r[m] = feedSent[m + d]
      BY <1>1, <2>1 DEF d
    <3>1. m \in place..Len(r)
      BY <1>4
    <3>2. QED
      BY <1>3, <3>1
  <2>4. place' \in 1..(Len(r') + 1)
    BY <1>2, <1>4, <2>1
  <2>5. /\ \A m \in 1..place : m \in 1..(place - 1) \/ m = place
        /\ \A m \in 1..(place - 1) : m \in 1..place
        /\ place \in 1..place
    BY <1>4
  <2>6. \A k \in 1..q : feedSent[k].id \in seen'
    BY <1>3, <1>4, <1>5, <2>1
  <2>7. \A i \in seen' : \E k \in 1..q : feedSent[k].id = i
    BY <1>3, <1>4, <1>5, <2>1
  <2>8. \A m \in 1..place : \E k \in 1..q : FirstAt(k) /\ r[m] = feedSent[k]
    BY <1>3, <1>4, <1>5, <1>7, <1>9, <2>5
  <2>9. \A k \in 1..q : FirstAt(k) => \E m \in 1..place : r[m] = feedSent[k]
    BY <1>3, <1>4, <1>5, <2>5
  <2>10. Distinct(r, place)
    <3>1. \A m \in 1..(place - 1) : r[m].id \in seen
      BY <1>3
    <3>2. \A m \in 1..(place - 1) : r[m].id # r[place].id
      BY <1>9, <3>1
    <3>3. QED
      BY <1>3, <2>5, <3>2 DEF Distinct
  <2>11. CopiesInv'
    BY <1>1, <1>6, <2>1, <2>2, <2>3, <2>4, <2>6, <2>7, <2>8, <2>9, <2>10 DEF CopiesInv, Distinct
  <2>12. QED
    BY <1>1, <1>2, <2>1, <2>11 DEF FeedInv, EachProviderOnce
<1>10. QED
  BY <1>8, <1>9

\* aK is over: the list has the first entries of the feed.
LEMMA CopiesDroppedStep == FeedInv /\ CopiesDropped => FeedInv'
<1> SUFFICES ASSUME FeedInv, CopiesDropped PROVE FeedInv'
  OBVIOUS
<1>1. /\ work = "copies" /\ place > Len(r) /\ work' = "hidden" /\ place' = 1
      /\ feedSent' = feedSent /\ r' = r
  BY DEF CopiesDropped
<1>2. /\ feedSent \in Seq(FeedEntries) /\ r \in Seq(FeedEntries)
      /\ Len(r) <= Len(feedSent) /\ Len(r) \in Nat /\ Len(feedSent) \in Nat
  BY DEF FeedInv
<1>3. /\ place \in 1..(Len(r) + 1)
      /\ \A m \in 1..(place - 1) : \E k \in 1..Met : FirstAt(k) /\ r[m] = feedSent[k]
      /\ \A k \in 1..Met : FirstAt(k) => \E m \in 1..(place - 1) : r[m] = feedSent[k]
      /\ Distinct(r, place - 1)
  BY <1>1 DEF FeedInv, CopiesInv
<1>4. place - 1 = Len(r)
  BY ONLY <1>1, <1>2, <1>3
<1>5. Met = Len(feedSent)
  BY <1>2, <1>4 DEF Met
<1>6. \A e : e \in Firsts <=> \E k \in 1..Len(feedSent) : FirstAt(k) /\ e = feedSent[k]
  BY <1>2 DEF Firsts, FirstAt
<1>7. Firsts' = Firsts
  BY <1>1 DEF Firsts
<1>8. \A i : ~PastHidden(i)'
  BY <1>1 DEF PastHidden
<1>9. 1 \in 1..(Len(HiddenIds) + 1)
  BY FeedListAssumption
<1>10. HiddenInv'
  <2>1. \A m \in 1..Len(r) : r[m] \in Firsts
    BY <1>3, <1>4, <1>5, <1>6
  <2>2. ASSUME NEW e \in Firsts PROVE \E m \in 1..Len(r) : r[m] = e
    <3>1. PICK k \in 1..Met : FirstAt(k) /\ e = feedSent[k]
      BY <1>5, <1>6
    <3>2. QED
      BY <1>3, <1>4, <3>1
  <2>3. Distinct(r, Len(r))
    BY <1>3, <1>4
  <2>4. QED
    BY <1>1, <1>7, <1>8, <1>9, <2>1, <2>2, <2>3 DEF HiddenInv, Distinct
<1>11. QED
  BY <1>1, <1>2, <1>10 DEF FeedInv, EachProviderOnce

\* A turn of u.
LEMMA DropHiddenStep == FeedInv /\ DropHidden => FeedInv'
<1> SUFFICES ASSUME FeedInv, DropHidden PROVE FeedInv'
  OBVIOUS
<1> DEFINE hid == HiddenIds[place]
           hits == {n \in DOMAIN r : r[n].id = hid}
<1>1. /\ work = "hidden" /\ place <= Len(HiddenIds) /\ place' = place + 1
      /\ feedSent' = feedSent /\ work' = work
      /\ r' = IF hits = {} THEN r ELSE RemoveAt(r, CHOOSE n \in hits : \A m \in hits : n <= m)
  BY DEF DropHidden
<1>2. /\ feedSent \in Seq(FeedEntries) /\ r \in Seq(FeedEntries)
      /\ Len(r) <= Len(feedSent) /\ Len(r) \in Nat /\ Len(feedSent) \in Nat
      /\ DOMAIN r = 1..Len(r)
  BY DEF FeedInv
<1>3. /\ place \in 1..(Len(HiddenIds) + 1)
      /\ Distinct(r, Len(r))
      /\ \A m \in 1..Len(r) : r[m] \in Firsts /\ ~PastHidden(r[m].id)
      /\ \A e \in Firsts : ~PastHidden(e.id) => \E m \in 1..Len(r) : r[m] = e
  BY <1>1 DEF FeedInv, HiddenInv
<1>4. Len(HiddenIds) \in Nat /\ place \in Nat
  BY <1>3, FeedListAssumption
<1>5. place' \in 1..(Len(HiddenIds) + 1)
  BY <1>1, <1>3, <1>4
<1>6. Firsts' = Firsts
  BY <1>1 DEF Firsts
<1>7. \A i : PastHidden(i)' <=> (PastHidden(i) \/ i = hid)
  <2>1. /\ place' - 1 = place
        /\ \A k \in 1..place : k \in 1..(place - 1) \/ k = place
        /\ \A k \in 1..(place - 1) : k \in 1..place
        /\ place \in 1..place
    BY <1>1, <1>3, <1>4
  <2>2. QED
    BY <2>1 DEF PastHidden
<1> HIDE DEF hid
<1>8. CASE hits = {}
  <2>1. r' = r /\ \A m \in 1..Len(r) : r[m].id # hid
    BY <1>1, <1>2, <1>8
  <2>2. HiddenInv'
    BY <1>3, <1>5, <1>6, <1>7, <2>1 DEF HiddenInv, Distinct
  <2>3. QED
    BY <1>1, <1>2, <2>1, <2>2 DEF FeedInv, EachProviderOnce
<1>9. CASE hits # {}
  <2>1. PICK x \in 1..Len(r) : r[x].id = hid
    BY <1>2, <1>9
  <2>2. hits = {x}
    <3>1. \A m \in 1..Len(r) : r[m].id = hid => m = x
      BY <1>3, <2>1 DEF Distinct
    <3>2. QED
      BY <1>2, <2>1, <3>1
  <2>3. (CHOOSE n \in hits : \A m \in hits : n <= m) = x
    <3> HIDE DEF hits
    <3>1. x <= x
      BY <1>2
    <3>2. \E n \in hits : \A m \in hits : n <= m
      BY <2>2, <3>1
    <3>3. QED
      BY <2>2, <3>2
  <2>4. r' = RemoveAt(r, x)
    BY <1>1, <1>9, <2>3
  <2> HIDE DEF hits
  <2>5. /\ r' \in Seq(FeedEntries) /\ Len(r') = Len(r) - 1
        /\ \A k \in 1..Len(r') : \E m \in 1..Len(r) : m # x /\ r'[k] = r[m]
        /\ \A m \in 1..Len(r) : m # x => \E k \in 1..Len(r') : r'[k] = r[m]
    <3>1. r \in Seq(FeedEntries) /\ x \in 1..Len(r)
      BY <1>2
    <3>2. QED
      BY ONLY <2>4, <3>1, RemoveAtOthers
  <2>6. Distinct(r', Len(r'))
    BY <1>2, <1>3, <2>1, <2>4, <2>5, StaysDistinct
  <2>7. \A m \in 1..Len(r) : m # x => r[m].id # hid
    BY <1>3, <2>1 DEF Distinct
  <2>8. \A k \in 1..Len(r') : r'[k] \in Firsts /\ ~PastHidden(r'[k].id) /\ r'[k].id # hid
    <3> SUFFICES ASSUME NEW k \in 1..Len(r')
                 PROVE  r'[k] \in Firsts /\ ~PastHidden(r'[k].id) /\ r'[k].id # hid
      OBVIOUS
    <3>1. PICK m \in 1..Len(r) : m # x /\ r'[k] = r[m]
      BY <2>5
    <3>2. QED
      BY <1>3, <2>7, <3>1
  <2>9. ASSUME NEW e \in Firsts, ~PastHidden(e.id), e.id # hid
        PROVE  \E k \in 1..Len(r') : r'[k] = e
    <3>1. PICK m \in 1..Len(r) : r[m] = e
      BY <1>3, <2>9
    <3>2. m # x
      BY <2>1, <2>9, <3>1
    <3>3. QED
      BY <2>5, <3>1, <3>2
  <2>10. HiddenInv'
    BY <1>5, <1>6, <1>7, <2>6, <2>8, <2>9 DEF HiddenInv, Distinct
  <2>11. Len(r') <= Len(feedSent')
    <3>1. Len(r') = Len(r) - 1 /\ feedSent' = feedSent
      BY <1>1, <2>5
    <3>2. QED
      BY <1>2, <3>1
  <2>12. QED
    BY <1>1, <1>2, <2>5, <2>10, <2>11 DEF FeedInv, EachProviderOnce
<1>10. QED
  BY <1>8, <1>9

\* The order is one of all places.
LEMMA Orders ==
  ASSUME NEW n \in Nat, NEW order \in SetToSeqs(1..n)
  PROVE  /\ order \in [1..n -> 1..n]
         /\ \A k, m \in 1..n : order[k] = order[m] => k = m
         /\ \A m \in 1..n : \E k \in 1..n : order[k] = m
<1>1. IsFiniteSet(1..n) /\ Cardinality(1..n) = n
  BY FS_Interval
<1>2. order \in [1..n -> 1..n] /\ \A k, m \in 1..n : k # m => order[k] # order[m]
  BY <1>1 DEF SetToSeqs
<1>3. order \in Injection(1..n, 1..n)
  BY <1>2 DEF Injection, IsInjective
<1>4. order \in Surjection(1..n, 1..n)
  BY <1>1, <1>3, FS_Injection
<1>5. QED
  BY <1>2, <1>4 DEF Surjection

\* The list is sorted: it has the same entries.
LEMMA SortStep == FeedInv /\ SortByName => FeedInv'
<1> SUFFICES ASSUME FeedInv, SortByName PROVE FeedInv'
  OBVIOUS
<1>1. /\ work = "hidden" /\ place > Len(HiddenIds) /\ work' = "done"
      /\ feedSent' = feedSent
  BY DEF SortByName
<1>2. /\ feedSent \in Seq(FeedEntries) /\ r \in Seq(FeedEntries)
      /\ Len(r) <= Len(feedSent) /\ Len(r) \in Nat /\ Len(feedSent) \in Nat
      /\ DOMAIN r = 1..Len(r)
  BY DEF FeedInv
<1>3. /\ place \in 1..(Len(HiddenIds) + 1)
      /\ Distinct(r, Len(r))
      /\ \A m \in 1..Len(r) : r[m] \in Firsts /\ ~PastHidden(r[m].id)
      /\ \A e \in Firsts : ~PastHidden(e.id) => \E m \in 1..Len(r) : r[m] = e
  BY <1>1 DEF FeedInv, HiddenInv
<1> DEFINE n == Len(r)
<1>4. PICK order \in SetToSeqs(1..n) :
        /\ \A k, m \in 1..n : k < m => r[order[k]].rank <= r[order[m]].rank
        /\ r' = [k \in 1..n |-> r[order[k]]]
  BY <1>2 DEF SortByName
<1>5. /\ order \in [1..n -> 1..n]
      /\ \A k, m \in 1..n : order[k] = order[m] => k = m
      /\ \A m \in 1..n : \E k \in 1..n : order[k] = m
  BY <1>2, Orders
<1> HIDE DEF n
<1>6. n \in Nat /\ \A k \in 1..n : order[k] \in 1..n /\ r[order[k]] \in FeedEntries
  BY <1>2, <1>5 DEF n
<1>7. /\ r' \in Seq(FeedEntries) /\ Len(r') = n /\ DOMAIN r' = 1..n
      /\ \A k \in 1..n : r'[k] = r[order[k]]
  BY <1>4, <1>6
<1>8. \A i : PastHidden(i) <=> i \in Range(HiddenIds)
  <2>1. place - 1 = Len(HiddenIds) /\ DOMAIN HiddenIds = 1..Len(HiddenIds)
    <3>1. Len(HiddenIds) \in Nat /\ DOMAIN HiddenIds = 1..Len(HiddenIds)
      BY FeedListAssumption
    <3>2. QED
      BY <1>1, <1>3, <3>1
  <2>2. QED
    BY <2>1 DEF PastHidden, Range
<1>9. Range(r') = {e \in Firsts : e.id \notin Range(HiddenIds)}
  <2>1. ASSUME NEW e, e \in Range(r')
        PROVE  e \in Firsts /\ e.id \notin Range(HiddenIds)
    <3>1. PICK k \in 1..n : e = r[order[k]]
      BY <1>7, <2>1 DEF Range
    <3>2. QED
      BY <1>3, <1>6, <1>8, <3>1 DEF n
  <2>2. ASSUME NEW e \in Firsts, e.id \notin Range(HiddenIds)
        PROVE  e \in Range(r')
    <3>1. PICK m \in 1..n : r[m] = e
      BY <1>3, <1>8, <2>2 DEF n
    <3>2. PICK k \in 1..n : order[k] = m
      BY <1>5
    <3>3. QED
      BY <1>7, <3>1, <3>2 DEF Range
  <2>3. QED
    BY <2>1, <2>2
<1>10. IsInjective(r')
  <2> SUFFICES ASSUME NEW k \in 1..n, NEW m \in 1..n, r'[k] = r'[m] PROVE k = m
    BY <1>7 DEF IsInjective
  <2>1. r[order[k]].id = r[order[m]].id
    BY <1>7
  <2>2. order[k] = order[m]
    BY <1>3, <1>6, <2>1 DEF Distinct, n
  <2>3. QED
    BY <1>5, <2>2
<1>11. \A k, m \in DOMAIN r' : k < m => r'[k].rank <= r'[m].rank
  BY <1>4, <1>7
<1>12. Firsts' = Firsts
  BY <1>1 DEF Firsts
<1>13. EachProviderOnce'
  BY <1>9, <1>10, <1>11, <1>12 DEF EachProviderOnce, Range
<1>14. QED
  BY <1>1, <1>2, <1>7, <1>13 DEF FeedInv, n

LEMMA FeedStep == FeedInv /\ [FeedNext]_feedVars => FeedInv'
<1>1. FeedInv /\ UNCHANGED feedVars => FeedInv'
  BY DEF feedVars, FeedInv, CopiesInv, HiddenInv, EachProviderOnce, Met, FirstAt, Distinct,
         PastHidden, Firsts
<1>2. QED
  BY <1>1, DropCopiesStep, CopiesDroppedStep, DropHiddenStep, SortStep DEF FeedNext

(* For any feed, any hidden providers and any names: the list drawn has    *)
(* each provider that is not hidden once, in the order of the names.       *)
THEOREM ProvidersOnce == FeedSpec => []EachProviderOnce
<1>1. FeedInv => EachProviderOnce
  BY DEF FeedInv
<1>2. QED
  BY <1>1, FeedStart, FeedStep, PTL DEF FeedSpec

-----------------------------------------------------------------------------
(***************************************************************************)
(* The return address.  As long as every parameter falls into two, the     *)
(* list of those that are kept is as long as the part of the address that  *)
(* has been looked at, and only then.                                      *)
(***************************************************************************)
KeptParams == [name : {"simple", "escaped"}, value : Raw, fragment : BOOLEAN]
ReadParams == [name : Raw \cup {"blank", "entityID"}, more : 0..1,
               value : Raw \cup {"blank", "none", "chosen"}, fragment : BOOLEAN]

\* The parameters before the turn, and what is kept of them.
AllKept ==
  \A n \in 1..(turn - 1) :
    /\ address.params[n].equals = 1
    /\ kept[n] = Taken(address.params[n], n = Len(address.params))

AddressInv ==
  /\ address \in Addresses /\ kept \in Seq(KeptParams)
  /\ turn \in 1..(Len(address.params) + 1)
  /\ parsing \in {"under way", "thrown", "done"}
  /\ Len(kept) <= turn - 1
  /\ Len(kept) = turn - 1 => AllKept
  /\ (\A n \in 1..(turn - 1) : address.params[n].equals = 1) => Len(kept) = turn - 1
  /\ parsing = "done" => turn = Len(address.params) + 1
  /\ arrived = <<>> \/ (parsing = "done" /\ arrived = [form |-> ByForm, link |-> ByLink])

LEMMA AddressTypes ==
  ASSUME address \in Addresses
  PROVE  /\ address.params \in Seq(Params) /\ address.fragment \in BOOLEAN
         /\ Len(address.params) \in Nat /\ DOMAIN address.params = 1..Len(address.params)
         /\ \A n \in 1..Len(address.params) :
              /\ address.params[n].name \in {"simple", "escaped"}
              /\ address.params[n].equals \in 0..2
              /\ address.params[n].value \in Raw
<1>1. address.params \in Seq(Params) /\ address.fragment \in BOOLEAN
  <2>1. address.params \in BoundedSeq(Params, MaxParams) /\ address.fragment \in BOOLEAN
    BY DEF Addresses
  <2>2. PICK m \in 0..MaxParams : address.params \in [1..m -> Params]
    BY <2>1, Zenon DEF BoundedSeq, SeqOf
  <2>3. m \in Nat
    BY ReturnAddressAssumption
  <2>4. QED
    BY <2>1, <2>2, <2>3
<1>2. \A n \in 1..Len(address.params) : address.params[n] \in Params
  BY <1>1
<1>3. QED
  BY <1>1, <1>2 DEF Params

LEMMA TakenType ==
  ASSUME NEW p \in Params, NEW last \in BOOLEAN, address.fragment \in BOOLEAN
  PROVE  Taken(p, last) \in KeptParams
<1>1. DecodedURI(p.value) \in Raw
  BY DEF DecodedURI, Raw, Params
<1>2. (last /\ address.fragment) \in BOOLEAN
  OBVIOUS
<1>3. p.name \in {"simple", "escaped"}
  BY DEF Params
<1>4. QED
  BY <1>1, <1>2, <1>3 DEF Taken, KeptParams

LEMMA AddressStart == ReturnInit => AddressInv
<1> SUFFICES ASSUME ReturnInit PROVE AddressInv
  OBVIOUS
<1>1. address \in Addresses /\ (address.query \/ address.params = <<>>)
  BY DEF ReturnInit
<1>2. Len(address.params) \in Nat /\ address.query \in BOOLEAN
  BY <1>1, AddressTypes DEF Addresses
<1>3. kept = <<>> /\ turn = 1 /\ arrived = <<>>
  BY DEF ReturnInit
<1>4. parsing \in {"under way", "done"} /\ (parsing = "done" => address.params = <<>>)
  BY <1>1, <1>2 DEF ReturnInit
<1>5. AllKept
  BY <1>3 DEF AllKept
<1>6. turn \in 1..(Len(address.params) + 1) /\ kept \in Seq(KeptParams) /\ Len(kept) = turn - 1
  BY <1>2, <1>3
<1>7. parsing = "done" => turn = Len(address.params) + 1
  BY <1>3, <1>4
<1>8. parsing \in {"under way", "thrown", "done"} /\ Len(kept) <= turn - 1
  <2>1. Len(kept) \in Nat /\ turn \in Nat /\ Len(kept) = turn - 1
    BY <1>3
  <2>2. Len(kept) <= turn - 1
    BY ONLY <2>1
  <2>3. parsing \in {"under way", "thrown", "done"}
    BY <1>4
  <2>4. QED
    BY ONLY <2>2, <2>3
<1>9. QED
  BY <1>1, <1>3, <1>5, <1>6, <1>7, <1>8 DEF AddressInv

LEMMA TakeStep == AddressInv /\ Take => AddressInv'
<1> SUFFICES ASSUME AddressInv, Take PROVE AddressInv'
  OBVIOUS
<1> DEFINE P == address.params
           p == P[turn]
<1>1. /\ parsing = "under way" /\ turn <= Len(P) /\ address' = address /\ arrived' = arrived
  BY DEF Take
<1>2. /\ address \in Addresses /\ kept \in Seq(KeptParams) /\ turn \in 1..(Len(P) + 1)
      /\ Len(kept) <= turn - 1
      /\ Len(kept) = turn - 1 => AllKept
      /\ (\A n \in 1..(turn - 1) : P[n].equals = 1) => Len(kept) = turn - 1
      /\ arrived = <<>>
  BY <1>1 DEF AddressInv
<1>3. /\ Len(P) \in Nat /\ address.fragment \in BOOLEAN /\ P \in Seq(Params)
      /\ turn \in 1..Len(P) /\ p \in Params /\ Len(kept) \in Nat
  <2>1. Len(P) \in Nat /\ address.fragment \in BOOLEAN /\ P \in Seq(Params)
    BY <1>2, AddressTypes
  <2>2. turn \in 1..Len(P)
    <3> HIDE DEF P
    <3>1. turn <= Len(P) /\ turn \in 1..(Len(P) + 1)
      BY <1>1, <1>2
    <3>2. QED
      BY ONLY <2>1, <3>1
  <2>3. p \in Params
    BY <2>1, <2>2
  <2>4. QED
    BY <1>2, <2>1, <2>2, <2>3
<1> HIDE DEF P, p
<1>4. CASE Splits(p) /\ p.value = "broken"
  <2>1. parsing' = "thrown" /\ UNCHANGED <<kept, turn>>
    BY <1>4 DEF Take, P, p
  <2>2. AllKept' <=> AllKept
    BY <1>1, <2>1 DEF AllKept, Taken
  <2>3. QED
    BY <1>1, <1>2, <2>1, <2>2 DEF AddressInv, P
<1>5. CASE ~(Splits(p) /\ p.value = "broken")
  <2>1. /\ kept' = IF Splits(p) THEN Append(kept, Taken(p, turn = Len(P))) ELSE kept
        /\ turn' = turn + 1 /\ parsing' = parsing
    BY <1>5 DEF Take, P, p
  <2>2. P' = P
    BY <1>1 DEF P
  <2>3. CASE p.equals = 1
    <3>1. kept' = Append(kept, Taken(p, turn = Len(P)))
      BY <2>1, <2>3 DEF Splits
    <3>2. Taken(p, turn = Len(P)) \in KeptParams
      BY <1>3, TakenType
    <3>3. /\ kept' \in Seq(KeptParams) /\ Len(kept') = Len(kept) + 1
          /\ \A n \in 1..Len(kept) : kept'[n] = kept[n]
          /\ kept'[Len(kept) + 1] = Taken(p, turn = Len(P))
      BY <1>2, <3>1, <3>2
    <3>4. Len(kept') = turn' - 1 => AllKept'
      <4> SUFFICES ASSUME Len(kept') = turn' - 1, NEW n \in 1..turn
                   PROVE  P[n].equals = 1 /\ kept'[n] = Taken(P[n], n = Len(P))
        <5>1. turn' - 1 = turn
          BY <1>3, <2>1
        <5>2. QED
          BY <1>1, <2>2, <5>1 DEF AllKept, Taken, P
      <4>1. Len(kept) = turn - 1
        BY <1>3, <2>1, <3>3
      <4>2. CASE n = turn
        BY <1>3, <2>3, <3>3, <4>1, <4>2 DEF p
      <4>3. CASE n # turn
        <5>1. n \in 1..(turn - 1)
          BY <1>3, <4>3
        <5>2. P[n].equals = 1 /\ kept[n] = Taken(P[n], n = Len(P))
          BY <1>2, <4>1, <5>1 DEF AllKept, P
        <5>3. QED
          BY <3>3, <4>1, <5>1, <5>2
      <4>4. QED
        BY <4>2, <4>3
    <3>5. (\A n \in 1..(turn' - 1) : P[n].equals = 1) => Len(kept') = turn' - 1
      BY <1>2, <1>3, <2>1, <3>3
    <3>6. turn' \in 1..(Len(P) + 1) /\ Len(kept') <= turn' - 1
      BY <1>2, <1>3, <2>1, <3>3
    <3>7. QED
      BY <1>1, <1>2, <2>1, <2>2, <3>3, <3>4, <3>5, <3>6 DEF AddressInv, P
  <2>4. CASE p.equals # 1
    <3>1. kept' = kept
      BY <2>1, <2>4 DEF Splits
    <3>2. /\ turn' \in 1..(Len(P) + 1) /\ Len(kept') <= turn' - 1 /\ Len(kept') # turn' - 1
          /\ turn \in 1..(turn' - 1)
      BY <1>2, <1>3, <2>1, <3>1
    <3>3. ~ \A n \in 1..(turn' - 1) : P[n].equals = 1
      BY <2>4, <3>2 DEF p
    <3>4. QED
      BY <1>1, <1>2, <2>1, <2>2, <3>1, <3>2, <3>3 DEF AddressInv, P
  <2>5. QED
    BY <2>3, <2>4
<1>6. QED
  BY <1>4, <1>5

LEMMA AddressStep == AddressInv /\ [ReturnNext]_returnVars => AddressInv'
<1> SUFFICES ASSUME AddressInv, [ReturnNext]_returnVars PROVE AddressInv'
  OBVIOUS
<1>1. CASE Take
  BY <1>1, TakeStep
<1>2. CASE TakenAll
  <2>1. /\ parsing = "under way" /\ turn > Len(address.params) /\ parsing' = "done"
        /\ UNCHANGED <<address, kept, turn, arrived>>
    BY <1>2 DEF TakenAll
  <2>2. Len(address.params) \in Nat
    BY AddressTypes DEF AddressInv
  <2>3. AllKept' <=> AllKept
    BY <2>1 DEF AllKept, Taken
  <2>4. arrived' = <<>> /\ turn' = Len(address'.params) + 1 /\ address' = address
        /\ kept' = kept /\ turn' = turn
    <3>1. turn \in 1..(Len(address.params) + 1) /\ arrived = <<>>
      BY <2>1 DEF AddressInv
    <3>2. turn = Len(address.params) + 1
      <4>1. turn > Len(address.params)
        BY <2>1
      <4>2. QED
        BY ONLY <2>2, <3>1, <4>1
    <3>3. QED
      BY <2>1, <3>1, <3>2
  <2>5. QED
    BY <2>1, <2>3, <2>4 DEF AddressInv
<1>3. CASE GoOn
  <2>1. /\ parsing = "done" /\ arrived' = [form |-> ByForm, link |-> ByLink]
        /\ UNCHANGED <<address, kept, turn, parsing>>
    BY <1>3 DEF GoOn
  <2>2. (AllKept' <=> AllKept) /\ ByForm' = ByForm /\ ByLink' = ByLink
    BY <2>1 DEF AllKept, Taken, ByForm, ByLink
  <2>3. QED
    BY <2>1, <2>2 DEF AddressInv
<1>4. CASE UNCHANGED returnVars
  <2>1. (AllKept' <=> AllKept) /\ ByForm' = ByForm /\ ByLink' = ByLink
    BY <1>4 DEF returnVars, AllKept, Taken, ByForm, ByLink
  <2>2. QED
    BY <1>4, <2>1 DEF AddressInv, returnVars
<1>5. QED
  BY <1>1, <1>2, <1>3, <1>4 DEF ReturnNext

(* A list of parameters told place by place.                               *)
LEMMA ParamList ==
  ASSUME NEW n \in Nat, NEW X, NEW f \in [1..n -> X], NEW e \in X
  PROVE  /\ f \in Seq(X) /\ Len(f) = n
         /\ Append(f, e) \in Seq(X) /\ Len(Append(f, e)) = n + 1
         /\ \A k \in 1..n : Append(f, e)[k] = f[k]
         /\ Append(f, e)[n + 1] = e
OBVIOUS

(* The two ways agree for the portable addresses, and for no other.        *)
LEMMA WaysAgree ==
  ASSUME AddressInv, parsing = "done"
  PROVE  ByForm = ByLink <=> Portable
<1> DEFINE P == address.params
           k == Len(kept)
           F == [n \in DOMAIN kept |->
                  [name |-> ReadInForm(kept[n].name), more |-> 0,
                   value |-> ReadInForm(kept[n].value), fragment |-> kept[n].fragment]]
           L == [n \in DOMAIN P |->
                  LET p == P[n] IN
                  [name |-> ReadInQuery(p.name),
                   more |-> IF p.equals = 2 THEN 1 ELSE 0,
                   value |-> IF p.equals = 0 THEN "none" ELSE ReadInQuery(p.value),
                   fragment |-> FALSE]]
<1>1. /\ address \in Addresses /\ kept \in Seq(KeptParams) /\ turn = Len(P) + 1
      /\ k <= turn - 1
      /\ k = turn - 1 => AllKept
      /\ (\A n \in 1..(turn - 1) : P[n].equals = 1) => k = turn - 1
  BY DEF AddressInv
<1>2. /\ Len(P) \in Nat /\ DOMAIN P = 1..Len(P) /\ address.fragment \in BOOLEAN
      /\ \A n \in 1..Len(P) : /\ P[n].name \in {"simple", "escaped"}
                              /\ P[n].equals \in 0..2 /\ P[n].value \in Raw
  BY <1>1, AddressTypes
<1>3. k \in Nat /\ DOMAIN kept = 1..k /\ \A n \in 1..k : kept[n] \in KeptParams
  BY <1>1
<1>4. /\ ByForm = Append(F, Choice)
      /\ ByLink = IF address.fragment THEN L ELSE Append(L, Choice)
  BY DEF ByForm, ByLink
<1>5. Choice \in ReadParams /\ Choice.value = "chosen"
  BY DEF Choice, ReadParams
<1>6. F \in [1..k -> ReadParams]
  <2>1. \A n \in 1..k : /\ kept[n].name \in Raw \cup {"blank", "entityID"}
                         /\ kept[n].value \in Raw \cup {"blank", "none", "chosen"}
                         /\ kept[n].fragment \in BOOLEAN
    BY <1>3 DEF KeptParams, Raw
  <2>2. \A n \in 1..k : F[n] = [name |-> kept[n].name, more |-> 0,
                               value |-> kept[n].value, fragment |-> kept[n].fragment]
    BY <1>3 DEF ReadInForm
  <2>3. 0 \in 0..1
    OBVIOUS
  <2>4. \A n \in 1..k : F[n] \in ReadParams
    <3> HIDE DEF F, k
    <3> SUFFICES ASSUME NEW n \in 1..k PROVE F[n] \in ReadParams
      OBVIOUS
    <3>1. [name |-> kept[n].name, more |-> 0, value |-> kept[n].value,
           fragment |-> kept[n].fragment] \in ReadParams
      BY <2>1, <2>3 DEF ReadParams
    <3>2. QED
      BY <2>2, <3>1
  <2>5. QED
    BY <1>3, <2>4
<1>7. L \in [1..Len(P) -> ReadParams]
      /\ \A n \in 1..Len(P) :
           /\ L[n].name = ReadInQuery(P[n].name) /\ L[n].value # "chosen"
           /\ L[n].more = IF P[n].equals = 2 THEN 1 ELSE 0
           /\ L[n].value = IF P[n].equals = 0 THEN "none" ELSE ReadInQuery(P[n].value)
           /\ L[n].fragment = FALSE
  <2>1. \A n \in 1..Len(P) : /\ ReadInQuery(P[n].name) \in Raw \cup {"blank"}
                             /\ ReadInQuery(P[n].value) \in Raw \cup {"blank"}
    BY <1>2 DEF ReadInQuery, Raw
  <2>2. "chosen" \notin Raw \cup {"blank", "none"}
    BY DEF Raw
  <2>3. \A n \in 1..Len(P) : L[n] \in ReadParams
    BY <1>2, <2>1 DEF ReadParams
  <2>4. QED
    BY <1>2, <2>1, <2>2, <2>3
<1>8. \A n \in 1..k : F[n] = [name |-> kept[n].name, more |-> 0,
                              value |-> kept[n].value, fragment |-> kept[n].fragment]
  BY <1>3 DEF ReadInForm
<1> HIDE DEF P, k, F, L
<1>9. /\ ByForm \in Seq(ReadParams) /\ Len(ByForm) = k + 1
      /\ \A n \in 1..k : ByForm[n] = F[n]
      /\ ByForm[k + 1] = Choice
  BY <1>3, <1>4, <1>5, <1>6, ParamList
<1>10. CASE address.fragment
  <2>1. ByLink = L /\ Len(L) = Len(P)
    BY <1>2, <1>4, <1>5, <1>7, <1>10, ParamList
  <2>2. ByForm # ByLink
    <3> SUFFICES ASSUME ByForm = ByLink PROVE FALSE
      OBVIOUS
    <3>1. k + 1 = Len(P) /\ L[k + 1] = Choice
      BY <1>9, <2>1
    <3>2. k + 1 \in 1..Len(P)
      BY <1>2, <1>3, <3>1
    <3>3. QED
      BY <1>5, <1>7, <3>1, <3>2
  <2>3. QED
    BY <1>10, <2>2 DEF Portable
<1>11. CASE ~address.fragment
  <2>1. /\ ByLink \in Seq(ReadParams) /\ Len(ByLink) = Len(P) + 1
        /\ \A n \in 1..Len(P) : ByLink[n] = L[n]
        /\ ByLink[Len(P) + 1] = Choice
    <3>1. L \in [1..Len(P) -> ReadParams]
      BY <1>7
    <3>2. ByLink = Append(L, Choice) /\ Choice \in ReadParams /\ Len(P) \in Nat
      BY <1>2, <1>4, <1>5, <1>11
    <3>3. QED
      BY ONLY <3>1, <3>2, ParamList
  <2>2. ASSUME k = Len(P)
        PROVE  \A n \in 1..Len(P) :
                 /\ P[n].equals = 1
                 /\ ByForm[n] = [name |-> P[n].name, more |-> 0,
                                 value |-> DecodedURI(P[n].value), fragment |-> FALSE]
    <3> SUFFICES ASSUME NEW n \in 1..Len(P)
                 PROVE  /\ P[n].equals = 1
                        /\ ByForm[n] = [name |-> P[n].name, more |-> 0,
                                        value |-> DecodedURI(P[n].value), fragment |-> FALSE]
      OBVIOUS
    <3>1. AllKept /\ n \in 1..(turn - 1) /\ n \in 1..k
      BY <1>1, <1>2, <2>2
    <3>2. P[n].equals = 1 /\ kept[n] = Taken(P[n], n = Len(P))
      BY <3>1 DEF AllKept, P
    <3>3. (n = Len(P) /\ address.fragment) = FALSE
      BY <1>11
    <3>4. kept[n].name = P[n].name /\ kept[n].value = DecodedURI(P[n].value)
          /\ kept[n].fragment = FALSE
      <4>1. Taken(P[n], n = Len(P))
              = [name |-> P[n].name, value |-> DecodedURI(P[n].value), fragment |-> FALSE]
        BY <3>3, Zenon DEF Taken, P
      <4>2. QED
        BY <3>2, <4>1
    <3>5. QED
      BY <1>8, <1>9, <3>1, <3>2, <3>4
  <2>3. ASSUME Portable PROVE ByForm = ByLink
    <3>1. \A n \in 1..Len(P) : P[n].equals = 1 /\ P[n].name = "simple" /\ P[n].value # "plus"
      BY <1>2, <2>3 DEF Portable, P
    <3>2. k = Len(P)
      BY <1>1, <1>2, <3>1
    <3>3. \A n \in 1..Len(P) : ByForm[n] = ByLink[n]
      <4> SUFFICES ASSUME NEW n \in 1..Len(P) PROVE ByForm[n] = L[n]
        BY <2>1
      <4>1. DecodedURI(P[n].value) = ReadInQuery(P[n].value)
        BY <1>2, <3>1 DEF DecodedURI, ReadInQuery, Raw
      <4>2. /\ L[n] \in ReadParams /\ L[n].name = "simple" /\ L[n].more = 0
            /\ L[n].value = DecodedURI(P[n].value) /\ L[n].fragment = FALSE
        BY <1>7, <3>1, <4>1 DEF ReadInQuery
      <4>3. L[n] = [name |-> "simple", more |-> 0,
                    value |-> DecodedURI(P[n].value), fragment |-> FALSE]
        BY <4>2 DEF ReadParams
      <4>4. QED
        BY <2>2, <3>1, <3>2, <4>3
    <3>4. Len(ByForm) = Len(ByLink) /\ \A n \in 1..Len(ByForm) : n \in 1..Len(P) \/ n = Len(P) + 1
      BY <1>2, <1>9, <2>1, <3>2
    <3>5. \A n \in 1..Len(ByForm) : ByForm[n] = ByLink[n]
      BY <1>9, <2>1, <3>2, <3>3, <3>4
    <3>6. QED
      BY <1>9, <2>1, <3>4, <3>5, SeqEqual
  <2>4. ASSUME ByForm = ByLink PROVE Portable
    <3>1. k = Len(P)
      <4>1. k \in Nat /\ Len(P) \in Nat /\ Len(ByForm) = k + 1 /\ Len(ByLink) = Len(P) + 1
        BY <1>2, <1>3, <1>9, <2>1
      <4>2. QED
        BY ONLY <2>4, <4>1
    <3> SUFFICES ASSUME NEW n \in 1..Len(P)
                 PROVE  P[n].equals = 1 /\ P[n].name = "simple" /\ P[n].value # "plus"
      BY <1>2, <1>11 DEF Portable, P
    <3>2. /\ P[n].equals = 1
          /\ ByForm[n] = [name |-> P[n].name, more |-> 0,
                          value |-> DecodedURI(P[n].value), fragment |-> FALSE]
      BY <2>2, <3>1
    <3>3. P[n].name = ReadInQuery(P[n].name) /\ DecodedURI(P[n].value) = ReadInQuery(P[n].value)
      BY <1>7, <2>1, <2>4, <3>2
    <3>4. P[n].name = "simple"
      BY <1>2, <3>3 DEF ReadInQuery
    <3>5. P[n].value # "plus"
      BY <3>3 DEF ReadInQuery, DecodedURI
    <3>6. QED
      BY <3>2, <3>4, <3>5
  <2>5. QED
    BY <2>3, <2>4
<1>12. QED
  BY <1>2, <1>10, <1>11

LEMMA AddressAgrees == AddressInv => WaysAgreeWhenPortable
<1> SUFFICES ASSUME AddressInv, arrived # <<>>
             PROVE  arrived.form = arrived.link <=> Portable
  BY DEF WaysAgreeWhenPortable
<1>1. parsing = "done" /\ arrived = [form |-> ByForm, link |-> ByLink]
  BY DEF AddressInv
<1>2. QED
  BY <1>1, WaysAgree

(* For addresses of any length: the service is told the same by a button   *)
(* as by a form for exactly the addresses that need no decoding (ai, M).   *)
THEOREM WaysAgreed == ReturnSpec => []WaysAgreeWhenPortable
<1>1. QED
  BY AddressStart, AddressStep, AddressAgrees, PTL DEF ReturnSpec

-----------------------------------------------------------------------------
(***************************************************************************)
(* The page as the sum of its parts: a step of the page is a step of each  *)
(* part or leaves it alone.                                                *)
(***************************************************************************)
LEMMA PageStarts ==
  DiscoveryInit => /\ SearchInit /\ Init /\ CodecInit /\ LocalInit /\ LogoInit
                   /\ FollowInit /\ FeedInit /\ ReturnInit
BY DEF DiscoveryInit, TextsRest, CodecRests, LocalRests, LogoRests, FeedRests, ReturnRests

LEMMA PageSteps ==
  ASSUME [DiscoveryNext]_<<part, pageVars, textVars, listVars>>
  PROVE  /\ [SearchNext]_searchVars /\ [Next]_vars /\ [FollowNext]_followVars
         /\ [CodecNext]_codecVars /\ [LocalNext]_localVars
         /\ \/ SetUp /\ UNCHANGED logoVars
            \/ LogoNext /\ UNCHANGED localVars
            \/ LocalNext /\ UNCHANGED logoVars
            \/ UNCHANGED <<localVars, logoVars>>
         /\ [FeedNext]_feedVars /\ [ReturnNext]_returnVars
<1> DEFINE ps == <<searchVars, vars, followVars>>
           ts == <<codecVars, localVars, logoVars>>
           ls == <<feedVars, returnVars>>
<1>1. pageVars = ps /\ textVars = ts /\ listVars = ls
      /\ (UNCHANGED pageVars <=> UNCHANGED ps)
      /\ (UNCHANGED textVars <=> UNCHANGED ts)
      /\ (UNCHANGED listVars <=> UNCHANGED ls)
  BY DEF pageVars, textVars, listVars
<1>2. \/ SearchNext /\ UNCHANGED <<vars, followVars>> /\ UNCHANGED ts /\ UNCHANGED ls
      \/ Next /\ UNCHANGED <<searchVars, followVars>> /\ UNCHANGED ts /\ UNCHANGED ls
      \/ FollowNext /\ UNCHANGED <<searchVars, vars>> /\ UNCHANGED ts /\ UNCHANGED ls
      \/ CodecNext /\ UNCHANGED <<localVars, logoVars>> /\ UNCHANGED ps /\ UNCHANGED ls
      \/ LocalNext /\ UNCHANGED <<codecVars, logoVars>> /\ UNCHANGED ps /\ UNCHANGED ls
      \/ SetUp /\ UNCHANGED <<codecVars, logoVars>> /\ UNCHANGED ps /\ UNCHANGED ls
      \/ LogoNext /\ UNCHANGED <<codecVars, localVars>> /\ UNCHANGED ps /\ UNCHANGED ls
      \/ FeedNext /\ UNCHANGED returnVars /\ UNCHANGED ps /\ UNCHANGED ts
      \/ ReturnNext /\ UNCHANGED feedVars /\ UNCHANGED ps /\ UNCHANGED ts
      \/ UNCHANGED ps /\ UNCHANGED ts /\ UNCHANGED ls
  BY <1>1 DEF DiscoveryNext, OnPage, OnText, OnList
<1>3. UNCHANGED ps <=> UNCHANGED searchVars /\ UNCHANGED vars /\ UNCHANGED followVars
  OBVIOUS
<1>4. UNCHANGED ts <=> UNCHANGED codecVars /\ UNCHANGED localVars /\ UNCHANGED logoVars
  OBVIOUS
<1>5. UNCHANGED ls <=> UNCHANGED feedVars /\ UNCHANGED returnVars
  OBVIOUS
<1>6. SetUp => LocalNext
  BY DEF LocalNext
<1>7. QED
  BY <1>2, <1>3, <1>4, <1>5, <1>6

\* Whatever part of the page is running, each part behaves as its own
\* specification says, so that what is proved of a part holds of the page.
THEOREM PartsBehave ==
  DiscoverySpec => /\ SearchSpec /\ Spec /\ FollowSpec /\ CodecSpec /\ LocalSpec
                   /\ FeedSpec /\ ReturnSpec
<1>1. [DiscoveryNext]_<<part, pageVars, textVars, listVars>>
        => /\ [SearchNext]_searchVars /\ [Next]_vars /\ [FollowNext]_followVars
           /\ [CodecNext]_codecVars /\ [LocalNext]_localVars
           /\ [FeedNext]_feedVars /\ [ReturnNext]_returnVars
  BY PageSteps
<1>2. QED
  BY <1>1, PageStarts, PTL
     DEF DiscoverySpec, SearchSpec, Spec, FollowSpec, CodecSpec, LocalSpec, FeedSpec, ReturnSpec

\* The logo needs the language of the page and is an invariant of its own.
LEMMA LogoOnPage == DiscoverySpec => []LogoInv
<1>1. DiscoveryInit => LogoInv
  BY PageStarts, LogoStart
<1>2. ASSUME LogoInv, [DiscoveryNext]_<<part, pageVars, textVars, listVars>>
      PROVE  LogoInv'
  <2>1. CASE SetUp /\ UNCHANGED logoVars
    BY <1>2, <2>1, LogoSetUp
  <2>2. CASE LogoNext /\ UNCHANGED localVars
    BY <1>2, <2>2, LogoStep
  <2>3. CASE LocalNext /\ UNCHANGED logoVars
    <3>1. SetUp \/ UNCHANGED <<drawing, region, default>>
      BY <2>3 DEF LocalNext, Say, ShowName, ShowIcon, NothingDrawn, localVars
    <3>2. QED
      BY <1>2, <2>3, <3>1, LogoSetUp, LogoRest
  <2>4. CASE UNCHANGED <<localVars, logoVars>>
    BY <1>2, <2>4, LogoRest DEF localVars
  <2>5. QED
    BY <1>2, <2>1, <2>2, <2>3, <2>4, PageSteps
<1>3. QED
  BY <1>1, <1>2, PTL DEF DiscoverySpec

\* The type invariant of the page, which says of the cookie that it is base64;
\* the clock starts on a day the bound allows.
THEOREM DiscoveryTypeCorrect ==
  ASSUME LastDay > 0
  PROVE  DiscoverySpec => []DiscoveryTypeOK
<1>1. FollowSpec => []FollowTypeOK
  <2>1. FollowInv => FollowTypeOK
    BY DEF FollowInv
  <2>2. QED
    BY <2>1, FollowInvariant, PTL
<1>2. LocalSpec => []LocalTypeOK
  <2>1. LocalInit => LocalInv
    BY LocalStart
  <2>2. LocalInv /\ [LocalNext]_localVars => LocalInv'
    BY LocalStep
  <2>3. QED
    BY <2>1, <2>2, LocalTypes, PTL DEF LocalSpec
<1>3. SearchTypeOK /\ TypeOK /\ CodecTypeOK /\ LocalTypeOK /\ LogoTypeOK /\ FollowTypeOK
        /\ IsBase64 => DiscoveryTypeOK
  BY DEF DiscoveryTypeOK
<1>4. QED
  BY <1>1, <1>2, <1>3, PartsBehave, LogoOnPage, LogoTypes, TypeCorrect, HistoryTypeCorrect,
     CodecTypeCorrect, EntriesAreBase64, PTL
================================================================================
