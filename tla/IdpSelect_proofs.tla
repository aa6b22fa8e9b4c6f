-------------------------- MODULE IdpSelect_proofs --------------------------
(***************************************************************************)
(* Proofs about IdpSelect: the two loops over the history (J and L of the  *)
(* code), the cookie, and that the pages of a browser keep the promise of  *)
(* IdpHistory.                                                             *)
(*                                                                         *)
(* The loops are recursive functions.  That they are defined at all, and   *)
(* what they compute, is shown by induction over their index, which rests  *)
(* on the well-foundedness of the naturals in the form of sets.            *)
(***************************************************************************)
EXTENDS IdpSelect, SequenceTheorems, WellFoundedInduction, TLAPS

(***************************************************************************)
(* Induction over the indices of a loop.                                   *)
(***************************************************************************)
LessThan == {pair \in Nat \X Nat : pair[1] < pair[2]}

LEMMA LessThanWellFounded == IsWellFoundedOn(LessThan, Nat)
  BY NatLessThanWellFounded DEF OpToRel, LessThan

\* A set of natural numbers that is not empty has a least element.
LEMMA LeastOf ==
  ASSUME NEW T, T \subseteq Nat, T # {}
  PROVE  \E x \in T : \A y \in T : x <= y
<1>1. \E x \in T : \A y \in T : ~(<<y, x>> \in LessThan)
  BY LessThanWellFounded, WFMin
<1>2. ASSUME NEW x \in T, NEW y \in T, ~(<<y, x>> \in LessThan)
      PROVE  x <= y
  BY <1>2 DEF LessThan
<1>3. QED
  BY <1>1, <1>2

\* A set that has 0 and with each index of a loop also the next has them all.
LEMMA LoopInduction ==
  ASSUME NEW last \in Nat, NEW T, 0 \in T,
         \A n \in 1..last : n - 1 \in T => n \in T
  PROVE  0..last \subseteq T
<1>1. SUFFICES ASSUME (0..last) \ T # {}
               PROVE  FALSE
  OBVIOUS
<1>2. PICK x \in (0..last) \ T : \A y \in (0..last) \ T : x <= y
  <2> DEFINE Left == (0..last) \ T
  <2>1. Left \subseteq Nat /\ Left # {}
    BY <1>1
  <2> HIDE DEF Left
  <2>2. \E x \in Left : \A y \in Left : x <= y
    BY <2>1, LeastOf
  <2>3. QED
    BY <2>2 DEF Left
<1>3. x \in 1..last /\ x - 1 \in 0..last
  BY <1>2
<1>4. x - 1 \in T
  BY <1>2, <1>3
<1>5. QED
  BY <1>2, <1>3, <1>4

\* The values of a loop whose body is step, run last times on base.
Bodies(last, X) == [(1..last) \X X -> X]
IsLoop(value, X, base, last, step) ==
  /\ value \in [0..last -> X]
  /\ value[0] = base
  /\ \A n \in 1..last : value[n] = step[<<n, value[n - 1]>>]

\* A loop has a value for each of its turns.
LEMMA LoopDefined ==
  ASSUME NEW X, NEW base \in X, NEW last \in Nat, NEW step \in Bodies(last, X)
  PROVE  \E value : IsLoop(value, X, base, last, step)
<1> USE DEF Bodies
<1> DEFINE UpTo(m, value) ==
             /\ value[0] = base
             /\ \A n \in 1..m : value[n] = step[<<n, value[n - 1]>>]
           T == {m \in 0..last : \E value \in [0..last -> X] : UpTo(m, value)}
<1>1. 0 \in T
  <2> DEFINE constantly == [n \in 0..last |-> base]
  <2>1. constantly \in [0..last -> X] /\ UpTo(0, constantly)
    OBVIOUS
  <2>2. 0 \in 0..last
    OBVIOUS
  <2> HIDE DEF constantly, UpTo
  <2>3. QED
    BY <2>1, <2>2
<1>2. ASSUME NEW m \in 1..last, m - 1 \in T
      PROVE  m \in T
  <2>1. PICK value \in [0..last -> X] : UpTo(m - 1, value)
    BY <1>2
  <2> DEFINE next == [value EXCEPT ![m] = step[<<m, value[m - 1]>>]]
  <2>2. m - 1 \in 0..last /\ value[m - 1] \in X /\ <<m, value[m - 1]>> \in (1..last) \X X
    OBVIOUS
  <2>3. next \in [0..last -> X]
    BY <2>2
  <2>4. next[0] = base
    BY <2>1
  <2>5. ASSUME NEW n \in 1..m
        PROVE  next[n] = step[<<n, next[n - 1]>>]
    <3>1. n \in 0..last /\ n - 1 \in 0..last /\ n - 1 # m
      OBVIOUS
    <3>2. next[n - 1] = value[n - 1]
      BY <3>1
    <3>3. CASE n = m
      <4>1. next[m] = step[<<m, value[m - 1]>>]
        OBVIOUS
      <4>2. QED
        BY <3>2, <3>3, <4>1
    <3>4. CASE n # m
      <4>1. next[n] = value[n]
        BY <3>1, <3>4
      <4>2. n \in 1..(m - 1)
        BY <3>4
      <4>3. value[n] = step[<<n, value[n - 1]>>]
        BY <2>1, <4>2
      <4>4. QED
        BY <3>2, <4>1, <4>3
    <3>5. QED
      BY <3>3, <3>4
  <2>6. UpTo(m, next)
    BY <2>4, <2>5
  <2> HIDE DEF next, UpTo
  <2>7. QED
    BY <2>3, <2>6
<1>3. last \in T
  <2> HIDE DEF T
  <2>1. 0..last \subseteq T
    BY <1>1, <1>2, LoopInduction
  <2>2. QED
    BY <2>1
<1>4. QED
  BY <1>3 DEF IsLoop

(***************************************************************************)
(* J: the entries that stay.                                               *)
(***************************************************************************)
\* The value of J's loop after n turns, as Others defines it.
Kept(past, i) ==
  CHOOSE kept :
    kept = [n \in 0..Len(past) |->
              IF n = 0 THEN <<>>
              ELSE IF past[n] = i THEN kept[n - 1] ELSE Append(kept[n - 1], past[n])]

LEMMA KeptDefined ==
  ASSUME NEW S, NEW past \in Seq(S), NEW i
  PROVE  /\ Others(past, i) = Kept(past, i)[Len(past)]
         /\ Kept(past, i) \in [0..Len(past) -> Seq(S)]
         /\ Kept(past, i)[0] = <<>>
         /\ \A n \in 1..Len(past) :
              Kept(past, i)[n] =
                IF past[n] = i THEN Kept(past, i)[n - 1]
                ELSE Append(Kept(past, i)[n - 1], past[n])
<1> DEFINE last == Len(past)
           Is(kept) ==
             kept = [n \in 0..last |->
                       IF n = 0 THEN <<>>
                       ELSE IF past[n] = i THEN kept[n - 1]
                            ELSE Append(kept[n - 1], past[n])]
           step == [q \in (1..last) \X Seq(S) |->
                      IF past[q[1]] = i THEN q[2] ELSE Append(q[2], past[q[1]])]
           kept == Kept(past, i)
<1>1. last \in Nat /\ <<>> \in Seq(S)
  OBVIOUS
<1>2. step \in [(1..last) \X Seq(S) -> Seq(S)]
  <2>1. ASSUME NEW n \in 1..last, NEW row \in Seq(S)
        PROVE  Append(row, past[n]) \in Seq(S)
    OBVIOUS
  <2>2. QED
    BY <2>1
<1>3. PICK value \in [0..last -> Seq(S)] :
        /\ value[0] = <<>>
        /\ \A n \in 1..last : value[n] = step[<<n, value[n - 1]>>]
  <2>1. last \in Nat /\ <<>> \in Seq(S) /\ step \in Bodies(last, Seq(S))
    BY <1>1, <1>2 DEF Bodies
  <2> HIDE DEF step, last
  <2>2. \E value : IsLoop(value, Seq(S), <<>>, last, step)
    BY <2>1, LoopDefined
  <2>3. QED
    BY <2>2 DEF IsLoop
<1>4. \A n \in 1..last :
        value[n] = IF past[n] = i THEN value[n - 1] ELSE Append(value[n - 1], past[n])
  <2>1. TAKE n \in 1..last
  <2>2. n - 1 \in 0..last
    OBVIOUS
  <2>3. <<n, value[n - 1]>> \in (1..last) \X Seq(S)
    BY <2>2
  <2>4. QED
    BY <1>3, <2>3
<1>5. Is(value)
  <2>1. value = [n \in 0..last |-> value[n]]
    OBVIOUS
  <2>2. ASSUME NEW n \in 0..last
        PROVE  value[n] = IF n = 0 THEN <<>>
                          ELSE IF past[n] = i THEN value[n - 1]
                               ELSE Append(value[n - 1], past[n])
    <3>1. CASE n = 0
      BY <1>3, <3>1
    <3>2. CASE n \in 1..last
      <4>1. n # 0
        BY <3>2
      <4>2. QED
        BY <1>4, <3>2, <4>1
    <3>3. QED
      BY <3>1, <3>2
  <2>3. QED
    BY <2>1, <2>2
<1>6. Is(kept)
  <2>1. kept = CHOOSE k : Is(k)
    BY DEF Kept
  <2> HIDE DEF Is, kept
  <2>2. QED
    BY <1>5, <2>1
<1>7. /\ DOMAIN kept = 0..last
      /\ kept[0] = <<>>
      /\ \A n \in 1..last :
           kept[n] = IF past[n] = i THEN kept[n - 1] ELSE Append(kept[n - 1], past[n])
  <2> DEFINE body(n) == IF n = 0 THEN <<>>
                        ELSE IF past[n] = i THEN kept[n - 1]
                             ELSE Append(kept[n - 1], past[n])
  <2>1. kept = [n \in 0..last |-> body(n)]
    BY <1>6
  <2>2. 0 \in 0..last /\ \A n \in 1..last : n \in 0..last /\ n # 0
    BY <1>1
  <2>3. body(0) = <<>>
    OBVIOUS
  <2>4. \A n \in 1..last :
          body(n) = IF past[n] = i THEN kept[n - 1] ELSE Append(kept[n - 1], past[n])
    BY <2>2
  <2> HIDE DEF kept, body
  <2>5. DOMAIN kept = 0..last /\ \A n \in 0..last : kept[n] = body(n)
    BY <2>1
  <2>6. QED
    BY <2>2, <2>3, <2>4, <2>5
<1>8. 0..last \subseteq {n \in 0..last : kept[n] \in Seq(S)}
  <2> DEFINE T == {n \in 0..last : kept[n] \in Seq(S)}
  <2> HIDE DEF kept
  <2>1. 0 \in T
    <3>1. 0 \in 0..last /\ kept[0] \in Seq(S)
      BY <1>1, <1>7
    <3>2. QED
      BY <3>1
  <2>2. ASSUME NEW n \in 1..last, n - 1 \in T
        PROVE  n \in T
    <3>1. n \in 0..last /\ kept[n - 1] \in Seq(S) /\ past[n] \in S
      BY <2>2
    <3>2. Append(kept[n - 1], past[n]) \in Seq(S)
      BY <3>1
    <3>3. QED
      BY <1>7, <3>1, <3>2
  <2> HIDE DEF T
  <2>3. 0..last \subseteq T
    BY <1>1, <2>1, <2>2, LoopInduction
  <2>4. QED
    BY <2>3 DEF T
<1>9. kept \in [0..last -> Seq(S)]
  <2>1. kept = [n \in 0..last |-> kept[n]]
    BY <1>6
  <2> HIDE DEF kept
  <2>2. QED
    BY <1>8, <2>1
<1>10. Others(past, i) = kept[last]
  BY DEF Others, Kept
<1>11. QED
  BY <1>7, <1>9, <1>10

\* Where the n-th entry of a history is among those that stay, if it does.
At(past, i, n) == Len(Kept(past, i)[n])

\* What the loop has established after n turns.
KeptSoFar(past, i, n) ==
  LET kept == Kept(past, i)[n] IN
  /\ At(past, i, n) <= n
  /\ \A m \in 1..n : At(past, i, m) <= At(past, i, n)
  /\ \A m \in 1..n : past[m] = i => At(past, i, n) < n
  /\ \A m \in 1..n : past[m] # i => At(past, i, m) >= 1 /\ kept[At(past, i, m)] = past[m]
  /\ \A k \in 1..At(past, i, n) : \E m \in 1..n : past[m] # i /\ k = At(past, i, m)

LEMMA KeptStep ==
  ASSUME NEW S, NEW past \in Seq(S), NEW i, NEW n \in 1..Len(past),
         KeptSoFar(past, i, n - 1)
  PROVE  /\ KeptSoFar(past, i, n)
         /\ past[n] # i => \A m \in 1..(n - 1) : At(past, i, m) < At(past, i, n)
<1> DEFINE kept == Kept(past, i)
           before == kept[n - 1]
<1>1. /\ kept \in [0..Len(past) -> Seq(S)]
      /\ kept[n] = IF past[n] = i THEN before ELSE Append(before, past[n])
  BY KeptDefined
<1>2. n \in Nat /\ n - 1 \in 0..Len(past) /\ before \in Seq(S) /\ past[n] \in S
  BY <1>1
<1>3. \A m \in 0..n : kept[m] \in Seq(S) /\ At(past, i, m) \in Nat
  BY <1>1 DEF At
<1>4. CASE past[n] = i
  <2>1. kept[n] = before /\ At(past, i, n) = At(past, i, n - 1)
    BY <1>1, <1>4 DEF At
  <2> HIDE DEF kept, before
  <2>2. At(past, i, n - 1) <= n - 1 /\ \A m \in 1..(n - 1) : At(past, i, m) <= At(past, i, n - 1)
    BY DEF KeptSoFar
  <2>3. \A m \in 1..n : At(past, i, m) <= At(past, i, n) /\ At(past, i, n) < n
    BY <1>2, <1>3, <2>1, <2>2
  <2>4. \A m \in 1..n : past[m] # i => m \in 1..(n - 1)
    BY <1>4
  <2>5. \A m \in 1..n : past[m] # i =>
          At(past, i, m) >= 1 /\ kept[n][At(past, i, m)] = past[m]
    BY <2>1, <2>4 DEF KeptSoFar, kept, before
  <2>6. \A k \in 1..At(past, i, n) : \E m \in 1..n : past[m] # i /\ k = At(past, i, m)
    <3>1. TAKE k \in 1..At(past, i, n)
    <3>2. PICK m \in 1..(n - 1) : past[m] # i /\ k = At(past, i, m)
      BY <2>1 DEF KeptSoFar
    <3>3. QED
      BY <3>2
  <2>7. At(past, i, n) <= n
    BY <1>2, <1>3, <2>1, <2>2
  <2>8. KeptSoFar(past, i, n)
    BY <2>3, <2>5, <2>6, <2>7 DEF KeptSoFar, kept
  <2>9. QED
    BY <1>4, <2>8
<1>5. CASE past[n] # i
  <2>1. /\ kept[n] = Append(before, past[n])
        /\ At(past, i, n) = At(past, i, n - 1) + 1
        /\ At(past, i, n - 1) = Len(before)
    BY <1>1, <1>2, <1>5 DEF At
  <2>2. /\ \A k \in 1..At(past, i, n - 1) : kept[n][k] = before[k]
        /\ kept[n][At(past, i, n)] = past[n]
    BY <1>2, <2>1
  <2> HIDE DEF kept, before
  <2>3. \A m \in 1..(n - 1) : At(past, i, m) <= At(past, i, n - 1)
    BY DEF KeptSoFar
  <2>4. \A m \in 1..n : At(past, i, m) <= At(past, i, n)
    BY <1>2, <1>3, <2>1, <2>3
  <2>5. \A m \in 1..n : past[m] = i => At(past, i, n) < n
    <3>1. TAKE m \in 1..n
    <3>2. CASE m = n
      BY <1>5, <3>2
    <3>3. CASE m # n
      <4>1. m \in 1..(n - 1)
        BY <3>3
      <4>2. past[m] = i => At(past, i, n - 1) < n - 1
        BY <4>1 DEF KeptSoFar
      <4>3. QED
        BY <1>2, <1>3, <2>1, <4>2
    <3>4. QED
      BY <3>2, <3>3
  <2>6. \A m \in 1..n : past[m] # i =>
          At(past, i, m) >= 1 /\ kept[n][At(past, i, m)] = past[m]
    <3>1. TAKE m \in 1..n
    <3>2. CASE m = n
      BY <1>3, <1>2, <2>1, <2>2, <3>2
    <3>3. CASE m # n
      <4>1. m \in 1..(n - 1)
        BY <3>3
      <4>2. past[m] # i => At(past, i, m) >= 1 /\ before[At(past, i, m)] = past[m]
        BY <4>1 DEF KeptSoFar, before, kept
      <4>3. QED
        BY <1>2, <1>3, <2>2, <2>3, <4>1, <4>2
    <3>4. QED
      BY <3>2, <3>3
  <2>7. \A k \in 1..At(past, i, n) : \E m \in 1..n : past[m] # i /\ k = At(past, i, m)
    <3>1. TAKE k \in 1..At(past, i, n)
    <3>2. CASE k = At(past, i, n)
      BY <1>2, <1>5, <3>2
    <3>3. CASE k # At(past, i, n)
      <4>1. k \in 1..At(past, i, n - 1)
        BY <1>2, <1>3, <2>1, <3>3
      <4>2. PICK m \in 1..(n - 1) : past[m] # i /\ k = At(past, i, m)
        BY <4>1 DEF KeptSoFar
      <4>3. QED
        BY <4>2
    <3>4. QED
      BY <3>2, <3>3
  <2>8. At(past, i, n) <= n
    BY <1>2, <1>3, <2>1 DEF KeptSoFar
  <2>9. KeptSoFar(past, i, n)
    BY <2>4, <2>5, <2>6, <2>7, <2>8 DEF KeptSoFar, kept
  <2>10. \A m \in 1..(n - 1) : At(past, i, m) < At(past, i, n)
    BY <1>2, <1>3, <2>1, <2>3
  <2>11. QED
    BY <2>9, <2>10
<1>6. QED
  BY <1>4, <1>5

\* rest is the history without i, the n-th entry being now at at[n].
Places(at, past, i, rest) ==
  /\ at \in [1..Len(past) -> Nat]
  /\ \A n \in 1..Len(past) :
       /\ at[n] <= n
       /\ \A m \in 1..n : past[m] = i => at[n] < n
       /\ past[n] # i => /\ at[n] \in 1..Len(rest) /\ rest[at[n]] = past[n]
                        /\ \A m \in 1..(n - 1) : at[m] < at[n]
  /\ \A k \in 1..Len(rest) : \E n \in 1..Len(past) : past[n] # i /\ k = at[n]

\* J takes out i and nothing else, and what stays keeps its order.
LEMMA OthersPlaces ==
  ASSUME NEW S, NEW past \in Seq(S), NEW i
  PROVE  /\ Others(past, i) \in Seq(S)
         /\ \E at : Places(at, past, i, Others(past, i))
<1> DEFINE last == Len(past)
           kept == Kept(past, i)
           T == {n \in 0..last : KeptSoFar(past, i, n)}
<1>1. /\ last \in Nat
      /\ Others(past, i) = kept[last]
      /\ kept \in [0..last -> Seq(S)]
      /\ kept[0] = <<>>
  BY KeptDefined
<1>2. KeptSoFar(past, i, 0)
  BY <1>1 DEF KeptSoFar, At
<1>3. 0..last \subseteq T
  <2>1. 0 \in T
    BY <1>1, <1>2
  <2>2. ASSUME NEW n \in 1..last, n - 1 \in T
        PROVE  n \in T
    BY <2>2, KeptStep
  <2> HIDE DEF T
  <2>3. QED
    BY <1>1, <2>1, <2>2, LoopInduction
<1>4. \A n \in 0..last : KeptSoFar(past, i, n) /\ At(past, i, n) \in Nat
  BY <1>1, <1>3 DEF At
<1>5. \A n \in 1..last : past[n] # i =>
        \A m \in 1..(n - 1) : At(past, i, m) < At(past, i, n)
  <2>1. TAKE n \in 1..last
  <2>2. n - 1 \in 0..last
    BY <1>1
  <2>3. QED
    BY <1>4, <2>2, KeptStep
<1> DEFINE at == [n \in 1..last |-> At(past, i, n)]
<1>6. at \in [1..last -> Nat] /\ \A n \in 1..last : at[n] = At(past, i, n)
  BY <1>1, <1>4
<1>7. /\ Others(past, i) \in Seq(S)
      /\ Len(Others(past, i)) = At(past, i, last)
  BY <1>1 DEF At
<1>8. KeptSoFar(past, i, last)
  BY <1>1, <1>4
<1> HIDE DEF at, kept, T
<1>9. ASSUME NEW n \in 1..last
      PROVE  /\ at[n] <= n
             /\ \A m \in 1..n : past[m] = i => at[n] < n
             /\ past[n] # i => /\ at[n] \in 1..Len(Others(past, i))
                              /\ Others(past, i)[at[n]] = past[n]
                              /\ \A m \in 1..(n - 1) : at[m] < at[n]
  <2>1. KeptSoFar(past, i, n) /\ n \in 0..last
    BY <1>1, <1>4
  <2>2. at[n] <= n /\ \A m \in 1..n : past[m] = i => at[n] < n
    BY <1>6, <2>1 DEF KeptSoFar
  <2>3. past[n] # i => at[n] \in 1..Len(Others(past, i)) /\ Others(past, i)[at[n]] = past[n]
    BY <1>1, <1>4, <1>6, <1>7, <1>8, <2>1 DEF KeptSoFar, kept
  <2>4. past[n] # i => \A m \in 1..(n - 1) : at[m] < at[n]
    BY <1>1, <1>5, <1>6
  <2>5. QED
    BY <2>2, <2>3, <2>4
<1>10. \A k \in 1..Len(Others(past, i)) : \E n \in 1..last : past[n] # i /\ k = at[n]
  BY <1>6, <1>7, <1>8 DEF KeptSoFar
<1>11. Places(at, past, i, Others(past, i))
  BY <1>6, <1>9, <1>10 DEF Places
<1>12. QED
  BY <1>7, <1>11

(***************************************************************************)
(* L: the row of preferred providers.                                      *)
(***************************************************************************)
Entries == Providers \cup {Unknown}

\* The value of L's second loop after n turns, as Slots defines it.
Row(past, known) ==
  CHOOSE row :
    row = [n \in 0..Len(past) |->
             IF n = 0 THEN Configured(known)
             ELSE Pushed(row[n - 1], Lookup(known, past[n]))]

LEMMA ConfiguredType ==
  ASSUME NEW known \in SUBSET Providers
  PROVE  /\ Configured(known) \in Seq(Entries)
         /\ Preferred = <<>> => Configured(known) = <<>>
<1> DEFINE most == IF Len(Preferred) > MaxPreferred THEN MaxPreferred ELSE Len(Preferred)
<1>1. most \in Nat /\ most <= Len(Preferred) /\ Preferred \in Seq(Providers)
  BY IdpSelectAssumption
<1>2. \A k \in 1..most : Lookup(known, Preferred[k]) \in Entries
  BY <1>1 DEF Lookup, Entries
<1>3. Configured(known) = [k \in 1..most |-> Lookup(known, Preferred[k])]
  BY DEF Configured
<1>4. Configured(known) \in Seq(Entries)
  <2> HIDE DEF most
  <2>1. QED
    BY <1>1, <1>2, <1>3
<1>5. ASSUME Preferred = <<>>
      PROVE  Configured(known) = <<>>
  <2>1. most = 0
    BY <1>5, IdpSelectAssumption
  <2> HIDE DEF most
  <2>2. QED
    BY <1>3, <2>1
<1>6. QED
  BY <1>4, <1>5

LEMMA PushedType ==
  ASSUME NEW row \in Seq(Entries), NEW entry \in Entries
  PROVE  /\ Pushed(row, entry) \in Seq(Entries)
         /\ Len(row) <= Len(Pushed(row, entry)) /\ Len(Pushed(row, entry)) <= Len(row) + 1
         /\ Range(row) \subseteq Range(Pushed(row, entry))
         /\ Len(row) < MaxPreferred => entry \in Range(Pushed(row, entry))
<1>1. CASE Pushed(row, entry) = Append(row, entry)
  <2>1. /\ Append(row, entry) \in Seq(Entries)
        /\ Len(Append(row, entry)) = Len(row) + 1
        /\ \A k \in 1..Len(row) : Append(row, entry)[k] = row[k]
        /\ Append(row, entry)[Len(row) + 1] = entry
    OBVIOUS
  <2>2. Range(row) \subseteq Range(Append(row, entry)) /\ entry \in Range(Append(row, entry))
    BY <2>1 DEF Range
  <2>3. QED
    BY <1>1, <2>1, <2>2
<1>2. CASE Pushed(row, entry) = row /\ ~(Len(row) < MaxPreferred /\ entry \notin Range(row))
  BY <1>2
<1>3. QED
  BY <1>1, <1>2 DEF Pushed

LEMMA RowDefined ==
  ASSUME NEW past \in Seq(Providers), NEW known \in SUBSET Providers
  PROVE  /\ Slots(past, known) = Row(past, known)[Len(past)]
         /\ Row(past, known) \in [0..Len(past) -> Seq(Entries)]
         /\ Row(past, known)[0] = Configured(known)
         /\ \A n \in 1..Len(past) :
              Row(past, known)[n] =
                Pushed(Row(past, known)[n - 1], Lookup(known, past[n]))
<1> DEFINE last == Len(past)
           Is(row) ==
             row = [n \in 0..last |->
                      IF n = 0 THEN Configured(known)
                      ELSE Pushed(row[n - 1], Lookup(known, past[n]))]
           step == [q \in (1..last) \X Seq(Entries) |->
                      Pushed(q[2], Lookup(known, past[q[1]]))]
           row == Row(past, known)
<1>1. last \in Nat /\ Configured(known) \in Seq(Entries)
  BY ConfiguredType
<1>2. \A n \in 1..last : Lookup(known, past[n]) \in Entries
  BY DEF Lookup, Entries
<1>3. step \in Bodies(last, Seq(Entries))
  <2>1. ASSUME NEW n \in 1..last, NEW r \in Seq(Entries)
        PROVE  Pushed(r, Lookup(known, past[n])) \in Seq(Entries)
    BY <1>2, PushedType
  <2>2. QED
    BY <2>1 DEF Bodies
<1>4. PICK value : IsLoop(value, Seq(Entries), Configured(known), last, step)
  <2> HIDE DEF step, last
  <2>1. QED
    BY <1>1, <1>3, LoopDefined
<1>5. \A n \in 1..last : value[n] = Pushed(value[n - 1], Lookup(known, past[n]))
  <2>1. TAKE n \in 1..last
  <2>2. n - 1 \in 0..last
    OBVIOUS
  <2>3. <<n, value[n - 1]>> \in (1..last) \X Seq(Entries)
    BY <1>4, <2>2 DEF IsLoop
  <2>4. QED
    BY <1>4, <2>3 DEF IsLoop
<1>6. Is(value)
  <2>1. value = [n \in 0..last |-> value[n]]
    BY <1>4 DEF IsLoop
  <2>2. ASSUME NEW n \in 0..last
        PROVE  value[n] = IF n = 0 THEN Configured(known)
                          ELSE Pushed(value[n - 1], Lookup(known, past[n]))
    <3>1. CASE n = 0
      BY <1>4, <3>1 DEF IsLoop
    <3>2. CASE n \in 1..last
      <4>1. n # 0
        BY <3>2
      <4>2. QED
        BY <1>5, <3>2, <4>1
    <3>3. QED
      BY <3>1, <3>2
  <2>3. QED
    BY <2>1, <2>2
<1>7. Is(row)
  <2>1. row = CHOOSE r : Is(r)
    BY DEF Row
  <2> HIDE DEF Is, row
  <2>2. QED
    BY <1>6, <2>1
<1>8. /\ DOMAIN row = 0..last
      /\ row[0] = Configured(known)
      /\ \A n \in 1..last : row[n] = Pushed(row[n - 1], Lookup(known, past[n]))
  <2> DEFINE body(n) == IF n = 0 THEN Configured(known)
                        ELSE Pushed(row[n - 1], Lookup(known, past[n]))
  <2>1. row = [n \in 0..last |-> body(n)]
    BY <1>7
  <2>2. 0 \in 0..last /\ \A n \in 1..last : n \in 0..last /\ n # 0
    BY <1>1
  <2>3. body(0) = Configured(known)
    OBVIOUS
  <2>4. \A n \in 1..last : body(n) = Pushed(row[n - 1], Lookup(known, past[n]))
    BY <2>2
  <2> HIDE DEF row, body
  <2>5. DOMAIN row = 0..last /\ \A n \in 0..last : row[n] = body(n)
    BY <2>1
  <2>6. QED
    BY <2>2, <2>3, <2>4, <2>5
<1>9. \A n \in 0..last : row[n] \in Seq(Entries)
  <2> DEFINE T == {n \in 0..last : row[n] \in Seq(Entries)}
  <2> HIDE DEF row
  <2>1. 0 \in T
    <3>1. 0 \in 0..last /\ row[0] \in Seq(Entries)
      BY <1>1, <1>8
    <3>2. QED
      BY <3>1
  <2>2. ASSUME NEW n \in 1..last, n - 1 \in T
        PROVE  n \in T
    <3>1. n \in 0..last /\ row[n - 1] \in Seq(Entries)
      BY <2>2
    <3>2. Pushed(row[n - 1], Lookup(known, past[n])) \in Seq(Entries)
      BY <1>2, <3>1, PushedType
    <3>3. QED
      BY <1>8, <3>1, <3>2
  <2> HIDE DEF T
  <2>3. 0..last \subseteq T
    BY <1>1, <2>1, <2>2, LoopInduction
  <2>4. QED
    BY <2>3 DEF T
<1>10. row \in [0..last -> Seq(Entries)]
  <2>1. row = [n \in 0..last |-> row[n]]
    BY <1>7
  <2> HIDE DEF row
  <2>2. QED
    BY <1>9, <2>1
<1>11. Slots(past, known) = row[last]
  BY DEF Slots, Row
<1>12. QED
  BY <1>8, <1>10, <1>11

\* While no limit is reached, the row has every provider of the history that
\* is known.
LEMMA SlotsHold ==
  ASSUME NEW past \in Seq(Providers), NEW known \in SUBSET Providers,
         Preferred = <<>>, Len(past) <= MaxPreferred
  PROVE  \A n \in 1..Len(past) : Lookup(known, past[n]) \in Range(Slots(past, known))
<1> DEFINE last == Len(past)
           row == Row(past, known)
           Holds(n) == /\ Len(row[n]) <= n
                       /\ \A m \in 1..n : Lookup(known, past[m]) \in Range(row[n])
           T == {n \in 0..last : Holds(n)}
<1>1. /\ last \in Nat /\ last <= MaxPreferred /\ MaxPreferred \in Nat
      /\ row \in [0..last -> Seq(Entries)] /\ row[0] = <<>>
      /\ Slots(past, known) = row[last]
      /\ \A n \in 1..last : row[n] = Pushed(row[n - 1], Lookup(known, past[n]))
  BY RowDefined, ConfiguredType, IdpSelectAssumption
<1>2. \A n \in 1..last : Lookup(known, past[n]) \in Entries
  BY DEF Lookup, Entries
<1> HIDE DEF row
<1>3. 0 \in T
  <2>1. Len(row[0]) = 0 /\ 1..0 = {} /\ 0 \in 0..last
    BY <1>1
  <2>2. QED
    BY <2>1
<1>4. ASSUME NEW n \in 1..last, n - 1 \in T
      PROVE  n \in T
  <2>1. n - 1 \in 0..last /\ n \in 0..last /\ row[n - 1] \in Seq(Entries) /\ Holds(n - 1)
    <3>1. n - 1 \in 0..last /\ Holds(n - 1)
      BY <1>4
    <3>2. n \in 0..last
      OBVIOUS
    <3> HIDE DEF Holds, T, last
    <3>3. row[n - 1] \in Seq(Entries)
      BY <1>1, <3>1
    <3>4. QED
      BY <3>1, <3>2, <3>3
  <2>2. /\ Len(row[n - 1]) < MaxPreferred
        /\ Len(row[n - 1]) \in Nat
    BY <1>1, <2>1
  <2>3. /\ Len(row[n]) <= Len(row[n - 1]) + 1
        /\ Len(row[n]) \in Nat
        /\ Range(row[n - 1]) \subseteq Range(row[n])
        /\ Lookup(known, past[n]) \in Range(row[n])
    BY <1>1, <1>2, <2>1, <2>2, PushedType
  <2>4. Len(row[n]) <= n
    BY <2>1, <2>2, <2>3
  <2>5. \A m \in 1..n : Lookup(known, past[m]) \in Range(row[n])
    <3>1. TAKE m \in 1..n
    <3>2. m = n \/ m \in 1..(n - 1)
      OBVIOUS
    <3>3. QED
      BY <2>1, <2>3, <3>2
  <2>6. QED
    BY <2>1, <2>4, <2>5
<1> HIDE DEF T
<1>5. 0..last \subseteq T
  BY <1>1, <1>3, <1>4, LoopInduction
<1>6. Holds(last)
  BY <1>1, <1>5 DEF T
<1>7. QED
  BY <1>1, <1>6

(***************************************************************************)
(* The cookie.                                                             *)
(***************************************************************************)
LEMMA ReverseFacts ==
  ASSUME NEW S, NEW s \in Seq(S)
  PROVE  /\ Reverse(s) \in Seq(S) /\ Len(Reverse(s)) = Len(s)
         /\ \A k \in 1..Len(s) : Reverse(s)[k] = s[Len(s) - k + 1]
         /\ Reverse(Reverse(s)) = s
         /\ Range(Reverse(s)) = Range(s)
         /\ IsInjective(s) => IsInjective(Reverse(s))
<1>1. Len(s) \in Nat /\ \A k \in 1..Len(s) : s[k] \in S /\ Len(s) - k + 1 \in 1..Len(s)
  OBVIOUS
<1>2. Reverse(s) = [k \in 1..Len(s) |-> s[Len(s) - k + 1]]
  BY DEF Reverse
<1>3. /\ Reverse(s) \in Seq(S) /\ Len(Reverse(s)) = Len(s)
      /\ \A k \in 1..Len(s) : Reverse(s)[k] = s[Len(s) - k + 1]
  BY <1>1, <1>2
<1>4. Reverse(Reverse(s)) = s
  <2>1. Reverse(Reverse(s)) = [k \in 1..Len(s) |-> Reverse(s)[Len(s) - k + 1]]
    BY <1>3 DEF Reverse
  <2>2. \A k \in 1..Len(s) : Reverse(s)[Len(s) - k + 1] = s[k]
    BY <1>1, <1>3
  <2>3. s = [k \in 1..Len(s) |-> s[k]]
    OBVIOUS
  <2>4. QED
    BY <2>1, <2>2, <2>3
<1>5. Range(Reverse(s)) = Range(s)
  <2>1. \A k \in 1..Len(s) : \E m \in 1..Len(s) : s[k] = Reverse(s)[m]
    <3>1. TAKE k \in 1..Len(s)
    <3>2. s[k] = Reverse(s)[Len(s) - k + 1]
      BY <1>1, <1>3
    <3>3. QED
      BY <1>1, <3>2
  <2>2. \A k \in 1..Len(s) : \E m \in 1..Len(s) : Reverse(s)[k] = s[m]
    BY <1>1, <1>3
  <2>3. DOMAIN s = 1..Len(s) /\ DOMAIN Reverse(s) = 1..Len(s)
    BY <1>3
  <2>4. Range(Reverse(s)) \subseteq Range(s)
    BY <2>2, <2>3 DEF Range
  <2>5. Range(s) \subseteq Range(Reverse(s))
    BY <2>1, <2>3 DEF Range
  <2>6. QED
    BY <2>4, <2>5
<1>6. ASSUME IsInjective(s)
      PROVE  IsInjective(Reverse(s))
  <2>1. SUFFICES ASSUME NEW j \in 1..Len(s), NEW k \in 1..Len(s),
                        Reverse(s)[j] = Reverse(s)[k]
                 PROVE  j = k
    BY <1>3 DEF IsInjective
  <2>2. Len(s) - j + 1 = Len(s) - k + 1
    <3>1. s[Len(s) - j + 1] = s[Len(s) - k + 1]
      BY <1>3, <2>1
    <3>2. \A m, n \in 1..Len(s) : s[m] = s[n] => m = n
      BY <1>6 DEF IsInjective
    <3>3. QED
      BY <1>1, <3>1, <3>2
  <2>3. QED
    BY <1>1, <2>2
<1>7. QED
  BY <1>3, <1>4, <1>5, <1>6

\* The newest entries of a history, which the cookie has.
Newest(past) == IF Len(past) > Cap THEN Cap ELSE Len(past)

LEMMA WrittenFacts ==
  ASSUME NEW past \in Seq(Providers)
  PROVE  /\ Newest(past) \in 0..Cap /\ Newest(past) <= Len(past)
         /\ Written(past) \in Seq(Providers) /\ Len(Written(past)) = Newest(past)
         /\ Reverse(Written(past)) \in Seq(Providers)
         /\ Len(Reverse(Written(past))) = Newest(past)
         /\ \A k \in 1..Newest(past) : Reverse(Written(past))[k] = past[k]
         /\ Range(Written(past)) \subseteq Range(past)
         /\ IsInjective(past) => IsInjective(Written(past))
<1> DEFINE front == SubSeq(past, 1, Newest(past))
<1>1. /\ Cap \in Nat \ {0} /\ Len(past) \in Nat
      /\ Newest(past) \in 0..Cap /\ Newest(past) <= Len(past)
  BY IdpSelectAssumption DEF Newest
<1>2. /\ front \in Seq(Providers) /\ Len(front) = Newest(past)
      /\ \A k \in 1..Newest(past) : front[k] = past[k]
  BY <1>1
<1>3. Written(past) = Reverse(front)
  BY DEF Written, Newest
<1>4. Range(front) \subseteq Range(past)
  BY <1>1, <1>2 DEF Range
<1>5. ASSUME IsInjective(past)
      PROVE  IsInjective(front)
  BY <1>1, <1>2, <1>5 DEF IsInjective
<1> HIDE DEF front
<1>6. QED
  BY <1>1, <1>2, <1>3, <1>4, <1>5, ReverseFacts

\* J as a whole.
LEMMA ToFrontFacts ==
  ASSUME NEW S, NEW past \in Seq(S), NEW i \in S
  PROVE  /\ ToFront(past, i) \in Seq(S) /\ Len(ToFront(past, i)) >= 1
         /\ ToFront(past, i)[1] = i
         /\ Range(ToFront(past, i)) \subseteq Range(past) \cup {i}
         /\ IsInjective(past) => IsInjective(ToFront(past, i))
<1> DEFINE rest == Others(past, i)
<1>0. PICK at : Places(at, past, i, rest)
  BY OthersPlaces
<1>1. /\ rest \in Seq(S)
      /\ at \in [1..Len(past) -> Nat]
      /\ \A k \in 1..Len(rest) : \E n \in 1..Len(past) : past[n] # i /\ k = at[n]
      /\ \A n \in 1..Len(past) : past[n] # i => rest[at[n]] = past[n]
  BY <1>0, OthersPlaces DEF Places
<1> HIDE DEF rest
<1>2. /\ ToFront(past, i) \in Seq(S)
      /\ Len(ToFront(past, i)) = Len(rest) + 1
      /\ ToFront(past, i)[1] = i
      /\ \A k \in 2..(Len(rest) + 1) : ToFront(past, i)[k] = rest[k - 1]
  BY <1>1 DEF ToFront, rest
<1>3. \A k \in 2..(Len(rest) + 1) :
        \E n \in 1..Len(past) :
           past[n] # i /\ k - 1 = at[n] /\ ToFront(past, i)[k] = past[n]
  <2>1. TAKE k \in 2..(Len(rest) + 1)
  <2>2. k - 1 \in 1..Len(rest)
    BY <1>1
  <2>3. PICK n \in 1..Len(past) : past[n] # i /\ k - 1 = at[n]
    BY <1>1, <2>2
  <2>4. ToFront(past, i)[k] = past[n]
    BY <1>1, <1>2, <2>3
  <2>5. QED
    BY <2>3, <2>4
<1>4. Range(ToFront(past, i)) \subseteq Range(past) \cup {i}
  <2>1. \A k \in 1..(Len(rest) + 1) : ToFront(past, i)[k] \in Range(past) \cup {i}
    <3>1. TAKE k \in 1..(Len(rest) + 1)
    <3>2. CASE k = 1
      BY <1>2, <3>2
    <3>3. CASE k \in 2..(Len(rest) + 1)
      BY <1>3, <3>3 DEF Range
    <3>4. QED
      BY <1>1, <3>2, <3>3
  <2>2. QED
    BY <1>1, <1>2, <2>1 DEF Range
<1>5. ASSUME IsInjective(past)
      PROVE  IsInjective(ToFront(past, i))
  <2>1. SUFFICES ASSUME NEW j \in 1..(Len(rest) + 1), NEW k \in 1..(Len(rest) + 1),
                        ToFront(past, i)[j] = ToFront(past, i)[k]
                 PROVE  j = k
    BY <1>1, <1>2 DEF IsInjective
  <2>2. \A m \in 1..(Len(rest) + 1) : m = 1 \/ m \in 2..(Len(rest) + 1)
    BY <1>1
  <2>3. CASE j = 1 \/ k = 1
    BY <1>2, <1>3, <2>1, <2>2, <2>3
  <2>4. CASE j \in 2..(Len(rest) + 1) /\ k \in 2..(Len(rest) + 1)
    <3>1. PICK m \in 1..Len(past) : j - 1 = at[m] /\ ToFront(past, i)[j] = past[m]
      BY <1>3, <2>4
    <3>2. PICK n \in 1..Len(past) : k - 1 = at[n] /\ ToFront(past, i)[k] = past[n]
      BY <1>3, <2>4
    <3>3. m = n
      <4>1. \A a, b \in 1..Len(past) : past[a] = past[b] => a = b
        BY <1>5 DEF IsInjective
      <4>2. QED
        BY <2>1, <3>1, <3>2, <4>1
    <3>4. QED
      BY <1>1, <3>1, <3>2, <3>3
  <2>5. QED
    BY <2>2, <2>3, <2>4
<1>6. QED
  BY <1>1, <1>2, <1>4, <1>5

(***************************************************************************)
(* The inductive invariant: neither the cookie nor the history any page    *)
(* works with has a provider twice or one never chosen.                    *)
(***************************************************************************)
Remembers(past, chosen) == IsInjective(past) /\ Range(past) \subseteq chosen

HistoryInv ==
  /\ TypeOK
  /\ Len(stored) <= Cap /\ Remembers(stored, everChosen)
  /\ \A p \in Pages : Remembers(history[p], everChosen)

LEMMA NothingRemembered ==
  ASSUME NEW chosen
  PROVE  Remembers(<<>>, chosen)
<1>1. DOMAIN <<>> = {}
  OBVIOUS
<1>2. QED
  BY <1>1 DEF Remembers, IsInjective, Range

LEMMA HistoryInit == Init => HistoryInv
<1>1. SUFFICES ASSUME Init PROVE HistoryInv
  OBVIOUS
<1>2. TypeOK
  <2>1. <<>> \in Seq(Providers) /\ <<>> \in Seq(Providers \cup {Unknown})
    OBVIOUS
  <2>2. QED
    BY <1>1, <2>1 DEF Init, TypeOK
<1>3. Len(stored) <= Cap
  BY <1>1, IdpSelectAssumption DEF Init
<1>4. \A p \in Pages : history[p] = <<>>
  BY <1>1 DEF Init
<1>5. QED
  BY <1>1, <1>2, <1>3, <1>4, NothingRemembered DEF Init, HistoryInv

\* What the pages read from the cookie.
LEMMA ReadFacts ==
  ASSUME HistoryInv
  PROVE  /\ Read \in Seq(Providers) /\ Len(Read) = Len(stored)
         /\ Remembers(Read, everChosen)
<1>1. stored \in Seq(Providers) /\ Remembers(stored, everChosen)
  BY DEF HistoryInv, TypeOK
<1>2. QED
  BY <1>1, ReverseFacts DEF Read, Remembers

\* A page whose history becomes past, the cookie and the choices as they were.
LEMMA PageStep ==
  ASSUME HistoryInv, NEW p \in Pages, NEW past \in Seq(Providers),
         Remembers(past, everChosen),
         history' = [history EXCEPT ![p] = past],
         stored' = stored, everChosen' = everChosen, TypeOK'
  PROVE  HistoryInv'
<1>1. history \in [Pages -> Seq(Providers)]
  BY DEF HistoryInv, TypeOK
<1>2. \A q \in Pages : Remembers(history'[q], everChosen)
  BY <1>1 DEF HistoryInv
<1>3. QED
  BY <1>2 DEF HistoryInv

LEMMA BecomeStep ==
  ASSUME HistoryInv, NEW p \in Pages, NEW s \in {"stopped", "loading", "followed"},
         Become(p, s), follow' = follow, stored' = stored, everChosen' = everChosen,
         sentTo' \in Providers \cup {Unknown}
  PROVE  HistoryInv'
<1>1. TypeOK'
  BY DEF HistoryInv, TypeOK, Become
<1>2. history' = [history EXCEPT ![p] = <<>>] /\ <<>> \in Seq(Providers)
  BY DEF Become
<1>3. Remembers(<<>>, everChosen)
  BY NothingRemembered
<1>4. QED
  BY <1>1, <1>2, <1>3, PageStep

LEMMA DrawStep ==
  ASSUME HistoryInv, NEW p \in Pages, NEW feed \in Feeds, DrawPage(p, feed)
  PROVE  HistoryInv'
<1>1. feed \ Hidden \in SUBSET Providers
  BY IdpSelectAssumption
<1>2. Read \in Seq(Providers) /\ Remembers(Read, everChosen)
  BY ReadFacts
<1>3. Slots(Read, feed \ Hidden) \in Seq(Providers \cup {Unknown})
  <2>1. Len(Read) \in 0..Len(Read)
    BY <1>2
  <2>2. QED
    BY <1>1, <1>2, <2>1, RowDefined DEF Entries
<1>4. TypeOK'
  BY <1>1, <1>2, <1>3 DEF HistoryInv, TypeOK, DrawPage
<1>5. QED
  BY <1>2, <1>4, PageStep DEF DrawPage

\* What a choice leaves: the history of its page and, when it is written, the
\* cookie begin with the choice and remember nothing but choices.
LEMMA SelectFacts ==
  ASSUME HistoryInv, NEW p \in Pages, NEW i \in Providers, Select(p, i)
  PROVE  /\ history'[p] = ToFront(history[p], i) /\ history'[p] \in Seq(Providers)
         /\ Remembers(history'[p], everChosen')
         /\ stored' \in Seq(Providers) /\ Len(stored') <= Cap
         /\ Remembers(stored', everChosen')
         /\ ~NoWriteCookie => /\ stored' = Written(history'[p])
                              /\ Len(Read') \in 1..Cap /\ Read'[1] = i
<1> DEFINE past == history[p]
           next == ToFront(past, i)
<1>1. /\ past \in Seq(Providers) /\ Remembers(past, everChosen)
      /\ stored \in Seq(Providers) /\ Len(stored) <= Cap
      /\ Remembers(stored, everChosen)
      /\ history'[p] = next /\ next = ToFront(history[p], i)
      /\ everChosen' = everChosen \cup {i}
      /\ stored' = IF NoWriteCookie THEN stored ELSE Written(next)
  BY DEF HistoryInv, TypeOK, Select
<1> HIDE DEF past
<1>2. /\ next \in Seq(Providers) /\ Len(next) >= 1 /\ next[1] = i
      /\ Range(next) \subseteq Range(past) \cup {i}
      /\ IsInjective(past) => IsInjective(next)
  <2>1. past \in Seq(Providers) /\ next = ToFront(past, i)
    BY <1>1 DEF past
  <2>2. /\ ToFront(past, i) \in Seq(Providers) /\ Len(ToFront(past, i)) >= 1
        /\ ToFront(past, i)[1] = i
    BY <2>1, ToFrontFacts
  <2>3. /\ Range(ToFront(past, i)) \subseteq Range(past) \cup {i}
        /\ IsInjective(past) => IsInjective(ToFront(past, i))
    BY <2>1, ToFrontFacts
  <2>4. QED
    BY <2>1, <2>2, <2>3
<1>3. Remembers(next, everChosen')
  BY <1>1, <1>2 DEF Remembers
<1> HIDE DEF next
<1>4. /\ Written(next) \in Seq(Providers) /\ Len(Written(next)) <= Cap
      /\ Remembers(Written(next), everChosen')
      /\ Len(Reverse(Written(next))) \in 1..Cap
      /\ Reverse(Written(next))[1] = i
  <2>1. Cap \in Nat \ {0} /\ Len(next) \in Nat
    BY <1>2, IdpSelectAssumption
  <2>2. Newest(next) \in 1..Cap
    BY <1>2, <2>1 DEF Newest
  <2>3. /\ Written(next) \in Seq(Providers) /\ Len(Written(next)) = Newest(next)
        /\ Len(Reverse(Written(next))) = Newest(next)
        /\ \A k \in 1..Newest(next) : Reverse(Written(next))[k] = next[k]
        /\ Range(Written(next)) \subseteq Range(next)
        /\ IsInjective(next) => IsInjective(Written(next))
    BY <1>2, WrittenFacts
  <2>4. Remembers(Written(next), everChosen')
    BY <1>3, <2>3 DEF Remembers
  <2>5. 1 \in 1..Newest(next)
    BY <2>2
  <2>6. QED
    BY <1>2, <2>2, <2>3, <2>4, <2>5
<1>5. Remembers(stored, everChosen')
  BY <1>1 DEF Remembers
<1>6. CASE NoWriteCookie
  BY <1>1, <1>2, <1>3, <1>5, <1>6
<1>7. CASE ~NoWriteCookie
  BY <1>1, <1>2, <1>3, <1>4, <1>7 DEF Read
<1>8. QED
  BY <1>6, <1>7

LEMMA SelectStep ==
  ASSUME HistoryInv, NEW p \in Pages, NEW i \in Providers, Select(p, i)
  PROVE  HistoryInv'
<1>1. /\ history'[p] = ToFront(history[p], i) /\ history'[p] \in Seq(Providers)
      /\ Remembers(history'[p], everChosen')
      /\ stored' \in Seq(Providers) /\ Len(stored') <= Cap
      /\ Remembers(stored', everChosen')
  BY SelectFacts
<1>2. /\ history \in [Pages -> Seq(Providers)]
      /\ history' = [history EXCEPT ![p] = ToFront(history[p], i)]
      /\ everChosen \subseteq everChosen' /\ everChosen' \subseteq Providers
  BY DEF HistoryInv, TypeOK, Select
<1>3. TypeOK'
  BY <1>1, <1>2 DEF HistoryInv, TypeOK, Select
<1>4. \A q \in Pages : Remembers(history'[q], everChosen')
  <2>1. TAKE q \in Pages
  <2>2. CASE q = p
    BY <1>1, <2>2
  <2>3. CASE q # p
    BY <1>2, <2>3 DEF HistoryInv, Remembers
  <2>4. QED
    BY <2>2, <2>3
<1>5. QED
  BY <1>1, <1>3, <1>4 DEF HistoryInv

LEMMA HistoryStep == HistoryInv /\ [Next]_vars => HistoryInv'
<1>1. SUFFICES ASSUME HistoryInv, [Next]_vars
               PROVE  HistoryInv'
  OBVIOUS
<1>2. ASSUME NEW p \in Pages, Stop(p)
      PROVE  HistoryInv'
  BY <1>1, <1>2, BecomeStep DEF Stop, HistoryInv, TypeOK
<1>3. ASSUME NEW p \in Pages, OpenAndFollow(p)
      PROVE  HistoryInv'
  <2>1. Read \in Seq(Providers) /\ Read # <<>>
    BY <1>1, <1>3, ReadFacts DEF OpenAndFollow, SendsOn
  <2>2. Read[1] \in Providers
    BY <2>1
  <2>3. QED
    BY <1>1, <1>3, <2>2, BecomeStep DEF OpenAndFollow
<1>4. ASSUME NEW p \in Pages, OpenAndLoad(p)
      PROVE  HistoryInv'
  BY <1>1, <1>4, BecomeStep DEF OpenAndLoad, HistoryInv, TypeOK
<1>5. ASSUME NEW p \in Pages, LoadFailed(p)
      PROVE  HistoryInv'
  BY <1>1, <1>5, BecomeStep DEF LoadFailed, HistoryInv, TypeOK
<1>6. ASSUME NEW p \in Pages, NEW feed \in Feeds, DrawPage(p, feed)
      PROVE  HistoryInv'
  BY <1>1, <1>6, DrawStep
<1>7. ASSUME NEW p \in Pages, NEW i \in Providers, PreferredClick(p, i) \/ FormSubmit(p, i)
      PROVE  HistoryInv'
  BY <1>1, <1>7, SelectStep DEF PreferredClick, FormSubmit
<1>8. ASSUME NEW p \in Pages, NEW on \in BOOLEAN, AutoDispatch(p, on)
      PROVE  HistoryInv'
  BY <1>1, <1>8 DEF AutoDispatch, HistoryInv, TypeOK, pageState
<1>9. CASE HistoryExpires
  <2>1. stored' = <<>> /\ <<>> \in Seq(Providers) /\ Len(<<>>) <= Cap
    BY <1>9, IdpSelectAssumption DEF HistoryExpires
  <2>2. Remembers(<<>>, everChosen)
    BY NothingRemembered
  <2>3. QED
    BY <1>1, <1>9, <2>1, <2>2 DEF HistoryExpires, HistoryInv, TypeOK, pageState
<1>10. CASE FollowExpires
  BY <1>1, <1>10 DEF FollowExpires, HistoryInv, TypeOK, pageState
<1>11. CASE UNCHANGED vars
  BY <1>1, <1>11 DEF vars, HistoryInv, TypeOK
<1>12. QED
  BY <1>1, <1>2, <1>3, <1>4, <1>5, <1>6, <1>7, <1>8, <1>9, <1>10, <1>11 DEF Next

LEMMA HistoryInvariant == Spec => []HistoryInv
<1>1. QED
  BY HistoryInit, HistoryStep, PTL DEF Spec

\* The variables keep their types, whatever the pages do.
THEOREM HistoryTypeCorrect == Spec => []TypeOK
<1>1. HistoryInv => TypeOK
  BY DEF HistoryInv
<1>2. QED
  BY <1>1, HistoryInvariant, PTL

(***************************************************************************)
(* The refinement of IdpHistory.                                           *)
(***************************************************************************)
LEMMA PromiseInit == Init => Promise!Init
<1>1. SUFFICES ASSUME Init PROVE Read = <<>>
  BY DEF Init, Promise!Init
<1>2. <<>> \in Seq(Providers) /\ Len(<<>>) = 0 /\ stored = <<>>
  <2>1. <<>> \in Seq(Providers) /\ Len(<<>>) = 0
    OBVIOUS
  <2>2. stored = <<>>
    BY <1>1 DEF Init
  <2>3. QED
    BY <2>1, <2>2
<1>3. Read \in Seq(Providers) /\ Len(Read) = 0
  BY <1>2, ReverseFacts DEF Read
<1>4. QED
  BY <1>3

\* What happens on a page but for a choice and an automatic redirect leaves
\* the history and the browser alone.
LEMMA PromiseKept ==
  ASSUME stored' = stored, follow' = follow, sentTo' = sentTo, everChosen' = everChosen
  PROVE  UNCHANGED Promise!vars
  BY DEF Promise!vars, Read

LEMMA PromiseChoice ==
  ASSUME HistoryInv, ~NoWriteCookie, NEW p \in Pages, NEW i \in Providers, Select(p, i)
  PROVE  Promise!Choose(i)
<1>1. /\ stored' \in Seq(Providers) /\ Remembers(stored', everChosen')
      /\ Len(Read') \in 1..Cap /\ Read'[1] = i
  BY SelectFacts
<1>2. Remembers(Read', everChosen')
  <2>1. /\ Range(Reverse(stored')) = Range(stored')
        /\ IsInjective(stored') => IsInjective(Reverse(stored'))
    BY <1>1, ReverseFacts
  <2>2. QED
    BY <1>1, <2>1 DEF Read, Remembers
<1>3. QED
  BY <1>1, <1>2 DEF Promise!Choose, Remembers, Select, Promise!Range,
                    Promise!IsInjective, Range, IsInjective

LEMMA PromiseStep ==
  ASSUME HistoryInv, ~NoWriteCookie, [Next]_vars
  PROVE  [Promise!Next]_(Promise!vars)
<1>1. ASSUME NEW p \in Pages,
             \/ Stop(p) \/ OpenAndLoad(p) \/ LoadFailed(p)
             \/ \E feed \in Feeds : DrawPage(p, feed)
      PROVE  [Promise!Next]_(Promise!vars)
  BY <1>1, PromiseKept DEF Stop, OpenAndLoad, LoadFailed, DrawPage
<1>2. ASSUME NEW p \in Pages, OpenAndFollow(p)
      PROVE  [Promise!Next]_(Promise!vars)
  BY <1>2 DEF OpenAndFollow, SendsOn, Promise!Next, Promise!Follow, Read
<1>3. ASSUME NEW p \in Pages, NEW i \in Providers, PreferredClick(p, i) \/ FormSubmit(p, i)
      PROVE  [Promise!Next]_(Promise!vars)
  BY <1>3, PromiseChoice DEF PreferredClick, FormSubmit, Promise!Next
<1>4. ASSUME NEW p \in Pages, NEW on \in BOOLEAN, AutoDispatch(p, on)
      PROVE  [Promise!Next]_(Promise!vars)
  BY <1>4 DEF AutoDispatch, Promise!Next, Promise!SetAuto, Read
<1>5. CASE HistoryExpires
  <2>1. <<>> \in Seq(Providers) /\ Len(<<>>) = 0
    OBVIOUS
  <2>2. Reverse(<<>>) \in Seq(Providers) /\ Len(Reverse(<<>>)) = 0
    BY <2>1, ReverseFacts
  <2>3. Read' = <<>>
    BY <1>5, <2>2 DEF HistoryExpires, Read
  <2>4. QED
    BY <1>5, <2>3 DEF HistoryExpires, Promise!Next, Promise!Forget
<1>6. CASE FollowExpires
  BY <1>6 DEF FollowExpires, Promise!Next, Promise!SetAuto, Read
<1>7. CASE UNCHANGED vars
  BY <1>7, PromiseKept DEF vars
<1>8. QED
  BY <1>1, <1>2, <1>3, <1>4, <1>5, <1>6, <1>7 DEF Next

\* Where the cookie is written at all, the pages keep the promise of
\* IdpHistory: with every choice it is the choice that heads the cookie and is
\* gone to, nothing is in the cookie twice or unchosen, and it stays short.
THEOREM HistoryImplemented == ~NoWriteCookie => (Spec => ImplementsHistory)
<1> SUFFICES ASSUME ~NoWriteCookie
             PROVE  Spec => ImplementsHistory
  OBVIOUS
<1>1. HistoryInv /\ [Next]_vars => [Promise!Next]_(Promise!vars)
  BY PromiseStep
<1>2. QED
  BY <1>1, PromiseInit, HistoryInvariant, PTL DEF Spec, ImplementsHistory, Promise!Spec

(***************************************************************************)
(* What a choice does to the other entries, and what a drawing offers.     *)
(***************************************************************************)
\* A choice on a page that is up to date with the cookie.
ForgetsNothing(i) ==
  \A j, k \in DOMAIN Read :
    /\ Read[k] # i /\ (k < Cap \/ i \in Range(Read)) => Read[k] \in Range(Read')
    /\ j < k /\ Read[j] # i /\ Read[k] # i /\ Read[k] \in Range(Read')
         => \E a, b \in DOMAIN Read' :
              a < b /\ Read'[a] = Read[j] /\ Read'[b] = Read[k]

LEMMA UpToDateChoice ==
  ASSUME HistoryInv, NEW p \in Pages, NEW i \in Providers, UpToDate(p), Select(p, i)
  PROVE  ForgetsNothing(i)
<1> DEFINE past == history[p]
           rest == Others(past, i)
           next == ToFront(past, i)
<1>1. /\ past \in Seq(Providers) /\ IsInjective(past) /\ stored = Written(past)
      /\ stored' = IF NoWriteCookie THEN stored ELSE Written(next)
  BY DEF HistoryInv, TypeOK, Remembers, UpToDate, Select
<1> HIDE DEF past
<1>2. CASE NoWriteCookie
  <2>1. Read' = Read
    BY <1>1, <1>2 DEF Read
  <2>2. QED
    BY <2>1 DEF ForgetsNothing, Range
<1>3. CASE ~NoWriteCookie
  <2>1. /\ Cap \in Nat \ {0} /\ Len(past) \in Nat
        /\ Newest(past) \in 0..Cap /\ Newest(past) <= Len(past)
        /\ DOMAIN Read = 1..Newest(past)
        /\ \A k \in 1..Newest(past) : Read[k] = past[k]
    <3>1. Cap \in Nat \ {0} /\ Len(past) \in Nat /\ Read = Reverse(Written(past))
      BY <1>1, IdpSelectAssumption DEF Read
    <3>2. /\ Newest(past) \in 0..Cap /\ Newest(past) <= Len(past)
          /\ Reverse(Written(past)) \in Seq(Providers)
          /\ Len(Reverse(Written(past))) = Newest(past)
          /\ \A k \in 1..Newest(past) : Reverse(Written(past))[k] = past[k]
      BY <1>1, WrittenFacts
    <3>3. QED
      BY <3>1, <3>2
  <2>2. PICK at : Places(at, past, i, rest)
    BY <1>1, OthersPlaces
  <2>3. rest \in Seq(Providers) /\ next = <<i>> \o rest
    BY <1>1, OthersPlaces DEF ToFront
  <2> HIDE DEF rest
  <2>4. /\ next \in Seq(Providers) /\ Len(next) = Len(rest) + 1 /\ Len(rest) \in Nat
        /\ next[1] = i
        /\ \A k \in 2..(Len(rest) + 1) : next[k] = rest[k - 1]
    BY <2>3
  <2> HIDE DEF next
  <2>5. /\ Newest(next) = IF Len(rest) + 1 > Cap THEN Cap ELSE Len(rest) + 1
        /\ DOMAIN Read' = 1..Newest(next)
        /\ \A k \in 1..Newest(next) : Read'[k] = next[k]
    <3>1. Read' = Reverse(Written(next))
      BY <1>1, <1>3 DEF Read
    <3>2. /\ Newest(next) \in 0..Cap
          /\ Reverse(Written(next)) \in Seq(Providers)
          /\ Len(Reverse(Written(next))) = Newest(next)
          /\ \A k \in 1..Newest(next) : Reverse(Written(next))[k] = next[k]
      BY <2>4, WrittenFacts
    <3>3. Newest(next) = IF Len(rest) + 1 > Cap THEN Cap ELSE Len(rest) + 1
      BY <2>4 DEF Newest
    <3>4. QED
      BY <3>1, <3>2, <3>3
  <2>6. \A n \in 1..Newest(past) : past[n] # i =>
          /\ at[n] \in 1..n /\ at[n] + 1 \in 1..(Len(rest) + 1)
          /\ next[at[n] + 1] = past[n]
    <3>1. TAKE n \in 1..Newest(past)
    <3>2. HAVE past[n] # i
    <3>3. /\ n \in 1..Len(past)
          /\ at[n] <= n /\ at[n] \in 1..Len(rest) /\ rest[at[n]] = past[n]
      BY <2>1, <2>2, <3>2 DEF Places
    <3>4. at[n] + 1 \in 2..(Len(rest) + 1)
      BY <2>4, <3>3
    <3>5. QED
      BY <2>1, <2>4, <3>3, <3>4
  <2>7. ASSUME NEW k \in DOMAIN Read, Read[k] # i, k < Cap \/ i \in Range(Read)
        PROVE  Read[k] \in Range(Read')
    <3>1. k \in 1..Newest(past) /\ k \in 1..Len(past) /\ past[k] # i /\ Read[k] = past[k]
      BY <2>1, <2>7
    <3>2. at[k] + 1 <= Cap
      <4>1. CASE k < Cap
        BY <2>1, <2>6, <3>1, <4>1
      <4>2. CASE ~(k < Cap)
        <5>1. PICK m \in 1..Newest(past) : past[m] = i
          BY <2>1, <2>7, <4>2 DEF Range
        <5>2. m \in 1..k
          BY <2>1, <3>1, <4>2
        <5>3. at[k] < k
          BY <2>2, <3>1, <5>1, <5>2 DEF Places
        <5>4. QED
          BY <2>1, <2>6, <3>1, <5>3
      <4>3. QED
        BY <4>1, <4>2
    <3>3. at[k] + 1 \in 1..Newest(next)
      BY <2>1, <2>4, <2>5, <2>6, <3>1, <3>2
    <3>4. Read'[at[k] + 1] = Read[k]
      BY <2>5, <2>6, <3>1, <3>3
    <3>5. QED
      BY <2>5, <3>3, <3>4 DEF Range
  <2>8. ASSUME NEW j \in DOMAIN Read, NEW k \in DOMAIN Read,
               j < k, Read[j] # i, Read[k] # i, Read[k] \in Range(Read')
        PROVE  \E a, b \in DOMAIN Read' :
                 a < b /\ Read'[a] = Read[j] /\ Read'[b] = Read[k]
    <3>1. /\ j \in 1..Newest(past) /\ k \in 1..Newest(past)
          /\ k \in 1..Len(past) /\ j \in 1..(k - 1)
          /\ past[j] # i /\ past[k] # i /\ Read[j] = past[j] /\ Read[k] = past[k]
      BY <2>1, <2>8
    <3>2. at[j] < at[k]
      BY <2>2, <3>1 DEF Places
    <3>3. PICK c \in 1..Newest(next) : next[c] = past[k]
      BY <2>5, <2>8, <3>1 DEF Range
    <3>4. c = at[k] + 1
      <4>1. c # 1 /\ c \in 2..(Len(rest) + 1)
        BY <2>1, <2>4, <2>5, <3>1, <3>3
      <4>2. c - 1 \in 1..Len(rest) /\ rest[c - 1] = past[k]
        BY <2>4, <3>3, <4>1
      <4>3. PICK n \in 1..Len(past) : past[n] # i /\ c - 1 = at[n]
        BY <2>2, <4>2 DEF Places
      <4>4. rest[at[n]] = past[n]
        BY <2>2, <4>3 DEF Places
      <4>5. past[n] = past[k]
        BY <4>2, <4>3, <4>4
      <4>6. n = k
        BY <1>1, <3>1, <4>5 DEF IsInjective
      <4>7. QED
        BY <4>1, <4>3, <4>6
    <3>5. at[j] + 1 \in DOMAIN Read' /\ at[k] + 1 \in DOMAIN Read' /\ at[j] + 1 < at[k] + 1
      <4>1. at[j] \in Nat /\ at[k] \in Nat
        BY <2>1, <2>6, <3>1
      <4>2. Newest(next) \in Nat /\ DOMAIN Read' = 1..Newest(next)
        BY <2>1, <2>4, <2>5
      <4>3. QED
        BY <3>2, <3>3, <3>4, <4>1, <4>2
    <3>6. Read'[at[j] + 1] = Read[j] /\ Read'[at[k] + 1] = Read[k]
      BY <2>5, <2>6, <3>1, <3>5
    <3>7. QED
      BY <3>5, <3>6
  <2>9. QED
    BY <2>7, <2>8 DEF ForgetsNothing
<1>4. QED
  BY <1>2, <1>3

\* A choice on a page no other page has overtaken drops only the oldest entry
\* of a full history, and swaps no two.
THEOREM OthersKept == Spec => KeepsTheOthers
<1>1. ASSUME HistoryInv, [Next]_vars
      PROVE  [\A p \in Pages, i \in Providers :
                UpToDate(p) /\ (PreferredClick(p, i) \/ FormSubmit(p, i)) =>
                  \A j, k \in DOMAIN Read :
                    /\ Read[k] # i /\ (k < Cap \/ i \in Range(Read))
                         => Read[k] \in Range(Read')
                    /\ j < k /\ Read[j] # i /\ Read[k] # i /\ Read[k] \in Range(Read')
                         => \E a, b \in DOMAIN Read' :
                              a < b /\ Read'[a] = Read[j] /\ Read'[b] = Read[k]]_vars
  BY <1>1, UpToDateChoice DEF PreferredClick, FormSubmit, ForgetsNothing
<1>2. QED
  BY <1>1, HistoryInvariant, PTL DEF Spec, KeepsTheOthers

LEMMA DrawingOffers ==
  ASSUME HistoryInv, NEW p \in Pages, NEW feed \in Feeds, DrawPage(p, feed),
         Preferred = <<>>, MaxPreferred >= Cap
  PROVE  Range(Read) \cap listed'[p] \subseteq Offered(p)'
<1> DEFINE known == feed \ Hidden
<1>1. known \in SUBSET Providers
  BY IdpSelectAssumption
<1>2. Read \in Seq(Providers) /\ Len(Read) <= MaxPreferred
  BY ReadFacts, IdpSelectAssumption DEF HistoryInv, TypeOK
<1>3. listed'[p] = known /\ slots'[p] = Slots(Read, known)
  BY DEF DrawPage, HistoryInv, TypeOK
<1> HIDE DEF known
<1>4. \A n \in 1..Len(Read) : Lookup(known, Read[n]) \in Range(Slots(Read, known))
  BY <1>1, <1>2, SlotsHold
<1>5. ASSUME NEW i \in Range(Read) \cap known
      PROVE  i \in Range(Slots(Read, known)) \ {Unknown}
  <2>1. PICK n \in 1..Len(Read) : Read[n] = i
    BY <1>2 DEF Range
  <2>2. Lookup(known, i) = i
    BY DEF Lookup
  <2>3. i # Unknown
    BY <1>1, IdpSelectAssumption
  <2>4. QED
    BY <1>4, <2>1, <2>2, <2>3
<1>6. Offered(p)' = Range(Slots(Read, known)) \ {Unknown}
  BY <1>3 DEF Offered
<1>7. QED
  BY <1>3, <1>5, <1>6

\* A page with as many buttons as the cookie has entries, and none of its own,
\* offers every remembered provider its feed has.
THEOREM HistoryOffered == Spec => OffersTheHistory
<1>1. ASSUME HistoryInv, [Next]_vars
      PROVE  [\A p \in Pages, feed \in Feeds :
                DrawPage(p, feed) /\ Preferred = <<>> /\ MaxPreferred >= Cap =>
                  Range(Read) \cap listed'[p] \subseteq Offered(p)']_vars
  BY <1>1, DrawingOffers
<1>2. QED
  BY <1>1, HistoryInvariant, PTL DEF Spec, OffersTheHistory

=============================================================================
