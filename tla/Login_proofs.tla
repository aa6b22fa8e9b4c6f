---------------------------- MODULE Login_proofs ----------------------------
(***************************************************************************)
(* Login keeps its types, and implements LoginVerdict whenever passwords   *)
(* are stored as they are typed and the principal is created from the name *)
(* that was looked up.                                                     *)
(***************************************************************************)
EXTENDS Login, FiniteSetTheorems, TLAPS

(* The inductive invariant: beside the types, an attempt whose password is *)
(* about to be compared has read exactly one row, of its own name, and an  *)
(* attempt that is not over has not been accepted.                         *)
OneRowRead ==
  \A a \in Attempts : stage[a] = "verify" =>
    /\ WellFormed(a)
    /\ \E r \in RowType : /\ userList[a] = {r}
                          /\ r.name = transformUsername(cred[a].username)
NotYetAccepted ==
  \A a \in Attempts : stage[a] # "done" => accepted[a] = Nobody
IInv == TypeOK /\ OneRowRead /\ NotYetAccepted

-----------------------------------------------------------------------------
(* A lookup without an exception found one row.                            *)
LEMMA OneRow ==
  ASSUME NEW rows, IsFiniteSet(rows)
  PROVE  LookupException(rows) = "none" <=> \E r \in rows : rows = {r}
<1>1. rows = {} <=> Cardinality(rows) = 0
  BY FS_EmptySet
<1>2. Cardinality(rows) \in Nat
  BY FS_CardinalityType
<1>3. Cardinality(rows) = 1 <=> \E r \in rows : rows = {r}
  <2>1. Cardinality(rows) = 1 <=> \E r : rows = {r}
    BY FS_Singleton
  <2> QED BY <2>1
<1>4. CASE rows = {}
  BY <1>1, <1>2, <1>4 DEF LookupException
<1>5. CASE rows # {}
  BY <1>1, <1>2, <1>3, <1>5 DEF LookupException
<1> QED BY <1>4, <1>5

(* What a lookup says is "none" or one of the exceptions.                  *)
LEMMA LookupType ==
  ASSUME NEW rows
  PROVE  LookupException(rows) \in Exceptions \cup {"none"}
BY DEF LookupException, Exceptions

(* The rows of a name in a table of the table's type.                      *)
LEMMA RowsOfType ==
  ASSUME TypeOK, NEW n
  PROVE  RowsOf(n) \subseteq RowType /\ IsFiniteSet(RowsOf(n))
<1>1. table \subseteq RowType /\ IsFiniteSet(table)
  BY TablesAssumption DEF TypeOK
<1>2. RowsOf(n) \subseteq table
  BY DEF RowsOf
<1> QED BY <1>1, <1>2, FS_Subset

(* A transformed name is a name or blank, and blank stays blank.           *)
LEMMA TransformType ==
  ASSUME NEW n \in Names \cup {Blank}
  PROVE  /\ transformUsername(n) \in Names \cup {Blank}
         /\ transformUsername(n) # Blank => n \in Names
BY TransformAssumption, NamesAssumption DEF transformUsername

-----------------------------------------------------------------------------
(* What Throw does to the attempt and leaves alone.                        *)
LEMMA ThrowEffect ==
  ASSUME TypeOK, NEW a \in Attempts, NEW class \in Exceptions, Throw(a, class)
  PROVE  /\ thrown' \in [Attempts -> [Handlers -> Exceptions \cup {"none"}]]
         /\ stage' \in [Attempts -> Stages]
         /\ stage'[a] = IF StockUsers = {} THEN "done" ELSE "stock"
         /\ \A b \in Attempts : b # a => stage'[b] = stage[b]
         /\ accepted' = accepted
<1>1. thrown[a] \in [Handlers -> Exceptions \cup {"none"}]
  BY DEF TypeOK
<1>2. [thrown[a] EXCEPT !["custom"] = class] \in [Handlers -> Exceptions \cup {"none"}]
  BY <1>1
<1>3. thrown' = [thrown EXCEPT ![a] = [thrown[a] EXCEPT !["custom"] = class]]
  BY DEF Throw, TypeOK
<1>4. thrown' \in [Attempts -> [Handlers -> Exceptions \cup {"none"}]]
  BY <1>2, <1>3 DEF TypeOK
<1> QED BY <1>4 DEF Throw, TypeOK, Stages

LEMMA InitInv == Init => IInv
<1> SUFFICES ASSUME Init PROVE IInv
  OBVIOUS
<1>1. EmptyForm \in Credentials
  BY DEF EmptyForm, Credentials
<1>2. NoException \in [Handlers -> Exceptions \cup {"none"}]
  BY DEF NoException
<1>3. TypeOK
  BY <1>1, <1>2 DEF Init, TypeOK, Stages
<1> QED BY <1>3 DEF Init, IInv, OneRowRead, NotYetAccepted

(* Steps of one attempt preserve the invariant: one lemma for each.        *)
LEMMA SubmitInv ==
  ASSUME IInv, NEW a \in Attempts, Submit(a)
  PROVE  IInv'
<1> USE DEF IInv
<1>1. PICK c \in Credentials : cred' = [cred EXCEPT ![a] = c]
  BY DEF Submit
<1>2. NoException \in [Handlers -> Exceptions \cup {"none"}]
  BY DEF NoException
<1>3. TypeOK'
  BY <1>1, <1>2 DEF Submit, TypeOK, Stages
<1>4. stage'[a] = "custom" /\ accepted[a] = Nobody
  BY DEF Submit, TypeOK, NotYetAccepted
<1>5. \A b \in Attempts \ {a} : /\ stage'[b] = stage[b] /\ cred'[b] = cred[b]
                                 /\ userList'[b] = userList[b]
  BY <1>1 DEF Submit, TypeOK
<1>6. OneRowRead'
  BY <1>4, <1>5 DEF OneRowRead, WellFormed
<1>7. NotYetAccepted'
  BY <1>4, <1>5 DEF NotYetAccepted, Submit
<1> QED BY <1>3, <1>6, <1>7

LEMMA FailInv ==
  ASSUME IInv, NEW a \in Attempts, NEW class \in Exceptions, Throw(a, class),
         stage[a] # "done", UNCHANGED <<table, changes, cred>>,
         userList' \in [Attempts -> SUBSET RowType],
         \A b \in Attempts \ {a} : userList'[b] = userList[b]
  PROVE  IInv'
<1> USE DEF IInv
<1>1. TypeOK'
  BY ThrowEffect DEF TypeOK
<1>2. stage'[a] # "verify" /\ accepted[a] = Nobody
  BY ThrowEffect DEF NotYetAccepted
<1>3. OneRowRead'
  BY <1>2, ThrowEffect DEF OneRowRead, WellFormed
<1>4. NotYetAccepted'
  BY <1>2, ThrowEffect DEF NotYetAccepted
<1> QED BY <1>1, <1>3, <1>4

LEMMA RefuseBlankInv ==
  ASSUME IInv, NEW a \in Attempts, RefuseBlank(a)
  PROVE  IInv'
<1>1. PICK class \in Exceptions : Throw(a, class)
  BY DEF RefuseBlank, Exceptions
<1> QED BY <1>1, FailInv DEF RefuseBlank, IInv, TypeOK

LEMMA QueryFailsInv ==
  ASSUME IInv, NEW a \in Attempts, QueryFails(a)
  PROVE  IInv'
<1>1. Throw(a, "DataAccessException") /\ "DataAccessException" \in Exceptions
  BY DEF QueryFails, Exceptions
<1> QED BY <1>1, FailInv DEF QueryFails, IInv, TypeOK

LEMMA QueryInv ==
  ASSUME IInv, NEW a \in Attempts, queryByUserName(a)
  PROVE  IInv'
<1> DEFINE rows == RowsOf(transformUsername(cred[a].username))
<1>1. rows \subseteq RowType /\ IsFiniteSet(rows)
  BY RowsOfType DEF IInv
<1>2. userList' = [userList EXCEPT ![a] = rows]
  BY DEF queryByUserName
<1>3. /\ userList' \in [Attempts -> SUBSET RowType]
      /\ userList'[a] = rows
      /\ \A b \in Attempts \ {a} : userList'[b] = userList[b]
  BY <1>1, <1>2 DEF IInv, TypeOK
<1>4. CASE LookupException(rows) = "none"
  <2>1. stage' = [stage EXCEPT ![a] = "verify"] /\ UNCHANGED <<thrown, accepted, table, changes, cred>>
    BY <1>4 DEF queryByUserName
  <2>2. TypeOK'
    BY <2>1, <1>3 DEF IInv, TypeOK, Stages
  <2>3. \E r \in RowType : rows = {r} /\ r.name = transformUsername(cred[a].username)
    <3>1. PICK r \in rows : rows = {r}
      BY <1>1, <1>4, OneRow
    <3> QED BY <3>1, <1>1 DEF RowsOf
  <2>4. OneRowRead'
    <3> SUFFICES ASSUME NEW b \in Attempts, stage'[b] = "verify"
                 PROVE  /\ WellFormed(b)'
                        /\ \E r \in RowType : /\ userList'[b] = {r}
                                              /\ r.name = transformUsername(cred[b].username)
      BY <2>1 DEF OneRowRead
    <3>1. CASE b = a
      BY <3>1, <1>3, <2>1, <2>3 DEF queryByUserName, WellFormed
    <3>2. CASE b # a
      <4>1. stage[b] = "verify"
        BY <2>1, <3>2 DEF IInv, TypeOK
      <4> QED BY <4>1, <3>2, <1>3, <2>1 DEF IInv, OneRowRead, WellFormed
    <3> QED BY <3>1, <3>2
  <2>5. NotYetAccepted'
    <3> SUFFICES ASSUME NEW b \in Attempts, stage'[b] # "done" PROVE accepted[b] = Nobody
      BY <2>1 DEF NotYetAccepted
    <3> QED BY <2>1 DEF IInv, TypeOK, NotYetAccepted, queryByUserName
  <2> QED BY <2>2, <2>4, <2>5 DEF IInv
<1>5. CASE LookupException(rows) # "none"
  <2>1. LookupException(rows) \in Exceptions
    BY <1>5, LookupType
  <2>2. Throw(a, LookupException(rows))
    BY <1>5 DEF queryByUserName
  <2> QED BY <2>1, <2>2, <1>3, FailInv DEF queryByUserName
<1> QED BY <1>4, <1>5

(* The principal of an accepting handler is a name.                        *)
LEMMA PrincipalIsName ==
  ASSUME TypeOK, NEW a \in Attempts, WellFormed(a)
  PROVE  PrincipalName(a) \in Names
<1>1. cred[a].username \in Names \cup {Blank}
  BY DEF TypeOK, Credentials
<1> QED BY <1>1, TransformType DEF PrincipalName, WellFormed

LEMMA VerifyInv ==
  ASSUME IInv, NEW a \in Attempts, Verify(a)
  PROVE  IInv'
<1> USE DEF IInv
<1>1. PICK row \in userList[a] :
        IF matches(Presented(a), Stored(row.password))
          THEN /\ accepted' = [accepted EXCEPT ![a] = PrincipalName(a)]
               /\ stage' = [stage EXCEPT ![a] = "done"]
               /\ UNCHANGED thrown
          ELSE Throw(a, "FailedLoginException")
  BY DEF Verify
<1>2. CASE matches(Presented(a), Stored(row.password))
  <2>1. PrincipalName(a) \in Names
    BY PrincipalIsName DEF Verify, OneRowRead
  <2>2. TypeOK'
    BY <1>1, <1>2, <2>1 DEF Verify, TypeOK, Stages
  <2>3. stage'[a] = "done" /\ \A b \in Attempts \ {a} : stage'[b] = stage[b] /\ accepted'[b] = accepted[b]
    BY <1>1, <1>2 DEF TypeOK
  <2> QED BY <2>2, <2>3 DEF OneRowRead, NotYetAccepted, WellFormed, Verify
<1>3. CASE ~matches(Presented(a), Stored(row.password))
  <2>1. Throw(a, "FailedLoginException") /\ "FailedLoginException" \in Exceptions
    BY <1>1, <1>3 DEF Exceptions
  <2> QED BY <2>1, FailInv DEF Verify, TypeOK
<1> QED BY <1>2, <1>3

(* The static-users handler accepts exactly its own accounts.              *)
LEMMA StockAccepts ==
  ASSUME NEW c \in Credentials
  PROVE  /\ StockException(c) = "none" <=> <<c.username, c.password>> \in StockUsers
         /\ StockException(c) = "none" => c.username \in Names
         /\ StockException(c) \in Exceptions \cup {"none"}
<1>1. <<c.username, c.password>> \in StockUsers =>
        /\ c.username \in Names /\ c.password \in Passwords
        /\ KnownToStock(c.username)
  BY StockAssumption DEF KnownToStock
<1>2. Blank \notin Names /\ Blank \notin Passwords
  BY NamesAssumption
<1>3. c.username \in Names \cup {Blank} /\ c.password \in Passwords \cup {Blank}
  BY DEF Credentials
<1> QED BY <1>1, <1>2, <1>3 DEF StockException, Exceptions

LEMMA StockInv ==
  ASSUME IInv, NEW a \in Attempts, StockHandler(a)
  PROVE  IInv'
<1> USE DEF IInv
<1> DEFINE class == StockException(cred[a])
<1>1. cred[a] \in Credentials
  BY DEF TypeOK
<1>2. class \in Exceptions \cup {"none"} /\ (class = "none" => cred[a].username \in Names)
  BY <1>1, StockAccepts
<1>3. [thrown[a] EXCEPT !["stock"] = class] \in [Handlers -> Exceptions \cup {"none"}]
  BY <1>2 DEF TypeOK
<1>4. thrown' = [thrown EXCEPT ![a] = [thrown[a] EXCEPT !["stock"] = class]]
  BY DEF StockHandler, TypeOK
<1>5. thrown' \in [Attempts -> [Handlers -> Exceptions \cup {"none"}]]
  BY <1>3, <1>4 DEF TypeOK
<1>6. accepted' \in [Attempts -> Names \cup {Nobody}]
  BY <1>2 DEF StockHandler, TypeOK
<1>7. TypeOK'
  BY <1>5, <1>6 DEF StockHandler, TypeOK, Stages
<1>8. stage'[a] = "done" /\ \A b \in Attempts \ {a} : stage'[b] = stage[b] /\ accepted'[b] = accepted[b]
  BY DEF StockHandler, TypeOK
<1> QED BY <1>7, <1>8 DEF OneRowRead, NotYetAccepted, WellFormed, StockHandler

LEMMA ChangeInv == IInv /\ ChangeTable => IInv'
BY ChangesAssumption
   DEF IInv, ChangeTable, attemptVars, TypeOK, OneRowRead, NotYetAccepted, WellFormed

LEMMA StutterInv == IInv /\ UNCHANGED vars => IInv'
BY DEF IInv, vars, TypeOK, OneRowRead, NotYetAccepted, WellFormed

LEMMA NextInv == IInv /\ [Next]_vars => IInv'
<1> SUFFICES ASSUME IInv, [Next]_vars PROVE IInv'
  OBVIOUS
<1>1. ASSUME NEW a \in Attempts, Submit(a) PROVE IInv'
  BY <1>1, SubmitInv
<1>2. ASSUME NEW a \in Attempts, RefuseBlank(a) PROVE IInv'
  BY <1>2, RefuseBlankInv
<1>3. ASSUME NEW a \in Attempts, queryByUserName(a) PROVE IInv'
  BY <1>3, QueryInv
<1>4. ASSUME NEW a \in Attempts, QueryFails(a) PROVE IInv'
  BY <1>4, QueryFailsInv
<1>5. ASSUME NEW a \in Attempts, Verify(a) PROVE IInv'
  BY <1>5, VerifyInv
<1>6. ASSUME NEW a \in Attempts, StockHandler(a) PROVE IInv'
  BY <1>6, StockInv
<1>7. CASE ChangeTable
  BY <1>7, ChangeInv
<1>8. CASE UNCHANGED vars
  BY <1>8, StutterInv
<1> QED BY <1>1, <1>2, <1>3, <1>4, <1>5, <1>6, <1>7, <1>8 DEF Next

LEMMA Invariant == Spec => []IInv
<1> QED BY InitInv, NextInv, PTL DEF Spec

(* Every variable of a login keeps its type: principals are names, also    *)
(* with a transformer that may leave nothing of a name.                    *)
THEOREM TypeCorrect == Spec => []TypeOK
<1>1. IInv => TypeOK
  BY DEF IInv
<1> QED BY <1>1, Invariant, PTL
-----------------------------------------------------------------------------
(* The refinement.  It needs that comparing encoded passwords is comparing *)
(* passwords, and that the principal carries the name that was looked up.  *)
PlainPasswords == Encoder = "noop"
NameLookedUp == HasPolicyStrategy \/ Transform = [n \in Names |-> n]

LEMMA MatchesIsEquality ==
  ASSUME PlainPasswords, NEW a \in Attempts, NEW p
  PROVE  matches(Presented(a), Stored(p)) <=> cred[a].password = p
BY DEF PlainPasswords, matches, Presented, Stored, Encode, Raw

LEMMA PrincipalIsLookedUp ==
  ASSUME NameLookedUp, TypeOK, NEW a \in Attempts, WellFormed(a)
  PROVE  PrincipalName(a) = transformUsername(cred[a].username)
<1>1. cred[a].username \in Names
  BY TransformType DEF TypeOK, Credentials, WellFormed
<1> QED BY <1>1, NamesAssumption DEF NameLookedUp, PrincipalName, transformUsername

(* Judging by the rows of the name is judging by the table.                *)
LEMMA JudgeByRows ==
  ASSUME NEW c \in Credentials
  PROVE  /\ RightRow(RowsOf(transformUsername(c.username)), c) <=> RightRow(table, c)
         /\ RightRow(table, c) =>
              \E r : RowsOf(transformUsername(c.username)) = {r}
         /\ ~RightRow({}, c)
<1> DEFINE n == transformUsername(c.username)
<1>1. RowsOf(n) = {q \in table : q.name = n}
  BY DEF RowsOf
<1>2. {q \in RowsOf(n) : q.name = n} = RowsOf(n)
  BY <1>1
<1>3. \A r : RowsOf(n) = {r} => r \in table /\ r \in RowsOf(n)
  BY <1>1
<1> QED BY <1>1, <1>2, <1>3 DEF RightRow

(* Without a right row the verdict is left to the static users.            *)
LEMMA JudgeWithout ==
  ASSUME NEW rows, NEW c, ~RightRow(rows, c)
  PROVE  Judge(rows, c) = Judge({}, c)
BY DEF Judge, RightRow

(* A verdict settled by a failure of the handler.                          *)
LEMMA ThrowSettles ==
  ASSUME TypeOK, NotYetAccepted, NEW a \in Attempts, NEW class \in Exceptions,
         Throw(a, class), stage[a] # "done", cred' = cred
  PROVE  PrincipalBar(a)' = Judge({}, cred[a]) /\ PhaseBar(a)' = "judged"
<1>1. stage'[a] = IF StockUsers = {} THEN "done" ELSE "stock"
  BY ThrowEffect
<1>2. accepted'[a] = Nobody
  BY DEF Throw, NotYetAccepted
<1>3. CASE StockUsers = {}
  <2>1. Judge({}, cred[a]) = Nobody
    BY <1>3 DEF Judge, RightRow
  <2> QED BY <1>1, <1>2, <1>3, <2>1 DEF PrincipalBar, PhaseBar
<1>4. CASE StockUsers # {}
  BY <1>1, <1>4 DEF PrincipalBar, PhaseBar
<1> QED BY <1>3, <1>4

(* The images of the other attempts do not move.                           *)
OthersStay(a) == \A b \in Attempts \ {a} : /\ stage'[b] = stage[b]
                                            /\ cred'[b] = cred[b]
                                            /\ userList'[b] = userList[b]
                                            /\ accepted'[b] = accepted[b]

LEMMA OthersBar ==
  ASSUME NEW a \in Attempts, OthersStay(a), NEW b \in Attempts \ {a}
  PROVE  phaseBar'[b] = phaseBar[b] /\ principalBar'[b] = principalBar[b]
<1>1. PhaseBar(b)' = PhaseBar(b)
  BY DEF OthersStay, PhaseBar
<1>2. PrincipalBar(b)' = PrincipalBar(b)
  BY DEF OthersStay, PrincipalBar
<1> QED BY <1>1, <1>2 DEF phaseBar, principalBar

(* A step that settles attempt a is Decide(a).                             *)
LEMMA SettleIsDecide ==
  ASSUME NEW a \in Attempts, OthersStay(a), UNCHANGED <<table, cred>>,
         stage[a] = "custom", PhaseBar(a)' = "judged",
         PrincipalBar(a)' \in {Judge(table, cred[a]), Judge({}, cred[a])}
  PROVE  LoginVerdictBar!Decide(a)
<1>1. phaseBar[a] = "submitted"
  BY DEF phaseBar, PhaseBar
<1>2. phaseBar' = [phaseBar EXCEPT ![a] = "judged"]
  BY OthersBar DEF phaseBar
<1>3. principalBar' = [principalBar EXCEPT ![a] = PrincipalBar(a)']
  BY OthersBar DEF principalBar
<1> QED BY <1>1, <1>2, <1>3 DEF LoginVerdictBar!Decide

(* A step that leaves the image of attempt a alone is a stuttering step.   *)
LEMMA QuietIsStutter ==
  ASSUME NEW a \in Attempts, OthersStay(a), UNCHANGED <<table, cred>>,
         PhaseBar(a)' = PhaseBar(a), PrincipalBar(a)' = PrincipalBar(a)
  PROVE  UNCHANGED LoginVerdictBar!loginVars
<1>1. phaseBar' = phaseBar
  BY OthersBar DEF phaseBar
<1>2. principalBar' = principalBar
  BY OthersBar DEF principalBar
<1> QED BY <1>1, <1>2 DEF LoginVerdictBar!loginVars

LEMMA InitRefines == Init => LoginVerdictBar!Init
<1> SUFFICES ASSUME Init PROVE LoginVerdictBar!Init
  OBVIOUS
<1>1. phaseBar = [a \in Attempts |-> "form"]
  BY DEF Init, phaseBar, PhaseBar
<1>2. principalBar = [a \in Attempts |-> Nobody]
  BY DEF Init, principalBar, PrincipalBar
<1> QED BY <1>1, <1>2 DEF Init, LoginVerdictBar!Init

LEMMA SubmitRefines ==
  ASSUME IInv, NEW a \in Attempts, Submit(a)
  PROVE  LoginVerdictBar!Submit(a)
<1>1. stage[a] \in {"form", "done"} /\ accepted[a] = Nobody
  BY DEF Submit, IInv, TypeOK, NotYetAccepted
<1>2. stage'[a] = "custom" /\ accepted' = accepted /\ OthersStay(a)
  <2>1. PICK c \in Credentials : cred' = [cred EXCEPT ![a] = c]
    BY DEF Submit
  <2> QED BY <2>1 DEF Submit, IInv, TypeOK, OthersStay
<1>3. phaseBar[a] # "submitted" /\ principalBar[a] = Nobody
  BY <1>1 DEF phaseBar, PhaseBar, principalBar, PrincipalBar
<1>4. phaseBar' = [phaseBar EXCEPT ![a] = "submitted"]
  BY <1>2, OthersBar DEF phaseBar, PhaseBar
<1>5. principalBar' = principalBar
  BY <1>1, <1>2, OthersBar DEF principalBar, PrincipalBar
<1> QED BY <1>3, <1>4, <1>5 DEF Submit, LoginVerdictBar!Submit

(* Failures before and during the query.                                   *)
LEMMA FailRefines ==
  ASSUME IInv, NEW a \in Attempts, NEW class \in Exceptions, Throw(a, class),
         stage[a] = "custom", UNCHANGED <<table, cred>>,
         \A b \in Attempts \ {a} : userList'[b] = userList[b]
  PROVE  LoginVerdictBar!Decide(a)
<1>1. OthersStay(a)
  BY ThrowEffect DEF IInv, OthersStay
<1>2. PrincipalBar(a)' = Judge({}, cred[a]) /\ PhaseBar(a)' = "judged"
  BY ThrowSettles DEF IInv
<1> QED BY <1>1, <1>2, SettleIsDecide

LEMMA QueryRefines ==
  ASSUME IInv, NEW a \in Attempts, queryByUserName(a)
  PROVE  LoginVerdictBar!Decide(a)
<1> DEFINE rows == RowsOf(transformUsername(cred[a].username))
<1>1. /\ stage[a] = "custom" /\ UNCHANGED <<table, changes, cred>>
      /\ userList' = [userList EXCEPT ![a] = rows]
  BY DEF queryByUserName
<1>2. userList'[a] = rows /\ \A b \in Attempts \ {a} : userList'[b] = userList[b]
  BY <1>1 DEF IInv, TypeOK
<1>3. CASE LookupException(rows) = "none"
  <2>1. stage' = [stage EXCEPT ![a] = "verify"] /\ UNCHANGED accepted
    BY <1>3 DEF queryByUserName
  <2>2. OthersStay(a) /\ stage'[a] = "verify"
    BY <1>1, <1>2, <2>1 DEF IInv, TypeOK, OthersStay
  <2>3. PrincipalBar(a)' = Judge(rows, cred[a])
    BY <1>1, <1>2, <2>2 DEF PrincipalBar
  <2>4. Judge(rows, cred[a]) = Judge(table, cred[a])
    BY JudgeByRows DEF Judge, IInv, TypeOK
  <2>5. PhaseBar(a)' = "judged"
    BY <2>2 DEF PhaseBar
  <2> QED BY <1>1, <2>2, <2>3, <2>4, <2>5, SettleIsDecide
<1>4. CASE LookupException(rows) # "none"
  <2>1. Throw(a, LookupException(rows)) /\ LookupException(rows) \in Exceptions
    BY <1>4, LookupType DEF queryByUserName
  <2> QED BY <1>1, <1>2, <2>1, FailRefines
<1> QED BY <1>3, <1>4

(* Comparing the password only carries the settled verdict out.            *)
LEMMA VerifyRefines ==
  ASSUME PlainPasswords, NameLookedUp, IInv, NEW a \in Attempts, Verify(a)
  PROVE  UNCHANGED LoginVerdictBar!loginVars
<1> DEFINE n == transformUsername(cred[a].username)
<1>1. /\ stage[a] = "verify" /\ WellFormed(a)
      /\ UNCHANGED <<table, changes, cred, userList>>
  BY DEF Verify, IInv, OneRowRead
<1>2. PICK row \in RowType : userList[a] = {row} /\ row.name = n
  BY <1>1 DEF IInv, OneRowRead
<1>3. IF matches(Presented(a), Stored(row.password))
        THEN /\ accepted' = [accepted EXCEPT ![a] = PrincipalName(a)]
             /\ stage' = [stage EXCEPT ![a] = "done"]
             /\ UNCHANGED thrown
        ELSE Throw(a, "FailedLoginException")
  BY <1>2 DEF Verify
<1>4. RightRow(userList[a], cred[a]) <=> row.password = cred[a].password
  BY <1>1, <1>2 DEF RightRow, WellFormed
<1>5. PrincipalBar(a) = Judge(userList[a], cred[a]) /\ PhaseBar(a) = "judged"
  BY <1>1 DEF PrincipalBar, PhaseBar
<1>6. CASE row.password = cred[a].password
  <2>1. /\ accepted' = [accepted EXCEPT ![a] = PrincipalName(a)]
        /\ stage' = [stage EXCEPT ![a] = "done"]
    BY <1>3, <1>6, MatchesIsEquality
  <2>2. OthersStay(a) /\ stage'[a] = "done" /\ accepted'[a] = n
    BY <1>1, <2>1, PrincipalIsLookedUp DEF IInv, TypeOK, OthersStay
  <2>3. Judge(userList[a], cred[a]) = n
    BY <1>4, <1>6 DEF Judge
  <2>4. PrincipalBar(a)' = PrincipalBar(a) /\ PhaseBar(a)' = PhaseBar(a)
    BY <1>5, <2>2, <2>3 DEF PrincipalBar, PhaseBar
  <2> QED BY <1>1, <2>2, <2>4, QuietIsStutter
<1>7. CASE row.password # cred[a].password
  <2>1. Throw(a, "FailedLoginException") /\ "FailedLoginException" \in Exceptions
    BY <1>3, <1>7, MatchesIsEquality DEF Exceptions
  <2>2. OthersStay(a)
    BY <1>1, <2>1, ThrowEffect DEF IInv, OthersStay
  <2>3. PrincipalBar(a)' = Judge({}, cred[a]) /\ PhaseBar(a)' = "judged"
    BY <1>1, <2>1, ThrowSettles DEF IInv
  <2>4. Judge(userList[a], cred[a]) = Judge({}, cred[a])
    BY <1>4, <1>7, JudgeWithout
  <2> QED BY <1>1, <1>5, <2>2, <2>3, <2>4, QuietIsStutter
<1> QED BY <1>6, <1>7

LEMMA StockRefines ==
  ASSUME IInv, NEW a \in Attempts, StockHandler(a)
  PROVE  UNCHANGED LoginVerdictBar!loginVars
<1>1. stage[a] = "stock" /\ UNCHANGED <<table, changes, cred, userList>>
  BY DEF StockHandler
<1>2. OthersStay(a) /\ stage'[a] = "done"
  BY DEF StockHandler, IInv, TypeOK, OthersStay
<1>3. accepted'[a] = IF StockException(cred[a]) = "none" THEN cred[a].username ELSE Nobody
  BY DEF StockHandler, IInv, TypeOK
<1>4. accepted'[a] = Judge({}, cred[a])
  BY <1>3, StockAccepts DEF Judge, RightRow, IInv, TypeOK
<1>5. PrincipalBar(a)' = PrincipalBar(a) /\ PhaseBar(a)' = PhaseBar(a)
  BY <1>1, <1>2, <1>4 DEF PrincipalBar, PhaseBar
<1> QED BY <1>1, <1>2, <1>5, QuietIsStutter

LEMMA ChangeRefines ==
  ASSUME ChangeTable
  PROVE  LoginVerdictBar!ChangeAccounts
BY DEF ChangeTable, attemptVars, LoginVerdictBar!ChangeAccounts, phaseBar, PhaseBar,
       principalBar, PrincipalBar

LEMMA StepRefines ==
  ASSUME PlainPasswords, NameLookedUp
  PROVE  IInv /\ [Next]_vars => [LoginVerdictBar!Next]_(LoginVerdictBar!loginVars)
<1> SUFFICES ASSUME IInv, [Next]_vars
             PROVE  [LoginVerdictBar!Next]_(LoginVerdictBar!loginVars)
  OBVIOUS
<1> USE DEF LoginVerdictBar!Next
<1>1. ASSUME NEW a \in Attempts, Submit(a) PROVE LoginVerdictBar!Next
  BY <1>1, SubmitRefines
<1>2. ASSUME NEW a \in Attempts, RefuseBlank(a) PROVE LoginVerdictBar!Next
  <2>1. PICK class \in Exceptions : Throw(a, class)
    BY <1>2 DEF RefuseBlank, Exceptions
  <2> QED BY <1>2, <2>1, FailRefines DEF RefuseBlank
<1>3. ASSUME NEW a \in Attempts, queryByUserName(a) PROVE LoginVerdictBar!Next
  BY <1>3, QueryRefines
<1>4. ASSUME NEW a \in Attempts, QueryFails(a) PROVE LoginVerdictBar!Next
  <2>1. Throw(a, "DataAccessException") /\ "DataAccessException" \in Exceptions
    BY <1>4 DEF QueryFails, Exceptions
  <2> QED BY <1>4, <2>1, FailRefines DEF QueryFails
<1>5. ASSUME NEW a \in Attempts, Verify(a) PROVE UNCHANGED LoginVerdictBar!loginVars
  BY <1>5, VerifyRefines
<1>6. ASSUME NEW a \in Attempts, StockHandler(a) PROVE UNCHANGED LoginVerdictBar!loginVars
  BY <1>6, StockRefines
<1>7. CASE ChangeTable
  BY <1>7, ChangeRefines
<1>8. CASE UNCHANGED vars
  BY <1>8 DEF vars, LoginVerdictBar!loginVars, phaseBar, PhaseBar, principalBar,
              PrincipalBar
<1> QED BY <1>1, <1>2, <1>3, <1>4, <1>5, <1>6, <1>7, <1>8 DEF Next

(* Every verdict is the one of the accounts at one instant between the     *)
(* submission and the verdict, for any number of browsers, any accounts    *)
(* and any transformer, as long as passwords are stored as they are typed  *)
(* and a policy strategy is set (or names are left alone).                 *)
THEOREM Implementation ==
  ASSUME PlainPasswords, NameLookedUp
  PROVE  Spec => ImplementsVerdict
<1>1. Init => LoginVerdictBar!Init
  BY InitRefines
<1>2. IInv /\ [Next]_vars => [LoginVerdictBar!Next]_(LoginVerdictBar!loginVars)
  BY StepRefines
<1> QED BY <1>1, <1>2, Invariant, PTL DEF Spec, ImplementsVerdict, LoginVerdictBar!Spec
=============================================================================
