------------------------------- MODULE Login -------------------------------
(***************************************************************************)
(* Logging in with a name and a password: CustomAuthenticationHandler and  *)
(* UserBaseInfoServiceImpl, as CAS calls them for several browsers at once *)
(* while the table user_base_info changes.  CAS's authentication manager   *)
(* and its static-users handler are libraries; they are modelled by what   *)
(* they do with this repository's handler: the handlers are asked in their *)
(* order until one accepts, and any exception moves on to the next one.    *)
(***************************************************************************)
EXTENDS Naturals, FiniteSets

CONSTANTS
  Attempts,          \* browsers with the login form open
  Names,             \* user names
  Passwords,         \* passwords
  Transform,         \* principalNameTransformer, on Names
  Encoder,           \* "noop" or "hashing": the kind of passwordEncoder
  HasPolicyStrategy, \* passwordPolicyHandlingStrategy is set
  StockUsers,        \* accounts of the static-users handler, {} without it
  AccountTables,     \* contents considered of the table user_base_info
  MaxChanges         \* bound on changes of that table

Blank == "blank"     \* null, empty or white space
Nobody == "nobody"   \* no principal
Encoders == {"noop", "hashing"}

ASSUME NamesAssumption ==
  Blank \notin Names \cup Passwords /\ Nobody \notin Names \cup Passwords
ASSUME TransformAssumption == Transform \in [Names -> Names \cup {Blank}]
ASSUME EncoderAssumption == Encoder \in Encoders
ASSUME StrategyAssumption == HasPolicyStrategy \in BOOLEAN
ASSUME StockAssumption == StockUsers \in SUBSET (Names \X Passwords)

(* A row of user_base_info: a key, the user name and the password as its   *)
(* owner knows it; what the column holds is Stored(password).              *)
RowType == [key : Nat, name : Names, password : Passwords]

ASSUME TablesAssumption ==
  \A t \in AccountTables : t \subseteq RowType /\ IsFiniteSet(t)
ASSUME ChangesAssumption == MaxChanges \in Nat

VARIABLES
  table,       \* user_base_info
  changes,     \* changes of the table so far
  stage,       \* where the attempt stands
  cred,        \* the credential bound from the form
  userList,    \* the rows the query returned
  thrown,      \* thrown[a][h]: class of the exception of handler h
  accepted     \* the principal of the handler that accepted

attemptVars == <<stage, cred, userList, thrown, accepted>>
vars == <<table, changes, stage, cred, userList, thrown, accepted>>

-----------------------------------------------------------------------------
Handlers == {"custom", "stock"}
Stages == {"form", "custom", "verify", "stock", "done"}
Exceptions == {"AccountNotFoundException", "FailedLoginException",
               "AccountNotPresenceException", "AccountConfuseException",
               "DataAccessException"}
NoException == [h \in Handlers |-> "none"]
Credentials == [username : Names \cup {Blank}, password : Passwords \cup {Blank}]

(* The flow starts with a CustomCredential whose fields are null.          *)
EmptyForm == [username |-> Blank, password |-> Blank]

TypeOK ==
  /\ table \in AccountTables
  /\ changes \in Nat
  /\ stage \in [Attempts -> Stages]
  /\ cred \in [Attempts -> Credentials]
  /\ userList \in [Attempts -> SUBSET RowType]
  /\ thrown \in [Attempts -> [Handlers -> Exceptions \cup {"none"}]]
  /\ accepted \in [Attempts -> Names \cup {Nobody}]

Init ==
  /\ table \in AccountTables
  /\ changes = 0
  /\ stage = [a \in Attempts |-> "form"]
  /\ cred = [a \in Attempts |-> EmptyForm]
  /\ userList = [a \in Attempts |-> {}]
  /\ thrown = [a \in Attempts |-> NoException]
  /\ accepted = [a \in Attempts |-> Nobody]

-----------------------------------------------------------------------------
(* A password and how many times it has been encoded.  A hashing encoder   *)
(* matches a text with a hash when the hash is that of the text.           *)
Raw(p) == [text |-> p, layers |-> 0]
Encode(s) == IF Encoder = "noop" THEN s ELSE [s EXCEPT !.layers = @ + 1]
Stored(p) == Encode(Raw(p))
matches(raw, encoded) == Encode(raw) = encoded

(* transformUsername, for the name of a credential.                        *)
transformUsername(n) == IF n = Blank THEN Blank ELSE Transform[n]

(* The rows the query selects: f_user_name = ?.                            *)
RowsOf(n) == {r \in table : r.name = n}

(* The exception of a lookup that finds these rows, and a slip: the first  *)
(* row is taken, however many there are.                                   *)
FirstOfMany(rows) == IF rows = {} THEN "AccountNotPresenceException" ELSE "none"
LookupException(rows) ==
  IF rows = {} THEN "AccountNotPresenceException"
  ELSE IF Cardinality(rows) > 1 THEN "AccountConfuseException" ELSE "none"

(* The handler fails; CAS records the class and asks the next handler.     *)
Throw(a, class) ==
  /\ thrown' = [thrown EXCEPT ![a]["custom"] = class]
  /\ stage' = [stage EXCEPT ![a] = IF StockUsers = {} THEN "done" ELSE "stock"]
  /\ UNCHANGED accepted

-----------------------------------------------------------------------------
(* The login form is submitted, for the first time or after a refusal: the *)
(* flow binds a new credential and CAS asks the handlers in their order.   *)
Submit(a) ==
  /\ stage[a] = "form" \/ (stage[a] = "done" /\ accepted[a] = Nobody)
  /\ stage' = [stage EXCEPT ![a] = "custom"]
  /\ \E c \in Credentials : cred' = [cred EXCEPT ![a] = c]
  /\ userList' = [userList EXCEPT ![a] = {}]
  /\ thrown' = [thrown EXCEPT ![a] = NoException]
  /\ UNCHANGED <<table, changes, accepted>>

(* The handler refuses the credential before it looks at the table.  It    *)
(* would also refuse a password whose encoding is blank; the encoders here *)
(* make no blank text of one that is not.                                  *)
RefuseBlank(a) ==
  /\ stage[a] = "custom"
  /\ \/ /\ transformUsername(cred[a].username) = Blank
        /\ Throw(a, "AccountNotFoundException")
     \/ /\ transformUsername(cred[a].username) # Blank
        /\ cred[a].password = Blank
        /\ Throw(a, "FailedLoginException")
  /\ UNCHANGED <<table, changes, cred, userList>>

(* Name and password are transformed and the table is read.                *)
WellFormed(a) ==
  transformUsername(cred[a].username) # Blank /\ cred[a].password # Blank

queryByUserName(a) ==
  /\ stage[a] = "custom"
  /\ WellFormed(a)
  /\ LET rows == RowsOf(transformUsername(cred[a].username))
         class == LookupException(rows)
     IN
       /\ userList' = [userList EXCEPT ![a] = rows]
       /\ IF class = "none"
            THEN /\ stage' = [stage EXCEPT ![a] = "verify"]
                 /\ UNCHANGED <<thrown, accepted>>
            ELSE Throw(a, class)
  /\ UNCHANGED <<table, changes, cred>>

(* The database does not answer.                                           *)
QueryFails(a) ==
  /\ stage[a] = "custom"
  /\ WellFormed(a)
  /\ Throw(a, "DataAccessException")
  /\ UNCHANGED <<table, changes, cred, userList>>

(* The password handed to matches: the one transformPassword has encoded.  *)
Presented(a) == Encode(Raw(cred[a].password))

(* The name the principal is created with; slip: a name transformed once   *)
(* more.                                                                   *)
PrincipalTwice(a) == transformUsername(transformUsername(cred[a].username))
PrincipalName(a) ==
  IF HasPolicyStrategy THEN transformUsername(cred[a].username)
  ELSE cred[a].username

(* The password is compared with that of the row that was read.            *)
Verify(a) ==
  /\ stage[a] = "verify"
  /\ \E row \in userList[a] :
       IF matches(Presented(a), Stored(row.password))
         THEN /\ accepted' = [accepted EXCEPT ![a] = PrincipalName(a)]
              /\ stage' = [stage EXCEPT ![a] = "done"]
              /\ UNCHANGED thrown
         ELSE Throw(a, "FailedLoginException")
  /\ UNCHANGED <<table, changes, cred, userList>>

(* The static-users handler (external) judges the credential as submitted. *)
KnownToStock(n) == \E u \in StockUsers : u[1] = n
StockException(c) ==
  IF c.username = Blank THEN "AccountNotFoundException"
  ELSE IF c.password = Blank THEN "FailedLoginException"
  ELSE IF ~KnownToStock(c.username) THEN "AccountNotFoundException"
  ELSE IF <<c.username, c.password>> \notin StockUsers
    THEN "FailedLoginException" ELSE "none"

StockHandler(a) ==
  /\ stage[a] = "stock"
  /\ LET class == StockException(cred[a]) IN
       /\ thrown' = [thrown EXCEPT ![a]["stock"] = class]
       /\ accepted' = [accepted EXCEPT ![a] =
                         IF class = "none" THEN cred[a].username ELSE Nobody]
  /\ stage' = [stage EXCEPT ![a] = "done"]
  /\ UNCHANGED <<table, changes, cred, userList>>

(* Rows come, go and change while logins are under way.                    *)
ChangeTable ==
  /\ changes < MaxChanges
  /\ changes' = changes + 1
  /\ table' \in AccountTables
  /\ UNCHANGED attemptVars

-----------------------------------------------------------------------------
Next ==
  \/ \E a \in Attempts : Submit(a)
  \/ \E a \in Attempts : RefuseBlank(a)
  \/ \E a \in Attempts : queryByUserName(a)
  \/ \E a \in Attempts : QueryFails(a)
  \/ \E a \in Attempts : Verify(a)
  \/ \E a \in Attempts : StockHandler(a)
  \/ ChangeTable

Spec == Init /\ [][Next]_vars

-----------------------------------------------------------------------------
(* Who the accounts say the credential is: the one account of that name if *)
(* the password is right, else a static user, else nobody.                 *)
RightRow(rows, c) ==
  /\ transformUsername(c.username) # Blank
  /\ c.password # Blank
  /\ \E r \in rows : /\ {q \in rows : q.name = transformUsername(c.username)} = {r}
                     /\ r.password = c.password

Judge(rows, c) ==
  IF RightRow(rows, c) THEN transformUsername(c.username)
  ELSE IF <<c.username, c.password>> \in StockUsers THEN c.username
  ELSE Nobody

(* The verdict is settled once the table has been read.                    *)
PhaseBar(a) == IF stage[a] = "form" THEN "form"
               ELSE IF stage[a] = "custom" THEN "submitted" ELSE "judged"
PrincipalBar(a) == IF stage[a] = "verify" THEN Judge(userList[a], cred[a])
                   ELSE IF stage[a] = "stock" THEN Judge({}, cred[a])
                   ELSE accepted[a]
phaseBar == [a \in Attempts |-> PhaseBar(a)]
principalBar == [a \in Attempts |-> PrincipalBar(a)]

LoginVerdictBar == INSTANCE LoginVerdict WITH
  accounts <- table, submitted <- cred, phase <- phaseBar,
  principal <- principalBar

(* Every verdict is the one of the accounts at one instant after the form  *)
(* was submitted, whatever other attempts and the table do meanwhile: no   *)
(* account twice in the table is accepted, the principal carries the name  *)
(* that was looked up, and a handler that fails does not spoil the         *)
(* credential for the next one (doAuthentication, queryByUserName).        *)
ImplementsVerdict == LoginVerdictBar!Spec

-----------------------------------------------------------------------------
(* What the sources say of themselves and the code does not do.            *)

(* The page shows the first class of CAS's list of handled exceptions      *)
(* that some handler threw, and a general failure when there is none.  The *)
(* list has the two classes of javax.security.auth.login in this order and *)
(* none of this repository's.                                              *)
Shown(a) ==
  LET classes == {thrown[a][h] : h \in Handlers} IN
  IF "AccountNotFoundException" \in classes THEN "AccountNotFoundException"
  ELSE IF "FailedLoginException" \in classes THEN "FailedLoginException"
  ELSE "UNKNOWN"

(* Comment of queryByUserName: the login page shows the message            *)
(* authenticationFailure. + e.getClass().getSimpleName().                  *)
PageNamesException ==
  \A a \in Attempts : stage[a] = "done" /\ accepted[a] = Nobody =>
    (thrown[a]["custom"] \in {"AccountNotPresenceException", "AccountConfuseException"}
       => Shown(a) = thrown[a]["custom"])

(* Comment of matches: its first argument is the raw, not encoded,         *)
(* password, so that encoders whose hashes differ each time work.  Then    *)
(* the owner of an account is not refused.                                 *)
RightPasswordMatches ==
  \A a \in Attempts :
    thrown[a]["custom"] = "FailedLoginException" => ~RightRow(userList[a], cred[a])
=============================================================================
