--------------------------- MODULE U2fApi_proofs ---------------------------
(***************************************************************************)
(* Type correctness, the safety of the callbacks, the implementation of    *)
(* U2fCalls and the order of acquisition, version and requests, for every  *)
(* set of calls, platforms and bounds.                                     *)
(*                                                                         *)
(* The argument follows a callback through the library.  A handler takes   *)
(* the callback of a call in hand (out of the queue, out of the map, or    *)
(* from the page), and puts it back in one place or runs it; in between,   *)
(* every other unanswered call has its callback in exactly one place.      *)
(***************************************************************************)
EXTENDS U2fApi, SequenceTheorems, TLAPS

(* A callback the library may keep: a version call has no second stage.    *)
Proper(cl) == cl \in Closures /\ (cl.stage = "send" => Kind[cl.call] # "version")

(* The queue w and the map m hold one callback for each call of inv that   *)
(* has no reply yet, except for the calls in hand, and nothing else.       *)
PlacesBut(w, m, inv, rep, hand) ==
  /\ \A i \in DOMAIN m : Proper(m[i])
  /\ \A k \in 1..Len(w) : Proper(w[k])
  /\ \A i, j \in DOMAIN m : m[i].call = m[j].call => i = j
  /\ \A k, l \in 1..Len(w) : w[k].call = w[l].call => k = l
  /\ \A i \in DOMAIN m, k \in 1..Len(w) : m[i].call # w[k].call
  /\ \A i \in DOMAIN m : /\ m[i].call \in inv \ hand
                         /\ rep[m[i].call] = <<>>
  /\ \A k \in 1..Len(w) : /\ w[k].call \in inv \ hand
                          /\ rep[w[k].call] = <<>>
  /\ \A c \in hand : c \in inv /\ rep[c] = <<>>
  /\ \A c \in inv \ hand :
       rep[c] = <<>> => \/ \E i \in DOMAIN m : m[i].call = c
                        \/ \E k \in 1..Len(w) : w[k].call = c

Places == PlacesBut(waiting, callbackMap, invoked, replies, {})

(* A message that bears a known number is about the callback kept there,   *)
(* and no number is used before it is given out.                           *)
About(m, map, n) == /\ m.id <= n
                    /\ m.id \in DOMAIN map => m.origin = map[m.id]

Carried ==
  /\ \A m \in outbox : m.id # 0 /\ Proper(m.origin) /\ About(m, callbackMap, reqCounter)
  /\ \A m \in inbox : /\ Proper(m.origin) /\ About(m, callbackMap, reqCounter)
                      /\ m.body \in BodiesFor(m.origin) \/ m.body = "error"

Answered == \A c \in Calls : \/ replies[c] = <<>>
                             \/ c \in invoked /\ \E a \in AnswersTo(c) : replies[c] = <<a>>

(* A browser without chrome.runtime and not on a phone never runs a timer. *)
Fits == acquiring \in {"probing", "timer"} => platform # "other"

IInv == TypeOK /\ Places /\ Carried /\ Answered /\ Fits

-----------------------------------------------------------------------------
(* Taking a callback in hand.                                              *)
LEMMA TakeHead ==
  ASSUME NEW w \in Seq(Closures), NEW m, NEW inv, NEW rep, w # <<>>,
         PlacesBut(w, m, inv, rep, {})
  PROVE  PlacesBut(Tail(w), m, inv, rep, {Head(w).call})
<1>1. /\ Tail(w) \in Seq(Closures)
      /\ Len(Tail(w)) = Len(w) - 1
      /\ Len(w) \in Nat \ {0}
      /\ \A k \in 1..Len(Tail(w)) : k+1 \in 1..Len(w) /\ Tail(w)[k] = w[k+1]
      /\ Head(w) = w[1]
  OBVIOUS
<1>2. \A k \in 1..Len(w) : k = 1 \/ \E l \in 1..Len(Tail(w)) : k = l + 1
  <2>1. TAKE k \in 1..Len(w)
  <2>2. CASE k # 1
    <3>1. k - 1 \in 1..Len(Tail(w)) /\ k = (k - 1) + 1
      BY <1>1, <2>2
    <3>2. QED BY <3>1
  <2>3. QED BY <2>2
<1>3. \A c \in inv \ {Head(w).call} :
        rep[c] = <<>> => \/ \E i \in DOMAIN m : m[i].call = c
                         \/ \E k \in 1..Len(Tail(w)) : Tail(w)[k].call = c
  BY <1>1, <1>2 DEF PlacesBut
<1>4. /\ \A k \in 1..Len(Tail(w)) : Proper(Tail(w)[k])
      /\ \A k, l \in 1..Len(Tail(w)) : Tail(w)[k].call = Tail(w)[l].call => k = l
      /\ \A i \in DOMAIN m, k \in 1..Len(Tail(w)) : m[i].call # Tail(w)[k].call
      /\ \A k \in 1..Len(Tail(w)) : /\ Tail(w)[k].call \in inv \ {Head(w).call}
                                    /\ rep[Tail(w)[k].call] = <<>>
  BY <1>1 DEF PlacesBut
<1>5. QED BY <1>1, <1>3, <1>4 DEF PlacesBut

LEMMA TakeMapped ==
  ASSUME NEW w, NEW m, NEW inv, NEW rep, NEW id \in DOMAIN m,
         PlacesBut(w, m, inv, rep, {})
  PROVE  PlacesBut(w, Without(m, id), inv, rep, {m[id].call})
<1>1. /\ DOMAIN Without(m, id) = DOMAIN m \ {id}
      /\ \A i \in DOMAIN m \ {id} : Without(m, id)[i] = m[i]
  BY DEF Without, Restrict
<1>2. QED BY <1>1 DEF PlacesBut

LEMMA TakeNew ==
  ASSUME NEW w, NEW m, NEW inv, NEW rep, NEW c, c \notin inv, rep[c] = <<>>,
         PlacesBut(w, m, inv, rep, {})
  PROVE  PlacesBut(w, m, inv \cup {c}, rep, {c})
BY DEF PlacesBut

(* Putting it back, or running it.                                         *)
LEMMA PutInMap ==
  ASSUME NEW w, NEW m, NEW n, NEW inv, NEW rep, NEW cl, NEW id, Proper(cl),
         DOMAIN n = DOMAIN m \cup {id}, id \notin DOMAIN m,
         n[id] = cl, \A i \in DOMAIN m : n[i] = m[i],
         PlacesBut(w, m, inv, rep, {cl.call})
  PROVE  PlacesBut(w, n, inv, rep, {})
BY DEF PlacesBut

LEMMA PutInQueue ==
  ASSUME NEW w \in Seq(Closures), NEW m, NEW inv, NEW rep, NEW cl, Proper(cl),
         PlacesBut(w, m, inv, rep, {cl.call})
  PROVE  PlacesBut(Append(w, cl), m, inv, rep, {})
<1>1. /\ Len(w) \in Nat
      /\ Len(Append(w, cl)) = Len(w) + 1
      /\ Append(w, cl)[Len(w) + 1] = cl
      /\ \A k \in 1..Len(w) : Append(w, cl)[k] = w[k]
      /\ \A k \in 1..(Len(w) + 1) : k \in 1..Len(w) \/ k = Len(w) + 1
      /\ Len(w) + 1 \in 1..(Len(w) + 1)
      /\ \A k \in 1..Len(w) : k \in 1..(Len(w) + 1) /\ k # Len(w) + 1
  BY DEF Proper
<1> DEFINE n == Len(w) + 1
           v == Append(w, cl)
<1> HIDE DEF n, v
<1>2. /\ Len(v) = n
      /\ v[n] = cl
      /\ \A k \in 1..Len(w) : v[k] = w[k] /\ k \in 1..n /\ k # n
      /\ \A k \in 1..n : k \in 1..Len(w) \/ k = n
      /\ n \in 1..n
  BY <1>1 DEF n, v
<1>3. PlacesBut(v, m, inv, rep, {})
  BY <1>2 DEF PlacesBut
<1>4. QED BY <1>3 DEF v

LEMMA RunInHand ==
  ASSUME NEW w, NEW m, NEW inv, inv \subseteq Calls,
         NEW rep \in [Calls -> Seq(Replies)], NEW c \in Calls, NEW a,
         PlacesBut(w, m, inv, rep, {c})
  PROVE  PlacesBut(w, m, inv, [rep EXCEPT ![c] = Append(@, a)], {})
<1> DEFINE r == [rep EXCEPT ![c] = Append(@, a)]
<1>1. /\ r[c] # <<>>
      /\ \A d \in Calls : d # c => r[d] = rep[d]
  OBVIOUS
<1>2. \A i \in DOMAIN m : m[i].call \in Calls
  BY DEF PlacesBut, Proper, Closures
<1>3. \A k \in 1..Len(w) : w[k].call \in Calls
  BY DEF PlacesBut, Proper, Closures
<1> HIDE DEF r
<1>4. PlacesBut(w, m, inv, r, {})
  BY <1>1, <1>2, <1>3 DEF PlacesBut
<1>5. QED BY <1>4 DEF r

-----------------------------------------------------------------------------
(* Messages and answers when a request is posted.                          *)
Posted(map, cl) ==
  /\ reqCounter' = reqCounter + 1
  /\ callbackMap' = [i \in DOMAIN map \cup {reqCounter + 1} |->
                       IF i = reqCounter + 1 THEN cl ELSE map[i]]
  /\ \A m \in outbox' : \/ m \in outbox
                        \/ /\ m \in Requests
                           /\ m.id = reqCounter + 1 /\ m.origin = cl

LEMMA PostPosts ==
  ASSUME NEW map, NEW cl \in Closures, reqCounter \in Nat,
         NEW f \in {"none", "1.0", "1.1"}, NEW h \in {"none", "string", "object"},
         Post(map, cl, f, h)
  PROVE  Posted(map, cl)
BY DEF Post, Posted, Requests

LEMMA SendPosts ==
  ASSUME NEW map, NEW c \in Calls, NEW v, reqCounter \in Nat, SendRequest(map, c, v)
  PROVE  Posted(map, Send(c))
<1>1. Send(c) \in Closures
  BY DEF Send, Closures
<1>2. /\ FormatOf(v) \in {"none", "1.0", "1.1"}
      /\ ChallengeOf(c, v) \in {"none", "string", "object"}
  BY DEF FormatOf, ChallengeOf
<1>3. QED BY <1>1, <1>2, PostPosts DEF SendRequest

(* Posting the callback in hand keeps the types, the places and what the   *)
(* messages are about.                                                     *)
LEMMA PostKeeps ==
  ASSUME NEW map, DOMAIN map \subseteq DOMAIN callbackMap,
         \A i \in DOMAIN map : map[i] = callbackMap[i],
         NEW w, NEW inv, NEW cl, Proper(cl), TypeOK, Carried, Posted(map, cl),
         PlacesBut(w, map, inv, replies, {cl.call}),
         inbox' \subseteq inbox, extVersion' = extVersion
  PROVE  /\ reqCounter' \in Nat
         /\ DOMAIN callbackMap' \subseteq 1..reqCounter'
         /\ callbackMap' \in [DOMAIN callbackMap' -> Closures]
         /\ outbox' \in SUBSET Requests
         /\ PlacesBut(w, callbackMap', inv, replies, {})
         /\ Carried'
<1> DEFINE id == reqCounter + 1
<1>1. /\ reqCounter \in Nat /\ id \in Nat /\ id # 0
      /\ DOMAIN callbackMap \subseteq 1..reqCounter
      /\ id \notin DOMAIN map
      /\ id \notin DOMAIN callbackMap
      /\ callbackMap \in [DOMAIN callbackMap -> Closures]
  BY DEF TypeOK
<1>2. /\ DOMAIN callbackMap' = DOMAIN map \cup {id}
      /\ callbackMap'[id] = cl
      /\ \A i \in DOMAIN map : callbackMap'[i] = callbackMap[i]
      /\ callbackMap' = [i \in DOMAIN callbackMap' |-> callbackMap'[i]]
  BY <1>1 DEF Posted
<1>3. PlacesBut(w, callbackMap', inv, replies, {})
  <2>1. \A i \in DOMAIN map : callbackMap'[i] = map[i]
    BY <1>2
  <2>2. QED BY <1>1, <1>2, <2>1, PutInMap
<1>4. reqCounter' \in Nat /\ DOMAIN callbackMap' \subseteq 1..reqCounter'
  BY <1>1, <1>2 DEF Posted
<1>5. callbackMap' \in [DOMAIN callbackMap' -> Closures]
  <2>1. \A i \in DOMAIN callbackMap' : callbackMap'[i] \in Closures
    BY <1>1, <1>2 DEF Proper
  <2>2. QED BY <1>2, <2>1
<1>6. outbox' \in SUBSET Requests
  BY DEF Posted, TypeOK
<1>7. \A m \in outbox \cup inbox : About(m, callbackMap, reqCounter) =>
                                     About(m, callbackMap', reqCounter')
  <2>1. \A m \in outbox \cup inbox : m.id \in Nat
    BY DEF TypeOK, Requests, Responses
  <2>2. QED BY <1>1, <1>2, <2>1 DEF About, Posted
<1>8. ASSUME NEW m \in outbox'
      PROVE  m.id # 0 /\ Proper(m.origin) /\ About(m, callbackMap', reqCounter')
  <2>1. CASE m \in outbox
    BY <1>7, <2>1 DEF Carried
  <2>2. CASE m.id = reqCounter + 1 /\ m.origin = cl
    BY <1>1, <1>2, <2>2 DEF About, Posted
  <2>3. QED BY <1>8, <2>1, <2>2 DEF Posted
<1>9. ASSUME NEW m \in inbox'
      PROVE  /\ Proper(m.origin) /\ About(m, callbackMap', reqCounter')
             /\ m.body \in BodiesFor(m.origin)' \/ m.body = "error"
  BY <1>7 DEF Carried, BodiesFor
<1>10. Carried'
  BY <1>8, <1>9 DEF Carried, BodiesFor
<1>11. QED BY <1>3, <1>4, <1>5, <1>6, <1>10

-----------------------------------------------------------------------------
(* The variables a callback in hand may change.                            *)
CoreType ==
  /\ reqCounter \in Nat
  /\ DOMAIN callbackMap \subseteq 1..reqCounter
  /\ callbackMap \in [DOMAIN callbackMap -> Closures]
  /\ jsApiVersion \in ApiVersions
  /\ outbox \in SUBSET Requests
  /\ replies \in [Calls -> Seq(Replies)]

LEMMA ProperClosures ==
  ASSUME NEW c \in Calls
  PROVE  /\ Proper(Ask(c)) /\ Ask(c).call = c
         /\ Kind[c] # "version" => Proper(Send(c)) /\ Send(c).call = c
BY DEF Proper, Ask, Send, Closures

LEMMA AnswersAreReplies ==
  ASSUME NEW c \in Calls
  PROVE  AnswersTo(c) \subseteq Replies
BY DEF AnswersTo, Reply, Replies, Final, Ask, Send, Closures, Bodies

(* A page callback in hand that runs answers its call, once.               *)
LEMMA AnswerKeeps ==
  ASSUME NEW w, NEW m, NEW c \in Calls, NEW a \in AnswersTo(c),
         TypeOK, Answered, invoked' \subseteq Calls, invoked \subseteq invoked',
         PlacesBut(w, m, invoked', replies, {c}), GiveAnswer(c, a)
  PROVE  /\ replies' \in [Calls -> Seq(Replies)]
         /\ PlacesBut(w, m, invoked', replies', {})
         /\ Answered'
<1>1. replies \in [Calls -> Seq(Replies)]
  BY DEF TypeOK
<1>2. a \in Replies
  BY AnswersAreReplies
<1>3. replies[c] = <<>> /\ c \in invoked'
  BY DEF PlacesBut
<1>4. replies' = [replies EXCEPT ![c] = Append(@, a)]
  BY DEF GiveAnswer
<1>5. replies' \in [Calls -> Seq(Replies)]
  BY <1>1, <1>2, <1>4
<1>6. PlacesBut(w, m, invoked', replies', {})
  BY <1>1, <1>4, RunInHand
<1>7. replies'[c] = <<a>>
  BY <1>1, <1>3, <1>4
<1>8. \A d \in Calls : d # c => replies'[d] = replies[d]
  BY <1>1, <1>4
<1>9. \A d \in Calls : AnswersTo(d)' = AnswersTo(d)
  BY DEF AnswersTo
<1>10. Answered'
  BY <1>3, <1>7, <1>8, <1>9 DEF Answered
<1>11. QED BY <1>5, <1>6, <1>10

(* What a function that gets the port does with the callback in hand.      *)
LEMMA RunEffect ==
  ASSUME NEW cl, Proper(cl), TypeOK, RunWithPort(cl)
  PROVE  /\ jsApiVersion' \in ApiVersions
         /\ \/ /\ \E cl2 : Proper(cl2) /\ cl2.call = cl.call /\ Posted(callbackMap, cl2)
               /\ replies' = replies
            \/ /\ \E a \in AnswersTo(cl.call) : GiveAnswer(cl.call, a)
               /\ UNCHANGED <<reqCounter, callbackMap, outbox>>
<1> DEFINE c == cl.call
<1>1. c \in Calls /\ reqCounter \in Nat /\ jsApiVersion \in ApiVersions
  BY DEF TypeOK, Proper, Closures
<1>2. CASE cl.stage = "ask" /\ ~Wrapped(port)
  <2>1. /\ Post(callbackMap, Ask(c), "none", "none")
        /\ UNCHANGED <<jsApiVersion, replies>>
    BY <1>2 DEF RunWithPort, AskVersion
  <2>2. Ask(c) \in Closures
    BY <1>1 DEF Ask, Closures
  <2>3. Posted(callbackMap, Ask(c))
    BY <1>1, <2>1, <2>2, PostPosts
  <2>4. QED BY <1>1, <2>1, <2>3, ProperClosures
<1>3. CASE cl.stage = "ask" /\ Wrapped(port)
  <2>1. GiveVersion(c, "1.1")
    BY <1>3 DEF RunWithPort, AskVersion
  <2>2. CASE Kind[c] = "version"
    <3>1. Reply(Ask(c), "1.1") \in AnswersTo(c)
      BY <2>2 DEF AnswersTo, Final
    <3>2. /\ GiveAnswer(c, Reply(Ask(c), "1.1"))
          /\ UNCHANGED <<reqCounter, callbackMap, outbox, jsApiVersion>>
      BY <2>1, <2>2 DEF GiveVersion
    <3>3. QED BY <1>1, <3>1, <3>2
  <2>3. CASE Kind[c] # "version"
    <3>1. jsApiVersion' = "1.1" /\ SendRequest(callbackMap, c, "1.1") /\ replies' = replies
      BY <2>1, <2>3 DEF GiveVersion
    <3>2. Posted(callbackMap, Send(c))
      BY <1>1, <3>1, SendPosts
    <3>3. QED BY <1>1, <2>3, <3>1, <3>2, ProperClosures DEF ApiVersions
  <2>4. QED BY <2>2, <2>3
<1>4. CASE cl.stage = "send"
  <2>1. /\ SendRequest(callbackMap, c, jsApiVersion)
        /\ UNCHANGED <<jsApiVersion, replies>>
    BY <1>4 DEF RunWithPort
  <2>2. Posted(callbackMap, Send(c))
    BY <1>1, <2>1, SendPosts
  <2>3. Kind[c] # "version"
    BY <1>4 DEF Proper
  <2>4. QED BY <1>1, <2>1, <2>2, <2>3, ProperClosures
<1>5. QED BY <1>2, <1>3, <1>4 DEF Proper, Closures

LEMMA RunKeeps ==
  ASSUME NEW w, NEW cl, Proper(cl), IInv, RunWithPort(cl),
         invoked' \subseteq Calls, invoked \subseteq invoked',
         PlacesBut(w, callbackMap, invoked', replies, {cl.call}),
         UNCHANGED <<inbox, extVersion>>
  PROVE  /\ CoreType'
         /\ PlacesBut(w, callbackMap', invoked', replies', {})
         /\ Carried'
         /\ Answered'
<1>1. jsApiVersion' \in ApiVersions
  BY RunEffect DEF IInv
<1>2. CASE /\ \E cl2 : Proper(cl2) /\ cl2.call = cl.call /\ Posted(callbackMap, cl2)
           /\ replies' = replies
  <2>1. PICK cl2 : Proper(cl2) /\ cl2.call = cl.call /\ Posted(callbackMap, cl2)
    BY <1>2
  <2>2. /\ reqCounter' \in Nat
        /\ DOMAIN callbackMap' \subseteq 1..reqCounter'
        /\ callbackMap' \in [DOMAIN callbackMap' -> Closures]
        /\ outbox' \in SUBSET Requests
        /\ PlacesBut(w, callbackMap', invoked', replies, {})
        /\ Carried'
    BY <2>1, PostKeeps DEF IInv
  <2>3. replies' \in [Calls -> Seq(Replies)]
    BY <1>2 DEF IInv, TypeOK
  <2>4. Answered'
    BY <1>2 DEF IInv, Answered, AnswersTo
  <2>5. QED BY <1>1, <1>2, <2>2, <2>3, <2>4 DEF CoreType
<1>3. CASE /\ \E a \in AnswersTo(cl.call) : GiveAnswer(cl.call, a)
           /\ UNCHANGED <<reqCounter, callbackMap, outbox>>
  <2>1. cl.call \in Calls
    BY DEF Proper, Closures
  <2>2. /\ replies' \in [Calls -> Seq(Replies)]
        /\ PlacesBut(w, callbackMap, invoked', replies', {})
        /\ Answered'
    BY <1>3, <2>1, AnswerKeeps DEF IInv
  <2>3. Carried'
    BY <1>3 DEF IInv, Carried, About, BodiesFor
  <2>4. QED BY <1>1, <1>3, <2>2, <2>3 DEF CoreType, IInv, TypeOK
<1>4. QED BY <1>2, <1>3, RunEffect DEF IInv

-----------------------------------------------------------------------------
(* The invariant holds initially and every action keeps it.                *)
LEMMA InitIInv == Init => IInv
<1> SUFFICES ASSUME Init PROVE IInv
  OBVIOUS
<1>1. DOMAIN callbackMap = {}
  BY DEF Init
<1>2. TypeOK
  <2>1. callbackMap \in [DOMAIN callbackMap -> Closures]
    BY <1>1 DEF Init
  <2>2. replies \in [Calls -> Seq(Replies)]
    BY DEF Init
  <2>3. waiting \in Seq(Closures)
    BY DEF Init
  <2>4. QED BY <1>1, <2>1, <2>2, <2>3, PlatformAssumption
            DEF Init, TypeOK, Ports, ApiVersions
<1>3. Places
  <2>1. Len(waiting) = 0
    BY DEF Init
  <2>2. QED BY <1>1, <2>1 DEF Init, Places, PlacesBut
<1>4. Carried /\ Answered /\ Fits
  BY DEF Init, Carried, Answered, Fits
<1>5. QED BY <1>2, <1>3, <1>4 DEF IInv

(* The parts of the invariant an acquisition step or a fault leaves alone. *)
LEMMA QuietKeeps ==
  ASSUME IInv, UNCHANGED <<waiting, callVars, invoked, extVersion>>,
         outbox' \subseteq outbox,
         \A r \in inbox' : \/ r \in inbox
                           \/ /\ Proper(r.origin) /\ About(r, callbackMap, reqCounter)
                              /\ r.body \in BodiesFor(r.origin) \/ r.body = "error"
  PROVE  Places' /\ Carried' /\ Answered'
<1>1. Places'
  BY DEF IInv, Places, PlacesBut, callVars
<1>2. Carried'
  BY DEF IInv, Carried, About, BodiesFor, callVars
<1>3. Answered'
  BY DEF IInv, Answered, AnswersTo, callVars
<1>4. QED BY <1>1, <1>2, <1>3

LEMMA InvokeKeeps ==
  ASSUME IInv, NEW c \in Calls, Invoke(c)
  PROVE  IInv'
<1>1. /\ c \notin invoked /\ invoked' = invoked \cup {c}
      /\ invoked' \subseteq Calls /\ invoked \subseteq invoked'
  BY DEF Invoke, IInv, TypeOK
<1>2. /\ Proper(FirstStep(c)) /\ FirstStep(c).call = c
  BY ProperClosures DEF FirstStep
<1>3. replies[c] = <<>>
  BY <1>1 DEF IInv, Answered
<1>4. PlacesBut(waiting, callbackMap, invoked', replies, {c})
  BY <1>1, <1>3, TakeNew DEF IInv, Places
<1>5. CASE port # "none"
  <2>1. /\ RunWithPort(FirstStep(c))
        /\ UNCHANGED <<acquiring, waiting, platform, extVersion, port, connected,
                       draining, inbox, repeats, faults>>
    BY <1>5 DEF Invoke
  <2>2. /\ CoreType'
        /\ PlacesBut(waiting, callbackMap', invoked', replies', {})
        /\ Carried'
        /\ Answered'
    BY <1>1, <1>2, <1>4, <2>1, RunKeeps
  <2>3. TypeOK'
    BY <1>1, <2>1, <2>2 DEF IInv, TypeOK, CoreType
  <2>4. QED BY <2>1, <2>2, <2>3 DEF IInv, Places, Fits
<1>6. CASE port = "none"
  <2>1. /\ waiting' = Append(waiting, FirstStep(c))
        /\ UNCHANGED <<platform, extVersion, port, connected, draining, inbox,
                       repeats, faults, callVars, outbox>>
        /\ StartAcquiring \/ UNCHANGED acquiring
    BY <1>6 DEF Invoke
  <2>2. waiting \in Seq(Closures)
    BY DEF IInv, TypeOK
  <2>3. PlacesBut(waiting', callbackMap, invoked', replies, {})
    BY <1>2, <1>4, <2>1, <2>2, PutInQueue
  <2>4. acquiring' \in {"idle", "probing", "timer", "iframe", "inited", "done"}
    BY <2>1 DEF StartAcquiring, IInv, TypeOK, AllPlatforms
  <2>5. waiting' \in Seq(Closures)
    BY <1>2, <2>1, <2>2 DEF Proper
  <2>6. TypeOK'
    BY <1>1, <2>1, <2>4, <2>5 DEF IInv, TypeOK, callVars
  <2>7. Carried'
    BY <2>1 DEF IInv, Carried, About, BodiesFor, callVars
  <2>8. Answered'
    BY <1>1, <2>1 DEF IInv, Answered, AnswersTo, callVars
  <2>9. Places'
    BY <2>1, <2>3 DEF Places, callVars
  <2>10. Fits'
    BY <2>1 DEF IInv, Fits, StartAcquiring, TypeOK, AllPlatforms
  <2>11. QED BY <2>6, <2>7, <2>8, <2>9, <2>10 DEF IInv
<1>7. QED BY <1>5, <1>6

LEMMA AcquireKeeps ==
  ASSUME IInv, Acquire
  PROVE  IInv'
<1>1. UNCHANGED <<platform, connected, waiting, callVars, extVars, invoked>>
  BY DEF Acquire, ProbeAnswered, TimerFires, IframeLoaded, IframeReady, PortArrives
<1>2. /\ acquiring' \in {"idle", "probing", "timer", "iframe", "inited", "done"}
      /\ port' \in Ports
      /\ draining' \in BOOLEAN
  BY DEF Acquire, ProbeAnswered, TimerFires, IframeLoaded, IframeReady,
         PortArrives, IInv, TypeOK, Ports, AllPlatforms, Fits
<1>3. TypeOK'
  BY <1>1, <1>2 DEF IInv, TypeOK, callVars, extVars
<1>4. Places' /\ Carried' /\ Answered'
  BY <1>1, QuietKeeps DEF extVars
<1>5. Fits'
  BY <1>1 DEF Acquire, ProbeAnswered, TimerFires, IframeLoaded, IframeReady,
              PortArrives, IInv, Fits
<1>6. QED BY <1>3, <1>4, <1>5 DEF IInv

LEMMA DrainKeeps ==
  ASSUME IInv, DrainOne
  PROVE  IInv'
<1>1. waiting \in Seq(Closures) /\ waiting # <<>>
  BY DEF IInv, TypeOK, DrainOne
<1>2. /\ RunWithPort(Head(waiting))
      /\ waiting' = Tail(waiting)
      /\ draining' \in BOOLEAN
      /\ UNCHANGED <<portVars, extVersion, inbox, repeats, faults, invoked>>
  BY DEF DrainOne, DrainGoesOn
<1>3. PlacesBut(Tail(waiting), callbackMap, invoked, replies, {Head(waiting).call})
  BY <1>1, TakeHead DEF IInv, Places
<1>4. Proper(Head(waiting))
  <2>1. Head(waiting) = waiting[1] /\ 1 \in 1..Len(waiting)
    BY <1>1
  <2>2. QED BY <2>1 DEF IInv, Places, PlacesBut
<1>5. /\ CoreType'
      /\ PlacesBut(Tail(waiting), callbackMap', invoked', replies', {})
      /\ Carried'
      /\ Answered'
  <2>1. invoked' \subseteq Calls /\ invoked' = invoked
    BY <1>2 DEF IInv, TypeOK
  <2>2. QED BY <1>2, <1>3, <1>4, <2>1, RunKeeps
<1>6. Tail(waiting) \in Seq(Closures)
  BY <1>1
<1>7. TypeOK'
  BY <1>2, <1>5, <1>6 DEF IInv, TypeOK, CoreType, portVars
<1>8. QED BY <1>2, <1>5, <1>7 DEF IInv, Places, Fits, portVars

LEMMA IgnoreKeeps ==
  ASSUME IInv, NEW r \in inbox, IgnoreResponse(r)
  PROVE  IInv'
<1>1. /\ inbox' = inbox \ {r}
      /\ UNCHANGED <<portVars, waiting, draining, callVars, extVersion, outbox,
                     repeats, faults, invoked>>
  BY DEF IgnoreResponse
<1>2. TypeOK' /\ Fits'
  BY <1>1 DEF IInv, TypeOK, portVars, callVars, Fits
<1>3. Places' /\ Carried' /\ Answered'
  BY <1>1, QuietKeeps
<1>4. QED BY <1>2, <1>3 DEF IInv

(* What a response under a known number is about.                          *)
LEMMA KnownResponse ==
  ASSUME IInv, NEW r \in inbox, Known(r)
  PROVE  /\ r.id \in DOMAIN callbackMap
         /\ r.origin = callbackMap[r.id]
         /\ Proper(callbackMap[r.id])
         /\ r.body \in BodiesFor(r.origin) \/ r.body = "error"
BY DEF IInv, Carried, About, Known

(* A callback in the map that takes the final answer gives it to the page. *)
LEMMA FinalAnswer ==
  ASSUME IInv, NEW r \in inbox, Known(r),
         callbackMap[r.id] = Final(callbackMap[r.id].call)
  PROVE  Reply(r.origin, r.body) \in AnswersTo(callbackMap[r.id].call)
<1> DEFINE c == callbackMap[r.id].call
<1>1. r.origin = Final(c) /\ (r.body \in BodiesFor(Final(c)) \/ r.body = "error")
  BY KnownResponse
<1>2. extVersion \in {"legacy", "1.1"}
  BY DEF IInv, TypeOK
<1>3. CASE Kind[c] = "version"
  <2>1. r.body \in {"legacy", "1.1", "error"}
    BY <1>1, <1>2, <1>3 DEF BodiesFor, Final, Ask
  <2>2. QED BY <1>1, <1>3, <2>1 DEF AnswersTo
<1>4. CASE Kind[c] # "version"
  <2>1. r.body \in {"ok", "error"}
    BY <1>1, <1>4 DEF BodiesFor, Final, Send
  <2>2. QED BY <1>1, <1>4, <2>1 DEF AnswersTo
<1>5. QED BY <1>3, <1>4

(* The map without the callback in hand.                                   *)
LEMMA WithoutKeeps ==
  ASSUME IInv, NEW id \in DOMAIN callbackMap
  PROVE  /\ DOMAIN Without(callbackMap, id) \subseteq DOMAIN callbackMap
         /\ \A i \in DOMAIN Without(callbackMap, id) :
              Without(callbackMap, id)[i] = callbackMap[i]
         /\ Without(callbackMap, id) \in [DOMAIN Without(callbackMap, id) -> Closures]
BY DEF Without, Restrict, IInv, TypeOK

LEMMA HandleAnswerKeeps ==
  ASSUME IInv, NEW r \in inbox, HandleAnswer(r)
  PROVE  IInv'
<1> DEFINE c == callbackMap[r.id].call
<1>1. Known(r) /\ callbackMap[r.id] = Final(c) /\ GiveAnswer(c, Reply(r.origin, r.body))
  BY DEF HandleAnswer
<1>2. /\ callbackMap' = Without(callbackMap, r.id)
      /\ inbox' = inbox \ {r}
      /\ UNCHANGED <<portVars, waiting, draining, reqCounter, jsApiVersion,
                     extVersion, outbox, repeats, faults, invoked>>
  BY DEF HandleAnswer
<1>3. r.id \in DOMAIN callbackMap /\ c \in Calls
  BY <1>1, KnownResponse DEF Proper, Closures
<1>4. Reply(r.origin, r.body) \in AnswersTo(c)
  BY <1>1, FinalAnswer
<1>5. invoked' \subseteq Calls /\ invoked' = invoked
  BY <1>2 DEF IInv, TypeOK
<1>6. PlacesBut(waiting, callbackMap', invoked', replies, {c})
  BY <1>2, <1>3, <1>5, TakeMapped DEF IInv, Places
<1>7. /\ replies' \in [Calls -> Seq(Replies)]
      /\ PlacesBut(waiting, callbackMap', invoked', replies', {})
      /\ Answered'
  BY <1>1, <1>3, <1>4, <1>5, <1>6, AnswerKeeps DEF IInv
<1>8. TypeOK'
  BY <1>2, <1>3, <1>7, WithoutKeeps DEF IInv, TypeOK, portVars
<1>9. Carried'
  BY <1>2, <1>3, WithoutKeeps DEF IInv, Carried, About, BodiesFor
<1>10. QED BY <1>2, <1>7, <1>8, <1>9 DEF IInv, Places, Fits, portVars

LEMMA HandleVersionKeeps ==
  ASSUME IInv, NEW r \in inbox, HandleVersion(r)
  PROVE  IInv'
<1> DEFINE c == callbackMap[r.id].call
           m == Without(callbackMap, r.id)
<1>1. PICK v \in ApiVersions : SendRequest(m, c, v) /\ jsApiVersion' = v
  BY DEF HandleVersion, ApiVersions
<1>2. /\ Known(r) /\ callbackMap[r.id] # Final(c)
      /\ inbox' = inbox \ {r}
      /\ UNCHANGED <<portVars, waiting, draining, replies, extVersion, repeats,
                     faults, invoked>>
  BY DEF HandleVersion
<1>3. r.id \in DOMAIN callbackMap /\ c \in Calls /\ Proper(callbackMap[r.id])
  BY <1>2, KnownResponse DEF Proper, Closures
<1>4. Proper(Send(c)) /\ Send(c).call = c
  <2>1. Kind[c] # "version"
    BY <1>2, <1>3 DEF Final, Ask, Proper, Closures
  <2>2. QED BY <1>3, <2>1, ProperClosures
<1>5. Posted(m, Send(c))
  BY <1>1, <1>3, SendPosts DEF IInv, TypeOK
<1>6. PlacesBut(waiting, m, invoked, replies, {c})
  BY <1>3, TakeMapped DEF IInv, Places
<1>7. /\ reqCounter' \in Nat
      /\ DOMAIN callbackMap' \subseteq 1..reqCounter'
      /\ callbackMap' \in [DOMAIN callbackMap' -> Closures]
      /\ outbox' \in SUBSET Requests
      /\ PlacesBut(waiting, callbackMap', invoked, replies, {})
      /\ Carried'
  BY <1>2, <1>3, <1>4, <1>5, <1>6, WithoutKeeps, PostKeeps DEF IInv
<1>8. TypeOK'
  BY <1>1, <1>2, <1>7 DEF IInv, TypeOK, portVars
<1>9. Answered'
  BY <1>2 DEF IInv, Answered, AnswersTo
<1>10. QED BY <1>2, <1>7, <1>8, <1>9 DEF IInv, Places, Fits, portVars

(* The extension.                                                          *)
LEMMA RequestResponse ==
  ASSUME IInv, NEW m \in outbox, NEW body \in BodiesFor(m.origin) \cup {"error"},
         NEW id \in {0, m.id}
  PROVE  LET r == [Response(m, body) EXCEPT !.id = id]
         IN  /\ r \in Responses /\ Proper(r.origin)
             /\ About(r, callbackMap, reqCounter)
             /\ r.body \in BodiesFor(r.origin) \/ r.body = "error"
<1>1. /\ m.id \in Nat /\ m.origin \in Closures
      /\ Proper(m.origin) /\ About(m, callbackMap, reqCounter)
      /\ DOMAIN callbackMap \subseteq 1..reqCounter
      /\ reqCounter \in Nat
  BY DEF IInv, TypeOK, Requests, Carried
<1>2. body \in Bodies
  BY DEF BodiesFor, Bodies, IInv, TypeOK
<1>3. QED BY <1>1, <1>2 DEF Response, Responses, About

LEMMA ExtensionKeeps ==
  ASSUME IInv, NEW m \in outbox, ExtAnswer(m) \/ ExtRepeat(m) \/ ExtAnonymous(m)
  PROVE  IInv'
<1>1. /\ outbox' \subseteq outbox
      /\ UNCHANGED <<portVars, waiting, draining, callVars, extVersion, invoked>>
      /\ repeats' \in Nat /\ faults' \in Nat
  BY DEF ExtAnswer, ExtRepeat, ExtAnonymous, IInv, TypeOK
<1>2. \E body \in BodiesFor(m.origin) \cup {"error"}, id \in {0, m.id} :
        inbox' \subseteq inbox \cup {[Response(m, body) EXCEPT !.id = id]}
  <2>1. \A body : [Response(m, body) EXCEPT !.id = m.id] = Response(m, body)
    BY DEF Response
  <2>2. CASE ExtAnswer(m)
    BY <2>1, <2>2 DEF ExtAnswer
  <2>3. CASE ExtRepeat(m)
    BY <2>1, <2>3 DEF ExtRepeat
  <2>4. CASE ExtAnonymous(m)
    BY <2>4 DEF ExtAnonymous
  <2>5. QED BY <2>2, <2>3, <2>4
<1>3. \A r \in inbox' : \/ r \in inbox
                        \/ /\ r \in Responses /\ Proper(r.origin)
                           /\ About(r, callbackMap, reqCounter)
                           /\ r.body \in BodiesFor(r.origin) \/ r.body = "error"
  <2>1. PICK body \in BodiesFor(m.origin) \cup {"error"}, id \in {0, m.id} :
          inbox' \subseteq inbox \cup {[Response(m, body) EXCEPT !.id = id]}
    BY <1>2
  <2> DEFINE a == [Response(m, body) EXCEPT !.id = id]
  <2>2. /\ a \in Responses /\ Proper(a.origin)
        /\ About(a, callbackMap, reqCounter)
        /\ a.body \in BodiesFor(a.origin) \/ a.body = "error"
    BY RequestResponse
  <2> HIDE DEF a
  <2>3. inbox' \subseteq inbox \cup {a}
    BY <2>1 DEF a
  <2>4. QED BY <2>2, <2>3
<1>4. Places' /\ Carried' /\ Answered'
  BY <1>1, <1>3, QuietKeeps
<1>5. inbox' \in SUBSET Responses
  BY <1>3 DEF IInv, TypeOK
<1>6. TypeOK' /\ Fits'
  BY <1>1, <1>5 DEF IInv, TypeOK, Fits, portVars, callVars
<1>7. QED BY <1>4, <1>6 DEF IInv

LEMMA DisconnectKeeps ==
  ASSUME IInv, Disconnect
  PROVE  IInv'
<1>1. /\ connected' = FALSE /\ outbox' = {} /\ faults' = faults + 1
      /\ UNCHANGED <<platform, acquiring, port, waiting, draining, callVars,
                     extVersion, inbox, repeats, invoked>>
  BY DEF Disconnect
<1>2. Places' /\ Carried' /\ Answered'
  BY <1>1, QuietKeeps
<1>3. TypeOK' /\ Fits'
  <2>1. connected' \in BOOLEAN
    BY <1>1, Zenon
  <2>2. faults' \in Nat /\ outbox' \in SUBSET Requests
    BY <1>1 DEF IInv, TypeOK
  <2>3. QED BY <1>1, <2>1, <2>2 DEF IInv, TypeOK, Fits, callVars
<1>4. QED BY <1>2, <1>3 DEF IInv

LEMMA NextIInv == IInv /\ [Next]_vars => IInv'
<1> SUFFICES ASSUME IInv, [Next]_vars PROVE IInv'
  OBVIOUS
<1>1. CASE UNCHANGED vars
  <2>1. Places' /\ Carried' /\ Answered'
    BY <1>1, QuietKeeps DEF vars, callVars
  <2>2. TypeOK' /\ Fits'
    BY <1>1 DEF vars, IInv, TypeOK, Fits
  <2>3. QED BY <2>1, <2>2 DEF IInv
<1>2. CASE Next
  BY <1>2, InvokeKeeps, AcquireKeeps, DrainKeeps, IgnoreKeeps, HandleAnswerKeeps,
     HandleVersionKeeps, ExtensionKeeps, DisconnectKeeps DEF Next, Acquire
<1>3. QED BY <1>1, <1>2

LEMMA SpecIInv == Spec => []IInv
BY InitIInv, NextIInv, PTL DEF Spec

-----------------------------------------------------------------------------
(* Every variable keeps its type, so in particular the callback map only   *)
(* has numbers that were given out (callbackMap_, reqCounter_).            *)
THEOREM TypeCorrect == Spec => []TypeOK
BY SpecIInv, PTL DEF IInv

(* For any set of calls on any platform with any faults: the callback of a *)
(* call runs at most once and with the answer to its own final request.    *)
THEOREM CallbacksSafe == Spec => []OwnAnswerOnce
<1>1. IInv => OwnAnswerOnce
  <2> SUFFICES ASSUME IInv, NEW c \in Calls
               PROVE  /\ Len(replies[c]) <= 1
                      /\ \A k \in DOMAIN replies[c] : replies[c][k].origin = Final(c)
    BY DEF OwnAnswerOnce
  <2>1. CASE replies[c] = <<>>
    BY <2>1
  <2>2. CASE \E a \in AnswersTo(c) : replies[c] = <<a>>
    BY <2>2 DEF AnswersTo, Reply
  <2>3. QED BY <2>1, <2>2 DEF IInv, Answered
<1>2. QED BY <1>1, SpecIInv, PTL

(* No call is lost or doubled on its way through queue and map.            *)
THEOREM NoCallLost == Spec => []OnePlacePerCall
<1>1. IInv => OnePlacePerCall
  <2> SUFFICES ASSUME IInv, NEW c \in Calls
               PROVE  \/ /\ replies[c] = <<>> /\ c \in invoked
                         /\ \/ Mapped(c) = {} /\ \E k \in DOMAIN waiting : Queued(c) = {k}
                            \/ /\ Queued(c) = {}
                               /\ \E i \in DOMAIN callbackMap : Mapped(c) = {i}
                      \/ /\ replies[c] # <<>> \/ c \notin invoked
                         /\ Mapped(c) = {} /\ Queued(c) = {}
    BY DEF OnePlacePerCall
  <2>1. DOMAIN waiting = 1..Len(waiting)
    BY DEF IInv, TypeOK
  <2>2. CASE replies[c] # <<>> \/ c \notin invoked
    BY <2>1, <2>2 DEF IInv, Places, PlacesBut, Mapped, Queued
  <2>3. CASE replies[c] = <<>> /\ c \in invoked
    <3>1. CASE \E i \in DOMAIN callbackMap : callbackMap[i].call = c
      <4>1. PICK i \in DOMAIN callbackMap : callbackMap[i].call = c
        BY <3>1
      <4>2. Mapped(c) = {i} /\ Queued(c) = {}
        BY <2>1, <4>1 DEF IInv, Places, PlacesBut, Mapped, Queued
      <4>3. QED BY <2>3, <4>1, <4>2
    <3>2. CASE \E k \in DOMAIN waiting : waiting[k].call = c
      <4>1. PICK k \in DOMAIN waiting : waiting[k].call = c
        BY <3>2
      <4>2. Queued(c) = {k} /\ Mapped(c) = {}
        BY <2>1, <4>1 DEF IInv, Places, PlacesBut, Mapped, Queued
      <4>3. QED BY <2>3, <4>1, <4>2
    <3>3. QED BY <2>1, <2>3, <3>1, <3>2 DEF IInv, Places, PlacesBut
  <2>4. QED BY <2>2, <2>3
<1>2. QED BY <1>1, SpecIInv, PTL

-----------------------------------------------------------------------------
(* The implementation of U2fCalls.                                         *)
LEMMA RunReplies ==
  ASSUME NEW cl, Proper(cl), TypeOK, RunWithPort(cl)
  PROVE  \/ replies' = replies
         \/ \E a \in AnswersTo(cl.call) : GiveAnswer(cl.call, a)
BY RunEffect

(* An answer to a pending or to a new call is a step of the abstract call. *)
LEMMA AbstractAnswer ==
  ASSUME IInv, NEW c \in Calls, NEW a \in AnswersTo(c), GiveAnswer(c, a),
         replies[c] = <<>>,
         \/ c \in invoked /\ invoked' = invoked
         \/ c \notin invoked /\ invoked' = invoked \cup {c}
  PROVE  U2fCallsBar!Answer(c) \/ U2fCallsBar!CallAndAnswer(c)
<1>1. /\ replies \in [Calls -> Seq(Replies)]
      /\ replies' = [replies EXCEPT ![c] = Append(@, a)]
  BY DEF IInv, TypeOK, GiveAnswer
<1>2. replies' = [replies EXCEPT ![c] = <<a>>]
  BY <1>1
<1>3. phaseBar' = [phaseBar EXCEPT ![c] = "answered"]
  <2>1. replies'[c] # <<>>
    BY <1>1, <1>2
  <2>2. \A d \in Calls : d # c => replies'[d] = replies[d]
    BY <1>1, <1>2
  <2>3. \A d \in Calls : d # c => (d \in invoked' <=> d \in invoked)
    OBVIOUS
  <2>4. QED BY <2>1, <2>2, <2>3 DEF phaseBar
<1>4. phaseBar[c] = IF c \in invoked THEN "pending" ELSE "new"
  BY DEF phaseBar
<1>5. QED BY <1>2, <1>3, <1>4 DEF U2fCallsBar!Answer, U2fCallsBar!CallAndAnswer

LEMMA AbstractNext ==
  IInv /\ [Next]_vars => [U2fCallsBar!Next]_U2fCallsBar!callVars
<1> SUFFICES ASSUME IInv, [Next]_vars
             PROVE  U2fCallsBar!Next \/ UNCHANGED U2fCallsBar!callVars
  OBVIOUS
<1>1. CASE UNCHANGED <<invoked, replies>>
  BY <1>1 DEF U2fCallsBar!callVars, phaseBar
<1>2. ASSUME NEW c \in Calls, Invoke(c)
      PROVE  U2fCallsBar!Next
  <2>1. c \notin invoked /\ invoked' = invoked \cup {c}
    BY <1>2 DEF Invoke
  <2>2. replies[c] = <<>>
    BY <2>1 DEF IInv, Answered
  <2>3. CASE replies' = replies
    <3>1. phaseBar' = [phaseBar EXCEPT ![c] = "pending"] /\ phaseBar[c] = "new"
      BY <2>1, <2>2, <2>3 DEF phaseBar
    <3>2. U2fCallsBar!Call(c)
      BY <2>3, <3>1 DEF U2fCallsBar!Call
    <3>3. QED BY <3>2 DEF U2fCallsBar!Next
  <2>4. CASE \E a \in AnswersTo(c) : GiveAnswer(c, a)
    BY <2>1, <2>2, <2>4, AbstractAnswer DEF U2fCallsBar!Next
  <2>5. replies' = replies \/ RunWithPort(FirstStep(c))
    BY <1>2 DEF Invoke, callVars
  <2>6. Proper(FirstStep(c)) /\ FirstStep(c).call = c
    BY ProperClosures DEF FirstStep
  <2>7. QED BY <2>3, <2>4, <2>5, <2>6, RunReplies DEF IInv
<1>3. CASE DrainOne
  <2> DEFINE cl == Head(waiting)
  <2>1. waiting \in Seq(Closures) /\ waiting # <<>>
    BY <1>3 DEF IInv, TypeOK, DrainOne
  <2>2. cl = waiting[1] /\ 1 \in 1..Len(waiting)
    BY <2>1
  <2>3. /\ Proper(cl) /\ cl.call \in Calls /\ cl.call \in invoked
        /\ replies[cl.call] = <<>>
    BY <2>2 DEF IInv, Places, PlacesBut, Proper, Closures
  <2>4. RunWithPort(cl) /\ invoked' = invoked
    BY <1>3 DEF DrainOne
  <2>5. CASE replies' = replies
    BY <1>1, <2>4, <2>5
  <2>6. CASE \E a \in AnswersTo(cl.call) : GiveAnswer(cl.call, a)
    BY <2>3, <2>4, <2>6, AbstractAnswer DEF U2fCallsBar!Next
  <2>7. QED BY <2>3, <2>4, <2>5, <2>6, RunReplies DEF IInv
<1>4. ASSUME NEW r \in inbox, HandleAnswer(r)
      PROVE  U2fCallsBar!Next
  <2> DEFINE c == callbackMap[r.id].call
  <2>1. /\ Known(r) /\ callbackMap[r.id] = Final(c)
        /\ GiveAnswer(c, Reply(r.origin, r.body)) /\ invoked' = invoked
    BY <1>4 DEF HandleAnswer
  <2>2. Reply(r.origin, r.body) \in AnswersTo(c)
    BY <2>1, FinalAnswer
  <2>3. c \in Calls /\ c \in invoked /\ replies[c] = <<>>
    BY <2>1, KnownResponse DEF IInv, Places, PlacesBut, Proper, Closures
  <2>4. QED BY <2>1, <2>2, <2>3, AbstractAnswer DEF U2fCallsBar!Next
<1>5. CASE Acquire
  BY <1>1, <1>5 DEF Acquire, ProbeAnswered, TimerFires, IframeLoaded, IframeReady,
                    PortArrives, callVars
<1>6. ASSUME NEW r \in inbox, IgnoreResponse(r) \/ HandleVersion(r)
      PROVE  UNCHANGED <<invoked, replies>>
  BY <1>6 DEF IgnoreResponse, HandleVersion, callVars
<1>7. ASSUME NEW m \in outbox, ExtAnswer(m) \/ ExtRepeat(m) \/ ExtAnonymous(m)
      PROVE  UNCHANGED <<invoked, replies>>
  BY <1>7 DEF ExtAnswer, ExtRepeat, ExtAnonymous, callVars
<1>8. CASE Disconnect
  BY <1>1, <1>8 DEF Disconnect, callVars
<1>9. CASE UNCHANGED vars
  BY <1>1, <1>9 DEF vars
<1>10. QED BY <1>1, <1>2, <1>3, <1>4, <1>5, <1>6, <1>7, <1>8, <1>9 DEF Next, Acquire

LEMMA AbstractInit == Init => U2fCallsBar!Init
BY DEF Init, U2fCallsBar!Init, phaseBar

(* The library implements the abstract calls: what a page may rely on.     *)
THEOREM Implementation == Spec => ImplementsCalls
<1>1. Spec => U2fCallsBar!Init /\ [][U2fCallsBar!Next]_U2fCallsBar!callVars
  BY SpecIInv, AbstractInit, AbstractNext, PTL DEF Spec
<1>2. QED BY <1>1 DEF ImplementsCalls, U2fCallsBar!Spec

-----------------------------------------------------------------------------
(***************************************************************************)
(* The order of things in the U2F library, for every set of calls,         *)
(* platforms and bounds: the port is acquired once, the queue is emptied,  *)
(* the version is known before a request is sent, and its form is one the  *)
(* counterpart speaks.                                                     *)
(*                                                                         *)
(* What is known of the version is traced to where it came from: js_api_-  *)
(* version 1.1 to an answer of the extension or to the wrapper of a phone, *)
(* such an answer to the extension, and a queued request to a version      *)
(* known when it was queued.                                               *)
(***************************************************************************)

(* How far the acquisition has come, and what the queue knows of it.       *)
PortInv ==
  /\ port # "none" <=> acquiring = "done"
  /\ draining => port # "none"
  /\ acquiring # "idle" /\ port = "none" => waiting # <<>>
  /\ NoStrandedWaiter

(* Where 1.1 comes from.                                                   *)
Modern == extVersion = "1.1" \/ Wrapped(port)
FormInv ==
  /\ jsApiVersion = "1.1" => Modern
  /\ ModernOnlyIfSupported

(* A request in hand, in the queue or on its way has a version behind it.  *)
KnownInv ==
  /\ VersionBeforeRequest
  /\ \A k \in 1..Len(waiting) : waiting[k].stage = "send" => jsApiVersion # "undefined"

OrderInv == PortInv /\ FormInv /\ KnownInv

-----------------------------------------------------------------------------
LEMMA InitOrder == Init => OrderInv
BY DEF Init, OrderInv, PortInv, FormInv, KnownInv, NoStrandedWaiter, ModernOnlyIfSupported,
       VersionBeforeRequest

(* What posting a request adds to the outbox.                              *)
LEMMA PostAdds ==
  ASSUME NEW map, NEW closure, NEW format, NEW challenge,
         Post(map, closure, format, challenge)
  PROVE  \A m \in outbox' :
           m \in outbox \/ (m.format = format /\ m.origin = closure)
BY DEF Post

(* What a function waiting for the port leaves when it runs.               *)
LEMMA RunOrder ==
  ASSUME TypeOK, FormInv, VersionBeforeRequest, NEW cl \in Closures,
         cl.stage = "send" => jsApiVersion # "undefined",
         RunWithPort(cl), UNCHANGED <<extVersion, port>>
  PROVE  /\ jsApiVersion' = "1.1" => Modern'
         /\ ModernOnlyIfSupported'
         /\ VersionBeforeRequest'
         /\ jsApiVersion # "undefined" => jsApiVersion' # "undefined"
<1>1. CASE cl.stage = "send"
  <2>1. /\ jsApiVersion' = jsApiVersion
        /\ \A m \in outbox' : m \in outbox \/ m.format = FormatOf(jsApiVersion)
    BY <1>1, PostAdds DEF RunWithPort, SendRequest
  <2>2. QED
    BY <1>1, <2>1 DEF FormInv, Modern, ModernOnlyIfSupported, VersionBeforeRequest, FormatOf
<1>2. CASE cl.stage = "ask" /\ ~Wrapped(port)
  <2>1. /\ jsApiVersion' = jsApiVersion
        /\ \A m \in outbox' : m \in outbox \/ (m.format = "none" /\ m.origin = Ask(cl.call))
    BY <1>2, PostAdds DEF RunWithPort, AskVersion
  <2>2. Ask(cl.call).stage = "ask"
    BY DEF Ask
  <2>3. QED
    BY <2>1, <2>2 DEF FormInv, Modern, ModernOnlyIfSupported, VersionBeforeRequest
<1>3. CASE cl.stage = "ask" /\ Wrapped(port)
  <2>1. /\ jsApiVersion' \in {jsApiVersion, "1.1"}
        /\ jsApiVersion' = jsApiVersion => outbox' = outbox \/ jsApiVersion = "1.1"
    BY <1>3 DEF RunWithPort, AskVersion, GiveVersion
  <2>2. Modern' BY <1>3 DEF Modern, Wrapped
  <2>3. QED
    BY <2>1, <2>2 DEF Modern, ModernOnlyIfSupported, VersionBeforeRequest
<1>4. QED BY <1>1, <1>2, <1>3 DEF Closures

LEMMA InvokeOrder ==
  ASSUME TypeOK, OrderInv, NEW c \in Calls, Invoke(c)
  PROVE  OrderInv'
<1>1. /\ FirstStep(c) \in Closures
      /\ FirstStep(c).stage = "send" => jsApiVersion # "undefined"
  BY DEF FirstStep, Ask, Send, Closures
<1>2. UNCHANGED <<platform, extVersion, port, connected, draining, inbox>>
  BY DEF Invoke
<1>3. CASE port # "none" /\ RunWithPort(FirstStep(c)) /\ UNCHANGED <<acquiring, waiting>>
  <2>1. PortInv'
    BY <1>2, <1>3 DEF OrderInv, PortInv, NoStrandedWaiter, PostThrows
  <2>2. /\ jsApiVersion' = "1.1" => Modern'
        /\ ModernOnlyIfSupported'
        /\ VersionBeforeRequest'
        /\ jsApiVersion # "undefined" => jsApiVersion' # "undefined"
    BY <1>1, <1>2, <1>3, RunOrder DEF OrderInv, KnownInv
  <2>3. QED BY <1>2, <1>3, <2>1, <2>2 DEF OrderInv, FormInv, KnownInv
<1>4. CASE /\ port = "none"
           /\ IF NeedsPort THEN StartAcquiring ELSE UNCHANGED acquiring
           /\ waiting' = Append(waiting, FirstStep(c))
           /\ UNCHANGED <<callVars, outbox>>
  <2>1. /\ waiting' # <<>>
        /\ \A k \in 1..Len(waiting') :
             \/ k \in 1..Len(waiting) /\ waiting'[k] = waiting[k]
             \/ waiting'[k] = FirstStep(c)
    BY <1>1, <1>4 DEF TypeOK
  <2>2. acquiring' # "done"
    BY <1>4 DEF TypeOK, OrderInv, PortInv, StartAcquiring, AllPlatforms
  <2>3. PortInv'
    BY <1>2, <1>4, <2>1, <2>2 DEF OrderInv, PortInv, NoStrandedWaiter
  <2>4. FormInv'
    BY <1>2, <1>4 DEF OrderInv, FormInv, callVars, Modern, ModernOnlyIfSupported
  <2>5. KnownInv'
    BY <1>1, <1>4, <2>1 DEF OrderInv, KnownInv, callVars, VersionBeforeRequest
  <2>6. QED BY <2>3, <2>4, <2>5 DEF OrderInv
<1>5. QED BY <1>3, <1>4 DEF Invoke

LEMMA AcquireOrder ==
  ASSUME IInv, OrderInv, Acquire
  PROVE  OrderInv'
<1>1. CASE ProbeAnswered \/ IframeLoaded
  BY <1>1 DEF ProbeAnswered, IframeLoaded, callVars, extVars, OrderInv, PortInv, FormInv,
     KnownInv, NoStrandedWaiter, PostThrows, Modern, ModernOnlyIfSupported,
     VersionBeforeRequest
<1>2. CASE \E p \in Ports \ {"none"} : acquiring # "done" /\ PortArrives(p)
  <2>1. PICK p \in Ports \ {"none"} : acquiring # "done" /\ PortArrives(p)
    BY <1>2
  <2>2. port = "none" /\ ~Wrapped(port)
    BY <2>1 DEF OrderInv, PortInv, Wrapped
  <2>3. PortInv'
    BY <2>1 DEF PortArrives, PortInv, NoStrandedWaiter
  <2>4. FormInv'
    BY <2>1, <2>2 DEF PortArrives, callVars, extVars, OrderInv, FormInv, Modern,
       ModernOnlyIfSupported
  <2>5. KnownInv'
    BY <2>1 DEF PortArrives, callVars, extVars, OrderInv, KnownInv, VersionBeforeRequest
  <2>6. QED BY <2>3, <2>4, <2>5 DEF OrderInv
<1>3. CASE TimerFires
  <2>1. platform \in {"chromeRuntime", "androidChrome", "iosChrome"}
    BY <1>3 DEF TimerFires, IInv, Fits, TypeOK, AllPlatforms
  <2>2. QED BY <1>2, <1>3, <2>1 DEF TimerFires, Ports
<1>4. CASE IframeReady
  BY <1>2, <1>4 DEF IframeReady, Ports
<1>5. QED BY <1>1, <1>3, <1>4 DEF Acquire

LEMMA DrainOrder ==
  ASSUME IInv, OrderInv, DrainOne
  PROVE  OrderInv'
<1>1. /\ waiting \in Seq(Closures) /\ waiting # <<>>
      /\ waiting' = Tail(waiting) /\ RunWithPort(Head(waiting))
      /\ UNCHANGED <<platform, acquiring, port, connected, extVersion, inbox>>
      /\ draining /\ draining' = DrainGoesOn
  BY DEF DrainOne, portVars, IInv, TypeOK
<1>2. /\ Head(waiting) \in Closures /\ Head(waiting) = waiting[1]
      /\ 1 \in 1..Len(waiting)
      /\ \A k \in 1..Len(Tail(waiting)) :
           k + 1 \in 1..Len(waiting) /\ Tail(waiting)[k] = waiting[k + 1]
  BY <1>1
<1>3. /\ jsApiVersion' = "1.1" => Modern'
      /\ ModernOnlyIfSupported'
      /\ VersionBeforeRequest'
      /\ jsApiVersion # "undefined" => jsApiVersion' # "undefined"
  BY <1>1, <1>2, RunOrder DEF IInv, OrderInv, KnownInv
<1>4. PortInv'
  <2>1. port # "none" BY <1>1 DEF OrderInv, PortInv
  <2>2. NoStrandedWaiter'
    BY <1>1 DEF NoStrandedWaiter, DrainGoesOn, PostThrows
  <2>3. QED BY <1>1, <2>1, <2>2 DEF OrderInv, PortInv
<1>5. QED BY <1>1, <1>2, <1>3, <1>4 DEF OrderInv, FormInv, KnownInv

LEMMA AnswerOrder ==
  ASSUME IInv, OrderInv, NEW r \in inbox,
         IgnoreResponse(r) \/ HandleAnswer(r) \/ HandleVersion(r)
  PROVE  OrderInv'
<1>1. UNCHANGED <<portVars, waiting, draining, extVersion>>
  BY DEF IgnoreResponse, HandleAnswer, HandleVersion
<1>2. PortInv'
  BY <1>1 DEF portVars, OrderInv, PortInv, NoStrandedWaiter, PostThrows
<1>3. CASE UNCHANGED <<jsApiVersion, outbox>>
  BY <1>1, <1>2, <1>3 DEF portVars, OrderInv, FormInv, KnownInv, Modern,
     ModernOnlyIfSupported, VersionBeforeRequest
<1>4. CASE HandleVersion(r)
  <2> DEFINE version == IF r.body = "1.1" THEN "1.1" ELSE "legacy"
  <2>1. /\ jsApiVersion' = version
        /\ \A m \in outbox' : m \in outbox \/ m.format = FormatOf(version)
    BY <1>4, PostAdds DEF HandleVersion, SendRequest
  <2>2. version = "1.1" => extVersion = "1.1"
    BY DEF IInv, Carried, BodiesFor
  <2>3. version # "undefined" /\ (FormatOf(version) = "1.1" <=> version = "1.1")
    BY DEF FormatOf
  <2> HIDE DEF version
  <2>4. FormInv'
    BY <1>1, <2>1, <2>2, <2>3 DEF portVars, OrderInv, FormInv, Modern, ModernOnlyIfSupported
  <2>5. KnownInv'
    BY <1>1, <2>1, <2>3 DEF KnownInv, VersionBeforeRequest
  <2>6. QED BY <1>2, <2>4, <2>5 DEF OrderInv
<1>5. QED BY <1>3, <1>4 DEF IgnoreResponse, HandleAnswer, callVars

LEMMA ExtensionOrder ==
  ASSUME IInv, OrderInv, NEW m \in outbox, ExtAnswer(m) \/ ExtRepeat(m) \/ ExtAnonymous(m)
  PROVE  OrderInv'
<1>1. /\ outbox' \subseteq outbox
      /\ UNCHANGED <<portVars, waiting, draining, callVars, extVersion>>
  BY DEF ExtAnswer, ExtRepeat, ExtAnonymous
<1>2. QED
  BY <1>1 DEF portVars, callVars, OrderInv, PortInv, FormInv, KnownInv, NoStrandedWaiter,
     PostThrows, Modern, ModernOnlyIfSupported, VersionBeforeRequest

(* The queue of a page that loses its extension is empty already, unless   *)
(* the port has not come yet.                                              *)
LEMMA DisconnectOrder ==
  ASSUME IInv, OrderInv, Disconnect
  PROVE  OrderInv'
BY DEF Disconnect, callVars, IInv, TypeOK, OrderInv, PortInv, FormInv, KnownInv,
   NoStrandedWaiter, PostThrows, Modern, ModernOnlyIfSupported, VersionBeforeRequest

LEMMA NextOrder == IInv /\ OrderInv /\ [Next]_vars => OrderInv'
<1> SUFFICES ASSUME IInv, OrderInv, [Next]_vars PROVE OrderInv'
  OBVIOUS
<1>1. CASE UNCHANGED vars
  BY <1>1 DEF vars, OrderInv, PortInv, FormInv, KnownInv, NoStrandedWaiter,
     PostThrows, Modern, ModernOnlyIfSupported, VersionBeforeRequest
<1>2. CASE Next
  BY <1>2, InvokeOrder, AcquireOrder, DrainOrder, AnswerOrder, ExtensionOrder,
     DisconnectOrder DEF Next, Acquire, IInv
<1>3. QED BY <1>1, <1>2

LEMMA SpecOrder == Spec => []OrderInv
BY InitOrder, NextOrder, SpecIInv, PTL DEF Spec

-----------------------------------------------------------------------------
(* For any calls on any platform: a request of the 1.1 form only goes to a *)
(* counterpart that speaks it (formatSignRequest_).                        *)
THEOREM FormUnderstood == Spec => []ModernOnlyIfSupported
BY SpecOrder, PTL DEF OrderInv, FormInv

(* No sign or register request leaves before a version is known (u2f.sign, *)
(* u2f.register).                                                          *)
THEOREM VersionFirst == Spec => []VersionBeforeRequest
BY SpecOrder, PTL DEF OrderInv, KnownInv

(* Once the port is there, only a lost extension leaves a call in the      *)
(* queue (getPortSingleton_).                                              *)
THEOREM QueueEmptied == Spec => []NoStrandedWaiter
BY SpecOrder, PTL DEF OrderInv, PortInv

(* The steps of an acquisition go forward.                                 *)
LEMMA Forward ==
  ASSUME IInv, PortInv, Acquire \/ (StartAcquiring /\ acquiring = "idle")
  PROVE  Progress(acquiring') > Progress(acquiring)
<1>1. /\ Progress("idle") = 0 /\ Progress("probing") = 1 /\ Progress("iframe") = 2
      /\ Progress("timer") = 3 /\ Progress("inited") = 3 /\ Progress("done") = 4
  BY DEF Progress
<1>2. \/ acquiring = "idle" /\ acquiring' \in {"probing", "timer", "iframe"}
      \/ acquiring = "probing" /\ acquiring' \in {"timer", "iframe"}
      \/ acquiring = "iframe" /\ acquiring' = "inited"
      \/ acquiring \in {"timer", "inited"} /\ acquiring' = "done"
  BY DEF StartAcquiring, Acquire, ProbeAnswered, TimerFires, IframeLoaded, IframeReady,
     PortArrives, IInv, TypeOK, AllPlatforms
<1>3. QED BY <1>1, <1>2

(* The acquisition goes forward only, and the port it ends in stays        *)
(* (getPortSingleton_, getMessagePort).                                    *)
THEOREM AcquiredOnce == Spec => AcquireOnce
<1> DEFINE A == /\ acquiring' # acquiring => Progress(acquiring') > Progress(acquiring)
                /\ port # "none" => port' = port /\ acquiring' = acquiring
<1>1. ASSUME IInv, OrderInv, [Next]_vars PROVE A
  <2>1. CASE UNCHANGED <<acquiring, port>>
    BY <2>1
  <2>2. ASSUME NEW c \in Calls, Invoke(c) PROVE A
    <3>1. CASE StartAcquiring /\ waiting = <<>> /\ port = "none"
      BY <1>1, <3>1, Forward DEF OrderInv, PortInv
    <3>2. QED BY <2>1, <2>2, <3>1 DEF Invoke, NeedsPort
  <2>3. CASE Acquire
    <3>1. port = "none"
      BY <1>1, <2>3 DEF Acquire, ProbeAnswered, TimerFires, IframeLoaded, IframeReady,
         OrderInv, PortInv
    <3>2. QED BY <1>1, <2>3, <3>1, Forward DEF OrderInv
  <2>4. CASE DrainOne \/ Disconnect
    BY <2>1, <2>4 DEF DrainOne, Disconnect, portVars
  <2>5. ASSUME NEW r \in inbox, IgnoreResponse(r) \/ HandleAnswer(r) \/ HandleVersion(r)
        PROVE  A
    BY <2>1, <2>5 DEF IgnoreResponse, HandleAnswer, HandleVersion, portVars
  <2>6. ASSUME NEW m \in outbox, ExtAnswer(m) \/ ExtRepeat(m) \/ ExtAnonymous(m)
        PROVE  A
    BY <2>1, <2>6 DEF ExtAnswer, ExtRepeat, ExtAnonymous, portVars
  <2>7. CASE UNCHANGED vars
    BY <2>1, <2>7 DEF vars
  <2> HIDE DEF A
  <2>8. QED
    BY <1>1, <2>2, <2>3, <2>4, <2>5, <2>6, <2>7 DEF Next, Acquire
<1>2. QED
  BY <1>1, SpecIInv, SpecOrder, PTL DEF Spec, AcquireOnce
=============================================================================
