------------------------------- MODULE FeedList -------------------------------
(***************************************************************************)
(* From the feed to the list of the discovery page (IdPSelectUI): copies   *)
(* of a provider are taken out (aK), then the hidden ones (u), then the    *)
(* list is sorted by name (draw).  Both loops shrink the array they walk.  *)
(***************************************************************************)
EXTENDS Naturals, Sequences, SequencesExt

CONSTANTS
  FeedIds,     \* entity ids
  HiddenIds,   \* hiddenIdPs of the configuration, a sequence
  Ranks,       \* places of the names in the browser's order
  MaxFeed      \* bound of the model: the entries of a feed

ASSUME FeedListAssumption ==
  HiddenIds \in Seq(FeedIds) /\ Ranks \subseteq Nat /\ MaxFeed \in Nat

VARIABLES
  feedSent,  \* the feed as the server sent it
  r,         \* the list, which starts as the feed
  seen,      \* aO of aK: the ids met
  place,     \* aN: the index of the loop, from 1
  work       \* which loop is at work

feedVars == <<feedSent, r, seen, place, work>>

\* Copies of a provider may have different names.
FeedEntries == [id : FeedIds, rank : Ranks]

FeedInit ==
  /\ feedSent \in BoundedSeq(FeedEntries, MaxFeed)
  /\ r = feedSent
  /\ seen = {} /\ place = 1 /\ work = "copies"

\* One turn of aK: what is taken out brings the next entry to the index, which
\* stays; the slip moves on all the same.
AfterRemovalOn == place + 1
AfterRemoval == place

DropCopies ==
  /\ work = "copies" /\ place <= Len(r)
  /\ IF r[place].id \in seen
     THEN r' = RemoveAt(r, place) /\ place' = AfterRemoval /\ UNCHANGED seen
     ELSE seen' = seen \cup {r[place].id} /\ place' = place + 1 /\ UNCHANGED r
  /\ UNCHANGED <<feedSent, work>>

CopiesDropped ==
  /\ work = "copies" /\ place > Len(r)
  /\ work' = "hidden" /\ place' = 1
  /\ UNCHANGED <<feedSent, r, seen>>

\* One turn of u: the first entry of a hidden id goes, the search stops there.
DropHidden ==
  /\ work = "hidden" /\ place <= Len(HiddenIds)
  /\ r' = LET hits == {n \in DOMAIN r : r[n].id = HiddenIds[place]}
          IN  IF hits = {} THEN r
              ELSE RemoveAt(r, CHOOSE n \in hits : \A m \in hits : n <= m)
  /\ place' = place + 1
  /\ UNCHANGED <<feedSent, seen, work>>

\* The order of entries of one name is the browser's.
SortByName ==
  /\ work = "hidden" /\ place > Len(HiddenIds)
  /\ \E order \in SetToSeqs(DOMAIN r) :
       /\ \A m, n \in DOMAIN r : m < n => r[order[m]].rank <= r[order[n]].rank
       /\ r' = [n \in DOMAIN r |-> r[order[n]]]
  /\ work' = "done"
  /\ UNCHANGED <<feedSent, seen, place>>

FeedNext ==
  \/ DropCopies \/ CopiesDropped \/ DropHidden \/ SortByName
  \/ work = "done" /\ UNCHANGED feedVars

FeedSpec == FeedInit /\ [][FeedNext]_feedVars

(***************************************************************************)
(* Properties.                                                             *)
(***************************************************************************)
\* The entries that stand for their providers: the first of each.
Firsts ==
  {feedSent[n] : n \in {n \in DOMAIN feedSent :
                          \A m \in 1..(n - 1) : feedSent[m].id # feedSent[n].id}}

\* Whatever copies a feed has and wherever they stand, the list drawn (aK, u,
\* sort) has the first entry of every provider that is not hidden, once, in
\* the order of the names, and no copy of a hidden one.
EachProviderOnce ==
  work = "done" =>
    /\ Range(r) = {e \in Firsts : e.id \notin Range(HiddenIds)}
    /\ IsInjective(r)
    /\ \A m, n \in DOMAIN r : m < n => r[m].rank <= r[n].rank
=============================================================================
