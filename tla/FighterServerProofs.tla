------------------------ MODULE FighterServerProofs -------------------------
(***************************************************************************)
(* The invariants of FighterServer that hold for any number of sessions,   *)
(* any map and any capacities.                                             *)
(***************************************************************************)
EXTENDS FighterServer, SectorProofs, SequencesExt, FiniteSetTheorems, SequenceTheorems

(* Sequences in which no element occurs twice: what the queue of free ids   *)
(* and the disconnect list are.                                             *)
LEMMA Member ==
  ASSUME NEW S, NEW q \in Seq(S), NEW e
  PROVE  e \in ToSet(q) <=> \E i \in 1 .. Len(q) : q[i] = e
BY DOMAIN q = 1 .. Len(q) DEF ToSet

LEMMA MembersInSet ==
  ASSUME NEW S, NEW q \in Seq(S)
  PROVE  ToSet(q) \subseteq S
BY Member, ElementOfSeq

(* Taking the head of such a sequence takes one element away. *)
LEMMA TailSet ==
  ASSUME NEW S, NEW q \in Seq(S), q # << >>, IsInjective(q)
  PROVE  /\ Head(q) \in ToSet(q)
         /\ Tail(q) \in Seq(S)
         /\ ToSet(Tail(q)) = ToSet(q) \ {Head(q)}
         /\ IsInjective(Tail(q))
<1> DEFINE n == Len(q)
           r == Tail(q)
<1>1. /\ n \in Nat \ {0}
      /\ Head(q) = q[1]
      /\ r \in Seq(S)
      /\ Len(r) = n - 1
      /\ DOMAIN q = 1 .. n
      /\ DOMAIN r = 1 .. n - 1
      /\ \A i \in 1 .. n - 1 : r[i] = q[i + 1]
  BY HeadTailProperties
<1> HIDE DEF n, r
<1>m. \A e : /\ e \in ToSet(q) <=> \E i \in 1 .. n : q[i] = e
             /\ e \in ToSet(r) <=> \E i \in 1 .. n - 1 : r[i] = e
  BY <1>1 DEF ToSet
<1>2. ASSUME NEW e \in ToSet(q), e # Head(q) PROVE e \in ToSet(r)
  <2>1. PICK i \in 1 .. n : q[i] = e
    BY <1>m, <1>2
  <2>2. i # 1
    BY <1>1, <1>2, <2>1
  <2>3. PICK k \in 1 .. n - 1 : k + 1 = i
    BY <1>1, <2>2
  <2>4. QED
    BY <1>1, <1>m, <2>1, <2>3
<1>3. ASSUME NEW e \in ToSet(r) PROVE e \in ToSet(q) /\ e # Head(q)
  <2>1. PICK i \in 1 .. n - 1 : r[i] = e
    BY <1>m, <1>3
  <2>2. q[i + 1] = e /\ i + 1 \in 1 .. n /\ i + 1 # 1
    BY <1>1, <2>1
  <2>3. q[1] # e
    BY <1>1, <2>2 DEF IsInjective
  <2>4. QED
    BY <1>1, <1>m, <2>2, <2>3
<1>4. IsInjective(r)
  <2>1. ASSUME NEW i \in 1 .. n - 1, NEW j \in 1 .. n - 1, r[i] = r[j]
        PROVE  i = j
    <3>1. i + 1 \in 1 .. n /\ j + 1 \in 1 .. n /\ q[i + 1] = q[j + 1]
      BY <1>1, <2>1
    <3>2. i + 1 = j + 1
      BY <1>1, <3>1 DEF IsInjective
    <3>3. QED
      BY <3>2
  <2>2. QED
    BY <1>1, <2>1 DEF IsInjective
<1>5. Head(q) \in ToSet(q)
  BY <1>1, <1>m
<1>6. QED
  BY <1>1, <1>2, <1>3, <1>4, <1>5 DEF r

(* Joining two of them that have no element in common. *)
LEMMA ConcatSet ==
  ASSUME NEW S, NEW q \in Seq(S), NEW r \in Seq(S), IsInjective(q), IsInjective(r),
         ToSet(q) \cap ToSet(r) = {}
  PROVE  /\ q \o r \in Seq(S)
         /\ ToSet(q \o r) = ToSet(q) \cup ToSet(r)
         /\ IsInjective(q \o r)
         /\ q # << >> => q \o r # << >> /\ Head(q \o r) = Head(q)
<1> DEFINE m == Len(q)
           n == Len(r)
           c == q \o r
<1>1. /\ m \in Nat /\ n \in Nat
      /\ c \in Seq(S)
      /\ Len(c) = m + n
      /\ DOMAIN q = 1 .. m /\ DOMAIN r = 1 .. n /\ DOMAIN c = 1 .. m + n
      /\ \A i \in 1 .. m + n : c[i] = IF i <= m THEN q[i] ELSE r[i - m]
  BY ConcatProperties
<1>h. q # << >> => c # << >> /\ Head(c) = Head(q)
  OBVIOUS
<1> HIDE DEF m, n, c
<1>m. \A e : /\ e \in ToSet(q) <=> \E i \in 1 .. m : q[i] = e
             /\ e \in ToSet(r) <=> \E i \in 1 .. n : r[i] = e
             /\ e \in ToSet(c) <=> \E i \in 1 .. m + n : c[i] = e
  BY <1>1 DEF ToSet
<1>2. ASSUME NEW e \in ToSet(c) PROVE e \in ToSet(q) \cup ToSet(r)
  <2>1. PICK i \in 1 .. m + n : c[i] = e
    BY <1>m, <1>2
  <2>2. CASE i <= m
    BY <1>1, <1>m, <2>1, <2>2
  <2>3. CASE i > m
    <3>1. i - m \in 1 .. n /\ r[i - m] = e
      BY <1>1, <2>1, <2>3
    <3>2. QED
      BY <1>m, <3>1
  <2>4. QED
    BY <1>1, <2>2, <2>3
<1>3. ASSUME NEW e \in ToSet(q) PROVE e \in ToSet(c)
  <2>1. PICK i \in 1 .. m : q[i] = e
    BY <1>m, <1>3
  <2>2. i \in 1 .. m + n /\ c[i] = e
    BY <1>1, <2>1
  <2>3. QED
    BY <1>m, <2>2
<1>4. ASSUME NEW e \in ToSet(r) PROVE e \in ToSet(c)
  <2>1. PICK i \in 1 .. n : r[i] = e
    BY <1>m, <1>4
  <2>2. m + i \in 1 .. m + n /\ ~(m + i <= m) /\ (m + i) - m = i
    BY <1>1, <2>1
  <2>3. c[m + i] = e
    BY <1>1, <2>1, <2>2
  <2>4. QED
    BY <1>m, <2>2, <2>3
<1>5. ASSUME NEW k \in 1 .. m + n
      PROVE  /\ k <= m => k \in 1 .. m /\ c[k] = q[k] /\ c[k] \in ToSet(q)
             /\ ~(k <= m) => k - m \in 1 .. n /\ c[k] = r[k - m] /\ c[k] \in ToSet(r)
  <2>1. CASE k <= m
    BY <1>1, <1>m, <2>1
  <2>2. CASE ~(k <= m)
    <3>1. k - m \in 1 .. n /\ c[k] = r[k - m]
      BY <1>1, <2>2
    <3>2. QED
      BY <1>m, <2>2, <3>1
  <2>3. QED
    BY <2>1, <2>2
<1>6. ASSUME NEW i \in 1 .. m + n, NEW j \in 1 .. m + n, c[i] = c[j]
      PROVE  i = j
  <2>1. CASE i <= m /\ j <= m
    BY <1>1, <1>5, <1>6, <2>1 DEF IsInjective
  <2>2. CASE ~(i <= m) /\ ~(j <= m)
    <3>1. i - m \in 1 .. n /\ j - m \in 1 .. n /\ r[i - m] = r[j - m]
      BY <1>5, <1>6, <2>2
    <3>2. i - m = j - m
      BY <1>1, <3>1 DEF IsInjective
    <3>3. QED
      BY <1>1, <3>2
  <2>3. CASE i <= m /\ ~(j <= m)
    BY <1>5, <1>6, <2>3
  <2>4. CASE ~(i <= m) /\ j <= m
    BY <1>5, <1>6, <2>4
  <2>5. QED
    BY <2>1, <2>2, <2>3, <2>4
<1>7. IsInjective(c)
  BY <1>1, <1>6 DEF IsInjective
<1>8. ToSet(c) = ToSet(q) \cup ToSet(r)
  BY <1>2, <1>3, <1>4
<1>9. QED
  BY <1>1, <1>h, <1>7, <1>8 DEF c

(* Appending an element that is not there yet. *)
LEMMA AppendSet ==
  ASSUME NEW S, NEW q \in Seq(S), NEW e \in S, IsInjective(q), e \notin ToSet(q)
  PROVE  /\ Append(q, e) \in Seq(S)
         /\ ToSet(Append(q, e)) = ToSet(q) \cup {e}
         /\ IsInjective(Append(q, e))
<1> DEFINE r == << e >>
<1>1. /\ r \in Seq(S)
      /\ Append(q, e) = q \o r
      /\ DOMAIN r = {1}
      /\ r[1] = e
  BY AppendIsConcat
<1> HIDE DEF r
<1>2. ToSet(r) = {e} /\ IsInjective(r)
  BY <1>1 DEF ToSet, IsInjective
<1>3. ToSet(q) \cap ToSet(r) = {}
  BY <1>2
<1>4. /\ q \o r \in Seq(S)
      /\ ToSet(q \o r) = ToSet(q) \cup ToSet(r)
      /\ IsInjective(q \o r)
  BY <1>1, <1>2, <1>3, ConcatSet
<1>5. QED
  BY <1>1, <1>2, <1>4

(* The sequences that list a finite set list exactly its elements, once. *)
LEMMA ListsOfSet ==
  ASSUME NEW S, IsFiniteSet(S), NEW f \in SetToSeqs(S)
  PROVE  f \in Seq(S) /\ ToSet(f) = S /\ IsInjective(f)
<1> DEFINE n == Cardinality(S)
<1>1. n \in Nat
  BY FS_CardinalityType
<1>2. f \in [1 .. n -> S] /\ (\A i, j \in 1 .. n : i # j => f[i] # f[j])
  BY DEF SetToSeqs
<1> HIDE DEF n
<1>3. f \in Seq(S)
  BY <1>1, <1>2, SeqDef
<1>4. f \in Injection(1 .. n, S)
  BY <1>2 DEF Injection, IsInjective
<1>5. Cardinality(1 .. n) = n
  BY <1>1, FS_Interval
<1>6. f \in Surjection(1 .. n, S)
  BY <1>4, <1>5, FS_Injection DEF n
<1>7. ToSet(f) = S
  BY <1>2, <1>6 DEF Surjection, ToSet
<1>8. IsInjective(f)
  BY <1>2 DEF IsInjective
<1>9. QED
  BY <1>3, <1>7, <1>8
-----------------------------------------------------------------------------
Entries == [ copies : Int, act : Actions, hp : Int ]
Views   == [ Ids -> [ Ids -> Entries ] ]

(* Outside netIOProcess no socket is waiting for its turn. *)
Quiet == phase # "io" => readSet = {} /\ writeSet = {}

(* The inductive invariant, in the parts the actions change.  The types    *)
(* are not inductive alone: that the head of the disconnect list is a live *)
(* session, that an id taken from the queue is not in use, and that only   *)
(* players of live sessions are sent messages are the other conjuncts,     *)
(* each of which needs the others.                                         *)
LoopOK ==
  /\ phase \in {"io", "disconnect", "loop", "update"}
  /\ cursor \in 0 .. MaxSession + 1
  /\ readSet \in SUBSET ({0} \cup live)
  /\ writeSet \in SUBSET live
  /\ burst \in 0 .. MaxBurst - 1
  /\ Quiet

SessionsOK ==
  /\ live \in SUBSET Ids
  /\ freeIds \in Seq(Ids)
  /\ idle \in [ Ids -> 0 .. TimeoutFrames ]
  /\ closed \in SUBSET live
  /\ IdsConserved

OutOK ==
  /\ sendQ \in [ Ids -> 0 .. SendQCap ]
  /\ marked \in SUBSET Ids
  /\ discList \in Seq(Ids)
  /\ view \in Views
  /\ DisconnectListExact

PlayersOK ==
  /\ x \in [ Ids -> 0 .. MoveRight ]
  /\ y \in [ Ids -> 0 .. MoveBottom ]
  /\ act \in [ Ids -> Actions ]
  /\ hp \in [ Ids -> MinHP .. MaxHP ]
  /\ cur \in [ Ids -> Sectors ]
  /\ sector \in [ Sectors -> SUBSET Ids ]
  /\ SectorListsExact

IInv == LoopOK /\ SessionsOK /\ OutOK /\ PlayersOK

(* It implies each of the invariants the runs check. *)
LEMMA IInvImplies ==
  ASSUME IInv
  PROVE  TypeOK /\ IdsConserved /\ DisconnectListExact /\ SectorListsExact
BY DEF IInv, LoopOK, SessionsOK, OutOK, PlayersOK, TypeOK, Views, Entries

-----------------------------------------------------------------------------
(* Constants *)

LEMMA IdsFacts ==
  /\ Ids \subseteq Nat
  /\ Stop \in Actions
  /\ Actions \subseteq Int
  /\ Unknown \in Entries
  /\ Nobody \in [ Ids -> Entries ]
  /\ Origin \in Sectors
BY ServerAssumption, PlayerAssumption, CombatAssumption, GridSize
   DEF Ids, Stop, Actions, MoveDirs, Unknown, Nobody, Entries, Origin, Sectors

(* Every set of sessions is finite. *)
LEMMA IdsFinite ==
  ASSUME NEW S \in SUBSET Ids
  PROVE  IsFiniteSet(S) /\ Cardinality(S) \in Nat
<1>1. IsFiniteSet(Ids)
  BY ServerAssumption, FS_Interval DEF Ids
<1>2. IsFiniteSet(S)
  BY <1>1, FS_Subset
<1>3. QED
  BY <1>2, FS_CardinalityType

(* Whatever a message says of a player, a client's knowledge keeps its type.*)
LEMMA EntryTypes ==
  ASSUME NEW e \in Entries
  PROVE  /\ Deleted(e) \in Entries
         /\ \A a \in Actions : Heard(e, a) \in Entries
         /\ \A h \in Int : Damaged(e, h) \in Entries
         /\ \A a \in Actions, h \in Int : Created(e, a, h) \in Entries
<1>1. Unknown \in Entries /\ Stop \in Actions
  BY IdsFacts
<1>2. Deleted(e) \in Entries
  BY <1>1 DEF Deleted, Entries
<1>3. \A a \in Actions : Heard(e, a) \in Entries
  BY DEF Heard, Entries
<1>4. \A h \in Int : Damaged(e, h) \in Entries
  BY DEF Damaged, Entries
<1>5. \A a \in Actions, h \in Int : Created(e, a, h) \in Entries
  BY <1>1 DEF Created, Entries
<1>6. QED
  BY <1>2, <1>3, <1>4, <1>5

(* The counts a handler adds up. *)
LEMMA CountTypes ==
  ASSUME NEW m \in [ Ids -> Nat ], NEW n \in [ Ids -> Nat ], NEW S
  PROVE  /\ Plus(m, n) \in [ Ids -> Nat ]
         /\ One(S) \in [ Ids -> Nat ]
         /\ \A r \in Ids : Plus(m, n)[r] = m[r] + n[r]
         /\ \A r \in Ids : One(S)[r] = IF r \in S THEN 1 ELSE 0
BY DEF Plus, One

-----------------------------------------------------------------------------
(* Giving sessions up, and sending *)

(* However the sessions of S are put on the list, the list and the flags   *)
(* go on saying the same.                                                  *)
LEMMA Enqueued ==
  ASSUME NEW S \in SUBSET Ids, NEW l \in EnqueueForDeletion(S),
         discList \in Seq(Ids), ToSet(discList) = marked, IsInjective(discList)
  PROVE  /\ l \in Seq(Ids)
         /\ ToSet(l) = marked \cup S
         /\ IsInjective(l)
         /\ discList # << >> => l # << >> /\ Head(l) = Head(discList)
<1>1. PICK o \in SetToSeqs(S \ marked) : l = discList \o o
  BY DEF EnqueueForDeletion
<1>2. o \in Seq(S \ marked) /\ ToSet(o) = S \ marked /\ IsInjective(o)
  BY IdsFinite, ListsOfSet
<1>3. o \in Seq(Ids)
  BY <1>2, SeqMonotonic
<1>4. ToSet(discList) \cap ToSet(o) = {}
  BY <1>2
<1>5. QED
  BY <1>1, <1>2, <1>3, <1>4, ConcatSet

(* A handler that sends only to sessions that are live after it gives up   *)
(* no others.                                                              *)
LEMMA Delivered ==
  ASSUME IInv, live \subseteq live', live' \subseteq Ids,
         NEW n \in [ Ids -> Nat ], \A r \in Ids \ live' : n[r] = 0,
         NEW seen \in Views, NEW bad \in SUBSET live',
         Deliver(n, seen, bad)
  PROVE  OutOK'
<1> DEFINE lost == Overflowing(n) \cup bad
<1>1. /\ sendQ \in [ Ids -> 0 .. SendQCap ]
      /\ SendQCap \in Nat
      /\ marked \subseteq live
  BY ServerAssumption DEF IInv, OutOK, DisconnectListExact
<1>2. Overflowing(n) \subseteq live'
  BY <1>1 DEF Overflowing
<1>3. lost \in SUBSET Ids /\ lost \subseteq live'
  BY <1>2
<1>4. sendQ' \in [ Ids -> 0 .. SendQCap ]
  BY <1>1 DEF Deliver, Overflowing
<1>5. marked' = marked \cup lost /\ discList' \in EnqueueForDeletion(lost)
  BY DEF Deliver
<1> HIDE DEF lost
<1>6. /\ discList' \in Seq(Ids)
      /\ ToSet(discList') = marked'
      /\ IsInjective(discList')
  BY <1>3, <1>5, Enqueued DEF IInv, OutOK, DisconnectListExact
<1>7. view' \in Views
  BY IdsFacts DEF Deliver, Views
<1>8. QED
  BY <1>1, <1>3, <1>4, <1>5, <1>6, <1>7 DEF OutOK, DisconnectListExact

(* In particular one that sends nothing. *)
LEMMA GivenUp ==
  ASSUME IInv, live' = live, NEW bad \in SUBSET live, Deliver(One({}), view, bad)
  PROVE  OutOK'
<1>1. One({}) \in [ Ids -> Nat ] /\ (\A r \in Ids \ live' : One({})[r] = 0)
  BY DEF One
<1>2. live' \subseteq Ids /\ view \in Views
  BY DEF IInv, SessionsOK, OutOK
<1>3. QED
  BY <1>1, <1>2, Delivered

-----------------------------------------------------------------------------
(* The players in the lists of sectors *)

LEMMA AudienceLive ==
  ASSUME IInv, NEW T \in SUBSET Sectors
  PROVE  Audience(sector, T) \in SUBSET live
BY DEF Audience, IInv, PlayersOK, SectorListsExact

LEMMA AroundLive ==
  ASSUME IInv, NEW t \in Sectors
  PROVE  Audience(sector, GetSectorAround(t)) \in SUBSET live
<1>1. GetSectorAround(t) \subseteq Sectors
  BY AroundIsBlock DEF Block
<1>2. QED
  BY <1>1, AudienceLive

(* After a move the lists are those of the new sectors of the players. *)
LEMMA MovedListsExact ==
  ASSUME IInv, NEW p \in live, NEW t \in Sectors
  PROVE  /\ MovedLists(p, t) \in [ Sectors -> SUBSET Ids ]
         /\ \A u \in Sectors :
              MovedLists(p, t)[u] = { s \in live : [cur EXCEPT ![p] = t][s] = u }
<1>1. /\ sector \in [ Sectors -> SUBSET Ids ]
      /\ cur \in [ Ids -> Sectors ]
      /\ live \subseteq Ids
      /\ \A u \in Sectors : sector[u] = { s \in live : cur[s] = u }
  BY DEF IInv, SessionsOK, PlayersOK, SectorListsExact
<1>2. CASE t = cur[p]
  <2>1. MovedLists(p, t) = sector /\ [cur EXCEPT ![p] = t] = cur
    BY <1>1, <1>2 DEF MovedLists
  <2>2. QED
    BY <1>1, <2>1
<1>3. CASE t # cur[p]
  <2>1. MovedLists(p, t) = [ sector EXCEPT ![cur[p]] = @ \ {p}, ![t] = @ \cup {p} ]
    BY <1>3 DEF MovedLists
  <2>2. MovedLists(p, t) \in [ Sectors -> SUBSET Ids ]
    BY <1>1, <2>1
  <2>3. ASSUME NEW u \in Sectors
        PROVE  MovedLists(p, t)[u] = { s \in live : [cur EXCEPT ![p] = t][s] = u }
    <3>1. MovedLists(p, t)[u] = IF u = t THEN sector[t] \cup {p}
                                ELSE IF u = cur[p] THEN sector[u] \ {p} ELSE sector[u]
      BY <1>1, <1>3, <2>1
    <3>2. \A s \in live : [cur EXCEPT ![p] = t][s] = IF s = p THEN t ELSE cur[s]
      BY <1>1
    <3>3. QED
      BY <1>1, <1>3, <3>1, <3>2
  <2>4. QED
    BY <2>2, <2>3
<1>4. QED
  BY <1>2, <1>3

(* What crossing a border sends goes to live sessions and gives up only    *)
(* live sessions.                                                          *)
LEMMA SectorNewsTypes ==
  ASSUME IInv, NEW p \in live, NEW t \in Sectors, NEW a \in Actions
  PROVE  LET news == SectorNews(p, t, a)
         IN  /\ news.n \in [ Ids -> Nat ]
             /\ \A r \in Ids \ live : news.n[r] = 0
             /\ news.seen \in Views
             /\ news.bad \in SUBSET live
<1> DEFINE news == SectorNews(p, t, a)
<1>1. /\ live \subseteq Ids
      /\ view \in Views
      /\ act \in [ Ids -> Actions ]
      /\ hp \in [ Ids -> Int ]
      /\ cur \in [ Ids -> Sectors ]
  BY CombatAssumption DEF IInv, SessionsOK, OutOK, PlayersOK
<1>2. CASE t = cur[p]
  <2>1. news = [ n |-> One({}), seen |-> view, bad |-> {} ]
    BY <1>2 DEF SectorNews
  <2>2. QED
    BY <1>1, <2>1 DEF One
<1>3. CASE t # cur[p]
  <2> DEFINE upd     == GetUpdateSectorAround(cur[p], t)
             lost    == Audience(MovedLists(p, t), upd.remove)
             losers  == lost \ {p}
             gainers == Audience(MovedLists(p, t), upd.add) \ {p}
             walking == { q \in gainers : Moving(act[q]) }
  <2>1. news = CharacterSectorUpdatePacket(p, t, a)
    BY <1>3 DEF SectorNews
  <2>2. /\ upd.remove \subseteq Sectors
        /\ upd.add \subseteq Sectors
    BY <1>1, UpdateInSectors
  <2>3. \A u \in Sectors : MovedLists(p, t)[u] \subseteq live
    BY MovedListsExact
  <2> HIDE DEF upd
  <2>4. lost \subseteq live /\ gainers \subseteq live
    BY <2>2, <2>3 DEF Audience
  <2> HIDE DEF lost, gainers
  <2>5. /\ Cardinality(lost) \in Nat
        /\ Cardinality(gainers) \in Nat
        /\ Cardinality(walking) \in Nat
    BY <1>1, <2>4, IdsFinite
  <2> HIDE DEF walking
  <2>6. news.n = [ r \in Ids |->
                     IF r = p
                     THEN Cardinality(lost) + Cardinality(gainers) + Cardinality(walking)
                     ELSE One(losers)[r] + (IF Moving(a) THEN 2 ELSE 1) * One(gainers)[r] ]
    BY <2>1 DEF CharacterSectorUpdatePacket, lost, gainers, walking, upd
  <2>7. news.seen = [ r \in Ids |-> [ q \in Ids |->
                     IF (q = p /\ r \in losers) \/ (r = p /\ q \in lost)
                     THEN Deleted(view[r][q])
                     ELSE IF q = p /\ r \in gainers
                     THEN Created(view[r][q], a, hp[p])
                     ELSE IF r = p /\ q \in gainers
                     THEN Created(view[r][q], act[q], hp[q])
                     ELSE view[r][q] ] ]
    BY <2>1 DEF CharacterSectorUpdatePacket, lost, gainers, walking, upd
  <2>8. news.bad = { q \in gainers : Invalid(act[q]) } \cup { q \in {p} : Invalid(a) }
    BY <2>1 DEF CharacterSectorUpdatePacket, lost, gainers, walking, upd
  <2>9. ASSUME NEW r \in Ids
        PROVE  news.n[r] \in Nat /\ (r \notin live => news.n[r] = 0)
    <3>1. CASE r = p
      BY <2>5, <2>6, <3>1
    <3>2. CASE r # p
      <4>1. /\ One(losers)[r] = IF r \in losers THEN 1 ELSE 0
            /\ One(gainers)[r] = IF r \in gainers THEN 1 ELSE 0
        BY DEF One
      <4> DEFINE k == IF Moving(a) THEN 2 ELSE 1
      <4>2. k * 0 = 0 /\ k * 1 = k /\ k \in Nat
        OBVIOUS
      <4>3. news.n[r] = One(losers)[r] + k * One(gainers)[r]
        BY <2>6, <3>2
      <4> HIDE DEF k, news
      <4>4. r \notin live => r \notin losers /\ r \notin gainers
        BY <2>4
      <4>5. QED
        BY <4>1, <4>2, <4>3, <4>4
    <3>3. QED
      BY <3>1, <3>2
  <2>10. news.n \in [ Ids -> Nat ] /\ (\A r \in Ids \ live : news.n[r] = 0)
    BY <2>6, <2>9
  <2>11. ASSUME NEW r \in Ids, NEW q \in Ids
         PROVE  /\ Deleted(view[r][q]) \in Entries
                /\ Created(view[r][q], a, hp[p]) \in Entries
                /\ Created(view[r][q], act[q], hp[q]) \in Entries
                /\ view[r][q] \in Entries
    BY <1>1, EntryTypes DEF Views
  <2>12. news.seen \in Views
    BY <2>7, <2>11 DEF Views
  <2>13. news.bad \in SUBSET live
    <3>1. ASSUME NEW b \in news.bad PROVE b \in live
      <4>1. b \in gainers \/ b = p
        BY <2>8, <3>1
      <4>2. QED
        BY <2>4, <4>1
    <3>2. QED
      BY <3>1
  <2>14. QED
    BY <2>10, <2>12, <2>13
<1>4. QED
  BY <1>2, <1>3

(* Moving a player leaves every player in the list of its sector. *)
LEMMA Placed ==
  ASSUME IInv, live' = live, hp' = hp,
         NEW p \in live, NEW nx \in 0 .. MoveRight, NEW ny \in 0 .. MoveBottom,
         NEW a \in Actions, NEW sync \in SUBSET live, NEW others \in SUBSET live,
         Place(p, nx, ny, a, sync, others)
  PROVE  PlayersOK' /\ OutOK'
<1> DEFINE t    == SectorOf(nx, ny)
           news == SectorNews(p, t, a)
           n    == Plus(news.n, Plus(One(sync), One(others)))
           seen == [ r \in Ids |-> [ q \in Ids |->
                       IF q = p /\ r \in others THEN Heard(news.seen[r][q], a)
                       ELSE news.seen[r][q] ] ]
<1>1. t \in Sectors
  BY PositionHasSector
<1>2. /\ x' = [x EXCEPT ![p] = nx]
      /\ y' = [y EXCEPT ![p] = ny]
      /\ act' = [act EXCEPT ![p] = a]
      /\ cur' = [cur EXCEPT ![p] = t]
      /\ sector' = MovedLists(p, t)
      /\ Deliver(n, seen, news.bad)
  BY DEF Place
<1>3. /\ news.n \in [ Ids -> Nat ]
      /\ \A r \in Ids \ live : news.n[r] = 0
      /\ news.seen \in Views
      /\ news.bad \in SUBSET live
  BY <1>1, SectorNewsTypes
<1>t. t = SectorOf(nx, ny)
  OBVIOUS
<1> HIDE DEF t, news
<1>4. PlayersOK'
  <2>1. /\ live \subseteq Ids
        /\ x \in [ Ids -> 0 .. MoveRight ]
        /\ y \in [ Ids -> 0 .. MoveBottom ]
        /\ act \in [ Ids -> Actions ]
        /\ hp \in [ Ids -> MinHP .. MaxHP ]
        /\ cur \in [ Ids -> Sectors ]
        /\ \A s \in live : cur[s] = SectorOf(x[s], y[s])
    BY DEF IInv, SessionsOK, PlayersOK, SectorListsExact
  <2>2. /\ sector' \in [ Sectors -> SUBSET Ids ]
        /\ \A u \in Sectors : sector'[u] = { s \in live : cur'[s] = u }
    BY <1>1, <1>2, MovedListsExact
  <2>3. ASSUME NEW s \in live PROVE cur'[s] = SectorOf(x'[s], y'[s])
    <3>1. CASE s = p
      BY <1>2, <1>t, <2>1, <3>1
    <3>2. CASE s # p
      BY <1>2, <2>1, <3>2
    <3>3. QED
      BY <3>1, <3>2
  <2>4. /\ x' \in [ Ids -> 0 .. MoveRight ]
        /\ y' \in [ Ids -> 0 .. MoveBottom ]
        /\ act' \in [ Ids -> Actions ]
        /\ hp' \in [ Ids -> MinHP .. MaxHP ]
        /\ cur' \in [ Ids -> Sectors ]
    BY <1>1, <1>2, <2>1
  <2>5. QED
    BY <2>2, <2>3, <2>4 DEF PlayersOK, SectorListsExact
<1>5. OutOK'
  <2>1. /\ n \in [ Ids -> Nat ]
        /\ \A r \in Ids : n[r] = news.n[r] + (One(sync)[r] + One(others)[r])
        /\ \A r \in Ids : /\ One(sync)[r] = IF r \in sync THEN 1 ELSE 0
                          /\ One(others)[r] = IF r \in others THEN 1 ELSE 0
    BY <1>3, CountTypes
  <2> HIDE DEF n
  <2>2. \A r \in Ids \ live : n[r] = 0
    BY <1>3, <2>1
  <2>3. \A r, q \in Ids : /\ news.seen[r][q] \in Entries
                          /\ Heard(news.seen[r][q], a) \in Entries
    BY <1>3, EntryTypes DEF Views
  <2>4. seen \in Views
    BY <2>3 DEF Views
  <2> HIDE DEF seen
  <2>5. QED
    BY <1>2, <1>3, <2>1, <2>2, <2>4, Delivered DEF IInv, SessionsOK
<1>6. QED
  BY <1>4, <1>5

-----------------------------------------------------------------------------
(* The invariant holds initially, and each action preserves it. *)

LEMMA InitInv ==
  Init => IInv
<1> SUFFICES ASSUME Init PROVE IInv
  OBVIOUS
<1>1. /\ 0 \in 0 .. MoveRight /\ 0 \in 0 .. MoveBottom
      /\ MaxHP \in MinHP .. MaxHP
      /\ 0 \in 0 .. SendQCap /\ 0 \in 0 .. TimeoutFrames
      /\ 0 \in 0 .. MaxSession + 1
      /\ 0 \in 0 .. MaxBurst - 1
  BY GridAssumption, ServerAssumption, CombatAssumption
<1>2. LoopOK
  BY <1>1 DEF Init, LoopOK, Quiet
<1>3. SessionsOK
  <2> DEFINE f == [ i \in 1 .. MaxSession |-> i ]
  <2>1. f \in [ 1 .. MaxSession -> Ids ] /\ f \in Seq(Ids)
    BY ServerAssumption, SeqDef DEF Ids
  <2>2. ToSet(f) = Ids /\ IsInjective(f)
    BY DEF ToSet, IsInjective, Ids
  <2>3. freeIds = f /\ live = {} /\ closed = {} /\ idle = [ s \in Ids |-> 0 ]
    BY DEF Init
  <2> HIDE DEF f
  <2>4. QED
    BY <1>1, <2>1, <2>2, <2>3 DEF SessionsOK, IdsConserved
<1>4. OutOK
  <2>1. ToSet(<< >>) = {} /\ IsInjective(<< >>) /\ << >> \in Seq(Ids)
    BY DEF ToSet, IsInjective
  <2>2. QED
    BY <1>1, <2>1, IdsFacts DEF Init, OutOK, Views, DisconnectListExact
<1>5. PlayersOK
  BY <1>1, IdsFacts DEF Init, PlayersOK, SectorListsExact
<1>6. QED
  BY <1>2, <1>3, <1>4, <1>5 DEF IInv

(* The variables of a part that an action leaves alone. *)
LEMMA SessionsUnchanged ==
  ASSUME SessionsOK, UNCHANGED << live, freeIds, idle, closed >>
  PROVE  SessionsOK'
BY DEF SessionsOK, IdsConserved

LEMMA OutUnchanged ==
  ASSUME OutOK, UNCHANGED << outVars, live >>
  PROVE  OutOK'
BY DEF OutOK, outVars, DisconnectListExact

LEMMA PlayersUnchanged ==
  ASSUME PlayersOK, UNCHANGED << playerVars, live >>
  PROVE  PlayersOK'
BY DEF PlayersOK, playerVars, SectorListsExact

LEMMA StutterInv ==
  ASSUME IInv, UNCHANGED vars
  PROVE  IInv'
<1>1. LoopOK'
  BY DEF IInv, LoopOK, Quiet, vars, loopVars
<1>2. QED
  BY <1>1, SessionsUnchanged, OutUnchanged, PlayersUnchanged DEF IInv, vars

LEMMA CloseConnectionInv ==
  ASSUME IInv, NEW s \in Ids, CloseConnection(s)
  PROVE  IInv'
<1>1. LoopOK'
  BY DEF CloseConnection, IInv, LoopOK, Quiet, loopVars
<1>2. SessionsOK'
  BY DEF CloseConnection, IInv, SessionsOK, IdsConserved
<1>3. QED
  BY <1>1, <1>2, OutUnchanged, PlayersUnchanged DEF CloseConnection, IInv

LEMMA SelectInv ==
  ASSUME IInv, Select
  PROVE  IInv'
<1>1. LoopOK'
  <2>1. Batch \subseteq {0} \cup live
    BY DEF Batch, Registrable
  <2>2. cursor' \in 0 .. MaxSession + 1
    <3>1. MaxSession + 1 \in 0 .. MaxSession + 1
      BY ServerAssumption
    <3>2. \A i \in Batch : i + 1 \in 0 .. MaxSession + 1
      BY <2>1, ServerAssumption DEF IInv, SessionsOK, Ids
    <3>3. QED
      BY <3>1, <3>2 DEF Select
  <2>3. readSet' \subseteq {0} \cup live /\ writeSet' \subseteq live
    BY <2>1 DEF Select
  <2>4. QED
    BY <2>2, <2>3 DEF Select, IInv, LoopOK, Quiet
<1>2. QED
  BY <1>1, SessionsUnchanged, OutUnchanged, PlayersUnchanged DEF Select, IInv

LEMMA EndOfIOInv ==
  ASSUME IInv, EndOfIO
  PROVE  IInv'
<1>1. LoopOK'
  BY DEF EndOfIO, Scanned, IInv, LoopOK, Quiet
<1>2. QED
  BY <1>1, SessionsUnchanged, OutUnchanged, PlayersUnchanged DEF EndOfIO, IInv

LEMMA AcceptNoneInv ==
  ASSUME IInv, AcceptNone
  PROVE  IInv'
<1>1. LoopOK'
  BY DEF AcceptNone, Reading, IInv, LoopOK, Quiet
<1>2. QED
  BY <1>1, SessionsUnchanged, OutUnchanged, PlayersUnchanged DEF AcceptNone, IInv

LEMMA AcceptInv ==
  ASSUME IInv, NEW px \in 0 .. MoveRight, NEW py \in 0 .. MoveBottom, Accept(px, py)
  PROVE  IInv'
<1> DEFINE s      == Head(freeIds)
           t      == SectorOf(px, py)
           others == Audience(sector, GetSectorAround(t))
           walking == { q \in others : Moving(act[q]) }
           n      == [ r \in Ids |->
                         IF r = s THEN 1 + Cardinality(others) + Cardinality(walking)
                         ELSE One(others)[r] ]
           seen   == [ r \in Ids |-> [ q \in Ids |->
                         IF \/ r = s /\ q \in others \cup {s}
                            \/ q = s /\ r \in others
                         THEN Created(view[r][q], act[q], hp[q])
                         ELSE view[r][q] ] ]
           bad    == { q \in others : Invalid(act[q]) }
<1>1. /\ phase = "io"
      /\ freeIds # << >>
      /\ freeIds' = Tail(freeIds)
      /\ live' = live \cup {s}
      /\ x' = [x EXCEPT ![s] = px]
      /\ y' = [y EXCEPT ![s] = py]
      /\ cur' = [cur EXCEPT ![s] = t]
      /\ sector' = [sector EXCEPT ![t] = @ \cup {s}]
      /\ Deliver(n, seen, bad)
      /\ readSet' = readSet \ {0}
      /\ UNCHANGED << phase, cursor, writeSet, burst, act, hp, idle, closed >>
  BY DEF Accept, TakenIds, Reading
<1>2. /\ s \in Ids \ live
      /\ Tail(freeIds) \in Seq(Ids)
      /\ ToSet(Tail(freeIds)) = (Ids \ live) \ {s}
      /\ IsInjective(Tail(freeIds))
  BY <1>1, TailSet DEF IInv, SessionsOK, IdsConserved
<1>3. /\ t \in Sectors
      /\ t = SectorOf(px, py)
  BY PositionHasSector
<1>4. others \subseteq live /\ live \subseteq Ids
  BY <1>3, AroundLive DEF IInv, SessionsOK
<1> HIDE DEF s, t, others
<1>5. LoopOK'
  BY <1>1 DEF IInv, LoopOK, Quiet
<1>6. SessionsOK'
  <2>1. live' \in SUBSET Ids /\ ToSet(freeIds') = Ids \ live'
    BY <1>1, <1>2, <1>4
  <2>2. QED
    BY <1>1, <1>2, <2>1 DEF IInv, SessionsOK, IdsConserved
<1>7. OutOK'
  <2>1. Cardinality(others) \in Nat /\ Cardinality(walking) \in Nat
    BY <1>4, IdsFinite
  <2>2. \A r \in Ids : One(others)[r] = IF r \in others THEN 1 ELSE 0
    BY DEF One
  <2> HIDE DEF walking
  <2>3. n \in [ Ids -> Nat ] /\ (\A r \in Ids \ live' : n[r] = 0)
    BY <1>1, <1>4, <2>1, <2>2
  <2>4. seen \in Views
    <3>1. \A r, q \in Ids : /\ view[r][q] \in Entries
                            /\ Created(view[r][q], act[q], hp[q]) \in Entries
      <4>1. /\ act \in [ Ids -> Actions ]
            /\ hp \in [ Ids -> Int ]
            /\ view \in Views
        BY CombatAssumption DEF IInv, OutOK, PlayersOK
      <4>2. QED
        BY <4>1, EntryTypes DEF Views
    <3>2. QED
      BY <3>1 DEF Views
  <2>5. bad \in SUBSET live'
    BY <1>1, <1>4
  <2>6. live \subseteq live' /\ live' \subseteq Ids
    BY <1>1, <1>2, <1>4
  <2> HIDE DEF n, seen, bad
  <2>7. QED
    BY <1>1, <2>3, <2>4, <2>5, <2>6, Delivered
<1>8. PlayersOK'
  <2>1. /\ x \in [ Ids -> 0 .. MoveRight ]
        /\ y \in [ Ids -> 0 .. MoveBottom ]
        /\ act \in [ Ids -> Actions ]
        /\ hp \in [ Ids -> MinHP .. MaxHP ]
        /\ cur \in [ Ids -> Sectors ]
        /\ sector \in [ Sectors -> SUBSET Ids ]
        /\ \A u \in Sectors : sector[u] = { q \in live : cur[q] = u }
        /\ \A q \in live : cur[q] = SectorOf(x[q], y[q])
    BY DEF IInv, PlayersOK, SectorListsExact
  <2>2. ASSUME NEW u \in Sectors PROVE sector'[u] = { q \in live' : cur'[q] = u }
    <3>1. sector'[u] = IF u = t THEN sector[u] \cup {s} ELSE sector[u]
      BY <1>1, <1>3, <2>1
    <3>2. \A q \in live' : cur'[q] = IF q = s THEN t ELSE cur[q]
      BY <1>1, <1>2, <1>4, <2>1
    <3>3. QED
      BY <1>1, <1>2, <2>1, <3>1, <3>2
  <2>3. ASSUME NEW q \in live' PROVE cur'[q] = SectorOf(x'[q], y'[q])
    <3>1. CASE q = s
      BY <1>1, <1>2, <1>3, <2>1, <3>1
    <3>2. CASE q # s
      BY <1>1, <1>4, <2>1, <3>2
    <3>3. QED
      BY <3>1, <3>2
  <2>4. /\ x' \in [ Ids -> 0 .. MoveRight ]
        /\ y' \in [ Ids -> 0 .. MoveBottom ]
        /\ cur' \in [ Ids -> Sectors ]
        /\ sector' \in [ Sectors -> SUBSET Ids ]
    BY <1>1, <1>2, <1>3, <2>1
  <2>5. QED
    BY <1>1, <2>1, <2>2, <2>3, <2>4 DEF PlayersOK, SectorListsExact
<1>9. QED
  BY <1>5, <1>6, <1>7, <1>8 DEF IInv

(* The end of a receive, and a message, only move the scan on. *)
LEMMA EndOfRecvParts ==
  ASSUME IInv, NEW s \in Ids, EndOfRecv(s),
         UNCHANGED << phase, cursor, writeSet, live, freeIds, closed >>
  PROVE  LoopOK' /\ SessionsOK'
<1>1. 0 \in 0 .. MaxBurst - 1 /\ 0 \in 0 .. TimeoutFrames
  BY ServerAssumption
<1>2. LoopOK'
  BY <1>1 DEF EndOfRecv, IInv, LoopOK, Quiet
<1>3. SessionsOK'
  BY <1>1 DEF EndOfRecv, IInv, SessionsOK, IdsConserved
<1>4. QED
  BY <1>2, <1>3

LEMMA RecvNothingInv ==
  ASSUME IInv, NEW s \in Ids, RecvNothing(s)
  PROVE  IInv'
BY EndOfRecvParts, OutUnchanged, PlayersUnchanged DEF RecvNothing, IInv

LEMMA ReadingLive ==
  ASSUME IInv, NEW s \in Ids, Reading(s)
  PROVE  s \in live /\ s # 0
BY IdsFacts DEF IInv, LoopOK, Reading, Ids

LEMMA RecvClosedInv ==
  ASSUME IInv, NEW s \in Ids, RecvClosed(s)
  PROVE  IInv'
<1>1. LoopOK' /\ SessionsOK'
  BY EndOfRecvParts DEF RecvClosed
<1>2. {s} \in SUBSET live /\ live' = live /\ Deliver(One({}), view, {s})
  BY ReadingLive DEF RecvClosed
<1>3. OutOK'
  BY <1>2, GivenUp
<1>4. QED
  BY <1>1, <1>3, PlayersUnchanged DEF RecvClosed, IInv

LEMMA MessageParts ==
  ASSUME IInv, NEW s \in Ids, Message(s)
  PROVE  LoopOK' /\ SessionsOK' /\ live' = live /\ s \in live
<1>1. s \in live /\ live' = live
  BY ReadingLive DEF Message
<1>2. CASE EndOfRecv(s)
  BY <1>1, <1>2, EndOfRecvParts DEF Message
<1>3. CASE /\ burst + 1 < MaxBurst
           /\ burst' = burst + 1
           /\ UNCHANGED << readSet, idle >>
  <2>1. burst' \in 0 .. MaxBurst - 1
    BY <1>3, ServerAssumption DEF IInv, LoopOK
  <2>2. LoopOK'
    BY <1>3, <2>1 DEF Message, IInv, LoopOK, Quiet
  <2>3. SessionsOK'
    BY <1>3, SessionsUnchanged DEF Message, IInv
  <2>4. QED
    BY <1>1, <2>2, <2>3
<1>4. QED
  BY <1>2, <1>3 DEF Message

LEMMA MoveStartInv ==
  ASSUME IInv, NEW s \in Ids, NEW d \in Actions,
         NEW px \in 0 .. MoveRight, NEW py \in 0 .. MoveBottom,
         MoveStart(s, d, px, py)
  PROVE  IInv'
<1> DEFINE far    == TooFar(s, px, py)
           nx     == IF far THEN x[s] ELSE px
           ny     == IF far THEN y[s] ELSE py
           sync   == IF far THEN Audience(sector, GetSectorAround(cur[s])) ELSE {}
           others == Audience(sector, GetSectorAround(SectorOf(nx, ny))) \ {s}
<1>1. Message(s) /\ Place(s, nx, ny, d, sync, others) /\ hp' = hp
  BY DEF MoveStart
<1>2. LoopOK' /\ SessionsOK' /\ live' = live /\ s \in live
  BY <1>1, MessageParts
<1> HIDE DEF far
<1>3. nx \in 0 .. MoveRight /\ ny \in 0 .. MoveBottom
  BY DEF IInv, PlayersOK
<1>4. sync \in SUBSET live
  BY AroundLive DEF IInv, PlayersOK
<1>5. others \in SUBSET live
  BY <1>3, PositionHasSector, AroundLive
<1> HIDE DEF nx, ny, sync, others
<1>6. PlayersOK' /\ OutOK'
  BY <1>1, <1>2, <1>3, <1>4, <1>5, Placed
<1>7. QED
  BY <1>2, <1>6 DEF IInv

LEMMA MoveStopInv ==
  ASSUME IInv, NEW s \in Ids,
         NEW px \in 0 .. MoveRight, NEW py \in 0 .. MoveBottom,
         MoveStop(s, px, py)
  PROVE  IInv'
<1> DEFINE far    == TooFar(s, px, py)
           nx     == IF far THEN x[s] ELSE px
           ny     == IF far THEN y[s] ELSE py
           sync   == IF far THEN {s} ELSE {}
           others == Audience(sector, GetSectorAround(SectorOf(nx, ny))) \ {s}
<1>1. Message(s) /\ Place(s, nx, ny, Stop, sync, others) /\ hp' = hp
  BY DEF MoveStop
<1>2. LoopOK' /\ SessionsOK' /\ live' = live /\ s \in live
  BY <1>1, MessageParts
<1> HIDE DEF far
<1>3. nx \in 0 .. MoveRight /\ ny \in 0 .. MoveBottom
  BY DEF IInv, PlayersOK
<1>4. sync \in SUBSET live
  BY <1>2
<1>5. others \in SUBSET live
  BY <1>3, PositionHasSector, AroundLive
<1> HIDE DEF nx, ny, sync, others
<1>6. PlayersOK' /\ OutOK'
  BY <1>1, <1>2, <1>3, <1>4, <1>5, IdsFacts, Placed
<1>7. QED
  BY <1>2, <1>6 DEF IInv

(* An attack is seen by live sessions, wherever the client claims to be. *)
LEMMA MotionAudienceLive ==
  ASSUME IInv, NEW s, NEW k, NEW px \in 0 .. MoveRight, NEW py \in 0 .. MoveBottom
  PROVE  MotionAudience(s, k, px, py) \in SUBSET live
BY PositionHasSector, AroundLive DEF MotionAudience

LEMMA AttackMissInv ==
  ASSUME IInv, NEW s \in Ids, NEW k \in AttackKinds, NEW left \in BOOLEAN,
         NEW px \in 0 .. MoveRight, NEW py \in 0 .. MoveBottom,
         AttackMiss(s, k, left, px, py)
  PROVE  IInv'
<1> DEFINE M == MotionAudience(s, k, px, py)
<1>1. Message(s) /\ Deliver(One(M), view, {}) /\ UNCHANGED playerVars
  BY DEF AttackMiss
<1>2. LoopOK' /\ SessionsOK' /\ live' = live
  BY <1>1, MessageParts
<1>3. M \in SUBSET live
  BY MotionAudienceLive
<1> HIDE DEF M
<1>4. One(M) \in [ Ids -> Nat ] /\ (\A r \in Ids \ live' : One(M)[r] = 0)
  BY <1>2, <1>3 DEF One
<1>5. view \in Views /\ live \subseteq Ids
  BY DEF IInv, SessionsOK, OutOK
<1>6. OutOK'
  BY <1>1, <1>2, <1>4, <1>5, Delivered
<1>7. QED
  BY <1>1, <1>2, <1>6, PlayersUnchanged DEF IInv

LEMMA AttackHitInv ==
  ASSUME IInv, NEW s \in Ids, NEW k \in AttackKinds, NEW left \in BOOLEAN,
         NEW px \in 0 .. MoveRight, NEW py \in 0 .. MoveBottom, NEW v \in Ids,
         AttackHit(s, k, left, px, py, v)
  PROVE  IInv'
<1> DEFINE h         == hp[v] - AttackDamage[k]
           witnesses == DamageAudience(v)
           M         == MotionAudience(s, k, px, py)
           n         == Plus(One(M), One(witnesses))
           seen      == [ r \in Ids |-> [ q \in Ids |->
                            IF q = v /\ r \in witnesses THEN Damaged(view[r][q], h)
                            ELSE view[r][q] ] ]
<1>1. /\ Message(s)
      /\ h >= MinHP
      /\ hp' = [hp EXCEPT ![v] = h]
      /\ Deliver(n, seen, {})
      /\ UNCHANGED << x, y, act, cur, sector >>
  BY DEF AttackHit
<1>2. LoopOK' /\ SessionsOK' /\ live' = live
  BY <1>1, MessageParts
<1>3. h \in MinHP .. MaxHP
  <2>1. AttackDamage[k] \in Nat
    BY CombatAssumption DEF AttackKinds
  <2>2. hp[v] \in MinHP .. MaxHP
    BY DEF IInv, PlayersOK
  <2>3. QED
    BY <1>1, <2>1, <2>2, CombatAssumption
<1>4. M \in SUBSET live
  BY MotionAudienceLive
<1>5. witnesses \in SUBSET live
  BY AroundLive DEF DamageAudience, IInv, PlayersOK
<1> HIDE DEF h, witnesses, M
<1>6. PlayersOK'
  BY <1>1, <1>2, <1>3 DEF IInv, PlayersOK, SectorListsExact
<1>7. OutOK'
  <2>1. /\ n \in [ Ids -> Nat ]
        /\ \A r \in Ids : n[r] = (IF r \in M THEN 1 ELSE 0)
                                + (IF r \in witnesses THEN 1 ELSE 0)
    BY DEF One, Plus
  <2> HIDE DEF n
  <2>2. \A r \in Ids \ live : n[r] = 0
    BY <1>4, <1>5, <2>1
  <2>3. h \in Int
    BY <1>3, CombatAssumption
  <2>4. \A r, q \in Ids : /\ view[r][q] \in Entries
                          /\ Damaged(view[r][q], h) \in Entries
    BY <2>3, EntryTypes DEF Views, IInv, OutOK
  <2>5. seen \in Views
    BY <2>4 DEF Views
  <2> HIDE DEF seen
  <2>6. QED
    BY <1>1, <1>2, <2>1, <2>2, <2>5, Delivered DEF IInv, SessionsOK
<1>8. QED
  BY <1>2, <1>6, <1>7 DEF IInv

LEMMA EchoInv ==
  ASSUME IInv, NEW s \in Ids, Echo(s)
  PROVE  IInv'
<1>1. Message(s) /\ Deliver(One({s}), view, {}) /\ UNCHANGED playerVars
  BY DEF Echo
<1>2. LoopOK' /\ SessionsOK' /\ live' = live /\ s \in live
  BY <1>1, MessageParts
<1>3. One({s}) \in [ Ids -> Nat ] /\ (\A r \in Ids \ live' : One({s})[r] = 0)
  BY <1>2 DEF One
<1>4. view \in Views /\ live \subseteq Ids
  BY DEF IInv, SessionsOK, OutOK
<1>5. OutOK'
  BY <1>1, <1>2, <1>3, <1>4, Delivered
<1>6. QED
  BY <1>1, <1>2, <1>5, PlayersUnchanged DEF IInv

LEMMA SendInv ==
  ASSUME IInv, NEW s \in Ids, Send(s)
  PROVE  IInv'
<1>1. LoopOK'
  BY DEF Send, Writing, IInv, LoopOK, Quiet
<1>2. OutOK'
  <2>1. PICK m \in 0 .. sendQ[s] : sendQ' = [sendQ EXCEPT ![s] = m]
    BY DEF Send
  <2>2. /\ SendQCap \in Nat
        /\ sendQ \in [ Ids -> 0 .. SendQCap ]
    BY ServerAssumption DEF IInv, OutOK
  <2>3. m \in 0 .. SendQCap
    BY <2>2
  <2>4. sendQ' \in [ Ids -> 0 .. SendQCap ]
    BY <2>1, <2>2, <2>3
  <2>5. QED
    BY <2>4 DEF Send, IInv, OutOK, DisconnectListExact
<1>3. QED
  BY <1>1, <1>2, SessionsUnchanged, PlayersUnchanged DEF Send, IInv

LEMMA SendErrorInv ==
  ASSUME IInv, NEW s \in Ids, SendError(s)
  PROVE  IInv'
<1>1. LoopOK'
  BY DEF SendError, Writing, IInv, LoopOK, Quiet
<1>2. OutOK'
  <2>1. s \in live
    BY DEF SendError, IInv, SessionsOK
  <2>2. PICK m \in 0 .. SendQCap : sendQ' = [sendQ EXCEPT ![s] = m]
    BY DEF SendError
  <2>3. sendQ' \in [ Ids -> 0 .. SendQCap ]
    BY <2>2 DEF IInv, OutOK
  <2>4. /\ discList' \in Seq(Ids)
        /\ ToSet(discList') = marked'
        /\ IsInjective(discList')
    BY Enqueued DEF SendError, IInv, OutOK, DisconnectListExact
  <2>5. view' \in Views
    BY IdsFacts DEF SendError, IInv, OutOK, Views
  <2>6. QED
    BY <2>1, <2>3, <2>4, <2>5 DEF SendError, IInv, OutOK, DisconnectListExact
<1>3. QED
  BY <1>1, <1>2, SessionsUnchanged, PlayersUnchanged DEF SendError, IInv

(* One turn of the loop of Disconnect.  The head of the list is live and   *)
(* its player is in the list of its sector; the sessions whose queues are  *)
(* full now are live and, having a message sent to them, are not the head. *)
LEMMA DisconnectOneInv ==
  ASSUME IInv, DisconnectOne
  PROVE  IInv'
<1> DEFINE v    == Head(discList)
           n    == One(Bereaved(v))
           lost == Overflowing(n)
<1>1. /\ phase = "disconnect"
      /\ discList # << >>
      /\ sendQ' = [ r \in Ids |-> IF r = v THEN 0
                                  ELSE IF r \in lost THEN SendQCap
                                  ELSE sendQ[r] + n[r] ]
      /\ view' = [ r \in Ids |->
                     IF r = v \/ r \in marked \cup lost THEN Nobody
                     ELSE IF r \in Bereaved(v) THEN [view[r] EXCEPT ![v] = Deleted(@)]
                     ELSE view[r] ]
      /\ sector' = RemoveUserFromSector(v)
      /\ DeleteCharacter(v)
      /\ DeleteSession(v)
      /\ discList' \in { Tail(l) : l \in EnqueueForDeletion(lost) }
      /\ marked' = FlagsWithout(v, lost)
      /\ UNCHANGED loopVars
  BY DEF DisconnectOne
<1>2. v \in marked /\ v \in live /\ marked \subseteq live /\ live \subseteq Ids
  BY <1>1, TailSet DEF IInv, OutOK, SessionsOK, DisconnectListExact
<1>3. Bereaved(v) \subseteq live \ {v}
  BY <1>2, AroundLive DEF Bereaved, IInv, PlayersOK
<1>4. /\ n \in [ Ids -> Nat ]
      /\ \A r \in Ids : n[r] = IF r \in Bereaved(v) THEN 1 ELSE 0
  BY DEF One
<1> HIDE DEF v, n
<1>5. sendQ \in [ Ids -> 0 .. SendQCap ] /\ SendQCap \in Nat
  BY ServerAssumption DEF IInv, OutOK
<1>6. lost \subseteq live \ {v}
  BY <1>2, <1>3, <1>4, <1>5 DEF Overflowing
<1>7. live' = live \ {v} /\ closed' = closed \ {v}
  BY <1>1 DEF DeleteSession
<1>8. LoopOK'
  BY <1>1, <1>7 DEF IInv, LoopOK, Quiet, loopVars
<1>9. SessionsOK'
  <2>1. /\ freeIds \in Seq(Ids)
        /\ IsInjective(freeIds)
        /\ ToSet(freeIds) = Ids \ live
        /\ closed \subseteq live
        /\ idle \in [ Ids -> 0 .. TimeoutFrames ]
    BY DEF IInv, SessionsOK, IdsConserved
  <2>2. /\ freeIds' = Append(freeIds, v)
        /\ idle' = [idle EXCEPT ![v] = 0]
    BY <1>1 DEF DeleteSession
  <2>3. /\ freeIds' \in Seq(Ids)
        /\ IsInjective(freeIds')
        /\ ToSet(freeIds') = Ids \ live'
    BY <1>2, <1>7, <2>1, <2>2, AppendSet
  <2>4. idle' \in [ Ids -> 0 .. TimeoutFrames ]
    <3>1. 0 \in 0 .. TimeoutFrames
      BY ServerAssumption
    <3>2. QED
      BY <2>1, <2>2, <3>1
  <2>5. QED
    BY <1>2, <1>7, <2>1, <2>3, <2>4 DEF SessionsOK, IdsConserved
<1>10. OutOK'
  <2>1. ASSUME NEW r \in Ids PROVE sendQ'[r] \in 0 .. SendQCap
    BY <1>1, <1>4, <1>5 DEF Overflowing
  <2>2. sendQ' \in [ Ids -> 0 .. SendQCap ]
    BY <1>1, <2>1
  <2>3. ASSUME NEW r \in Ids PROVE view'[r] \in [ Ids -> Entries ]
    <3>1. view[r] \in [ Ids -> Entries ] /\ Nobody \in [ Ids -> Entries ]
      BY IdsFacts DEF IInv, OutOK, Views
    <3>2. Deleted(view[r][v]) \in Entries
      BY <1>2, <3>1, EntryTypes
    <3>3. [view[r] EXCEPT ![v] = Deleted(@)] \in [ Ids -> Entries ]
      BY <3>1, <3>2
    <3>4. QED
      BY <1>1, <3>1, <3>3
  <2>4. view' \in Views
    BY <1>1, <2>3 DEF Views
  <2>5. PICK l \in EnqueueForDeletion(lost) : discList' = Tail(l)
    BY <1>1
  <2>6. lost \in SUBSET Ids
    BY <1>2, <1>6
  <2> HIDE DEF lost
  <2>7. /\ l \in Seq(Ids)
        /\ ToSet(l) = marked \cup lost
        /\ IsInjective(l)
        /\ l # << >>
        /\ Head(l) = v
    BY <1>1, <2>6, Enqueued DEF v, IInv, OutOK, DisconnectListExact
  <2>8. marked' = (marked \cup lost) \ {v}
    BY <1>1 DEF FlagsWithout
  <2>9. /\ discList' \in Seq(Ids)
        /\ ToSet(discList') = marked'
        /\ IsInjective(discList')
    BY <2>5, <2>7, <2>8, TailSet
  <2>10. marked' \subseteq live'
    BY <1>2, <1>6, <1>7, <2>8 DEF lost
  <2>11. marked' \in SUBSET Ids
    BY <1>2, <1>7, <2>10
  <2>12. QED
    BY <2>2, <2>4, <2>9, <2>10, <2>11 DEF OutOK, DisconnectListExact
<1>11. PlayersOK'
  <2>1. /\ x \in [ Ids -> 0 .. MoveRight ]
        /\ y \in [ Ids -> 0 .. MoveBottom ]
        /\ act \in [ Ids -> Actions ]
        /\ hp \in [ Ids -> MinHP .. MaxHP ]
        /\ cur \in [ Ids -> Sectors ]
        /\ sector \in [ Sectors -> SUBSET Ids ]
        /\ \A u \in Sectors : sector[u] = { q \in live : cur[q] = u }
        /\ \A q \in live : cur[q] = SectorOf(x[q], y[q])
    BY DEF IInv, PlayersOK, SectorListsExact
  <2>2. /\ x' = [x EXCEPT ![v] = 0]
        /\ y' = [y EXCEPT ![v] = 0]
        /\ act' = [act EXCEPT ![v] = Stop]
        /\ hp' = [hp EXCEPT ![v] = MaxHP]
        /\ cur' = [cur EXCEPT ![v] = Origin]
        /\ sector' = [sector EXCEPT ![cur[v]] = @ \ {v}]
    BY <1>1 DEF DeleteCharacter, RemoveUserFromSector
  <2>3. /\ 0 \in 0 .. MoveRight /\ 0 \in 0 .. MoveBottom
        /\ MaxHP \in MinHP .. MaxHP
        /\ Stop \in Actions /\ Origin \in Sectors
    BY GridAssumption, CombatAssumption, IdsFacts
  <2>4. /\ x' \in [ Ids -> 0 .. MoveRight ]
        /\ y' \in [ Ids -> 0 .. MoveBottom ]
        /\ act' \in [ Ids -> Actions ]
        /\ hp' \in [ Ids -> MinHP .. MaxHP ]
        /\ cur' \in [ Ids -> Sectors ]
        /\ sector' \in [ Sectors -> SUBSET Ids ]
    BY <1>2, <2>1, <2>2, <2>3
  <2>5. ASSUME NEW u \in Sectors PROVE sector'[u] = { q \in live' : cur'[q] = u }
    <3>1. sector'[u] = IF u = cur[v] THEN sector[u] \ {v} ELSE sector[u]
      BY <2>1, <2>2
    <3>2. \A q \in live' : cur'[q] = cur[q]
      BY <1>2, <1>7, <2>1, <2>2
    <3>3. QED
      BY <1>2, <1>7, <2>1, <3>1, <3>2
  <2>6. ASSUME NEW q \in live' PROVE cur'[q] = SectorOf(x'[q], y'[q])
    BY <1>2, <1>7, <2>1, <2>2
  <2>7. QED
    BY <2>4, <2>5, <2>6 DEF PlayersOK, SectorListsExact
<1>12. QED
  BY <1>8, <1>9, <1>10, <1>11 DEF IInv

LEMMA EndOfDisconnectInv ==
  ASSUME IInv, EndOfDisconnect
  PROVE  IInv'
<1>1. LoopOK'
  BY DEF EndOfDisconnect, IInv, LoopOK, Quiet
<1>2. QED
  BY <1>1, SessionsUnchanged, OutUnchanged, PlayersUnchanged DEF EndOfDisconnect, IInv

LEMMA NoFrameInv ==
  ASSUME IInv, NoFrame
  PROVE  IInv'
<1>1. LoopOK'
  BY ServerAssumption DEF NoFrame, IInv, LoopOK, Quiet
<1>2. QED
  BY <1>1, SessionsUnchanged, OutUnchanged, PlayersUnchanged DEF NoFrame, IInv

LEMMA NetHeartbeatInv ==
  ASSUME IInv, NetHeartbeat
  PROVE  IInv'
<1> DEFINE silent == { s \in live : idle[s] >= TimeoutFrames }
<1>1. LoopOK'
  BY ServerAssumption DEF NetHeartbeat, IInv, LoopOK, Quiet
<1>2. SessionsOK'
  <2>1. idle' \in [ Ids -> 0 .. TimeoutFrames ]
    BY ServerAssumption DEF NetHeartbeat, IInv, SessionsOK
  <2>2. QED
    BY <2>1 DEF NetHeartbeat, IInv, SessionsOK, IdsConserved
<1>3. silent \in SUBSET live /\ Deliver(One({}), view, silent) /\ live' = live
  BY DEF NetHeartbeat
<1>4. OutOK'
  BY <1>3, GivenUp
<1>5. QED
  BY <1>1, <1>2, <1>4, PlayersUnchanged DEF NetHeartbeat, IInv

(* Update goes on to the next player. *)
LEMMA VisitingParts ==
  ASSUME IInv, NEW s \in Ids, Visiting(s), cursor' = s + 1,
         UNCHANGED << phase, readSet, writeSet, burst, live >>
  PROVE  LoopOK' /\ s \in live
<1>1. s + 1 \in 0 .. MaxSession + 1
  BY ServerAssumption DEF Ids
<1>2. QED
  BY <1>1 DEF Visiting, Unvisited, IInv, LoopOK, Quiet

LEMMA UpdateDeadInv ==
  ASSUME IInv, NEW s \in Ids, UpdateDead(s)
  PROVE  IInv'
<1>1. LoopOK' /\ s \in live
  BY VisitingParts DEF UpdateDead
<1>2. {s} \in SUBSET live /\ live' = live /\ Deliver(One({}), view, {s})
  BY <1>1 DEF UpdateDead
<1>3. OutOK'
  BY <1>2, GivenUp
<1>4. QED
  BY <1>1, <1>3, SessionsUnchanged, PlayersUnchanged DEF UpdateDead, IInv

LEMMA UpdateMoveInv ==
  ASSUME IInv, NEW s \in Ids, UpdateMove(s)
  PROVE  IInv'
<1> DEFINE px == x[s] + StepX(act[s])
           py == y[s] + StepY(act[s])
           ok == CharacterMoveCheck(px, py)
           nx == IF ok THEN px ELSE x[s]
           ny == IF ok THEN py ELSE y[s]
<1>1. Place(s, nx, ny, act[s], {}, {}) /\ live' = live /\ hp' = hp
  BY DEF UpdateMove
<1>2. LoopOK' /\ s \in live
  BY VisitingParts DEF UpdateMove
<1>3. /\ x[s] \in 0 .. MoveRight
      /\ y[s] \in 0 .. MoveBottom
      /\ act[s] \in Actions
  BY DEF IInv, PlayersOK
<1>4. px \in Int /\ py \in Int
  BY <1>3, PlayerAssumption, GridAssumption DEF StepX, StepY
<1> HIDE DEF px, py
<1>5. nx \in 0 .. MoveRight /\ ny \in 0 .. MoveBottom
  BY <1>3, <1>4, GridAssumption DEF CharacterMoveCheck
<1> HIDE DEF nx, ny
<1>6. PlayersOK' /\ OutOK'
  BY <1>1, <1>2, <1>3, <1>5, Placed
<1>7. QED
  BY <1>2, <1>6, SessionsUnchanged DEF UpdateMove, IInv

LEMMA UpdateInvalidInv ==
  ASSUME IInv, NEW s \in Ids, UpdateInvalid(s)
  PROVE  IInv'
<1>1. {s} \in SUBSET live /\ live' = live /\ Deliver(One({}), view, {s})
  BY DEF UpdateInvalid, Visiting, Unvisited
<1>2. LoopOK'
  BY ServerAssumption DEF UpdateInvalid, IInv, LoopOK, Quiet
<1>3. OutOK'
  BY <1>1, GivenUp
<1>4. QED
  BY <1>2, <1>3, SessionsUnchanged, PlayersUnchanged DEF UpdateInvalid, IInv

LEMMA EndOfUpdateInv ==
  ASSUME IInv, EndOfUpdate
  PROVE  IInv'
<1>1. LoopOK'
  BY ServerAssumption DEF EndOfUpdate, IInv, LoopOK, Quiet
<1>2. QED
  BY <1>1, SessionsUnchanged, OutUnchanged, PlayersUnchanged DEF EndOfUpdate, IInv

LEMMA PacketProcInv ==
  ASSUME IInv, NEW s \in Ids, PacketProc(s)
  PROVE  IInv'
<1>1. \A p \in ClientPositions : p[1] \in 0 .. MoveRight /\ p[2] \in 0 .. MoveBottom
  BY PlayerAssumption DEF Positions
<1>2. CASE Echo(s)
  BY <1>2, EchoInv
<1>3. ASSUME NEW p \in ClientPositions, NEW d \in Actions, MoveStart(s, d, p[1], p[2])
      PROVE  IInv'
  BY <1>1, <1>3, MoveStartInv
<1>4. ASSUME NEW p \in ClientPositions, MoveStop(s, p[1], p[2])
      PROVE  IInv'
  BY <1>1, <1>4, MoveStopInv
<1>5. ASSUME NEW p \in ClientPositions, NEW k \in AttackKinds, NEW left \in BOOLEAN,
             AttackMiss(s, k, left, p[1], p[2])
      PROVE  IInv'
  BY <1>1, <1>5, AttackMissInv
<1>6. ASSUME NEW p \in ClientPositions, NEW k \in AttackKinds, NEW left \in BOOLEAN,
             NEW v \in Ids, AttackHit(s, k, left, p[1], p[2], v)
      PROVE  IInv'
  BY <1>1, <1>6, AttackHitInv
<1>7. QED
  BY <1>2, <1>3, <1>4, <1>5, <1>6 DEF PacketProc

LEMMA NextInv ==
  ASSUME IInv, [Next]_vars
  PROVE  IInv'
<1>1. CASE UNCHANGED vars
  BY <1>1, StutterInv
<1>2. ASSUME NEW s \in Ids, CloseConnection(s) PROVE IInv'
  BY <1>2, CloseConnectionInv
<1>3. CASE NetIOProcess
  <2>1. CASE Select
    BY <2>1, SelectInv
  <2>2. CASE EndOfIO
    BY <2>2, EndOfIOInv
  <2>3. CASE AcceptNone
    BY <2>3, AcceptNoneInv
  <2>4. ASSUME NEW p \in SpawnPositions, Accept(p[1], p[2]) PROVE IInv'
    <3>1. p[1] \in 0 .. MoveRight /\ p[2] \in 0 .. MoveBottom
      BY PlayerAssumption DEF Positions
    <3>2. QED
      BY <2>4, <3>1, AcceptInv
  <2>5. ASSUME NEW s \in Ids, RecvNothing(s) \/ RecvClosed(s) \/ PacketProc(s)
        PROVE  IInv'
    BY <2>5, RecvNothingInv, RecvClosedInv, PacketProcInv
  <2>6. ASSUME NEW s \in Ids, Send(s) \/ SendError(s) PROVE IInv'
    BY <2>6, SendInv, SendErrorInv
  <2>7. QED
    BY <1>3, <2>1, <2>2, <2>3, <2>4, <2>5, <2>6 DEF NetIOProcess
<1>4. CASE Disconnect
  BY <1>4, DisconnectOneInv, EndOfDisconnectInv DEF Disconnect
<1>5. CASE NoFrame
  BY <1>5, NoFrameInv
<1>6. CASE NetHeartbeat
  BY <1>6, NetHeartbeatInv
<1>7. CASE Update
  BY <1>7, UpdateDeadInv, UpdateMoveInv, UpdateInvalidInv, EndOfUpdateInv DEF Update
<1>8. QED
  BY <1>1, <1>2, <1>3, <1>4, <1>5, <1>6, <1>7 DEF Next, Server

-----------------------------------------------------------------------------
(* The results *)

(* In every reachable state the inductive invariant holds. *)
THEOREM Invariance == Spec => []IInv
<1>1. Init => IInv
  BY InitInv
<1>2. IInv /\ [Next]_vars => IInv'
  BY NextInv
<1>3. QED
  BY <1>1, <1>2, PTL DEF Spec

(* Every variable keeps its type: no sector index off the grid, no player  *)
(* off the map, no id outside the table of sessions, no queue over its     *)
(* capacity.                                                               *)
THEOREM TypesKept == Spec => []TypeOK
<1>1. IInv => TypeOK
  BY IInvImplies
<1>2. QED
  BY <1>1, Invariance, PTL

(* Session.cpp's g_SessionID_Q: an id is in use or in the queue, and only  *)
(* once in the queue, however sessions come and go.                        *)
THEOREM IdsAreConserved == Spec => []IdsConserved
<1>1. IInv => IdsConserved
  BY IInvImplies
<1>2. QED
  BY <1>1, Invariance, PTL

(* Disconnect.cpp: flags and list agree, nothing is listed twice and only  *)
(* live sessions are: Disconnect finds each session it dereferences, also  *)
(* those that the loop itself puts on the list.                            *)
THEOREM DisconnectListIsExact == Spec => []DisconnectListExact
<1>1. IInv => DisconnectListExact
  BY IInvImplies
<1>2. QED
  BY <1>1, Invariance, PTL

(* Field.cpp: the sector lists hold exactly the players of live sessions,  *)
(* each in the sector its position lies in.                                *)
THEOREM SectorListsAreExact == Spec => []SectorListsExact
<1>1. IInv => SectorListsExact
  BY IInvImplies
<1>2. QED
  BY <1>1, Invariance, PTL

(* Only Disconnect resets a flag, and only for the session it deletes.     *)
LEMMA FlagsStep ==
  ASSUME [Next]_vars
  PROVE  \A s \in marked : s \in marked' \/ s \notin live'
<1>1. \A n, seen, bad : Deliver(n, seen, bad) => marked \subseteq marked'
  BY DEF Deliver
<1>2. CASE UNCHANGED vars
  BY <1>2 DEF vars, outVars
<1>3. ASSUME NEW s \in Ids, CloseConnection(s) PROVE marked' = marked
  BY <1>3 DEF CloseConnection, outVars
<1>4. CASE NetIOProcess
  <2>1. CASE Select \/ EndOfIO \/ AcceptNone
    BY <2>1 DEF Select, EndOfIO, AcceptNone, outVars
  <2>2. ASSUME NEW p \in SpawnPositions, Accept(p[1], p[2])
        PROVE  marked \subseteq marked'
    BY <1>1, <2>2 DEF Accept
  <2>3. ASSUME NEW s \in Ids, RecvNothing(s) \/ RecvClosed(s)
        PROVE  marked \subseteq marked'
    BY <1>1, <2>3 DEF RecvNothing, RecvClosed, outVars
  <2>4. ASSUME NEW s \in Ids, PacketProc(s) PROVE marked \subseteq marked'
    <3>0. \A nx, ny, a, S, T : Place(s, nx, ny, a, S, T) => marked \subseteq marked'
      BY <1>1 DEF Place
    <3>1. \A p, d : MoveStart(s, d, p[1], p[2]) => marked \subseteq marked'
      BY <3>0 DEF MoveStart
    <3>2. \A p : MoveStop(s, p[1], p[2]) => marked \subseteq marked'
      BY <3>0 DEF MoveStop
    <3>3. \A p, k, left : AttackMiss(s, k, left, p[1], p[2]) => marked \subseteq marked'
      BY <1>1 DEF AttackMiss
    <3>4. \A p, k, left, v :
            AttackHit(s, k, left, p[1], p[2], v) => marked \subseteq marked'
      BY <1>1 DEF AttackHit
    <3>5. Echo(s) => marked \subseteq marked'
      BY <1>1 DEF Echo
    <3>6. QED
      BY <2>4, <3>1, <3>2, <3>3, <3>4, <3>5 DEF PacketProc
  <2>5. ASSUME NEW s \in Ids, Send(s) \/ SendError(s) PROVE marked \subseteq marked'
    BY <2>5 DEF Send, SendError
  <2>6. QED
    BY <1>4, <2>1, <2>2, <2>3, <2>4, <2>5 DEF NetIOProcess
<1>5. CASE Disconnect
  BY <1>5 DEF Disconnect, DisconnectOne, EndOfDisconnect, FlagsWithout,
              DeleteSession, outVars
<1>6. CASE NoFrame \/ NetHeartbeat
  BY <1>1, <1>6 DEF NoFrame, NetHeartbeat, outVars
<1>7. CASE Update
  <2>1. \A s, nx, ny, a, S, T : Place(s, nx, ny, a, S, T) => marked \subseteq marked'
    BY <1>1 DEF Place
  <2>2. ASSUME NEW s \in Ids, UpdateMove(s) PROVE marked \subseteq marked'
    BY <2>1, <2>2 DEF UpdateMove
  <2>3. ASSUME NEW s \in Ids, UpdateDead(s) \/ UpdateInvalid(s)
        PROVE  marked \subseteq marked'
    BY <1>1, <2>3 DEF UpdateDead, UpdateInvalid
  <2>4. EndOfUpdate => marked \subseteq marked'
    BY DEF EndOfUpdate, outVars
  <2>5. QED
    BY <1>7, <2>2, <2>3, <2>4 DEF Update
<1>8. QED
  BY <1>2, <1>3, <1>4, <1>5, <1>6, <1>7 DEF Next, Server

(* A session that was given up stays on its way out until it is deleted.   *)
THEOREM GivenUpIsForGood == Spec => GivenUpForGood
<1>1. [Next]_vars => [\A s \in marked : s \in marked' \/ s \notin live']_vars
  BY FlagsStep
<1>2. QED
  BY <1>1, PTL DEF Spec, GivenUpForGood

-----------------------------------------------------------------------------

(* A client knows nothing before its session is accepted, and what it      *)
(* knows is forgotten when the session is given up; a free id does not     *)
(* move.                                                                   *)
ViewsOK ==
  /\ ClientsInformed
  /\ \A r \in Ids : r \notin live \ marked => view[r] = Nobody
  /\ \A s \in Ids \ live : act[s] = Stop

-----------------------------------------------------------------------------
(* Who sees whom *)

(* The players in the lists around a sector are those near it. *)
LEMMA AroundIs ==
  ASSUME IInv, NEW t \in Sectors
  PROVE  Audience(sector, GetSectorAround(t)) = { r \in live : cur[r] \in Block(t) }
<1>1. /\ GetSectorAround(t) = Block(t)
      /\ Block(t) \subseteq Sectors
  BY AroundIsBlock, BlockFacts
<1>2. \A u \in Sectors : sector[u] = { s \in live : cur[s] = u }
  BY DEF IInv, PlayersOK, SectorListsExact
<1>3. QED
  BY <1>1, <1>2 DEF Audience

(* The same with the lists after player p has moved to t. *)
LEMMA MovedAudience ==
  ASSUME IInv, NEW p \in live, NEW t \in Sectors, NEW T \in SUBSET Sectors
  PROVE  Audience(MovedLists(p, t), T)
           = { r \in live : (IF r = p THEN t ELSE cur[r]) \in T }
<1>1. \A u \in Sectors :
        MovedLists(p, t)[u] = { s \in live : [cur EXCEPT ![p] = t][s] = u }
  BY MovedListsExact
<1>2. \A s \in live : [cur EXCEPT ![p] = t][s] = IF s = p THEN t ELSE cur[s]
  BY DEF IInv, SessionsOK, PlayersOK
<1>3. QED
  BY <1>1, <1>2 DEF Audience

-----------------------------------------------------------------------------
(* What clients know is not changed by what no message tells. *)

(* Deliver adds to the sessions given up; the others know what was sent.   *)
LEMMA DeliveredViews ==
  ASSUME NEW n, NEW seen, NEW bad, Deliver(n, seen, bad)
  PROVE  /\ marked \subseteq marked'
         /\ bad \subseteq marked'
         /\ \A r \in Ids : view'[r] = IF r \in marked' THEN Nobody ELSE seen[r]
BY DEF Deliver

LEMMA ViewsKept ==
  ASSUME ViewsOK, UNCHANGED << live, marked, view, act, hp, cur >>
  PROVE  ViewsOK'
BY DEF ViewsOK, ClientsInformed, ViewExact, MotionKnown, HitPointsKnown, Sees

LEMMA GivenUpViews ==
  ASSUME IInv, ViewsOK, UNCHANGED << live, act, hp, cur >>,
         marked \subseteq marked',
         \A r \in Ids : view'[r] = IF r \in marked' THEN Nobody ELSE view[r]
  PROVE  ViewsOK'
<1>1. live \subseteq Ids
  BY DEF IInv, SessionsOK
<1>2. \A r \in live' \ marked' : r \in live \ marked /\ view'[r] = view[r]
  BY <1>1
<1>3. \A r \in Ids : r \notin live' \ marked' => view'[r] = Nobody
  BY DEF ViewsOK
<1>4. \A r, p : Sees(r, p)' <=> Sees(r, p)
  BY DEF Sees
<1>5. ViewExact' /\ MotionKnown' /\ HitPointsKnown'
  BY <1>2, <1>4 DEF ViewsOK, ClientsInformed, ViewExact, MotionKnown, HitPointsKnown
<1>6. QED
  BY <1>3, <1>5 DEF ViewsOK, ClientsInformed

-----------------------------------------------------------------------------
(* Crossing a border *)

(* Whether r sees q once player p is in sector t. *)
Seen(p, t, r, q) ==
  q \in live /\ (IF q = p THEN t ELSE cur[q]) \in Block(IF r = p THEN t ELSE cur[r])

(* CharacterSectorUpdatePacket tells a client exactly what has changed in  *)
(* what it sees: whom it lost sight of is deleted, whom it sees now is     *)
(* created, and of the others nothing is said.                             *)
LEMMA NewsIsChange ==
  ASSUME IInv, NEW p \in live, NEW t \in Block(cur[p]), NEW a \in Actions,
         NEW r \in live, NEW q \in Ids
  PROVE  SectorNews(p, t, a).seen[r][q] =
           IF Sees(r, q) /\ ~ Seen(p, t, r, q) THEN Deleted(view[r][q])
           ELSE IF ~ Sees(r, q) /\ Seen(p, t, r, q)
           THEN Created(view[r][q], IF q = p THEN a ELSE act[q], hp[q])
           ELSE view[r][q]
<1> DEFINE news == SectorNews(p, t, a)
<1>1. /\ live \subseteq Ids
      /\ cur \in [ Ids -> Sectors ]
  BY DEF IInv, SessionsOK, PlayersOK
<1>2. t \in Sectors /\ cur[p] \in Sectors /\ cur[r] \in Sectors /\ cur[q] \in Sectors
  BY <1>1, BlockFacts
<1>3. CASE t = cur[p]
  <2>1. news.seen = view
    BY <1>3 DEF SectorNews
  <2>2. Seen(p, t, r, q) <=> Sees(r, q)
    BY <1>3 DEF Seen, Sees
  <2>3. QED
    BY <2>1, <2>2
<1>4. CASE t # cur[p]
  <2> DEFINE upd     == GetUpdateSectorAround(cur[p], t)
             lost    == Audience(MovedLists(p, t), upd.remove)
             losers  == lost \ {p}
             gainers == Audience(MovedLists(p, t), upd.add) \ {p}
  <2>1. /\ upd.remove = Block(cur[p]) \ Block(t)
        /\ upd.add = Block(t) \ Block(cur[p])
        /\ upd.remove \subseteq Sectors /\ upd.add \subseteq Sectors
    BY <1>2, UpdateIsDifference, BlockFacts
  <2>2. t \in Block(t)
    BY <1>2, BlockFacts
  <2>3. lost = { s \in live : (IF s = p THEN t ELSE cur[s]) \in upd.remove }
    BY <1>2, <2>1, MovedAudience
  <2>4. Audience(MovedLists(p, t), upd.add)
          = { s \in live : (IF s = p THEN t ELSE cur[s]) \in upd.add }
    BY <1>2, <2>1, MovedAudience
  <2> HIDE DEF upd
  <2>5. lost = { s \in live \ {p} : cur[s] \in Block(cur[p]) \ Block(t) }
    BY <2>1, <2>2, <2>3
  <2>6. gainers = { s \in live \ {p} : cur[s] \in Block(t) \ Block(cur[p]) }
    BY <2>1, <2>4
  <2>7. news.seen[r][q] =
          IF (q = p /\ r \in losers) \/ (r = p /\ q \in lost)
          THEN Deleted(view[r][q])
          ELSE IF q = p /\ r \in gainers
          THEN Created(view[r][q], a, hp[p])
          ELSE IF r = p /\ q \in gainers
          THEN Created(view[r][q], act[q], hp[q])
          ELSE view[r][q]
    BY <1>1, <1>4 DEF SectorNews, CharacterSectorUpdatePacket, upd
  <2> HIDE DEF lost, gainers, news
  <2>8. CASE r = p /\ q = p
    <3>1. Sees(r, q) /\ Seen(p, t, r, q)
      BY <1>2, <2>2, <2>8, BlockFacts DEF Sees, Seen
    <3>2. news.seen[r][q] = view[r][q]
      BY <2>5, <2>6, <2>7, <2>8
    <3>3. QED
      BY <3>1, <3>2 DEF news
  <2>9. CASE r = p /\ q # p
    <3>1. /\ Sees(r, q) <=> q \in live /\ cur[q] \in Block(cur[p])
          /\ Seen(p, t, r, q) <=> q \in live /\ cur[q] \in Block(t)
      BY <2>9 DEF Sees, Seen
    <3>2. /\ q \in lost <=> Sees(r, q) /\ ~ Seen(p, t, r, q)
          /\ q \in gainers <=> ~ Sees(r, q) /\ Seen(p, t, r, q)
      BY <2>5, <2>6, <2>9, <3>1
    <3>3. QED
      BY <2>7, <2>9, <3>2 DEF news
  <2>10. CASE r # p /\ q = p
    <3>1. /\ Sees(r, q) <=> cur[r] \in Block(cur[p])
          /\ Seen(p, t, r, q) <=> cur[r] \in Block(t)
      BY <1>2, <2>10, BlockFacts DEF Sees, Seen
    <3>2. /\ r \in losers <=> Sees(r, q) /\ ~ Seen(p, t, r, q)
          /\ r \in gainers <=> ~ Sees(r, q) /\ Seen(p, t, r, q)
      BY <2>5, <2>6, <2>10, <3>1
    <3>3. QED
      BY <2>7, <2>10, <3>2 DEF news
  <2>11. CASE r # p /\ q # p
    <3>1. Sees(r, q) <=> Seen(p, t, r, q)
      BY <2>11 DEF Sees, Seen
    <3>2. QED
      BY <2>7, <2>11, <3>1 DEF news
  <2>12. QED
    BY <2>8, <2>9, <2>10, <2>11
<1>5. QED
  BY <1>3, <1>4

(* Nobody else is told of it. *)
LEMMA NewsOnlyToLive ==
  ASSUME IInv, NEW p \in live, NEW t \in Sectors, NEW a \in Actions,
         NEW r \in Ids \ live, NEW q \in Ids
  PROVE  SectorNews(p, t, a).seen[r][q] = view[r][q]
<1> DEFINE upd     == GetUpdateSectorAround(cur[p], t)
           losers  == Audience(MovedLists(p, t), upd.remove) \ {p}
           gainers == Audience(MovedLists(p, t), upd.add) \ {p}
<1>1. cur[p] \in Sectors
  BY DEF IInv, SessionsOK, PlayersOK
<1>2. upd.remove \subseteq Sectors /\ upd.add \subseteq Sectors
  BY <1>1, UpdateInSectors
<1>3. r \notin losers /\ r \notin gainers /\ r # p
  BY <1>2, MovedAudience
<1> HIDE DEF upd
<1>4. QED
  BY <1>3 DEF SectorNews, CharacterSectorUpdatePacket, upd

(* The players with an action Update does not know are given up when they  *)
(* would be announced.                                                     *)
LEMMA InvalidGivenUp ==
  ASSUME IInv, NEW p \in live, NEW t \in Block(cur[p]), NEW a \in Actions, t # cur[p]
  PROVE  /\ Invalid(a) => p \in SectorNews(p, t, a).bad
         /\ \A q \in live \ {p} : Invalid(act[q]) /\ Seen(p, t, p, q) /\ ~ Sees(p, q)
                                  => q \in SectorNews(p, t, a).bad
<1> DEFINE upd     == GetUpdateSectorAround(cur[p], t)
           gainers == Audience(MovedLists(p, t), upd.add) \ {p}
<1>1. cur[p] \in Sectors /\ t \in Sectors
  BY BlockFacts DEF IInv, SessionsOK, PlayersOK
<1>2. upd.add = Block(t) \ Block(cur[p]) /\ upd.add \subseteq Sectors
  BY <1>1, UpdateIsDifference, BlockFacts
<1>3. Audience(MovedLists(p, t), upd.add)
          = { s \in live : (IF s = p THEN t ELSE cur[s]) \in upd.add }
  BY <1>1, <1>2, MovedAudience
<1>4. SectorNews(p, t, a).bad
        = { q \in gainers : Invalid(act[q]) } \cup { q \in {p} : Invalid(a) }
  BY DEF SectorNews, CharacterSectorUpdatePacket
<1> HIDE DEF upd
<1>5. gainers = { s \in live \ {p} : cur[s] \in Block(t) \ Block(cur[p]) }
  BY <1>2, <1>3
<1> HIDE DEF gainers
<1>6. \A q \in live \ {p} : Seen(p, t, p, q) /\ ~ Sees(p, q) => q \in gainers
  BY <1>5 DEF Seen, Sees
<1>7. QED
  BY <1>4, <1>6

-----------------------------------------------------------------------------
(* A player that moves, if at all, to a sector of its block, and is heard  *)
(* of by all that see it then, unless it goes on as before.                *)
LEMMA PlacedViews ==
  ASSUME IInv, ViewsOK, live' = live, hp' = hp,
         NEW p \in live, NEW nx \in 0 .. MoveRight, NEW ny \in 0 .. MoveBottom,
         NEW a \in Actions, NEW sync, NEW others,
         Place(p, nx, ny, a, sync, others),
         SectorOf(nx, ny) \in Block(cur[p]),
         \/ others = { r \in live \ {p} : cur[r] \in Block(SectorOf(nx, ny)) }
         \/ others = {} /\ a = act[p]
  PROVE  ViewsOK'
<1> DEFINE t    == SectorOf(nx, ny)
           news == SectorNews(p, t, a)
           n    == Plus(news.n, Plus(One(sync), One(others)))
           seen == [ r \in Ids |-> [ q \in Ids |->
                       IF q = p /\ r \in others THEN Heard(news.seen[r][q], a)
                       ELSE news.seen[r][q] ] ]
<1>1. /\ live \subseteq Ids
      /\ cur \in [ Ids -> Sectors ]
      /\ act \in [ Ids -> Actions ]
      /\ view \in Views
  BY DEF IInv, SessionsOK, PlayersOK, OutOK
<1>2. /\ t \in Block(cur[p]) /\ t \in Sectors
      /\ \A r \in live : t \in Block(cur[r]) <=> cur[r] \in Block(t)
  BY <1>1, BlockFacts
<1>3. /\ act' = [act EXCEPT ![p] = a]
      /\ cur' = [cur EXCEPT ![p] = t]
      /\ Deliver(n, seen, news.bad)
  BY DEF Place
<1>4. \A r \in live, q \in Ids :
        news.seen[r][q] =
           IF Sees(r, q) /\ ~ Seen(p, t, r, q) THEN Deleted(view[r][q])
           ELSE IF ~ Sees(r, q) /\ Seen(p, t, r, q)
           THEN Created(view[r][q], IF q = p THEN a ELSE act[q], hp[q])
           ELSE view[r][q]
  BY <1>2, NewsIsChange
<1>5. t # cur[p] =>
        /\ Invalid(a) => p \in news.bad
        /\ \A q \in live \ {p} : Invalid(act[q]) /\ Seen(p, t, p, q) /\ ~ Sees(p, q)
                                 => q \in news.bad
  BY <1>2, InvalidGivenUp
<1>6. \/ others = { r \in live \ {p} : cur[r] \in Block(t) }
      \/ others = {} /\ a = act[p]
  OBVIOUS
<1> HIDE DEF t, news, n
<1>7. /\ marked \subseteq marked'
      /\ news.bad \subseteq marked'
      /\ \A r \in Ids : view'[r] = IF r \in marked' THEN Nobody ELSE seen[r]
  BY <1>3, DeliveredViews
<1>8. \A r, q \in live : Sees(r, q)' <=> Seen(p, t, r, q)
  BY <1>1, <1>3 DEF Sees, Seen
<1>9. \A r, q : ~ Sees(r, q) <=> q \notin live \/ cur[q] \notin Block(cur[r])
  BY DEF Sees
<1>10. ASSUME NEW r \in live \ marked', NEW q \in Ids
       PROVE  /\ view'[r][q].copies = IF Sees(r, q)' THEN 1 ELSE 0
              /\ q \in live /\ Sees(r, q)' => view'[r][q].hp = hp[q]
              /\ q \in live \ marked' /\ Sees(r, q)' /\ r # q => view'[r][q].act = act'[q]
  <2> DEFINE e == view[r][q]
             f == news.seen[r][q]
  <2>1. r \in live \ marked /\ r \in Ids
    BY <1>1, <1>7
  <2>2. /\ e \in Entries
        /\ e.copies = IF Sees(r, q) THEN 1 ELSE 0
        /\ q \in live /\ Sees(r, q) => e.hp = hp[q]
        /\ q \in live \ marked /\ Sees(r, q) /\ r # q => e.act = act[q]
    BY <1>1, <2>1 DEF ViewsOK, ClientsInformed, ViewExact, MotionKnown, HitPointsKnown, Views
  <2>3. f = IF Sees(r, q) /\ ~ Seen(p, t, r, q) THEN Deleted(e)
            ELSE IF ~ Sees(r, q) /\ Seen(p, t, r, q)
            THEN Created(e, IF q = p THEN a ELSE act[q], hp[q])
            ELSE e
    BY <1>4
  <2>4. view'[r][q] = IF q = p /\ r \in others THEN Heard(f, a) ELSE f
    <3>1. view'[r] = seen[r]
      BY <1>7, <2>1, <1>10
    <3>2. seen[r][q] = IF q = p /\ r \in others THEN Heard(f, a) ELSE f
      BY <2>1, <1>10
    <3>3. QED
      BY <3>1, <3>2
  <2>5. CASE q \notin live
    <3>1. ~ Sees(r, q) /\ ~ Seen(p, t, r, q) /\ ~ Sees(r, q)' /\ q # p
      BY <2>5 DEF Sees, Seen
    <3>2. view'[r][q] = e
      BY <2>3, <2>4, <3>1
    <3>3. QED
      BY <2>2, <2>5, <3>1, <3>2
  <2>6. CASE q \in live
    <3> DEFINE was == Sees(r, q)
               is  == Seen(p, t, r, q)
    <3>1. Sees(r, q)' <=> is
      BY <1>8, <2>6
    <3> HIDE DEF e, f, was, is
    <3>2. /\ f.copies = IF is THEN 1 ELSE 0
          /\ is => f.hp = hp[q]
          /\ is /\ was => f = e
          /\ is /\ ~ was => LET b == IF q = p THEN a ELSE act[q]
                            IN  f.act = IF b \in MoveDirs THEN b ELSE Stop
      BY <2>2, <2>3, <2>6 DEF Deleted, Created, Unknown, Entries, was, is
    <3>3. f \in [ copies : Int, act : Int, hp : Int ]
      <4>1. hp[q] \in Int /\ act[q] \in Actions
        BY <1>1, CombatAssumption DEF IInv, PlayersOK
      <4>2. (IF q = p THEN a ELSE act[q]) \in Actions
        BY <4>1
      <4>3. /\ Deleted(e) \in Entries
            /\ Created(e, IF q = p THEN a ELSE act[q], hp[q]) \in Entries
        BY <2>2, <4>1, <4>2, EntryTypes
      <4>4. f \in Entries
        BY <2>2, <2>3, <4>3 DEF was, is
      <4>5. QED
        BY <4>4, IdsFacts DEF Entries
    <3>4. /\ view'[r][q].copies = f.copies
          /\ view'[r][q].hp = f.hp
          /\ view'[r][q].act = IF q = p /\ r \in others /\ f.copies # 0 THEN a ELSE f.act
      BY <2>4, <3>3 DEF Heard
    <3>5. ASSUME q \notin marked', is, r # q
          PROVE  view'[r][q].act = act'[q]
      <4>1. CASE q = p
        <5>1. act'[q] = a
          BY <1>1, <1>3, <4>1
        <5>2. CASE r \in others
          BY <3>2, <3>4, <3>5, <4>1, <5>1, <5>2
        <5>3. CASE r \notin others
          <6>1. t \in Block(cur[r])
            BY <3>5, <4>1 DEF is, Seen
          <6>2. r \in live \ {p} /\ cur[r] \in Block(t)
            BY <1>2, <3>5, <4>1, <6>1
          <6>3. a = act[p]
            BY <1>6, <5>3, <6>2
          <6>4. CASE was
            BY <1>7, <2>2, <2>6, <3>2, <3>4, <3>5, <4>1, <5>1, <5>3, <6>3, <6>4 DEF was
          <6>5. CASE ~ was
            <7>1. t # cur[p]
              BY <3>5, <4>1, <6>5 DEF was, is, Sees, Seen
            <7>2. ~ Invalid(a)
              BY <1>5, <1>7, <3>5, <4>1, <7>1
            <7>3. QED
              BY <3>2, <3>4, <3>5, <4>1, <5>1, <5>3, <6>5, <7>2 DEF Invalid
          <6>6. QED
            BY <6>4, <6>5
        <5>4. QED
          BY <5>2, <5>3
      <4>2. CASE q # p
        <5>1. act'[q] = act[q]
          BY <1>1, <1>3, <4>2
        <5>2. CASE was
          BY <1>7, <2>2, <2>6, <3>2, <3>4, <3>5, <4>2, <5>1, <5>2 DEF was
        <5>3. CASE ~ was
          <6>1. r = p /\ t # cur[p]
            BY <3>5, <4>2, <5>3 DEF was, is, Sees, Seen
          <6>2. ~ Invalid(act[q])
            BY <1>5, <1>7, <2>6, <3>5, <4>2, <5>3, <6>1 DEF was, is
          <6>3. QED
            BY <3>2, <3>4, <3>5, <4>2, <5>1, <5>3, <6>2 DEF Invalid
        <5>4. QED
          BY <5>2, <5>3
      <4>3. QED
        BY <4>1, <4>2
    <3>6. QED
      BY <2>6, <3>1, <3>2, <3>4, <3>5
  <2>7. QED
    BY <2>5, <2>6
<1>11. ViewExact' /\ MotionKnown' /\ HitPointsKnown'
  <2>1. ViewExact'
    BY <1>1, <1>10 DEF ViewExact
  <2>2. MotionKnown'
    BY <1>1, <1>10 DEF MotionKnown
  <2>3. HitPointsKnown'
    BY <1>1, <1>10 DEF HitPointsKnown
  <2>4. QED
    BY <2>1, <2>2, <2>3
<1>12. \A r \in Ids : r \notin live' \ marked' => view'[r] = Nobody
  <2>1. ASSUME NEW r \in Ids, r \notin live, r \notin marked'
        PROVE  view'[r] = Nobody
    <3>1. view[r] = Nobody
      BY <2>1 DEF ViewsOK
    <3>2. seen[r] = view[r]
      <4>1. r \notin others
        BY <1>6, <2>1
      <4>2. \A q \in Ids : seen[r][q] = view[r][q]
        BY <1>2, <2>1, <4>1, NewsOnlyToLive DEF news
      <4>3. QED
        BY <1>1, <4>2 DEF Views
    <3>3. QED
      BY <1>7, <2>1, <3>1, <3>2
  <2>2. QED
    BY <1>7, <2>1
<1>13. \A s \in Ids \ live' : act'[s] = Stop
  BY <1>1, <1>3 DEF ViewsOK
<1>14. QED
  BY <1>11, <1>12, <1>13 DEF ViewsOK, ClientsInformed

(* Where a message or Update moves a player lies in its block. *)
LEMMA NearIsNear ==
  ASSUME IInv, NEW s \in live, NEW nx \in 0 .. MoveRight, NEW ny \in 0 .. MoveBottom,
         nx <= x[s] + GridX, x[s] <= nx + GridX,
         ny <= y[s] + GridY, y[s] <= ny + GridY
  PROVE  SectorOf(nx, ny) \in Block(cur[s])
<1>1. /\ x[s] \in 0 .. MoveRight /\ y[s] \in 0 .. MoveBottom
      /\ cur[s] = SectorOf(x[s], y[s])
  BY DEF IInv, SessionsOK, PlayersOK, SectorListsExact
<1>2. QED
  BY <1>1, StepStaysNear

(* The same for a position a client reports, which is taken over only if   *)
(* it is not too far.                                                      *)
LEMMA ReportedIsNear ==
  ASSUME IInv, NEW s \in live,
         NEW px \in 0 .. MoveRight, NEW py \in 0 .. MoveBottom
  PROVE  LET far == TooFar(s, px, py)
             nx  == IF far THEN x[s] ELSE px
             ny  == IF far THEN y[s] ELSE py
         IN  /\ nx \in 0 .. MoveRight /\ ny \in 0 .. MoveBottom
             /\ SectorOf(nx, ny) \in Block(cur[s])
             /\ SectorOf(nx, ny) \in Sectors
<1> DEFINE far == TooFar(s, px, py)
           nx  == IF far THEN x[s] ELSE px
           ny  == IF far THEN y[s] ELSE py
<1>1. /\ x[s] \in 0 .. MoveRight /\ y[s] \in 0 .. MoveBottom
  BY DEF IInv, SessionsOK, PlayersOK
<1>2. /\ nx \in 0 .. MoveRight /\ ny \in 0 .. MoveBottom
      /\ nx <= x[s] + GridX /\ x[s] <= nx + GridX
      /\ ny <= y[s] + GridY /\ y[s] <= ny + GridY
  BY <1>1, PlayerAssumption, GridAssumption DEF TooFar
<1> HIDE DEF nx, ny
<1>3. SectorOf(nx, ny) \in Block(cur[s]) /\ SectorOf(nx, ny) \in Sectors
  BY <1>2, NearIsNear, PositionHasSector
<1>4. QED
  BY <1>2, <1>3 DEF nx, ny

LEMMA MoveStartViews ==
  ASSUME IInv, ViewsOK, NEW s \in Ids, NEW d \in Actions,
         NEW px \in 0 .. MoveRight, NEW py \in 0 .. MoveBottom,
         MoveStart(s, d, px, py)
  PROVE  ViewsOK'
<1> DEFINE far    == TooFar(s, px, py)
           nx     == IF far THEN x[s] ELSE px
           ny     == IF far THEN y[s] ELSE py
           sync   == IF far THEN Audience(sector, GetSectorAround(cur[s])) ELSE {}
           others == Audience(sector, GetSectorAround(SectorOf(nx, ny))) \ {s}
<1>1. Place(s, nx, ny, d, sync, others) /\ hp' = hp
  BY DEF MoveStart
<1>2. live' = live /\ s \in live
  BY MessageParts DEF MoveStart
<1>3. /\ nx \in 0 .. MoveRight /\ ny \in 0 .. MoveBottom
      /\ SectorOf(nx, ny) \in Block(cur[s])
      /\ SectorOf(nx, ny) \in Sectors
  BY <1>2, ReportedIsNear
<1> HIDE DEF nx, ny, sync
<1>4. others = { r \in live \ {s} : cur[r] \in Block(SectorOf(nx, ny)) }
  BY <1>3, AroundIs
<1> HIDE DEF others
<1>5. QED
  BY <1>1, <1>2, <1>3, <1>4, PlacedViews

LEMMA MoveStopViews ==
  ASSUME IInv, ViewsOK, NEW s \in Ids,
         NEW px \in 0 .. MoveRight, NEW py \in 0 .. MoveBottom,
         MoveStop(s, px, py)
  PROVE  ViewsOK'
<1> DEFINE far    == TooFar(s, px, py)
           nx     == IF far THEN x[s] ELSE px
           ny     == IF far THEN y[s] ELSE py
           sync   == IF far THEN {s} ELSE {}
           others == Audience(sector, GetSectorAround(SectorOf(nx, ny))) \ {s}
<1>1. Place(s, nx, ny, Stop, sync, others) /\ hp' = hp
  BY DEF MoveStop
<1>2. live' = live /\ s \in live
  BY MessageParts DEF MoveStop
<1>3. /\ nx \in 0 .. MoveRight /\ ny \in 0 .. MoveBottom
      /\ SectorOf(nx, ny) \in Block(cur[s])
      /\ SectorOf(nx, ny) \in Sectors
  BY <1>2, ReportedIsNear
<1> HIDE DEF nx, ny, sync
<1>4. others = { r \in live \ {s} : cur[r] \in Block(SectorOf(nx, ny)) }
  BY <1>3, AroundIs
<1> HIDE DEF others
<1>5. QED
  BY <1>1, <1>2, <1>3, <1>4, IdsFacts, PlacedViews

LEMMA UpdateMoveViews ==
  ASSUME IInv, ViewsOK, NEW s \in Ids, UpdateMove(s)
  PROVE  ViewsOK'
<1> DEFINE px == x[s] + StepX(act[s])
           py == y[s] + StepY(act[s])
           ok == CharacterMoveCheck(px, py)
           nx == IF ok THEN px ELSE x[s]
           ny == IF ok THEN py ELSE y[s]
<1>1. Place(s, nx, ny, act[s], {}, {}) /\ live' = live /\ hp' = hp /\ s \in live
  BY DEF UpdateMove, Visiting, Unvisited
<1>2. /\ x[s] \in 0 .. MoveRight /\ y[s] \in 0 .. MoveBottom
      /\ act[s] \in Actions
  BY DEF IInv, PlayersOK
<1>3. /\ StepX(act[s]) \in -GridX .. GridX
      /\ StepY(act[s]) \in -GridY .. GridY
  BY PlayerAssumption, GridAssumption DEF StepX, StepY
<1>4. /\ nx \in 0 .. MoveRight /\ ny \in 0 .. MoveBottom
      /\ nx <= x[s] + GridX /\ x[s] <= nx + GridX
      /\ ny <= y[s] + GridY /\ y[s] <= ny + GridY
  BY <1>2, <1>3, GridAssumption DEF CharacterMoveCheck
<1> HIDE DEF nx, ny
<1>5. SectorOf(nx, ny) \in Block(cur[s])
  BY <1>1, <1>4, NearIsNear
<1>6. QED
  BY <1>1, <1>2, <1>4, <1>5, PlacedViews

LEMMA AcceptViews ==
  ASSUME IInv, ViewsOK,
         NEW px \in 0 .. MoveRight, NEW py \in 0 .. MoveBottom, Accept(px, py)
  PROVE  ViewsOK'
<1> DEFINE s      == Head(freeIds)
           t      == SectorOf(px, py)
           others == Audience(sector, GetSectorAround(t))
           walking == { q \in others : Moving(act[q]) }
           n      == [ r \in Ids |->
                         IF r = s THEN 1 + Cardinality(others) + Cardinality(walking)
                         ELSE One(others)[r] ]
           seen   == [ r \in Ids |-> [ q \in Ids |->
                         IF \/ r = s /\ q \in others \cup {s}
                            \/ q = s /\ r \in others
                         THEN Created(view[r][q], act[q], hp[q])
                         ELSE view[r][q] ] ]
           bad    == { q \in others : Invalid(act[q]) }
<1>1. /\ freeIds # << >>
      /\ live' = live \cup {s}
      /\ cur' = [cur EXCEPT ![s] = t]
      /\ Deliver(n, seen, bad)
      /\ act' = act /\ hp' = hp
  BY DEF Accept
<1>2. s \in Ids \ live
  BY <1>1, TailSet DEF IInv, SessionsOK, IdsConserved
<1>3. t \in Sectors
  BY PositionHasSector
<1>4. others = { q \in live : cur[q] \in Block(t) }
  BY <1>3, AroundIs
<1>5. /\ live \subseteq Ids
      /\ cur \in [ Ids -> Sectors ]
      /\ act \in [ Ids -> Actions ]
      /\ view \in Views
  BY DEF IInv, SessionsOK, PlayersOK, OutOK
<1> HIDE DEF s, t, others, n
<1>6. /\ marked \subseteq marked'
      /\ bad \subseteq marked'
      /\ \A r \in Ids : view'[r] = IF r \in marked' THEN Nobody ELSE seen[r]
  BY <1>1, DeliveredViews
<1>7. /\ cur'[s] = t
      /\ \A q \in live : cur'[q] = cur[q]
  BY <1>1, <1>2, <1>5
<1>8. /\ t \in Block(t)
      /\ \A r \in live : t \in Block(cur[r]) <=> r \in others
  BY <1>3, <1>4, <1>5, BlockFacts
<1>9. act[s] = Stop /\ view[s] = Nobody
  BY <1>2 DEF ViewsOK
<1>10. ASSUME NEW r \in live' \ marked', NEW q \in Ids
       PROVE  /\ view'[r][q].copies = IF Sees(r, q)' THEN 1 ELSE 0
              /\ q \in live' /\ Sees(r, q)' => view'[r][q].hp = hp[q]
              /\ q \in live' \ marked' /\ Sees(r, q)' /\ r # q => view'[r][q].act = act[q]
  <2>1. r \in Ids /\ view'[r][q] =
          IF \/ r = s /\ q \in others \cup {s}
             \/ q = s /\ r \in others
          THEN Created(view[r][q], act[q], hp[q])
          ELSE view[r][q]
    BY <1>1, <1>2, <1>5, <1>6
  <2>2. Sees(r, q)' <=> q \in live' /\ cur'[q] \in Block(cur'[r])
    BY DEF Sees
  <2>3. CASE r = s
    <3>1. Sees(r, q)' <=> q \in others \cup {s}
      BY <1>1, <1>2, <1>4, <1>7, <1>8, <2>2, <2>3
    <3>2. view[r][q] = Unknown
      BY <1>9, <2>3 DEF Nobody
    <3>3. q \in others /\ q \notin marked' => ~ Invalid(act[q])
      BY <1>6
    <3>4. q = s => r = q
      BY <2>3
    <3>5. view'[r][q] = IF Sees(r, q)' THEN Created(Unknown, act[q], hp[q]) ELSE Unknown
      BY <1>2, <1>4, <2>1, <2>3, <3>1, <3>2
    <3>6. QED
      BY <3>1, <3>3, <3>4, <3>5 DEF Created, Unknown, Invalid
  <2>4. CASE r # s
    <3>1. r \in live \ marked
      BY <1>1, <1>6, <2>4
    <3>2. /\ view[r][q] \in Entries
          /\ view[r][q].copies = IF Sees(r, q) THEN 1 ELSE 0
          /\ q \in live /\ Sees(r, q) => view[r][q].hp = hp[q]
          /\ q \in live \ marked /\ Sees(r, q) /\ r # q => view[r][q].act = act[q]
      BY <1>5, <2>1, <3>1
         DEF ViewsOK, ClientsInformed, ViewExact, MotionKnown, HitPointsKnown, Views
    <3>3. CASE q = s
      <4>1. ~ Sees(r, q) /\ (Sees(r, q)' <=> r \in others)
        BY <1>1, <1>2, <1>7, <1>8, <2>2, <3>1, <3>3 DEF Sees
      <4>2. view'[r][q] = IF Sees(r, q)' THEN Created(view[r][q], Stop, hp[q]) ELSE view[r][q]
        BY <1>9, <2>1, <2>4, <3>3, <4>1
      <4>3. QED
        BY <1>9, <3>2, <3>3, <4>1, <4>2 DEF Created
    <3>4. CASE q # s
      <4>1. Sees(r, q)' <=> Sees(r, q)
        BY <1>1, <1>7, <2>2, <3>1, <3>4 DEF Sees
      <4>2. view'[r][q] = view[r][q] /\ (q \in live' \ marked' => q \in live \ marked)
        BY <1>1, <1>6, <2>1, <2>4, <3>4
      <4>3. q \in live' <=> q \in live
        BY <1>1, <3>4
      <4>4. QED
        BY <3>2, <4>1, <4>2, <4>3
    <3>5. QED
      BY <3>3, <3>4
  <2>5. QED
    BY <2>3, <2>4
<1>11. live' \subseteq Ids
  BY <1>1, <1>2, <1>5
<1>12. ViewExact' /\ MotionKnown' /\ HitPointsKnown'
  <2>1. ViewExact'
    BY <1>10 DEF ViewExact
  <2>2. MotionKnown'
    BY <1>1, <1>10, <1>11 DEF MotionKnown
  <2>3. HitPointsKnown'
    BY <1>1, <1>10, <1>11 DEF HitPointsKnown
  <2>4. QED
    BY <2>1, <2>2, <2>3
<1>13. ASSUME NEW r \in Ids, r \notin live' \ marked' PROVE view'[r] = Nobody
  <2>1. CASE r \in marked'
    BY <1>6, <2>1
  <2>2. CASE r \notin marked'
    <3>1. r # s /\ r \notin live /\ r \notin others
      BY <1>1, <1>4, <1>13, <2>2
    <3>2. view[r] = Nobody
      BY <3>1 DEF ViewsOK
    <3>3. seen[r] = [ q \in Ids |-> view[r][q] ]
      BY <3>1
    <3>4. view'[r] = view[r]
      BY <1>5, <1>6, <2>2, <3>3 DEF Views
    <3>5. QED
      BY <3>2, <3>4
  <2>3. QED
    BY <2>1, <2>2
<1>14. \A r \in Ids \ live' : act'[r] = Stop
  BY <1>1 DEF ViewsOK
<1>15. QED
  BY <1>12, <1>13, <1>14 DEF ViewsOK, ClientsInformed

(* The damage is told to all that see the player hit. *)
LEMMA AttackHitViews ==
  ASSUME IInv, ViewsOK, NEW s \in Ids, NEW k \in AttackKinds, NEW left \in BOOLEAN,
         NEW px \in 0 .. MoveRight, NEW py \in 0 .. MoveBottom, NEW v \in Ids,
         AttackHit(s, k, left, px, py, v)
  PROVE  ViewsOK'
<1> DEFINE h         == hp[v] - AttackDamage[k]
           witnesses == DamageAudience(v)
           M         == MotionAudience(s, k, px, py)
           n         == Plus(One(M), One(witnesses))
           seen      == [ r \in Ids |-> [ q \in Ids |->
                            IF q = v /\ r \in witnesses THEN Damaged(view[r][q], h)
                            ELSE view[r][q] ] ]
<1>1. /\ hp' = [hp EXCEPT ![v] = h]
      /\ Deliver(n, seen, {})
      /\ act' = act /\ cur' = cur
  BY DEF AttackHit
<1>2. live' = live
  BY MessageParts DEF AttackHit
<1>3. /\ live \subseteq Ids
      /\ cur \in [ Ids -> Sectors ]
      /\ hp \in [ Ids -> MinHP .. MaxHP ]
      /\ view \in Views
  BY DEF IInv, SessionsOK, PlayersOK, OutOK
<1>4. witnesses = { r \in live : cur[r] \in Block(cur[v]) }
  BY <1>3, AroundIs DEF DamageAudience
<1> HIDE DEF h, witnesses, n
<1>5. /\ marked \subseteq marked'
      /\ \A r \in Ids : view'[r] = IF r \in marked' THEN Nobody ELSE seen[r]
  BY <1>1, DeliveredViews
<1>6. \A r, q : Sees(r, q)' <=> Sees(r, q)
  BY <1>1, <1>2 DEF Sees
<1>7. \A r \in live : Sees(r, v) => r \in witnesses
  BY <1>3, <1>4, BlockFacts DEF Sees
<1>8. ASSUME NEW r \in live' \ marked', NEW q \in Ids
      PROVE  /\ view'[r][q].copies = IF Sees(r, q)' THEN 1 ELSE 0
             /\ q \in live' /\ Sees(r, q)' => view'[r][q].hp = hp'[q]
             /\ q \in live' \ marked' /\ Sees(r, q)' /\ r # q => view'[r][q].act = act'[q]
  <2>1. r \in live \ marked /\ r \in Ids
    BY <1>2, <1>3, <1>5
  <2>2. /\ view[r][q] \in Entries
        /\ view[r][q].copies = IF Sees(r, q) THEN 1 ELSE 0
        /\ q \in live /\ Sees(r, q) => view[r][q].hp = hp[q]
        /\ q \in live \ marked /\ Sees(r, q) /\ r # q => view[r][q].act = act[q]
    BY <1>3, <2>1
       DEF ViewsOK, ClientsInformed, ViewExact, MotionKnown, HitPointsKnown, Views
  <2>3. view'[r][q] = IF q = v /\ r \in witnesses THEN Damaged(view[r][q], h)
                      ELSE view[r][q]
    BY <1>5, <2>1
  <2>4. hp'[q] = IF q = v THEN h ELSE hp[q]
    BY <1>1, <1>3
  <2>5. q \in live' \ marked' => q \in live \ marked
    BY <1>2, <1>5
  <2> DEFINE e == view[r][q]
             f == view'[r][q]
  <2> HIDE DEF e, f
  <2>6. /\ f.copies = e.copies
        /\ f.act = e.act
        /\ f.hp = IF q = v /\ r \in witnesses /\ e.copies # 0 THEN h ELSE e.hp
    BY <2>2, <2>3 DEF Damaged, Entries, e, f
  <2>7. QED
    BY <1>1, <1>2, <1>6, <1>7, <2>1, <2>2, <2>4, <2>5, <2>6 DEF e, f
<1>9. ViewExact' /\ MotionKnown' /\ HitPointsKnown'
  <2>1. ViewExact'
    BY <1>8 DEF ViewExact
  <2>2. MotionKnown'
    BY <1>2, <1>3, <1>8 DEF MotionKnown
  <2>3. HitPointsKnown'
    BY <1>2, <1>3, <1>8 DEF HitPointsKnown
  <2>4. QED
    BY <2>1, <2>2, <2>3
<1>10. ASSUME NEW r \in Ids, r \notin live' \ marked' PROVE view'[r] = Nobody
  <2>1. CASE r \in marked'
    BY <1>5, <2>1
  <2>2. CASE r \notin marked'
    <3>1. r \notin live /\ r \notin witnesses
      BY <1>2, <1>4, <1>10, <2>2
    <3>2. view[r] = Nobody
      BY <3>1 DEF ViewsOK
    <3>3. seen[r] = [ q \in Ids |-> view[r][q] ]
      BY <3>1
    <3>4. view'[r] = view[r]
      BY <1>3, <1>5, <2>2, <3>3 DEF Views
    <3>5. QED
      BY <3>2, <3>4
  <2>3. QED
    BY <2>1, <2>2
<1>11. \A r \in Ids \ live' : act'[r] = Stop
  BY <1>1, <1>2 DEF ViewsOK
<1>12. QED
  BY <1>9, <1>10, <1>11 DEF ViewsOK, ClientsInformed

(* Those that saw a player whose session is deleted are told of it.        *)
LEMMA DisconnectOneViews ==
  ASSUME IInv, ViewsOK, DisconnectOne
  PROVE  ViewsOK'
<1> DEFINE v    == Head(discList)
           lost == Overflowing(One(Bereaved(v)))
<1>1. /\ discList # << >>
      /\ view' = [ r \in Ids |->
                     IF r = v \/ r \in marked \cup lost THEN Nobody
                     ELSE IF r \in Bereaved(v) THEN [view[r] EXCEPT ![v] = Deleted(@)]
                     ELSE view[r] ]
      /\ act' = [act EXCEPT ![v] = Stop]
      /\ hp' = [hp EXCEPT ![v] = MaxHP]
      /\ cur' = [cur EXCEPT ![v] = Origin]
      /\ live' = live \ {v}
      /\ marked' = (marked \cup lost) \ {v}
  BY DEF DisconnectOne, DeleteCharacter, DeleteSession, FlagsWithout
<1>2. /\ live \subseteq Ids
      /\ cur \in [ Ids -> Sectors ]
      /\ act \in [ Ids -> Actions ]
      /\ hp \in [ Ids -> MinHP .. MaxHP ]
      /\ view \in Views
  BY DEF IInv, SessionsOK, PlayersOK, OutOK
<1>3. v \in marked /\ v \in live
  BY <1>1, TailSet DEF IInv, OutOK, DisconnectListExact
<1>4. Bereaved(v) = { r \in live \ {v} : cur[r] \in Block(cur[v]) }
  BY <1>2, <1>3, AroundIs DEF Bereaved
<1>5. \A r \in live \ {v} : Sees(r, v) <=> r \in Bereaved(v)
  BY <1>2, <1>3, <1>4, BlockFacts DEF Sees
<1> HIDE DEF v, lost
<1>6. ASSUME NEW r \in live' \ marked', NEW q \in Ids
      PROVE  /\ view'[r][q].copies = IF Sees(r, q)' THEN 1 ELSE 0
             /\ q \in live' /\ Sees(r, q)' => view'[r][q].hp = hp'[q]
             /\ q \in live' \ marked' /\ Sees(r, q)' /\ r # q => view'[r][q].act = act'[q]
  <2>1. r \in live \ marked /\ r # v /\ r \notin lost /\ r \in Ids
    BY <1>1, <1>2
  <2>2. /\ view[r][q] \in Entries
        /\ view[r][q].copies = IF Sees(r, q) THEN 1 ELSE 0
        /\ q \in live /\ Sees(r, q) => view[r][q].hp = hp[q]
        /\ q \in live \ marked /\ Sees(r, q) /\ r # q => view[r][q].act = act[q]
    BY <1>2, <2>1
       DEF ViewsOK, ClientsInformed, ViewExact, MotionKnown, HitPointsKnown, Views
  <2>3. view'[r] = IF r \in Bereaved(v) THEN [view[r] EXCEPT ![v] = Deleted(@)] ELSE view[r]
    BY <1>1, <2>1
  <2>4. view[r] \in [ Ids -> Entries ]
    BY <1>2, <2>1 DEF Views
  <2>5. CASE q = v
    <3>1. ~ Sees(r, q)' /\ q \notin live'
      BY <1>1, <2>5 DEF Sees
    <3>2. view'[r][q].copies = 0
      <4>1. CASE r \in Bereaved(v)
        <5>1. view'[r][q] = Deleted(view[r][q])
          BY <2>3, <2>4, <2>5, <4>1
        <5>2. view[r][q].copies = 1
          BY <1>5, <2>1, <2>2, <2>5, <4>1
        <5>3. QED
          BY <5>1, <5>2 DEF Deleted, Unknown
      <4>2. CASE r \notin Bereaved(v)
        BY <1>5, <2>1, <2>2, <2>3, <2>5, <4>2
      <4>3. QED
        BY <4>1, <4>2
    <3>3. QED
      BY <3>1, <3>2
  <2>6. CASE q # v
    <3>1. view'[r][q] = view[r][q]
      BY <2>3, <2>4, <2>6
    <3>2. Sees(r, q)' <=> Sees(r, q)
      BY <1>1, <1>2, <2>1, <2>6 DEF Sees
    <3>3. act'[q] = act[q] /\ hp'[q] = hp[q]
      BY <1>1, <1>2, <2>6
    <3>4. /\ q \in live' <=> q \in live
          /\ q \in live' \ marked' => q \in live \ marked
      BY <1>1, <2>6
    <3>5. QED
      BY <2>2, <3>1, <3>2, <3>3, <3>4
  <2>7. QED
    BY <2>5, <2>6
<1>7. live' \subseteq Ids
  BY <1>1, <1>2
<1>8. ViewExact' /\ MotionKnown' /\ HitPointsKnown'
  <2>1. ViewExact'
    BY <1>6 DEF ViewExact
  <2>2. MotionKnown'
    BY <1>6, <1>7 DEF MotionKnown
  <2>3. HitPointsKnown'
    BY <1>6, <1>7 DEF HitPointsKnown
  <2>4. QED
    BY <2>1, <2>2, <2>3
<1>9. ASSUME NEW r \in Ids, r \notin live' \ marked' PROVE view'[r] = Nobody
  <2>1. CASE r = v \/ r \in marked \cup lost
    BY <1>1, <2>1
  <2>2. CASE r # v /\ r \notin marked \cup lost
    <3>1. r \notin live /\ r \notin Bereaved(v)
      BY <1>1, <1>4, <1>9, <2>2
    <3>2. QED
      BY <1>1, <2>2, <3>1 DEF ViewsOK
  <2>3. QED
    BY <2>1, <2>2
<1>10. \A r \in Ids \ live' : act'[r] = Stop
  BY <1>1, <1>2 DEF ViewsOK
<1>11. QED
  BY <1>8, <1>9, <1>10 DEF ViewsOK, ClientsInformed

(* The other steps of netIOProcess, of the frame and of the environment    *)
(* change nothing a client sees; they may give sessions up.                *)
LEMMA SilentViews ==
  ASSUME IInv, ViewsOK, UNCHANGED << live, playerVars >>,
         NEW n, NEW bad, Deliver(n, view, bad)
  PROVE  ViewsOK'
BY DeliveredViews, GivenUpViews DEF playerVars

LEMMA SendErrorViews ==
  ASSUME IInv, ViewsOK, NEW s \in Ids, SendError(s)
  PROVE  ViewsOK'
<1>1. /\ UNCHANGED << live, act, hp, cur >>
      /\ marked' = marked \cup {s}
      /\ view' = [view EXCEPT ![s] = Nobody]
  BY DEF SendError, playerVars
<1>2. \A r \in marked : view[r] = Nobody
  BY DEF IInv, OutOK, ViewsOK
<1>3. \A r \in Ids : view'[r] = IF r \in marked' THEN Nobody ELSE view[r]
  BY <1>1, <1>2 DEF IInv, OutOK, Views
<1>4. QED
  BY <1>1, <1>3, GivenUpViews

LEMMA PacketProcViews ==
  ASSUME IInv, ViewsOK, NEW s \in Ids, PacketProc(s)
  PROVE  ViewsOK'
<1>1. \A p \in ClientPositions : p[1] \in 0 .. MoveRight /\ p[2] \in 0 .. MoveBottom
  BY PlayerAssumption DEF Positions
<1>2. CASE Echo(s)
  BY <1>2, SilentViews, MessageParts DEF Echo
<1>3. ASSUME NEW p \in ClientPositions, NEW d \in Actions, MoveStart(s, d, p[1], p[2])
      PROVE  ViewsOK'
  BY <1>1, <1>3, MoveStartViews
<1>4. ASSUME NEW p \in ClientPositions, MoveStop(s, p[1], p[2])
      PROVE  ViewsOK'
  BY <1>1, <1>4, MoveStopViews
<1>5. ASSUME NEW p \in ClientPositions, NEW k \in AttackKinds, NEW left \in BOOLEAN,
             AttackMiss(s, k, left, p[1], p[2])
      PROVE  ViewsOK'
  BY <1>5, SilentViews, MessageParts DEF AttackMiss
<1>6. ASSUME NEW p \in ClientPositions, NEW k \in AttackKinds, NEW left \in BOOLEAN,
             NEW v \in Ids, AttackHit(s, k, left, p[1], p[2], v)
      PROVE  ViewsOK'
  BY <1>1, <1>6, AttackHitViews
<1>7. QED
  BY <1>2, <1>3, <1>4, <1>5, <1>6 DEF PacketProc

LEMMA NextViews ==
  ASSUME IInv, ViewsOK, [Next]_vars
  PROVE  ViewsOK'
<1> USE DEF outVars, playerVars
<1>1. CASE UNCHANGED vars
  BY <1>1, ViewsKept DEF vars
<1>2. ASSUME NEW s \in Ids, CloseConnection(s) PROVE ViewsOK'
  BY <1>2, ViewsKept DEF CloseConnection
<1>3. CASE NetIOProcess
  <2>1. CASE Select \/ EndOfIO \/ AcceptNone
    BY <2>1, ViewsKept DEF Select, EndOfIO, AcceptNone
  <2>2. ASSUME NEW p \in SpawnPositions, Accept(p[1], p[2]) PROVE ViewsOK'
    <3>1. p[1] \in 0 .. MoveRight /\ p[2] \in 0 .. MoveBottom
      BY PlayerAssumption DEF Positions
    <3>2. QED
      BY <2>2, <3>1, AcceptViews
  <2>3. ASSUME NEW s \in Ids, RecvNothing(s) PROVE ViewsOK'
    BY <2>3, ViewsKept DEF RecvNothing
  <2>4. ASSUME NEW s \in Ids, RecvClosed(s) PROVE ViewsOK'
    BY <2>4, SilentViews DEF RecvClosed
  <2>5. ASSUME NEW s \in Ids, PacketProc(s) PROVE ViewsOK'
    BY <2>5, PacketProcViews
  <2>6. ASSUME NEW s \in Ids, Send(s) PROVE ViewsOK'
    BY <2>6, ViewsKept DEF Send
  <2>7. ASSUME NEW s \in Ids, SendError(s) PROVE ViewsOK'
    BY <2>7, SendErrorViews
  <2>8. QED
    BY <1>3, <2>1, <2>2, <2>3, <2>4, <2>5, <2>6, <2>7 DEF NetIOProcess
<1>4. CASE DisconnectOne
  BY <1>4, DisconnectOneViews
<1>5. CASE EndOfDisconnect \/ NoFrame
  BY <1>5, ViewsKept DEF EndOfDisconnect, NoFrame
<1>6. CASE NetHeartbeat
  BY <1>6, SilentViews DEF NetHeartbeat
<1>7. ASSUME NEW s \in Ids, UpdateDead(s) \/ UpdateInvalid(s) PROVE ViewsOK'
  BY <1>7, SilentViews DEF UpdateDead, UpdateInvalid
<1>8. ASSUME NEW s \in Ids, UpdateMove(s) PROVE ViewsOK'
  BY <1>8, UpdateMoveViews
<1>9. CASE EndOfUpdate
  BY <1>9, ViewsKept DEF EndOfUpdate
<1>10. QED
  BY <1>1, <1>2, <1>3, <1>4, <1>5, <1>6, <1>7, <1>8, <1>9
     DEF Next, Server, Disconnect, Update

(* Session.cpp and Contents.cpp: whatever the clients do, and whichever    *)
(* sessions fail, every client that was not given up has been told of      *)
(* exactly the players in the nine sectors around it, each of them once,   *)
(* and knows how they move and what hit points they have.                  *)
THEOREM ClientsAreInformed == Spec => []ClientsInformed
<1>1. Init => ViewsOK
  BY DEF Init, ViewsOK, ClientsInformed, ViewExact, MotionKnown, HitPointsKnown
<1>2. IInv /\ ViewsOK /\ [Next]_vars => ViewsOK'
  BY NextViews
<1>3. ViewsOK => ClientsInformed
  BY DEF ViewsOK
<1>4. QED
  BY <1>1, <1>2, <1>3, Invariance, PTL DEF Spec

=============================================================================
