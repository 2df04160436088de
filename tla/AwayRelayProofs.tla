-------------------------- MODULE AwayRelayProofs --------------------------
(***************************************************************************)
(* Theorems about AwayRelay, for any tabs, accounts, rooms, messages and   *)
(* limits.                                                                 *)
(***************************************************************************)
EXTENDS AwayRelay, MailboxProofs, SequenceTheorems

Tab == [on: BOOLEAN, room: Rooms \cup {NoRoom}, acct: Accounts \cup {NoAccount},
        cover: BOOLEAN, susp: BOOLEAN, leased: SUBSET (Accounts \X (1 .. MaxRows))]
Item == Accounts \X (1 .. MaxRows) \X Statuses

(* The mailboxes b are sound at time at, and no row is past the bound.     *)
Boxes(b, at) ==
  /\ b = [a \in Accounts |-> b[a]]
  /\ \A a \in Accounts : Good(b[a], at) /\ b[a].ids <= MaxRows
Book(l) ==
  /\ DOMAIN l \subseteq Messages
  /\ l \in [DOMAIN l -> Entry]
List(s) ==
  s \in Seq(Rooms) /\ Len(s) <= MaxAwayRooms /\ IsInjective(s)
Lists(s) ==
  s = [a \in Accounts |-> s[a]] /\ \A a \in Accounts : List(s[a])
Clock ==
  now \in 0 .. MaxTime /\ boot \in 0 .. now

Typed ==
  /\ tab \in [Tabs -> Tab]
  /\ inbox \in [Tabs -> SUBSET Item]
  /\ away \in [Rooms -> SUBSET Accounts]
  /\ alive \subseteq Accounts
  /\ relayed \subseteq Relayed
  /\ Boxes(box, now)
  /\ Book(ledger)
  /\ Lists(store) /\ Lists(disk)
  /\ Clock

----------------------------------------------------------------------------
(* Mailboxes.                                                              *)

(* One mailbox of several is replaced by a sound one.                      *)
LEMMA ReplaceKeepsBoxes ==
  ASSUME NEW b, NEW at, Boxes(b, at), NEW a \in Accounts, NEW mb,
         Good(mb, at), mb.ids <= MaxRows
  PROVE  /\ Boxes([b EXCEPT ![a] = mb], at)
         /\ [b EXCEPT ![a] = mb][a] = mb
         /\ \A x \in Accounts : x # a => [b EXCEPT ![a] = mb][x] = b[x]
BY DEF Boxes

LEMMA RowIds ==
  ASSUME NEW b, NEW at, Boxes(b, at), NEW a \in Accounts, NEW i \in Ids(b[a])
  PROVE  i \in 1 .. MaxRows /\ b[a].rows[i] \in Row /\ LifeOf(b[a].rows[i], at)
<1>1. b[a].rows[i] \in Row /\ LifeOf(b[a].rows[i], at)
  BY RowsOfGood DEF Boxes
<1>2. i \in 1 .. b[a].ids /\ b[a].ids \in Nat /\ b[a].ids <= MaxRows
  BY DEF Boxes, Good, IsMailbox, Ids
<1> QED
  BY <1>1, <1>2, RelayAssumption

(* Rewriting the rows leaves the number of ids alone.                      *)
LEMMA SameIds ==
  ASSUME NEW mb, NEW at, Good(mb, at)
  PROVE  /\ \A ids : Ack(mb, ids).ids = mb.ids /\ Release(mb, ids).ids = mb.ids
         /\ \A r : Lease(mb, r, at).ids = mb.ids
         /\ \A m, st : UpgradeStatus(mb, m, st).ids = mb.ids
         /\ Sweep(mb, at).ids = mb.ids
         /\ Purge(mb).ids = mb.ids
<1>1. mb = [rows |-> mb.rows, seq |-> mb.seq, ids |-> mb.ids]
  BY DEF Good, IsMailbox
<1> QED
  BY <1>1 DEF Ack, Without, Release, Lease, UpgradeStatus, Sweep, Purge, EmptyMailbox

LEMMA ReleasedKeepsBoxes ==
  ASSUME NEW b, NEW at, Boxes(b, at), NEW a \in Accounts, NEW ids
  PROVE  Boxes([b EXCEPT ![a] = Release(@, ids)], at)
<1>1. Good(b[a], at) /\ b[a].ids <= MaxRows
  BY DEF Boxes
<1>2. Good(Release(b[a], ids), at) /\ Release(b[a], ids).ids <= MaxRows
  BY <1>1, ReleaseKeepsGood, SameIds
<1> QED
  BY <1>2, ReplaceKeepsBoxes

LEMMA LeaseKeepsBoxes ==
  ASSUME NEW b, NEW at \in Nat, Boxes(b, at), NEW a \in Accounts, NEW r \in Rooms
  PROVE  Boxes([b EXCEPT ![a] = Lease(@, r, at)], at)
<1>1. Good(b[a], at) /\ b[a].ids <= MaxRows
  BY DEF Boxes
<1>2. Good(Lease(b[a], r, at), at) /\ Lease(b[a], r, at).ids <= MaxRows
  BY <1>1, LeaseKeepsGood, SameIds
<1> QED
  BY <1>2, ReplaceKeepsBoxes

LEMMA EnqueueKeepsBoxes ==
  ASSUME NEW b, NEW at \in Nat, Boxes(b, at), NEW a \in Accounts, NEW in \in Input,
         b[a].ids < MaxRows \/ ~Accepts(b[a], in)
  PROVE  Boxes([b EXCEPT ![a] = Enqueue(@, in, at)], at)
<1>1. Good(b[a], at) /\ b[a].ids <= MaxRows /\ b[a].ids \in Nat
  BY DEF Boxes, Good, IsMailbox
<1>2. Good(Enqueue(b[a], in, at), at)
  BY <1>1, EnqueueKeepsGood
<1>3. Enqueue(b[a], in, at).ids <= MaxRows
  BY <1>1, RelayAssumption DEF Enqueue
<1> QED
  BY <1>2, <1>3, ReplaceKeepsBoxes

LEMMA UpgradeKeepsBoxes ==
  ASSUME NEW b, NEW at, Boxes(b, at), NEW a \in Accounts, NEW m, NEW st \in Statuses
  PROVE  Boxes([b EXCEPT ![a] = UpgradeStatus(@, m, st)], at)
<1>1. Good(b[a], at) /\ b[a].ids <= MaxRows
  BY DEF Boxes
<1>2. Good(UpgradeStatus(b[a], m, st), at) /\ UpgradeStatus(b[a], m, st).ids <= MaxRows
  BY <1>1, UpgradeKeepsGood, SameIds
<1> QED
  BY <1>2, ReplaceKeepsBoxes

(* notifySender(): a sender that exists, a reporter that is in a room.     *)
LEMMA NotifiedKeepsBoxes ==
  ASSUME Typed, NEW b, Boxes(b, now), NEW c \in Tabs, NEW r \in Rooms,
         NEW m \in Messages, NEW s \in Senders, NEW st \in Statuses
  PROVE  Boxes(Notified(b, c, r, m, s, st), now)
<1>1. now \in Nat
  BY DEF Typed, Clock
<1>2. CASE Online(r, s) # {} \/ s.acct \notin alive
  BY <1>2 DEF Notified
<1>3. CASE ~(Online(r, s) # {} \/ s.acct \notin alive)
  <2>1. s.acct \in Accounts
    BY <1>3 DEF Typed
  <2>2. Sender(c) \in Senders
    BY RelayAssumption DEF Sender, Typed, Tab
  <2>3. StatusFor(c, r, m, st) \in Input
    BY <2>2 DEF StatusFor, Input, Kinds, Statuses
  <2>4. Boxes([b EXCEPT ![s.acct] = UpgradeStatus(@, m, st)], now)
    BY <2>1, UpgradeKeepsBoxes
  <2>5. b[s.acct].ids < MaxRows =>
          Boxes([b EXCEPT ![s.acct] = Enqueue(@, StatusFor(c, r, m, st), now)], now)
    BY <1>1, <2>1, <2>3, EnqueueKeepsBoxes
  <2> QED
    BY <1>3, <2>4, <2>5 DEF Notified
<1> QED
  BY <1>2, <1>3

(* What the client of record t is handed out of b.                         *)
LEMMA TakenTyped ==
  ASSUME Typed, NEW b, Boxes(b, now), NEW t, t.acct \in Accounts, t.room \in Rooms
  PROVE  /\ Taken(b, t) \subseteq Accounts \X (1 .. MaxRows)
         /\ Shown(b, t) \subseteq Item
         /\ Boxes(Delivered(b, t), now)
<1>1. now \in Nat
  BY DEF Typed, Clock
<1>2. Waiting(b, t) \subseteq Ids(b[t.acct])
  BY DEF Waiting, Handed, Batch, Due
<1>3. \A i \in Waiting(b, t) : i \in 1 .. MaxRows /\ b[t.acct].rows[i].status \in Statuses
  BY <1>2, RowIds DEF Row
<1>4. Boxes(Delivered(b, t), now)
  BY <1>1, LeaseKeepsBoxes DEF Delivered
<1> QED
  BY <1>3, <1>4 DEF Taken, Shown, Item

----------------------------------------------------------------------------
(* The list of away rooms.                                                 *)

LEMMA LeastIndex ==
  ASSUME NEW s, NEW r, NEW k, k \in {i \in 1 .. Len(s) : s[i] = r}, IsInjective(s),
         DOMAIN s = 1 .. Len(s)
  PROVE  /\ {i \in 1 .. Len(s) : s[i] = r} # {}
         /\ Min({i \in 1 .. Len(s) : s[i] = r}) = k
<1> DEFINE I == {i \in 1 .. Len(s) : s[i] = r}
<1>1. I = {k}
  BY DEF IsInjective
<1>2. Min({k}) = k
  BY DEF Min
<1> QED
  BY <1>1, <1>2

(* RemoveFirst of a list that names nothing twice takes r out of it.       *)
LEMMA RemoveProperties ==
  ASSUME NEW s \in Seq(Rooms), IsInjective(s), NEW r
  PROVE  /\ RemoveFirst(s, r) \in Seq(Rooms)
         /\ IsInjective(RemoveFirst(s, r))
         /\ Len(RemoveFirst(s, r)) <= Len(s)
         /\ ToSet(RemoveFirst(s, r)) = ToSet(s) \ {r}
<1>1. Len(s) \in Nat /\ DOMAIN s = 1 .. Len(s) /\ \A i \in 1 .. Len(s) : s[i] \in Rooms
  BY LenProperties
<1>2. CASE ~\E i \in 1 .. Len(s) : s[i] = r
  BY <1>1, <1>2 DEF RemoveFirst, ToSet
<1>3. CASE \E i \in 1 .. Len(s) : s[i] = r
  <2>1. PICK k \in 1 .. Len(s) : s[k] = r
    BY <1>3
  <2> DEFINE p == SubSeq(s, 1, k - 1)
             q == SubSeq(s, k + 1, Len(s))
             u == p \o q
  <2>2. RemoveFirst(s, r) = u
    <3>1. /\ {i \in 1 .. Len(s) : s[i] = r} # {}
          /\ Min({i \in 1 .. Len(s) : s[i] = r}) = k
      BY <1>1, <2>1, LeastIndex
    <3> QED
      BY <1>3, <3>1 DEF RemoveFirst, RemoveAt, SelectInSeq
  <2>3. /\ p \in Seq(Rooms) /\ Len(p) = k - 1
        /\ \A i \in 1 .. k - 1 : p[i] = s[i]
    BY <1>1, <2>1, SubSeqProperties
  <2>4. /\ q \in Seq(Rooms) /\ Len(q) = Len(s) - k
        /\ \A i \in 1 .. Len(s) - k : q[i] = s[k + i]
    <3>1. \A i \in k + 1 .. Len(s) : s[i] \in Rooms
      BY <1>1, <2>1
    <3>2. k + 1 \in Int /\ Len(s) \in Int
      BY <1>1, <2>1
    <3>3. /\ q \in Seq(Rooms)
          /\ Len(q) = IF k + 1 <= Len(s) THEN Len(s) - (k + 1) + 1 ELSE 0
          /\ \A i \in 1 .. Len(s) - (k + 1) + 1 : q[i] = s[k + 1 + i - 1]
      BY <3>1, <3>2, SubSeqProperties
    <3> HIDE DEF q
    <3>4. Len(q) = Len(s) - k
      <4>1. Len(q) = IF k + 1 <= Len(s) THEN Len(s) - (k + 1) + 1 ELSE 0
        BY <3>3
      <4>2. Len(s) \in Nat /\ k \in 1 .. Len(s)
        BY <1>1, <2>1
      <4> QED
        BY <4>1, <4>2
    <3>5. ASSUME NEW i \in 1 .. Len(s) - k
          PROVE  q[i] = s[k + i]
      <4>1. i \in 1 .. Len(s) - (k + 1) + 1 /\ k + 1 + i - 1 = k + i
        BY <1>1, <2>1
      <4> QED
        BY <4>1, <3>3
    <3> QED
      BY <3>3, <3>4, <3>5
  <2> HIDE DEF p, q
  <2>5. /\ u \in Seq(Rooms) /\ Len(u) = Len(s) - 1
        /\ DOMAIN u = 1 .. Len(s) - 1
        /\ \A i \in 1 .. Len(s) - 1 : u[i] = IF i < k THEN s[i] ELSE s[i + 1]
    <3>1. /\ u \in Seq(Rooms) /\ Len(u) = Len(p) + Len(q)
          /\ \A i \in 1 .. Len(p) + Len(q) :
               u[i] = IF i <= Len(p) THEN p[i] ELSE q[i - Len(p)]
      BY <2>3, <2>4, ConcatProperties
    <3>2. DOMAIN u = 1 .. Len(u)
      BY <3>1, LenProperties
    <3> HIDE DEF u
    <3>3. Len(p) + Len(q) = Len(s) - 1
      BY <2>3, <2>4, <1>1, <2>1
    <3>4. ASSUME NEW i \in 1 .. Len(s) - 1
          PROVE  u[i] = IF i < k THEN s[i] ELSE s[i + 1]
      <4>1. CASE i < k
        <5>1. i <= Len(p) /\ i \in 1 .. k - 1
          BY <4>1, <2>1, <2>3, <1>1
        <5> QED
          BY <5>1, <4>1, <3>1, <3>3, <2>3
      <4>2. CASE ~(i < k)
        <5>1. ~(i <= Len(p)) /\ i - Len(p) \in 1 .. Len(s) - k /\ k + (i - Len(p)) = i + 1
          BY <4>2, <2>1, <2>3, <1>1
        <5>2. q[i - Len(p)] = s[i + 1]
          BY <5>1, <2>4
        <5> QED
          BY <5>1, <5>2, <4>2, <3>1, <3>3
      <4> QED
        BY <4>1, <4>2
    <3> QED
      BY <3>1, <3>2, <3>3, <3>4
  <2> HIDE DEF u
  <2>6. IsInjective(u)
    <3> SUFFICES ASSUME NEW i \in 1 .. Len(s) - 1, NEW j \in 1 .. Len(s) - 1, u[i] = u[j]
                 PROVE  i = j
      BY <2>5 DEF IsInjective
    <3>1. /\ i \in 1 .. Len(s) /\ j \in 1 .. Len(s)
          /\ i + 1 \in 1 .. Len(s) /\ j + 1 \in 1 .. Len(s)
      BY <1>1
    <3>2. \A x, y \in 1 .. Len(s) : s[x] = s[y] => x = y
      BY <1>1 DEF IsInjective
    <3>3. CASE i < k /\ j < k
      BY <3>1, <3>2, <3>3, <2>5
    <3>4. CASE i < k /\ ~(j < k)
      <4>1. i = j + 1
        BY <3>1, <3>2, <3>4, <2>5
      <4> QED
        BY <4>1, <3>4, <2>1
    <3>5. CASE ~(i < k) /\ j < k
      <4>1. i + 1 = j
        BY <3>1, <3>2, <3>5, <2>5
      <4> QED
        BY <4>1, <3>5, <2>1
    <3>6. CASE ~(i < k) /\ ~(j < k)
      <4>1. i + 1 = j + 1
        BY <3>1, <3>2, <3>6, <2>5
      <4> QED
        BY <4>1
    <3> QED
      BY <3>3, <3>4, <3>5, <3>6
  <2>7. ToSet(u) \subseteq ToSet(s) \ {r}
    <3> SUFFICES ASSUME NEW i \in 1 .. Len(s) - 1
                 PROVE  u[i] \in ToSet(s) /\ u[i] # r
      BY <2>5 DEF ToSet
    <3>1. i \in 1 .. Len(s) /\ i + 1 \in 1 .. Len(s)
      BY <1>1
    <3>2. PICK x \in 1 .. Len(s) : u[i] = s[x] /\ x # k
      <4>1. CASE i < k
        BY <4>1, <3>1, <2>5, <2>1
      <4>2. CASE ~(i < k)
        <5>1. i + 1 # k
          BY <4>2, <2>1
        <5> QED
          BY <5>1, <4>2, <3>1, <2>5
      <4> QED
        BY <4>1, <4>2
    <3> QED
      BY <3>2, <1>1, <2>1 DEF ToSet, IsInjective
  <2>8. ToSet(s) \ {r} \subseteq ToSet(u)
    <3> SUFFICES ASSUME NEW y \in ToSet(s), y # r
                 PROVE  \E i \in DOMAIN u : u[i] = y
      BY DEF ToSet
    <3>0. PICK x \in 1 .. Len(s) : s[x] = y
      BY <1>1 DEF ToSet
    <3>1. x # k
      BY <2>1, <3>0
    <3>2. CASE x < k
      <4>1. x \in 1 .. Len(s) - 1
        BY <3>2, <1>1, <2>1
      <4> QED
        BY <4>1, <3>0, <3>2, <2>5
    <3>3. CASE x > k
      <4>1. x - 1 \in 1 .. Len(s) - 1 /\ ~(x - 1 < k) /\ x - 1 + 1 = x
        BY <3>3, <1>1, <2>1
      <4> QED
        BY <4>1, <3>0, <2>5
    <3> QED
      BY <3>1, <3>2, <3>3, <2>1
  <2>9. Len(u) <= Len(s)
    BY <2>5, <1>1
  <2> QED
    BY <2>2, <2>5, <2>6, <2>7, <2>8, <2>9
<1> QED
  BY <1>2, <1>3

(* noteAway() keeps a list a list, with the room at its end.               *)
LEMMA NotedProperties ==
  ASSUME Lists(store), NEW a \in Accounts, NEW r \in Rooms
  PROVE  /\ List(Noted(a, r))
         /\ r \in ToSet(Noted(a, r))
         /\ ToSet(Noted(a, r)) \subseteq ToSet(store[a]) \cup {r}
<1> DEFINE u == RemoveFirst(store[a], r)
           w == Append(u, r)
<1>1. /\ u \in Seq(Rooms) /\ IsInjective(u)
      /\ ToSet(u) = ToSet(store[a]) \ {r}
  BY RemoveProperties DEF Lists, List
<1> HIDE DEF u
<1>2. Len(u) \in Nat /\ DOMAIN u = 1 .. Len(u)
  BY <1>1, LenProperties
<1>3. /\ w \in Seq(Rooms) /\ Len(w) = Len(u) + 1
      /\ \A i \in 1 .. Len(u) : w[i] = u[i]
      /\ w[Len(u) + 1] = r
      /\ DOMAIN w = 1 .. Len(u) + 1
  BY <1>1, AppendProperties, LenProperties
<1> HIDE DEF w
<1>4. IsInjective(w)
  <2> SUFFICES ASSUME NEW i \in 1 .. Len(u) + 1, NEW j \in 1 .. Len(u) + 1, w[i] = w[j]
               PROVE  i = j
    BY <1>3 DEF IsInjective
  <2>1. \A x \in 1 .. Len(u) : w[x] # r
    BY <1>1, <1>2, <1>3 DEF ToSet
  <2>2. CASE i \in 1 .. Len(u) /\ j \in 1 .. Len(u)
    BY <2>2, <1>1, <1>2, <1>3 DEF IsInjective
  <2>3. CASE ~(i \in 1 .. Len(u)) \/ ~(j \in 1 .. Len(u))
    <3>1. \A x \in 1 .. Len(u) + 1 : x \in 1 .. Len(u) \/ x = Len(u) + 1
      BY <1>2
    <3> QED
      BY <3>1, <2>1, <2>3, <1>3
  <2> QED
    BY <2>2, <2>3
<1>5. ToSet(w) \subseteq ToSet(store[a]) \cup {r} /\ r \in ToSet(w)
  <2>1. Len(u) + 1 \in 1 .. Len(u) + 1
    BY <1>2
  <2>2. \A x \in 1 .. Len(u) + 1 : x \in 1 .. Len(u) \/ x = Len(u) + 1
    BY <1>2
  <2> QED
    BY <2>1, <2>2, <1>1, <1>2, <1>3 DEF ToSet
<1>6. Noted(a, r) = Newest(w)
  BY DEF Noted, w, u
<1>7. MaxAwayRooms \in Nat \ {0}
  BY RelayAssumption
<1>8. CASE ~(Len(w) > MaxAwayRooms)
  BY <1>8, <1>2, <1>3, <1>4, <1>5, <1>6, <1>7 DEF Newest, List
<1>9. CASE Len(w) > MaxAwayRooms
  <2> DEFINE d == Len(w) - MaxAwayRooms
             v == SubSeq(w, d + 1, Len(w))
  <2>1. d \in Nat /\ d + MaxAwayRooms = Len(w) /\ Len(w) \in Nat
    BY <1>2, <1>3, <1>7, <1>9
  <2> HIDE DEF d
  <2>2. Newest(w) = v
    BY <1>9 DEF Newest, d
  <2>3. /\ v \in Seq(Rooms) /\ Len(v) = MaxAwayRooms
        /\ \A i \in 1 .. MaxAwayRooms : v[i] = w[d + i]
    <3>1. d + 1 \in Int /\ Len(w) \in Int /\ \A i \in d + 1 .. Len(w) : w[i] \in Rooms
      BY <2>1, <1>3, LenProperties
    <3>2. /\ v \in Seq(Rooms)
          /\ Len(v) = IF d + 1 <= Len(w) THEN Len(w) - (d + 1) + 1 ELSE 0
          /\ \A i \in 1 .. Len(w) - (d + 1) + 1 : v[i] = w[d + 1 + i - 1]
      BY <3>1, SubSeqProperties
    <3> HIDE DEF v
    <3>3. Len(v) = MaxAwayRooms
      <4>1. Len(v) = IF d + 1 <= Len(w) THEN Len(w) - (d + 1) + 1 ELSE 0
        BY <3>2
      <4> QED
        BY <4>1, <2>1, <1>7
    <3>4. ASSUME NEW i \in 1 .. MaxAwayRooms
          PROVE  v[i] = w[d + i]
      <4>1. i \in 1 .. Len(w) - (d + 1) + 1 /\ d + 1 + i - 1 = d + i
        BY <2>1, <1>7
      <4> QED
        BY <4>1, <3>2
    <3> QED
      BY <3>2, <3>3, <3>4
  <2>4. DOMAIN v = 1 .. MaxAwayRooms
    BY <2>3, LenProperties
  <2> HIDE DEF v
  <2>5. \A i \in 1 .. MaxAwayRooms : d + i \in 1 .. Len(u) + 1
    BY <2>1, <1>3, <1>7
  <2>6. IsInjective(v)
    <3> SUFFICES ASSUME NEW i \in 1 .. MaxAwayRooms, NEW j \in 1 .. MaxAwayRooms, v[i] = v[j]
                 PROVE  i = j
      BY <2>4 DEF IsInjective
    <3>1. d + i = d + j
      BY <2>3, <2>5, <1>3, <1>4 DEF IsInjective
    <3> QED
      BY <3>1, <2>1, <1>7
  <2>7. ToSet(v) \subseteq ToSet(w)
    BY <2>3, <2>4, <2>5, <1>3 DEF ToSet
  <2>8. r \in ToSet(v)
    <3>1. MaxAwayRooms \in 1 .. MaxAwayRooms /\ d + MaxAwayRooms = Len(u) + 1
      BY <1>7, <2>1, <1>3
    <3> QED
      BY <3>1, <2>3, <2>4, <1>3 DEF ToSet
  <2>9. Len(v) <= MaxAwayRooms
    BY <2>3, <1>7
  <2> QED
    BY <2>2, <2>3, <2>6, <2>7, <2>8, <2>9, <1>5, <1>6 DEF List
<1> QED
  BY <1>8, <1>9

LEMMA SetAwayTyped ==
  ASSUME Typed, NEW a \in Accounts, NEW r \in Rooms, SetAway(a, r)
  PROVE  /\ away' \in [Rooms -> SUBSET Accounts]
         /\ Lists(store')
         /\ \A x \in Rooms : \A y \in away'[x] : y \in away[x] \/ (y = a /\ x = r)
         /\ \A y \in Accounts : y # a \/ a \notin alive => store'[y] = store[y]
<1>1. away \in [Rooms -> SUBSET Accounts] /\ Lists(store)
  BY DEF Typed
<1>2. CASE a \in away[r]
  BY <1>1, <1>2 DEF SetAway
<1>3. CASE a \notin away[r]
  <2>1. /\ store' = [store EXCEPT ![a] = IF a \in alive THEN Noted(a, r) ELSE @]
        /\ away' = [x \in Rooms |->
                  IF x = r THEN away[x] \cup {a}
                  ELSE IF x \in ToSet(store[a]) \ ToSet(store'[a]) THEN away[x] \ {a}
                  ELSE away[x]]
    BY <1>3 DEF SetAway
  <2>2. Lists(store')
    BY <1>1, <2>1, NotedProperties DEF Lists
  <2>3. \A y \in Accounts : y # a \/ a \notin alive => store'[y] = store[y]
    BY <1>1, <2>1 DEF Lists
  <2>4. ASSUME NEW x \in Rooms
        PROVE  /\ away'[x] \in SUBSET Accounts
               /\ \A y \in away'[x] : y \in away[x] \/ (y = a /\ x = r)
    BY <1>1, <2>1
  <2>5. away' \in [Rooms -> SUBSET Accounts]
    BY <2>1, <2>4
  <2> QED
    BY <2>2, <2>3, <2>4, <2>5
<1> QED
  BY <1>2, <1>3

LEMMA ClearAwayTyped ==
  ASSUME Typed, NEW a \in Accounts, NEW r \in Rooms, ClearAway(a, r)
  PROVE  /\ away' = [away EXCEPT ![r] = @ \ {a}]
         /\ away' \in [Rooms -> SUBSET Accounts]
         /\ Lists(store')
         /\ \A y \in Accounts : y # a \/ a \notin alive => store'[y] = store[y]
<1>1. away \in [Rooms -> SUBSET Accounts] /\ Lists(store)
  BY DEF Typed
<1>2. CASE a \in away[r]
  <2>1. List(RemoveFirst(store[a], r))
    <3>1. store[a] \in Seq(Rooms) /\ IsInjective(store[a]) /\ Len(store[a]) <= MaxAwayRooms
      BY <1>1 DEF Lists, List
    <3>2. /\ RemoveFirst(store[a], r) \in Seq(Rooms)
          /\ IsInjective(RemoveFirst(store[a], r))
          /\ Len(RemoveFirst(store[a], r)) <= Len(store[a])
      BY <3>1, RemoveProperties
    <3>3. /\ Len(store[a]) \in Nat /\ Len(RemoveFirst(store[a], r)) \in Nat
          /\ MaxAwayRooms \in Nat
      BY <3>1, <3>2, LenProperties, RelayAssumption
    <3> QED
      BY <3>1, <3>2, <3>3 DEF List
  <2>2. /\ store' = [store EXCEPT ![a] = IF a \in alive THEN RemoveFirst(@, r) ELSE @]
        /\ away' = [away EXCEPT ![r] = @ \ {a}]
    BY <1>2 DEF ClearAway
  <2> QED
    BY <1>1, <2>1, <2>2 DEF Lists
<1>3. CASE a \notin away[r]
  <2>1. away' = [away EXCEPT ![r] = @ \ {a}]
    BY <1>1, <1>3 DEF ClearAway
  <2> QED
    BY <1>1, <1>3, <2>1 DEF ClearAway
<1> QED
  BY <1>2, <1>3

LEMMA ForgetTyped ==
  ASSUME Typed, NEW a \in Accounts, Forget(a)
  PROVE  /\ away' \in [Rooms -> SUBSET Accounts]
         /\ Lists(store')
<1>1. List(<<>>)
  <2>1. <<>> \in Seq(Rooms) /\ Len(<<>>) = 0
    BY EmptySeq
  <2>2. IsInjective(<<>>)
    BY DEF IsInjective
  <2> QED
    BY <2>1, <2>2, RelayAssumption DEF List
<1> QED
  BY <1>1 DEF Forget, Typed, Lists

----------------------------------------------------------------------------
(* Type correctness.                                                       *)

LEMMA ClosedTyped == Closed \in Tab
BY DEF Closed, Tab

(* What c holds goes back to its own account's mailbox.                    *)
LEMMA ReleasedTyped ==
  ASSUME Typed, NEW c \in Tabs
  PROVE  Boxes(Released(c), now)
<1>1. tab[c].acct \in Accounts \cup {NoAccount} /\ Boxes(box, now)
  BY DEF Typed, Tab
<1> QED
  BY <1>1, ReleasedKeepsBoxes DEF Released

LEMMA ArriveTyped ==
  ASSUME Typed, NEW c \in Tabs, NEW t \in Tab, NEW b, Boxes(b, now), Arrive(c, t, b)
  PROVE  /\ tab' \in [Tabs -> Tab]
         /\ inbox' \in [Tabs -> SUBSET Item]
         /\ away' \in [Rooms -> SUBSET Accounts]
         /\ Lists(store')
         /\ Boxes(box', now)
<1>1. CASE t.acct # NoAccount /\ t.room # NoRoom /\ ~t.susp
  <2>1. t.acct \in Accounts /\ t.room \in Rooms
    BY <1>1 DEF Tab
  <2>2. /\ Taken(b, t) \subseteq Accounts \X (1 .. MaxRows)
        /\ Shown(b, t) \subseteq Item
        /\ Boxes(Delivered(b, t), now)
    BY <2>1, TakenTyped
  <2>3. /\ ClearAway(t.acct, t.room)
        /\ tab' = [tab EXCEPT ![c] = [t EXCEPT !.leased = @ \cup Taken(b, t)]]
        /\ inbox' = [inbox EXCEPT ![c] = @ \cup Shown(b, t)]
        /\ box' = Delivered(b, t)
    BY <1>1 DEF Arrive
  <2>4. [t EXCEPT !.leased = @ \cup Taken(b, t)] \in Tab
    BY <2>2 DEF Tab
  <2> QED
    BY <2>1, <2>2, <2>3, <2>4, ClearAwayTyped DEF Typed
<1>2. CASE ~(t.acct # NoAccount /\ t.room # NoRoom /\ ~t.susp)
  BY <1>2 DEF Arrive, Typed
<1> QED
  BY <1>1, <1>2

LEMMA DepartTyped ==
  ASSUME Typed, NEW c \in Tabs, NEW t \in Tab, NEW w, tab[c].room # NoRoom,
         Depart(c, t, w)
  PROVE  /\ tab' \in [Tabs -> Tab]
         /\ away' \in [Rooms -> SUBSET Accounts]
         /\ Lists(store')
         /\ Boxes(box', now)
<1>1. tab[c].acct \in Accounts \cup {NoAccount} /\ tab[c].room \in Rooms
  BY DEF Typed, Tab
<1>2. \/ tab[c].acct \in Accounts /\ SetAway(tab[c].acct, tab[c].room)
      \/ UNCHANGED <<away, store>>
  BY <1>1 DEF Depart
<1>3. tab' \in [Tabs -> Tab] /\ Boxes(box', now)
  BY ReleasedTyped DEF Depart, Typed
<1> QED
  BY <1>1, <1>2, <1>3, SetAwayTyped DEF Typed

LEMMA UnboundTyped ==
  ASSUME Typed, NEW C
  PROVE  Unbound(C) \in [Tabs -> Tab]
<1>1. ASSUME NEW c \in Tabs
      PROVE  Unbound(C)[c] \in Tab
  <2>1. tab[c] \in Tab
    BY DEF Typed
  <2>2. [tab[c] EXCEPT !.acct = NoAccount, !.cover = FALSE, !.leased = {}] \in Tab
    BY <2>1 DEF Tab
  <2> QED
    BY <2>1, <2>2 DEF Unbound
<1> QED
  BY <1>1 DEF Unbound

LEMMA RememberTyped ==
  ASSUME Book(ledger), NEW m \in Messages, NEW r \in Rooms, NEW s \in Senders,
         NEW a \in Accounts, NEW at \in Nat
  PROVE  Book(Remember(ledger, m, r, s, a, at))
<1>1. DOMAIN Remember(ledger, m, r, s, a, at) = DOMAIN ledger \cup {m}
  BY DEF Remember
<1>2. ASSUME NEW x \in DOMAIN ledger \cup {m}
      PROVE  Remember(ledger, m, r, s, a, at)[x] \in Entry
  BY <1>2, RelayAssumption DEF Remember, Book, Entry
<1> QED
  BY <1>1, <1>2 DEF Book, Remember

(* Every step keeps every variable well typed.                             *)
LEMMA InitTyped ==
  ASSUME Init
  PROVE  Typed
<1>1. tab \in [Tabs -> Tab]
  BY ClosedTyped DEF Init
<1>2. Boxes(box, now)
  <2>1. Good([EmptyMailbox EXCEPT !.ids = 0], 0)
    BY EmptyIsGood
  <2>2. [EmptyMailbox EXCEPT !.ids = 0] = EmptyMailbox /\ EmptyMailbox.ids = 0
    BY DEF EmptyMailbox
  <2> QED
    BY <2>1, <2>2, RelayAssumption DEF Init, Boxes
<1>3. Lists(store) /\ Lists(disk)
  <2>1. List(<<>>)
    <3>1. <<>> \in Seq(Rooms) /\ Len(<<>>) = 0
      BY EmptySeq
    <3>2. IsInjective(<<>>)
      BY DEF IsInjective
    <3> QED
      BY <3>1, <3>2, RelayAssumption DEF List
  <2> QED
    BY <2>1 DEF Init, Lists
<1>4. Book(ledger)
  BY DEF Init, EmptyLedger, Book
<1>5. Clock
  BY RelayAssumption DEF Init, Clock
<1>6. /\ inbox \in [Tabs -> SUBSET Item]
      /\ away \in [Rooms -> SUBSET Accounts]
      /\ alive \subseteq Accounts
      /\ relayed \subseteq Relayed
  BY DEF Init
<1> QED
  BY <1>1, <1>2, <1>3, <1>4, <1>5, <1>6 DEF Typed

(* What stays as it was stays typed.                                       *)
LEMMA UnmovedTyped ==
  ASSUME Typed, Unmoved,
         tab' \in [Tabs -> Tab], inbox' \in [Tabs -> SUBSET Item],
         away' \in [Rooms -> SUBSET Accounts], Lists(store'), Boxes(box', now)
  PROVE  Typed'
BY DEF Typed, Unmoved, Clock

LEMMA JoinTyped ==
  ASSUME Typed, NEW c \in Tabs, NEW r \in Rooms, NEW a, NEW cover, Join(c, r, a, cover)
  PROVE  Typed'
<1> DEFINE t == [Closed EXCEPT !.on = TRUE, !.room = r, !.acct = a, !.cover = cover,
                               !.susp = tab[c].susp]
<1>1. a \in Accounts \cup {NoAccount} /\ cover \in BOOLEAN
  BY RelayAssumption DEF Join, Bind, MayCover, Typed
<1>2. t \in Tab
  BY <1>1 DEF Closed, Tab, Typed
<1>3. Arrive(c, t, Released(c)) /\ Unmoved
  BY DEF Join
<1> HIDE DEF t
<1>4. Boxes(Released(c), now)
  BY ReleasedTyped
<1> QED
  BY <1>2, <1>3, <1>4, ArriveTyped, UnmovedTyped

LEMMA AuthTyped ==
  ASSUME Typed, NEW c \in Tabs, NEW a, NEW cover, Auth(c, a, cover)
  PROVE  Typed'
<1> DEFINE free == tab[c].acct # NoAccount /\ tab[c].room # NoRoom
           t == [tab[c] EXCEPT !.acct = a, !.cover = cover,
                               !.leased = IF free THEN {} ELSE @]
           b == IF free THEN Released(c) ELSE box
<1>1. a \in Accounts \cup {NoAccount} /\ cover \in BOOLEAN
  BY RelayAssumption DEF Auth, Bind, MayCover, Typed
<1>2. t \in Tab
  BY <1>1 DEF Tab, Typed
<1>3. Arrive(c, t, b) /\ Unmoved
  BY DEF Auth
<1>4. Boxes(b, now)
  BY ReleasedTyped DEF Typed
<1> HIDE DEF t, b
<1> QED
  BY <1>2, <1>3, <1>4, ArriveTyped, UnmovedTyped

LEMMA ResumeTyped ==
  ASSUME Typed, NEW c \in Tabs, Resume(c)
  PROVE  Typed'
<1> DEFINE t == [tab[c] EXCEPT !.susp = FALSE]
<1>1. t \in Tab
  BY DEF Tab, Typed
<1>2. Arrive(c, t, box) /\ Unmoved /\ Boxes(box, now)
  BY DEF Resume, Typed
<1> HIDE DEF t
<1> QED
  BY <1>1, <1>2, ArriveTyped, UnmovedTyped

LEMMA SuspendTyped ==
  ASSUME Typed, NEW c \in Tabs, Suspend(c)
  PROVE  Typed'
<1>1. tab[c] \in Tab
  BY DEF Typed
<1>2. \/ tab[c].acct \in Accounts /\ tab[c].room \in Rooms /\ SetAway(tab[c].acct, tab[c].room)
      \/ UNCHANGED <<away, store>>
  BY <1>1 DEF Suspend, Tab
<1>3. tab' \in [Tabs -> Tab] /\ UNCHANGED <<inbox, box>> /\ Unmoved
  BY DEF Suspend, Typed, Tab
<1>4. away' \in [Rooms -> SUBSET Accounts] /\ Lists(store')
  BY <1>2, SetAwayTyped DEF Typed
<1> QED
  BY <1>3, <1>4, UnmovedTyped DEF Typed

LEMMA LeaveTyped ==
  ASSUME Typed, NEW c \in Tabs, NEW w, Leave(c, w)
  PROVE  Typed'
<1>1. Left(tab[c]) \in Tab
  BY DEF Left, Tab, Typed
<1>2. Depart(c, Left(tab[c]), w) /\ tab[c].room # NoRoom /\ UNCHANGED inbox /\ Unmoved
  BY DEF Leave
<1> QED
  BY <1>1, <1>2, DepartTyped, UnmovedTyped DEF Typed

LEMMA CloseTyped ==
  ASSUME Typed, NEW c \in Tabs, Close(c)
  PROVE  Typed'
<1>1. inbox' \in [Tabs -> SUBSET Item] /\ Unmoved
  BY DEF Close, Typed
<1>2. CASE tab[c].room # NoRoom
  BY <1>1, <1>2, ClosedTyped, DepartTyped, UnmovedTyped DEF Close
<1>3. CASE tab[c].room = NoRoom
  <2>1. tab' = [tab EXCEPT ![c] = Closed] /\ UNCHANGED <<box, away, store>>
    BY <1>3 DEF Close
  <2> QED
    BY <1>1, <2>1, ClosedTyped, UnmovedTyped DEF Typed
<1> QED
  BY <1>2, <1>3

LEMMA RelayTyped ==
  ASSUME Typed, NEW c \in Tabs, NEW m \in Messages, NEW a \in Accounts, Relay(c, m, a)
  PROVE  Typed'
<1> DEFINE r  == tab[c].room
           in == MessageFor(c, m)
           b  == [box EXCEPT ![a] = Enqueue(@, in, now)]
<1>1. r \in Rooms /\ Sender(c) \in Senders /\ tab[c].acct \in Accounts \cup {NoAccount}
  BY RelayAssumption DEF Relay, Typed, Tab, Sender
<1>2. in \in Input
  BY <1>1 DEF MessageFor, Input, Kinds, Statuses
<1>3. now \in Nat
  BY DEF Typed, Clock
<1>4. box[a].ids < MaxRows \/ ~Accepts(box[a], in)
  BY DEF Relay, IsDuplicate, Accepts
<1>5. Boxes(b, now)
  BY <1>2, <1>3, <1>4, EnqueueKeepsBoxes DEF Typed
<1>6. Book(ledger')
  BY <1>1, <1>3, RememberTyped DEF Relay, Typed
<1>7. relayed' \subseteq Relayed
  BY <1>1 DEF Relay, Typed, Relayed
<1> HIDE DEF in
<1>8. /\ tab' \in [Tabs -> Tab] /\ inbox' \in [Tabs -> SUBSET Item] /\ Boxes(box', now)
  <2>1. CASE box' = b /\ UNCHANGED <<tab, inbox>>
    BY <2>1, <1>5 DEF Typed
  <2>2. ASSUME NEW p \in Awake(tab, a, r),
               tab' = [tab EXCEPT ![p].leased = @ \cup Taken(b, tab[p])],
               inbox' = [inbox EXCEPT ![p] = @ \cup Shown(b, tab[p])],
               box' = Delivered(b, tab[p])
        PROVE  tab' \in [Tabs -> Tab] /\ inbox' \in [Tabs -> SUBSET Item] /\ Boxes(box', now)
    <3>1. p \in Tabs /\ tab[p] \in Tab /\ tab[p].acct = a /\ tab[p].room = r
      BY DEF Awake, Typed
    <3>2. /\ Taken(b, tab[p]) \subseteq Accounts \X (1 .. MaxRows)
          /\ Shown(b, tab[p]) \subseteq Item
          /\ Boxes(Delivered(b, tab[p]), now)
      BY <1>1, <1>5, <3>1, TakenTyped
    <3> HIDE DEF b
    <3>3. [tab[p] EXCEPT !.leased = @ \cup Taken(b, tab[p])] \in Tab
      BY <3>1, <3>2 DEF Tab
    <3> QED
      BY <2>2, <3>1, <3>2, <3>3 DEF Typed
  <2> QED
    BY <2>1, <2>2 DEF Relay, in
<1> QED
  BY <1>6, <1>7, <1>8 DEF Relay, Typed, Clock

LEMMA AckItemTyped ==
  ASSUME Typed, NEW c \in Tabs, NEW e \in inbox[c], AckItem(c, e)
  PROVE  Typed'
<1> DEFINE a   == tab[c].acct
           row == box[a].rows[e[2]]
           b   == [box EXCEPT ![a] = Ack(@, {e[2]})]
<1>1. a \in Accounts /\ tab[c] \in Tab /\ Boxes(box, now)
  BY DEF AckItem, Typed, Tab
<1>2. tab' \in [Tabs -> Tab] /\ inbox' \in [Tabs -> SUBSET Item]
  BY <1>1 DEF AckItem, Typed, Tab
<1>3. Boxes(b, now)
  <2>1. Good(box[a], now) /\ box[a].ids <= MaxRows
    BY <1>1 DEF Boxes
  <2>2. Good(Ack(box[a], {e[2]}), now) /\ Ack(box[a], {e[2]}).ids <= MaxRows
    BY <2>1, AckKeepsGood, SameIds
  <2> HIDE DEF a
  <2> QED
    BY <1>1, <2>2, ReplaceKeepsBoxes
<1>4. Boxes(box', now)
  <2>1. CASE ~(e[1] = a /\ e[2] \in Live(box[a]))
    BY <2>1, <1>1 DEF AckItem
  <2>2. CASE e[1] = a /\ e[2] \in Live(box[a])
    <3>1. row \in Row
      BY <1>1, <2>2, RowIds DEF Live
    <3>2. Boxes(Notified(b, c, row.room, row.msg, row.from, "delivered"), now)
      BY <1>3, <3>1, NotifiedKeepsBoxes DEF Row, Statuses
    <3>3. box' = IF row.kind = "message"
                 THEN Notified(b, c, row.room, row.msg, row.from, "delivered") ELSE b
      BY <2>2 DEF AckItem
    <3> QED
      BY <1>3, <3>2, <3>3
  <2> QED
    BY <2>1, <2>2
<1>5. UNCHANGED <<away, store>> /\ Unmoved
  BY DEF AckItem
<1> QED
  BY <1>2, <1>4, <1>5, UnmovedTyped DEF Typed

LEMMA ReceiptTyped ==
  ASSUME Typed, NEW c \in Tabs, NEW m \in Messages, NEW st \in {"delivered", "read"},
         Receipt(c, m, st)
  PROVE  Typed'
<1>1. m \in DOMAIN ledger /\ ledger[m] \in Entry /\ Boxes(box, now)
  BY DEF Receipt, Typed, Book
<1>2. ledger[m].room \in Rooms /\ ledger[m].sender \in Senders
  BY <1>1 DEF Entry
<1>3. Boxes(box', now)
  BY <1>1, <1>2, NotifiedKeepsBoxes DEF Receipt, Statuses
<1>4. UNCHANGED <<tab, inbox, away, store>> /\ Unmoved
  BY DEF Receipt
<1> QED
  BY <1>3, <1>4, UnmovedTyped DEF Typed

LEMMA ReleasedByTyped ==
  ASSUME Typed, NEW a \in Accounts, NEW C
  PROVE  Boxes([box EXCEPT ![a] = ReleasedBy(a, C)], now)
BY ReleasedKeepsBoxes DEF ReleasedBy, Typed

LEMMA EndSessionTyped ==
  ASSUME Typed, NEW a \in Accounts, NEW C, EndSession(a, C)
  PROVE  Typed'
<1>1. /\ tab' = Unbound(C) /\ box' = [box EXCEPT ![a] = ReleasedBy(a, C)]
      /\ UNCHANGED <<inbox, away, store>> /\ Unmoved
  BY DEF EndSession
<1> QED
  BY <1>1, UnboundTyped, ReleasedByTyped, UnmovedTyped DEF Typed

LEMMA SignOutTyped ==
  ASSUME Typed, NEW a \in Accounts, NEW C, SignOut(a, C)
  PROVE  Typed'
<1>1. /\ tab' = Unbound(C) /\ box' = [box EXCEPT ![a] = ReleasedBy(a, C)]
      /\ Forget(a)
      /\ disk' \in {store', disk}
      /\ UNCHANGED <<inbox, alive, ledger, relayed, now, boot>>
  BY DEF SignOut
<1>2. tab' \in [Tabs -> Tab] /\ Boxes(box', now)
  BY <1>1, UnboundTyped, ReleasedByTyped
<1>3. away' \in [Rooms -> SUBSET Accounts] /\ Lists(store') /\ Lists(disk')
  BY <1>1, ForgetTyped DEF Typed
<1> QED
  BY <1>1, <1>2, <1>3 DEF Typed, Clock

LEMMA PurgeTyped ==
  ASSUME Typed, NEW a \in Accounts
  PROVE  Boxes([box EXCEPT ![a] = Purge(@)], now)
<1>1. Good(box[a], now) /\ box[a].ids <= MaxRows /\ box[a].ids \in Nat
  BY DEF Typed, Boxes, Good, IsMailbox
<1>2. Good(Purge(box[a]), now) /\ Purge(box[a]).ids <= MaxRows
  BY <1>1, EmptyIsGood, SameIds DEF Purge
<1> QED
  BY <1>2, ReplaceKeepsBoxes DEF Typed

LEMMA DeleteAccountTyped ==
  ASSUME Typed, NEW a \in Accounts, DeleteAccount(a)
  PROVE  Typed'
<1>1. /\ tab' = Unbound(SignedIn(a)) /\ box' = [box EXCEPT ![a] = Purge(@)]
      /\ Forget(a) /\ disk' = store' /\ alive' = alive \ {a}
      /\ UNCHANGED <<inbox, ledger, relayed, now, boot>>
  BY DEF DeleteAccount
<1>2. tab' \in [Tabs -> Tab] /\ Boxes(box', now)
  BY <1>1, UnboundTyped, PurgeTyped
<1>3. away' \in [Rooms -> SUBSET Accounts] /\ Lists(store') /\ Lists(disk')
  BY <1>1, ForgetTyped
<1> QED
  BY <1>1, <1>2, <1>3 DEF Typed, Clock

LEMMA PruneUnusedTyped ==
  ASSUME Typed, NEW a \in Accounts, PruneUnused(a)
  PROVE  Typed'
<1>1. /\ tab' = Unbound(SignedIn(a)) /\ box' = [box EXCEPT ![a] = ReleasedBy(a, SignedIn(a))]
      /\ Forget(a) /\ disk' = store' /\ alive' = alive \ {a}
      /\ UNCHANGED <<inbox, ledger, relayed, now, boot>>
  BY DEF PruneUnused
<1>2. tab' \in [Tabs -> Tab] /\ Boxes(box', now)
  BY <1>1, UnboundTyped, ReleasedByTyped
<1>3. away' \in [Rooms -> SUBSET Accounts] /\ Lists(store') /\ Lists(disk')
  BY <1>1, ForgetTyped
<1> QED
  BY <1>1, <1>2, <1>3 DEF Typed, Clock

LEMMA CrashTyped ==
  ASSUME Typed, Crash
  PROVE  Typed'
<1>1. /\ tab' = [c \in Tabs |-> Closed]
      /\ store' = disk
      /\ away' = [r \in Rooms |-> {a \in Accounts : r \in ToSet(disk[a])}]
      /\ boot' = now
      /\ UNCHANGED <<inbox, disk, alive, box, ledger, relayed, now>>
  BY DEF Crash
<1>2. tab' \in [Tabs -> Tab]
  BY <1>1, ClosedTyped
<1>3. away' \in [Rooms -> SUBSET Accounts]
  BY <1>1
<1>4. Clock'
  BY <1>1 DEF Typed, Clock
<1> QED
  BY <1>1, <1>2, <1>3, <1>4 DEF Typed

LEMMA SweepQueueTyped ==
  ASSUME Typed, SweepQueue
  PROVE  Typed'
<1>1. /\ box' = [a \in Accounts |-> Sweep(box[a], now)]
      /\ ledger' \in Swept(ledger, now)
      /\ UNCHANGED <<tab, inbox, away, store, disk, alive, relayed, now, boot>>
  BY DEF SweepQueue
<1>2. Boxes(box', now)
  <2>1. ASSUME NEW a \in Accounts
        PROVE  Good(box'[a], now) /\ box'[a].ids <= MaxRows
    <3>1. Good(box[a], now) /\ box[a].ids <= MaxRows
      BY DEF Typed, Boxes
    <3>2. Good(Sweep(box[a], now), now) /\ Sweep(box[a], now).ids <= MaxRows
      BY <3>1, SweepKeepsGood, SameIds
    <3> QED
      BY <1>1, <3>2
  <2>2. box' = [a \in Accounts |-> box'[a]]
    BY <1>1
  <2> QED
    BY <2>1, <2>2 DEF Boxes
<1>3. Book(ledger')
  <2>1. PICK K \in SUBSET Young(ledger, now) : ledger' = [m \in K |-> ledger[m]]
    BY <1>1 DEF Swept
  <2> QED
    BY <2>1 DEF Typed, Book, Young
<1> QED
  BY <1>1, <1>2, <1>3 DEF Typed, Clock

LEMMA TickTyped ==
  ASSUME Typed, Tick
  PROVE  Typed'
<1>1. /\ now < MaxTime /\ now' = now + 1
      /\ UNCHANGED <<tab, inbox, away, store, disk, alive, box, ledger, relayed, boot>>
  BY DEF Tick
<1>2. Clock' /\ now \in Nat
  BY <1>1, RelayAssumption DEF Typed, Clock
<1>3. Boxes(box, now + 1)
  BY <1>2, TimeKeepsGood DEF Typed, Boxes
<1>4. Boxes(box', now')
  BY <1>1, <1>3
<1> QED
  BY <1>1, <1>2, <1>4 DEF Typed

LEMMA StepTyped ==
  ASSUME Typed, [Next]_vars
  PROVE  Typed'
<1>1. CASE UNCHANGED vars
  BY <1>1 DEF Typed, Clock, vars
<1>2. ASSUME NEW c \in Tabs, NEW a \in Bind(c), NEW cover \in MayCover(a),
             Auth(c, a, cover) \/ \E r \in Rooms : Join(c, r, a, cover)
      PROVE  Typed'
  BY <1>2, AuthTyped, JoinTyped
<1>3. ASSUME NEW c \in Tabs,
             \/ Resume(c) \/ Suspend(c) \/ Close(c)
             \/ \E wantsAway \in BOOLEAN : Leave(c, wantsAway)
      PROVE  Typed'
  BY <1>3, ResumeTyped, SuspendTyped, CloseTyped, LeaveTyped
<1>4. ASSUME NEW c \in Tabs,
             \/ \E m \in Messages, a \in Accounts : Relay(c, m, a)
             \/ \E e \in inbox[c] : AckItem(c, e)
             \/ \E m \in Messages, st \in {"delivered", "read"} : Receipt(c, m, st)
      PROVE  Typed'
  BY <1>4, RelayTyped, AckItemTyped, ReceiptTyped
<1>5. ASSUME NEW a \in Accounts,
             \/ \E C \in SUBSET SignedIn(a) : EndSession(a, C) \/ SignOut(a, C)
             \/ DeleteAccount(a) \/ PruneUnused(a)
      PROVE  Typed'
  BY <1>5, EndSessionTyped, SignOutTyped, DeleteAccountTyped, PruneUnusedTyped
<1>6. CASE Persist
  BY <1>6 DEF Persist, Typed, Clock
<1>7. CASE Crash \/ SweepQueue \/ Tick
  BY <1>7, CrashTyped, SweepQueueTyped, TickTyped
<1> QED
  BY <1>1, <1>2, <1>3, <1>4, <1>5, <1>6, <1>7 DEF Next

(* Every variable of the relay is well typed, also what pages hold, what   *)
(* is on disk and the clock: what all the proofs below start from.         *)
THEOREM AlwaysTyped == Spec => []Typed
<1>1. Init => Typed
  BY InitTyped
<1>2. Typed /\ [Next]_vars => Typed'
  BY StepTyped
<1> QED
  BY <1>1, <1>2, PTL DEF Spec

(* The relay's own state, the mailboxes, the ledger and the lists of away  *)
(* rooms (which stay within their limit and name no room twice) are well   *)
(* typed in every reachable state.                                         *)
THEOREM TypeCorrect == Spec => []TypeOK
<1>1. Typed => TypeOK
  <2> SUFFICES ASSUME Typed
               PROVE  TypeOK
    OBVIOUS
  <2>1. \A s \in {store, disk} : \A a \in Accounts :
          Range(s[a]) \subseteq Rooms /\ Len(s[a]) <= MaxAwayRooms /\ IsInjective(s[a])
    <3>1. \A q \in Seq(Rooms) : Range(q) \subseteq Rooms
      BY RangeOfSeq
    <3> QED
      BY <3>1 DEF Typed, Lists, List
  <2>2. \A a \in Accounts : IsMailbox(box[a])
    BY DEF Typed, Boxes, Good
  <2>3. \A m \in DOMAIN ledger : m \in Messages /\ ledger[m] \in Entry
    BY DEF Typed, Book
  <2> QED
    BY <2>1, <2>2, <2>3 DEF Typed, TypeOK, Tab, Item, Clock
<1> QED
  BY <1>1, AlwaysTyped, PTL

----------------------------------------------------------------------------
(* Whoever is in a room with an awake page is not listed as away in it.    *)

(* Fewer awake pages, fewer away entries: nothing new to look at.          *)
LEMMA FewerPresent ==
  ASSUME Typed, PresentIsNotAway,
         \A r \in Rooms : away'[r] \subseteq away[r],
         \A r \in Rooms : \A a \in Accounts : Awake(tab', a, r) \subseteq Awake(tab, a, r)
  PROVE  PresentIsNotAway'
<1> SUFFICES ASSUME NEW r \in Rooms, NEW a \in away'[r]
             PROVE  Awake(tab', a, r) = {}
  BY DEF PresentIsNotAway
<1>1. a \in away[r] /\ a \in Accounts
  BY DEF Typed
<1> QED
  BY <1>1 DEF PresentIsNotAway

(* Awake looks at four fields of a connection.                             *)
LEMMA SameAwake ==
  ASSUME Typed, PresentIsNotAway, UNCHANGED away,
         \A c \in Tabs : /\ tab'[c].on = tab[c].on /\ tab'[c].room = tab[c].room
                         /\ tab'[c].acct = tab[c].acct /\ tab'[c].susp = tab[c].susp
  PROVE  PresentIsNotAway'
<1>1. \A r \in Rooms : \A a \in Accounts : Awake(tab', a, r) \subseteq Awake(tab, a, r)
  BY DEF Awake
<1>2. \A r \in Rooms : away'[r] \subseteq away[r]
  OBVIOUS
<1> QED
  BY <1>1, <1>2, FewerPresent

LEMMA ArrivePresent ==
  ASSUME Typed, PresentIsNotAway, NEW c \in Tabs, NEW t \in Tab, NEW b, Arrive(c, t, b)
  PROVE  PresentIsNotAway'
<1>1. /\ \A d \in Tabs : d # c => tab'[d] = tab[d]
      /\ tab'[c].room = t.room /\ tab'[c].acct = t.acct /\ tab'[c].susp = t.susp
  BY DEF Arrive, Typed, Tab
<1>2. CASE t.acct # NoAccount /\ t.room # NoRoom /\ ~t.susp
  <2>1. t.acct \in Accounts /\ t.room \in Rooms
    BY <1>2 DEF Tab
  <2>2. away' = [away EXCEPT ![t.room] = @ \ {t.acct}]
    BY <1>2, <2>1, ClearAwayTyped DEF Arrive
  <2> SUFFICES ASSUME NEW r \in Rooms, NEW a \in away'[r], NEW d \in Awake(tab', a, r)
               PROVE  FALSE
    BY DEF PresentIsNotAway
  <2>3. a \in away[r] /\ ~(r = t.room /\ a = t.acct)
    BY <2>2 DEF Typed
  <2>4. d # c
    BY <1>1, <2>3 DEF Awake
  <2>5. d \in Awake(tab, a, r)
    BY <1>1, <2>4 DEF Awake
  <2> QED
    BY <2>3, <2>5 DEF PresentIsNotAway
<1>3. CASE ~(t.acct # NoAccount /\ t.room # NoRoom /\ ~t.susp)
  <2>1. UNCHANGED away
    BY <1>3 DEF Arrive
  <2>2. ASSUME NEW r \in Rooms, NEW a \in Accounts
        PROVE  Awake(tab', a, r) \subseteq Awake(tab, a, r)
    <3>1. c \notin Awake(tab', a, r)
      BY <1>1, <1>3, RelayAssumption DEF Awake
    <3> QED
      BY <1>1, <3>1 DEF Awake
  <2> QED
    BY <2>1, <2>2, FewerPresent
<1> QED
  BY <1>2, <1>3

(* Nobody is listed whose last awake page this is not.                     *)
LEMMA SetAwayPresent ==
  ASSUME Typed, PresentIsNotAway, NEW c \in Tabs,
         \A r \in Rooms : \A a \in Accounts : Awake(tab', a, r) \subseteq Awake(tab, a, r) \ {c},
         \/ UNCHANGED away
         \/ \E a \in Accounts, r \in Rooms : SetAway(a, r) /\ Awake(tab, a, r) \ {c} = {}
  PROVE  PresentIsNotAway'
<1>1. CASE UNCHANGED away
  BY <1>1, FewerPresent
<1>2. ASSUME NEW a \in Accounts, NEW r \in Rooms,
             SetAway(a, r), Awake(tab, a, r) \ {c} = {}
      PROVE  PresentIsNotAway'
  <2>1. \A x \in Rooms : \A y \in away'[x] : y \in away[x] \/ (y = a /\ x = r)
    BY <1>2, SetAwayTyped
  <2> SUFFICES ASSUME NEW x \in Rooms, NEW y \in away'[x]
               PROVE  Awake(tab', y, x) = {}
    BY DEF PresentIsNotAway
  <2>2. CASE y \in away[x]
    BY <2>2 DEF PresentIsNotAway, Typed
  <2>3. CASE y = a /\ x = r
    BY <2>3, <1>2
  <2> QED
    BY <2>1, <2>2, <2>3
<1> QED
  BY <1>1, <1>2

LEMMA DepartPresent ==
  ASSUME Typed, PresentIsNotAway, NEW c \in Tabs, NEW t, t.room = NoRoom, NEW w,
         tab[c].room # NoRoom, Depart(c, t, w)
  PROVE  PresentIsNotAway'
<1>1. tab' = [tab EXCEPT ![c] = t]
  BY DEF Depart
<1>2. \A r \in Rooms : \A a \in Accounts : Awake(tab', a, r) \subseteq Awake(tab, a, r) \ {c}
  BY <1>1, RelayAssumption DEF Awake, Typed
<1>3. tab[c].acct \in Accounts \cup {NoAccount} /\ tab[c].room \in Rooms
  BY DEF Typed, Tab
<1>4. \/ UNCHANGED away
      \/ /\ tab[c].acct \in Accounts
         /\ SetAway(tab[c].acct, tab[c].room)
         /\ Awake(tab, tab[c].acct, tab[c].room) \ {c} = {}
  BY <1>3 DEF Depart
<1> QED
  BY <1>2, <1>3, <1>4, SetAwayPresent

LEMMA UnboundPresent ==
  ASSUME Typed, NEW C, tab' = Unbound(C)
  PROVE  \A r \in Rooms : \A a \in Accounts : Awake(tab', a, r) \subseteq Awake(tab, a, r)
<1>1. ASSUME NEW r \in Rooms, NEW a \in Accounts, NEW d \in Awake(tab', a, r)
      PROVE  d \in Awake(tab, a, r)
  <2>1. d \in Tabs /\ tab[d] \in Tab
    BY DEF Awake, Typed
  <2>2. CASE d \in C
    <3>1. tab'[d].acct = NoAccount
      BY <2>1, <2>2 DEF Unbound, Tab
    <3> QED
      BY <3>1, RelayAssumption DEF Awake
  <2>3. CASE d \notin C
    BY <2>1, <2>3 DEF Unbound, Awake
  <2> QED
    BY <2>2, <2>3
<1> QED
  BY <1>1

LEMMA StepPresent ==
  ASSUME Typed, PresentIsNotAway, [Next]_vars
  PROVE  PresentIsNotAway'
<1>1. CASE UNCHANGED vars
  BY <1>1 DEF PresentIsNotAway, vars, Awake
<1>2. ASSUME NEW c \in Tabs, NEW a \in Bind(c), NEW cover \in MayCover(a), NEW r \in Rooms,
             Join(c, r, a, cover)
      PROVE  PresentIsNotAway'
  <2> DEFINE t == [Closed EXCEPT !.on = TRUE, !.room = r, !.acct = a, !.cover = cover,
                                 !.susp = tab[c].susp]
  <2>1. a \in Accounts \cup {NoAccount} /\ cover \in BOOLEAN
    BY RelayAssumption DEF Bind, MayCover, Typed
  <2>2. t \in Tab
    BY <2>1 DEF Closed, Tab, Typed
  <2>3. Arrive(c, t, Released(c))
    BY <1>2 DEF Join
  <2> HIDE DEF t
  <2> QED
    BY <2>2, <2>3, ArrivePresent
<1>3. ASSUME NEW c \in Tabs, NEW a \in Bind(c), NEW cover \in MayCover(a),
             Auth(c, a, cover)
      PROVE  PresentIsNotAway'
  <2> DEFINE free == tab[c].acct # NoAccount /\ tab[c].room # NoRoom
             t == [tab[c] EXCEPT !.acct = a, !.cover = cover,
                                 !.leased = IF free THEN {} ELSE @]
             b == IF free THEN Released(c) ELSE box
  <2>1. a \in Accounts \cup {NoAccount} /\ cover \in BOOLEAN
    BY RelayAssumption DEF Bind, MayCover, Typed
  <2>2. t \in Tab
    BY <2>1 DEF Tab, Typed
  <2>3. Arrive(c, t, b)
    BY <1>3 DEF Auth
  <2> HIDE DEF t, b
  <2> QED
    BY <2>2, <2>3, ArrivePresent
<1>4. ASSUME NEW c \in Tabs, Resume(c)
      PROVE  PresentIsNotAway'
  <2>1. [tab[c] EXCEPT !.susp = FALSE] \in Tab
    BY DEF Tab, Typed
  <2>2. Arrive(c, [tab[c] EXCEPT !.susp = FALSE], box)
    BY <1>4 DEF Resume
  <2> QED
    BY <2>1, <2>2, ArrivePresent
<1>5. ASSUME NEW c \in Tabs, Suspend(c)
      PROVE  PresentIsNotAway'
  <2>1. tab[c] \in Tab /\ tab' = [tab EXCEPT ![c].susp = TRUE]
    BY <1>5 DEF Suspend, Typed
  <2>2. \A r \in Rooms : \A a \in Accounts : Awake(tab', a, r) \subseteq Awake(tab, a, r) \ {c}
    BY <2>1 DEF Awake, Tab, Typed
  <2>3. \/ UNCHANGED away
        \/ /\ tab[c].acct \in Accounts /\ tab[c].room \in Rooms
           /\ SetAway(tab[c].acct, tab[c].room)
           /\ Awake(tab, tab[c].acct, tab[c].room) \ {c} = {}
    BY <1>5, <2>1 DEF Suspend, Tab
  <2> QED
    BY <2>2, <2>3, SetAwayPresent
<1>6. ASSUME NEW c \in Tabs, NEW w, Leave(c, w)
      PROVE  PresentIsNotAway'
  <2>1. Left(tab[c]).room = NoRoom /\ Depart(c, Left(tab[c]), w) /\ tab[c].room # NoRoom
    BY <1>6 DEF Leave, Left, Typed, Tab
  <2> QED
    BY <2>1, DepartPresent
<1>7. ASSUME NEW c \in Tabs, Close(c)
      PROVE  PresentIsNotAway'
  <2>1. Closed.room = NoRoom
    BY DEF Closed
  <2>2. CASE tab[c].room # NoRoom
    BY <1>7, <2>1, <2>2, DepartPresent DEF Close
  <2>3. CASE tab[c].room = NoRoom
    <3>1. tab' = [tab EXCEPT ![c] = Closed] /\ UNCHANGED away
      BY <1>7, <2>3 DEF Close
    <3>2. \A r \in Rooms : \A a \in Accounts : Awake(tab', a, r) \subseteq Awake(tab, a, r)
      BY <3>1, <2>1, RelayAssumption DEF Awake, Typed
    <3> QED
      BY <3>1, <3>2, FewerPresent
  <2> QED
    BY <2>2, <2>3
<1>8. ASSUME NEW c \in Tabs,
             \/ \E m \in Messages, a \in Accounts : Relay(c, m, a)
             \/ \E e \in inbox[c] : AckItem(c, e)
             \/ \E m \in Messages, st \in {"delivered", "read"} : Receipt(c, m, st)
      PROVE  PresentIsNotAway'
  <2>1. UNCHANGED away
    BY <1>8 DEF Relay, AckItem, Receipt
  <2>2. \/ UNCHANGED tab
        \/ \E p \in Tabs : \E L : tab' = [tab EXCEPT ![p].leased = L]
    BY <1>8 DEF Relay, AckItem, Receipt, Awake
  <2>3. \A d \in Tabs : /\ tab'[d].on = tab[d].on /\ tab'[d].room = tab[d].room
                        /\ tab'[d].acct = tab[d].acct /\ tab'[d].susp = tab[d].susp
    BY <2>2 DEF Typed, Tab
  <2> QED
    BY <2>1, <2>3, SameAwake
<1>9. ASSUME NEW a \in Accounts,
             \/ \E C \in SUBSET SignedIn(a) : EndSession(a, C) \/ SignOut(a, C)
             \/ DeleteAccount(a) \/ PruneUnused(a)
      PROVE  PresentIsNotAway'
  <2>1. \E C : tab' = Unbound(C)
    BY <1>9 DEF EndSession, SignOut, DeleteAccount, PruneUnused
  <2>2. \A r \in Rooms : away'[r] \subseteq away[r]
    BY <1>9 DEF EndSession, SignOut, DeleteAccount, PruneUnused, Forget
  <2> QED
    BY <2>1, <2>2, UnboundPresent, FewerPresent
<1>10. CASE Crash
  BY <1>10 DEF Crash, PresentIsNotAway, Awake, Closed
<1>11. CASE Persist \/ SweepQueue \/ Tick
  BY <1>11, SameAwake DEF Persist, SweepQueue, Tick
<1> QED
  BY <1>1, <1>2, <1>3, <1>4, <1>5, <1>6, <1>7, <1>8, <1>9, <1>10, <1>11 DEF Next

(* Messages are never diverted away from an awake page: over joins, signing *)
(* in and out, suspending, evictions and restarts, whoever has an awake    *)
(* page in a room is not listed as away in it (relay.ts:16-17).            *)
THEOREM PresentIsNeverAway == Spec => []PresentIsNotAway
<1>1. Init => PresentIsNotAway
  BY DEF Init, PresentIsNotAway
<1>2. Typed /\ PresentIsNotAway /\ [Next]_vars => PresentIsNotAway'
  BY StepPresent
<1> QED
  BY <1>1, <1>2, AlwaysTyped, PTL DEF Spec

----------------------------------------------------------------------------
(* The relay's map and the lists in the account store.  It rests on this:  *)
(* connections carry accounts that exist, and nothing is listed for one    *)
(* that does not, on disk either.                                          *)
Bound ==
  \A c \in Tabs : /\ tab[c].acct \in alive \cup {NoAccount}
                  /\ tab[c].on \/ tab[c] = Closed
Blank ==
  \A a \in Accounts \ alive : store[a] = <<>> /\ disk[a] = <<>>
Matched == AwayIsStored /\ Bound /\ Blank

LEMMA SetAwayMatched ==
  ASSUME Typed, Matched, NEW a \in alive, NEW r \in Rooms, SetAway(a, r),
         UNCHANGED <<alive, disk>>
  PROVE  AwayIsStored' /\ Blank'
<1>1. away \in [Rooms -> SUBSET Accounts] /\ Lists(store) /\ a \in Accounts
  BY DEF Typed
<1>2. CASE a \in away[r]
  BY <1>2 DEF SetAway, Matched, AwayIsStored, Blank
<1>3. CASE a \notin away[r]
  <2>1. /\ store' = [store EXCEPT ![a] = Noted(a, r)]
        /\ away' = [x \in Rooms |->
                  IF x = r THEN away[x] \cup {a}
                  ELSE IF x \in ToSet(store[a]) \ ToSet(store'[a]) THEN away[x] \ {a}
                  ELSE away[x]]
    BY <1>3 DEF SetAway
  <2>2. /\ store'[a] = Noted(a, r)
        /\ \A y \in Accounts : y # a => store'[y] = store[y]
    BY <1>1, <2>1 DEF Lists
  <2>3. /\ r \in ToSet(store'[a])
        /\ ToSet(store'[a]) \subseteq ToSet(store[a]) \cup {r}
    BY <1>1, <2>2, NotedProperties
  <2>4. ASSUME NEW x \in Rooms, NEW y \in Accounts
        PROVE  y \in away'[x] <=> y \in alive /\ x \in ToSet(store'[y])
    <3>1. y \in away[x] <=> y \in alive /\ x \in ToSet(store[y])
      BY DEF Matched, AwayIsStored
    <3>2. CASE y # a
      BY <3>1, <3>2, <2>1, <2>2
    <3>3. CASE y = a /\ x = r
      BY <3>3, <2>1, <2>3
    <3>4. CASE y = a /\ x # r
      BY <3>1, <3>4, <2>1, <2>3
    <3> QED
      BY <3>2, <3>3, <3>4
  <2>5. AwayIsStored'
    BY <2>4 DEF AwayIsStored
  <2>6. Blank'
    BY <2>2 DEF Matched, Blank
  <2> QED
    BY <2>5, <2>6
<1> QED
  BY <1>2, <1>3

LEMMA ClearAwayMatched ==
  ASSUME Typed, Matched, NEW a \in Accounts, NEW r \in Rooms, ClearAway(a, r),
         UNCHANGED <<alive, disk>>
  PROVE  AwayIsStored' /\ Blank'
<1>1. away \in [Rooms -> SUBSET Accounts] /\ Lists(store)
  BY DEF Typed
<1>2. CASE a \notin away[r]
  BY <1>2 DEF ClearAway, Matched, AwayIsStored, Blank
<1>3. CASE a \in away[r]
  <2>0. a \in alive
    BY <1>3 DEF Matched, AwayIsStored
  <2>1. /\ store' = [store EXCEPT ![a] = RemoveFirst(@, r)]
        /\ away' = [away EXCEPT ![r] = @ \ {a}]
    BY <1>3, <2>0 DEF ClearAway
  <2>2. /\ store'[a] = RemoveFirst(store[a], r)
        /\ \A y \in Accounts : y # a => store'[y] = store[y]
    BY <1>1, <2>1 DEF Lists
  <2>3. ToSet(store'[a]) = ToSet(store[a]) \ {r}
    BY <1>1, <2>2, RemoveProperties DEF Lists, List
  <2>4. ASSUME NEW x \in Rooms, NEW y \in Accounts
        PROVE  y \in away'[x] <=> y \in alive /\ x \in ToSet(store'[y])
    <3>1. y \in away[x] <=> y \in alive /\ x \in ToSet(store[y])
      BY DEF Matched, AwayIsStored
    <3>2. CASE y # a
      BY <1>1, <3>1, <3>2, <2>1, <2>2
    <3>3. CASE y = a
      BY <1>1, <3>1, <3>3, <2>1, <2>3
    <3> QED
      BY <3>2, <3>3
  <2>5. AwayIsStored'
    BY <2>4 DEF AwayIsStored
  <2>6. Blank'
    BY <2>0, <2>2 DEF Matched, Blank
  <2> QED
    BY <2>5, <2>6
<1> QED
  BY <1>2, <1>3

(* The account a signs out or is gone: it is away nowhere.                 *)
LEMMA ForgetMatched ==
  ASSUME Typed, Matched, NEW a \in alive, Forget(a),
         \/ alive' = alive /\ disk' \in {store', disk}
         \/ alive' = alive \ {a} /\ disk' = store'
  PROVE  AwayIsStored' /\ Blank'
<1>1. away \in [Rooms -> SUBSET Accounts] /\ Lists(store) /\ a \in Accounts
  BY DEF Typed
<1>2. /\ away' = [r \in Rooms |-> away[r] \ {a}]
      /\ store'[a] = <<>>
      /\ \A y \in Accounts : y # a => store'[y] = store[y]
  BY <1>1 DEF Forget, Lists
<1>3. ToSet(<<>>) = {}
  BY DEF ToSet
<1>4. AwayIsStored'
  <2> SUFFICES ASSUME NEW x \in Rooms, NEW y \in Accounts
               PROVE  y \in away'[x] <=> y \in alive' /\ x \in ToSet(store'[y])
    BY DEF AwayIsStored
  <2>1. y \in away[x] <=> y \in alive /\ x \in ToSet(store[y])
    BY DEF Matched, AwayIsStored
  <2> QED
    BY <2>1, <1>2, <1>3
<1>5. Blank'
  BY <1>1, <1>2 DEF Matched, Blank
<1> QED
  BY <1>4, <1>5

LEMMA ArriveMatched ==
  ASSUME Typed, Matched, NEW c \in Tabs, NEW t \in Tab, t.acct \in alive \cup {NoAccount},
         t.on, NEW b, Arrive(c, t, b), UNCHANGED <<alive, disk>>
  PROVE  Matched'
<1>1. Bound'
  <2>1. \A d \in Tabs : d # c => tab'[d] = tab[d]
    BY DEF Arrive, Typed
  <2>2. tab'[c].acct = t.acct /\ tab'[c].on
    BY DEF Arrive, Typed, Tab
  <2> QED
    BY <2>1, <2>2 DEF Matched, Bound, Closed
<1>2. CASE t.acct # NoAccount /\ t.room # NoRoom /\ ~t.susp
  <2>1. t.acct \in Accounts /\ t.room \in Rooms /\ ClearAway(t.acct, t.room)
    BY <1>2 DEF Tab, Arrive
  <2> QED
    BY <1>1, <2>1, ClearAwayMatched DEF Matched
<1>3. CASE ~(t.acct # NoAccount /\ t.room # NoRoom /\ ~t.susp)
  <2>1. UNCHANGED <<away, store>>
    BY <1>3 DEF Arrive
  <2> QED
    BY <1>1, <2>1 DEF Matched, AwayIsStored, Blank
<1> QED
  BY <1>2, <1>3

(* What becomes of an account that is already listed or newly away.        *)
LEMMA MovedMatched ==
  ASSUME Typed, Matched, UNCHANGED <<alive, disk>>, Bound',
         \/ UNCHANGED <<away, store>>
         \/ \E a \in alive, r \in Rooms : SetAway(a, r)
  PROVE  Matched'
<1>1. CASE UNCHANGED <<away, store>>
  BY <1>1 DEF Matched, AwayIsStored, Blank
<1> QED
  BY <1>1, SetAwayMatched DEF Matched

LEMMA UnboundBound ==
  ASSUME Typed, Bound, NEW a \in Accounts, NEW C \in SUBSET SignedIn(a), tab' = Unbound(C),
         \/ alive' = alive
         \/ alive' = alive \ {a} /\ C = SignedIn(a)
  PROVE  Bound'
<1> SUFFICES ASSUME NEW d \in Tabs
             PROVE  /\ tab'[d].acct \in alive' \cup {NoAccount}
                    /\ tab'[d].on \/ tab'[d] = Closed
  BY DEF Bound
<1>1. tab[d] \in Tab /\ tab[d].acct \in alive \cup {NoAccount} /\ (tab[d].on \/ tab[d] = Closed)
  BY DEF Typed, Bound
<1>2. CASE d \in C
  <2>1. tab'[d] = [tab[d] EXCEPT !.acct = NoAccount, !.cover = FALSE, !.leased = {}]
    BY <1>2 DEF Unbound
  <2>2. tab[d].on
    BY <1>2 DEF SignedIn
  <2> QED
    BY <1>1, <2>1, <2>2 DEF Tab
<1>3. CASE d \notin C
  <2>1. tab'[d] = tab[d]
    BY <1>3 DEF Unbound
  <2>2. alive' = alive \/ tab[d].acct # a
    <3>1. CASE tab[d].on
      BY <1>3, <3>1 DEF SignedIn
    <3>2. CASE tab[d] = Closed
      BY <3>2, RelayAssumption DEF Closed
    <3> QED
      BY <1>1, <3>1, <3>2
  <2> QED
    BY <1>1, <2>1, <2>2
<1> QED
  BY <1>2, <1>3

LEMMA DepartMatched ==
  ASSUME Typed, Matched, NEW c \in Tabs, NEW t, tab[c].room # NoRoom, NEW w,
         Depart(c, t, w), t = Closed \/ (t.on /\ t.acct = tab[c].acct),
         UNCHANGED <<alive, disk>>
  PROVE  Matched'
<1>1. tab[c] \in Tab /\ tab' = [tab EXCEPT ![c] = t]
  BY DEF Depart, Typed
<1>2. Bound'
  <2>1. t.acct \in alive \cup {NoAccount}
    <3>1. CASE t = Closed
      BY <3>1 DEF Closed
    <3>2. CASE t.acct = tab[c].acct
      BY <3>2 DEF Matched, Bound
    <3> QED
      BY <3>1, <3>2
  <2>2. t.on \/ t = Closed
    OBVIOUS
  <2>3. tab'[c] = t /\ \A d \in Tabs : d # c => tab'[d] = tab[d]
    BY <1>1 DEF Typed
  <2> QED
    BY <2>1, <2>2, <2>3 DEF Matched, Bound
<1>3. \/ UNCHANGED <<away, store>>
      \/ /\ tab[c].acct \in alive /\ tab[c].room \in Rooms
         /\ SetAway(tab[c].acct, tab[c].room)
  BY <1>1 DEF Depart, Tab
<1> QED
  BY <1>2, <1>3, MovedMatched

LEMMA StepMatched ==
  ASSUME Typed, Matched, [Next]_vars
  PROVE  Matched'
<1>0. alive \subseteq Accounts /\ NoAccount \notin Accounts
  BY RelayAssumption DEF Typed
<1>1. CASE UNCHANGED vars
  BY <1>1 DEF Matched, AwayIsStored, Bound, Blank, vars
<1>2. ASSUME NEW c \in Tabs, NEW a \in Bind(c), NEW cover \in MayCover(a), NEW r \in Rooms,
             Join(c, r, a, cover)
      PROVE  Matched'
  <2> DEFINE t == [Closed EXCEPT !.on = TRUE, !.room = r, !.acct = a, !.cover = cover,
                                 !.susp = tab[c].susp]
  <2>1. a \in alive \cup {NoAccount} /\ cover \in BOOLEAN
    BY RelayAssumption DEF Bind, MayCover
  <2>2. t \in Tab /\ t.acct = a /\ t.on
    BY <1>0, <2>1 DEF Closed, Tab, Typed
  <2>3. Arrive(c, t, Released(c)) /\ UNCHANGED <<alive, disk>>
    BY <1>2 DEF Join, Unmoved
  <2> HIDE DEF t
  <2> QED
    BY <2>1, <2>2, <2>3, ArriveMatched
<1>3. ASSUME NEW c \in Tabs, NEW a \in Bind(c), NEW cover \in MayCover(a),
             Auth(c, a, cover)
      PROVE  Matched'
  <2> DEFINE free == tab[c].acct # NoAccount /\ tab[c].room # NoRoom
             t == [tab[c] EXCEPT !.acct = a, !.cover = cover,
                                 !.leased = IF free THEN {} ELSE @]
             b == IF free THEN Released(c) ELSE box
  <2>1. a \in alive \cup {NoAccount} /\ cover \in BOOLEAN
    BY RelayAssumption DEF Bind, MayCover
  <2>2. t \in Tab /\ t.acct = a /\ t.on
    BY <1>0, <1>3, <2>1 DEF Auth, Tab, Typed
  <2>3. Arrive(c, t, b) /\ UNCHANGED <<alive, disk>>
    BY <1>3 DEF Auth, Unmoved
  <2> HIDE DEF t, b
  <2> QED
    BY <2>1, <2>2, <2>3, ArriveMatched
<1>4. ASSUME NEW c \in Tabs, Resume(c)
      PROVE  Matched'
  <2> DEFINE t == [tab[c] EXCEPT !.susp = FALSE]
  <2>1. t \in Tab /\ t.acct = tab[c].acct /\ t.on
    BY <1>4 DEF Resume, Tab, Typed
  <2>2. Arrive(c, t, box) /\ UNCHANGED <<alive, disk>>
    BY <1>4 DEF Resume, Unmoved
  <2>3. t.acct \in alive \cup {NoAccount}
    BY <2>1 DEF Matched, Bound
  <2> HIDE DEF t
  <2> QED
    BY <2>1, <2>2, <2>3, ArriveMatched
<1>5. ASSUME NEW c \in Tabs, Suspend(c)
      PROVE  Matched'
  <2>1. tab[c] \in Tab /\ tab' = [tab EXCEPT ![c].susp = TRUE] /\ tab[c].on
        /\ UNCHANGED <<alive, disk>>
    BY <1>5 DEF Suspend, Typed, Unmoved
  <2>2. Bound'
    BY <2>1 DEF Matched, Bound, Tab, Typed
  <2>3. \/ UNCHANGED <<away, store>>
        \/ /\ tab[c].acct \in alive /\ tab[c].room \in Rooms
           /\ SetAway(tab[c].acct, tab[c].room)
    BY <1>5, <2>1 DEF Suspend, Tab, Matched, Bound
  <2> QED
    BY <2>1, <2>2, <2>3, MovedMatched
<1>7. ASSUME NEW c \in Tabs, NEW w, Leave(c, w)
      PROVE  Matched'
  <2>1. Left(tab[c]).on /\ Left(tab[c]).acct = tab[c].acct
    BY <1>7 DEF Leave, Left, Typed, Tab
  <2>2. Depart(c, Left(tab[c]), w) /\ tab[c].room # NoRoom /\ UNCHANGED <<alive, disk>>
    BY <1>7 DEF Leave, Unmoved
  <2> QED
    BY <2>1, <2>2, DepartMatched
<1>8. ASSUME NEW c \in Tabs, Close(c)
      PROVE  Matched'
  <2>1. UNCHANGED <<alive, disk>>
    BY <1>8 DEF Close, Unmoved
  <2>2. CASE tab[c].room # NoRoom
    <3>1. Depart(c, Closed, TRUE)
      BY <1>8, <2>2 DEF Close
    <3> QED
      BY <3>1, <2>1, <2>2, DepartMatched
  <2>3. CASE tab[c].room = NoRoom
    <3>1. tab' = [tab EXCEPT ![c] = Closed] /\ UNCHANGED <<away, store>>
      BY <1>8, <2>3 DEF Close
    <3>2. Bound'
      BY <2>1, <3>1 DEF Matched, Bound, Typed, Closed
    <3> QED
      BY <2>1, <3>1, <3>2, MovedMatched
  <2> QED
    BY <2>2, <2>3
<1>9. ASSUME NEW c \in Tabs,
             \/ \E m \in Messages, a \in Accounts : Relay(c, m, a)
             \/ \E e \in inbox[c] : AckItem(c, e)
             \/ \E m \in Messages, st \in {"delivered", "read"} : Receipt(c, m, st)
      PROVE  Matched'
  <2>1. UNCHANGED <<away, store, alive, disk>>
    BY <1>9 DEF Relay, AckItem, Receipt, Unmoved
  <2>2. \/ UNCHANGED tab
        \/ \E p \in Tabs : tab[p].on /\ \E L : tab' = [tab EXCEPT ![p].leased = L]
    BY <1>9 DEF Relay, AckItem, Receipt, Awake
  <2>3. Bound'
    BY <2>1, <2>2 DEF Typed, Tab, Matched, Bound
  <2> QED
    BY <2>1, <2>3, MovedMatched
<1>10. ASSUME NEW a \in Accounts, NEW C \in SUBSET SignedIn(a), EndSession(a, C)
       PROVE  Matched'
  <2>1. tab' = Unbound(C) /\ UNCHANGED <<away, store, alive, disk>>
    BY <1>10 DEF EndSession, Unmoved
  <2>2. Bound'
    BY <2>1, UnboundBound DEF Matched
  <2> QED
    BY <2>1, <2>2, MovedMatched
<1>11. ASSUME NEW a \in Accounts, NEW C \in SUBSET SignedIn(a), SignOut(a, C)
       PROVE  Matched'
  <2>1. /\ tab' = Unbound(C) /\ Forget(a) /\ alive' = alive /\ disk' \in {store', disk}
        /\ a \in alive
    BY <1>11 DEF SignOut
  <2> QED
    BY <2>1, UnboundBound, ForgetMatched DEF Matched
<1>12. ASSUME NEW a \in Accounts, DeleteAccount(a) \/ PruneUnused(a)
       PROVE  Matched'
  <2>1. /\ tab' = Unbound(SignedIn(a)) /\ Forget(a)
        /\ alive' = alive \ {a} /\ disk' = store' /\ a \in alive
    BY <1>12 DEF DeleteAccount, PruneUnused
  <2> QED
    BY <2>1, UnboundBound, ForgetMatched DEF Matched
<1>13. CASE Persist
  BY <1>13 DEF Persist, Matched, AwayIsStored, Bound, Blank
<1>14. CASE Crash
  <2>1. /\ tab' = [c \in Tabs |-> Closed]
        /\ store' = disk
        /\ away' = [r \in Rooms |-> {a \in Accounts : r \in ToSet(disk[a])}]
        /\ UNCHANGED <<disk, alive>>
    BY <1>14 DEF Crash
  <2>2. Bound'
    BY <2>1 DEF Bound, Closed
  <2>3. Blank'
    BY <2>1 DEF Matched, Blank
  <2>4. ToSet(<<>>) = {}
    BY DEF ToSet
  <2>5. AwayIsStored'
    BY <2>1, <2>4 DEF Matched, Blank, AwayIsStored
  <2> QED
    BY <2>2, <2>3, <2>5 DEF Matched
<1>15. CASE SweepQueue \/ Tick
  BY <1>15 DEF SweepQueue, Tick, Matched, AwayIsStored, Bound, Blank
<1> QED
  BY <1>1, <1>2, <1>3, <1>4, <1>5, <1>7, <1>8, <1>9, <1>10, <1>11, <1>12, <1>13, <1>14,
     <1>15 DEF Next

(* AwayIsStored holds together with what it needs: connections carry       *)
(* accounts that exist, and the lists of deleted ones are empty, on disk   *)
(* as well (DELETE /api/account, persistSoon, restore).                    *)
THEOREM AlwaysMatched == Spec => []Matched
<1>1. Init => Matched
  <2> SUFFICES ASSUME Init
               PROVE  Matched
    OBVIOUS
  <2>1. ToSet(<<>>) = {}
    BY DEF ToSet
  <2>2. AwayIsStored
    BY <2>1 DEF Init, AwayIsStored
  <2>3. Bound /\ Blank
    BY DEF Init, Bound, Blank, Closed
  <2> QED
    BY <2>2, <2>3 DEF Matched
<1>2. Typed /\ Matched /\ [Next]_vars => Matched'
  BY StepMatched
<1> QED
  BY <1>1, <1>2, AlwaysTyped, PTL DEF Spec

(* The relay's map and the lists in the account store always name the same *)
(* away rooms, of accounts that exist, also when a full list drops its     *)
(* oldest room and after a restart from whatever was on disk (setAway,     *)
(* clearAway, forget, restore).                                            *)
THEOREM AwayIsAlwaysStored == Spec => []AwayIsStored
<1>1. Matched => AwayIsStored
  BY DEF Matched
<1> QED
  BY <1>1, AlwaysMatched, PTL

----------------------------------------------------------------------------
(* Away entries end for a reason.                                          *)

(* What a full list drops gives way to the room that was added last.       *)
LEMMA NotedDrops ==
  ASSUME Lists(store), NEW a \in Accounts, NEW r \in Rooms, r \notin ToSet(store[a]),
         NEW x \in ToSet(store[a]), x \notin ToSet(Noted(a, r))
  PROVE  /\ Len(Noted(a, r)) = MaxAwayRooms
         /\ Last(Noted(a, r)) = r
         /\ Last(store[a]) # r
<1> DEFINE s == store[a]
           w == Append(s, r)
           v == SubSeq(w, Len(w) - MaxAwayRooms + 1, Len(w))
<1>1. /\ s \in Seq(Rooms) /\ Len(s) \in Nat /\ DOMAIN s = 1 .. Len(s)
      /\ \A i \in 1 .. Len(s) : s[i] \in Rooms
  BY LenProperties DEF Lists, List
<1>2. Noted(a, r) = Newest(w)
  <2>1. ~\E i \in 1 .. Len(s) : s[i] = r
    BY <1>1 DEF ToSet
  <2>2. RemoveFirst(s, r) = s
    BY <2>1 DEF RemoveFirst
  <2> QED
    BY <2>2 DEF Noted
<1>3. PICK k \in 1 .. Len(s) : s[k] = x
  BY <1>1 DEF ToSet
<1> HIDE DEF s
<1>4. /\ w \in Seq(Rooms) /\ Len(w) = Len(s) + 1
      /\ \A i \in 1 .. Len(s) : w[i] = s[i]
      /\ w[Len(s) + 1] = r
      /\ DOMAIN w = 1 .. Len(s) + 1
  BY <1>1, AppendProperties, LenProperties
<1> HIDE DEF w
<1>5. MaxAwayRooms \in Nat \ {0}
  BY RelayAssumption
<1>6. Len(w) > MaxAwayRooms
  <2> SUFFICES ASSUME ~(Len(w) > MaxAwayRooms)
               PROVE  FALSE
    OBVIOUS
  <2>1. Noted(a, r) = w
    BY <1>2 DEF Newest
  <2>2. k \in DOMAIN w /\ w[k] = x
    BY <1>1, <1>3, <1>4
  <2>3. x \in ToSet(w)
    BY <2>2 DEF ToSet
  <2> QED
    BY <2>1, <2>3
<1>7. Noted(a, r) = v
  BY <1>2, <1>6 DEF Newest
<1>8. Len(v) = MaxAwayRooms /\ v[MaxAwayRooms] = r
  <2> DEFINE d == Len(w) - MaxAwayRooms
  <2>1. d \in Nat /\ d + MaxAwayRooms = Len(w) /\ Len(w) \in Nat
    BY <1>1, <1>4, <1>5, <1>6
  <2> HIDE DEF d
  <2>2. d + 1 \in Int /\ Len(w) \in Int /\ \A i \in d + 1 .. Len(w) : w[i] \in Rooms
    BY <2>1, <1>4, LenProperties
  <2>3. /\ Len(SubSeq(w, d + 1, Len(w))) = IF d + 1 <= Len(w) THEN Len(w) - (d + 1) + 1 ELSE 0
        /\ \A i \in 1 .. Len(w) - (d + 1) + 1 :
             SubSeq(w, d + 1, Len(w))[i] = w[d + 1 + i - 1]
    BY <2>2, SubSeqProperties
  <2>4. v = SubSeq(w, d + 1, Len(w))
    BY DEF d
  <2> HIDE DEF v
  <2>5. Len(v) = IF d + 1 <= Len(w) THEN Len(w) - (d + 1) + 1 ELSE 0
    BY <2>3, <2>4
  <2>6. Len(v) = MaxAwayRooms
    BY <2>1, <2>5, <1>5
  <2>7. MaxAwayRooms \in 1 .. Len(w) - (d + 1) + 1 /\ d + 1 + MaxAwayRooms - 1 = Len(s) + 1
    BY <2>1, <1>4, <1>5
  <2>8. v[MaxAwayRooms] = w[d + 1 + MaxAwayRooms - 1]
    BY <2>3, <2>4, <2>7
  <2> QED
    BY <2>6, <2>7, <2>8, <1>4
<1>9. Last(s) # r
  <2>1. Len(s) \in 1 .. Len(s)
    BY <1>1, <1>3
  <2>2. Last(s) \in ToSet(s)
    BY <1>1, <2>1 DEF Last, ToSet
  <2> QED
    BY <2>2 DEF s
<1>10. Last(v) = r
  BY <1>8 DEF Last
<1> QED
  BY <1>7, <1>8, <1>9, <1>10 DEF s

Ends(r, a) ==
  \/ Awake(tab', a, r) # {}
  \/ Len(store'[a]) = MaxAwayRooms /\ Last(store'[a]) # Last(store[a])
  \/ a \notin alive'
  \/ \E C \in SUBSET SignedIn(a) : SignOut(a, C)
  \/ r \notin ToSet(disk[a]) /\ Crash

LEMMA SetAwayEnds ==
  ASSUME Typed, Matched, NEW b \in alive, NEW q \in Rooms, SetAway(b, q),
         NEW r \in Rooms, NEW a \in away[r] \ away'[r]
  PROVE  Ends(r, a)
<1>1. away \in [Rooms -> SUBSET Accounts] /\ Lists(store) /\ b \in Accounts /\ a \in Accounts
  BY DEF Typed
<1>2. /\ b \notin away[q]
      /\ store' = [store EXCEPT ![b] = Noted(b, q)]
      /\ away' = [x \in Rooms |->
                  IF x = q THEN away[x] \cup {b}
                  ELSE IF x \in ToSet(store[b]) \ ToSet(store'[b]) THEN away[x] \ {b}
                  ELSE away[x]]
  BY DEF SetAway
<1>3. store'[b] = Noted(b, q)
  BY <1>1, <1>2 DEF Lists
<1>4. a = b /\ r \in ToSet(store[b]) \ ToSet(Noted(b, q))
  BY <1>2, <1>3
<1>5. q \notin ToSet(store[b])
  BY <1>1, <1>2 DEF Matched, AwayIsStored
<1>6. Len(Noted(b, q)) = MaxAwayRooms /\ Last(Noted(b, q)) = q /\ Last(store[b]) # q
  BY <1>1, <1>4, <1>5, NotedDrops
<1> QED
  BY <1>3, <1>4, <1>6 DEF Ends

LEMMA ArriveEnds ==
  ASSUME Typed, NEW c \in Tabs, NEW t \in Tab, t.on, NEW b, Arrive(c, t, b),
         NEW r \in Rooms, NEW a \in away[r] \ away'[r]
  PROVE  Ends(r, a)
<1>1. t.acct # NoAccount /\ t.room # NoRoom /\ ~t.susp
  BY DEF Arrive
<1>2. /\ t.acct \in Accounts /\ t.room \in Rooms /\ ClearAway(t.acct, t.room)
      /\ tab' = [tab EXCEPT ![c] = [t EXCEPT !.leased = @ \cup Taken(b, t)]]
  BY <1>1 DEF Arrive, Tab
<1>3. away' = [away EXCEPT ![t.room] = @ \ {t.acct}]
  BY <1>2, ClearAwayTyped
<1>4. a = t.acct /\ r = t.room
  BY <1>2, <1>3 DEF Typed
<1>5. tab'[c].on /\ tab'[c].room = r /\ tab'[c].acct = a /\ ~tab'[c].susp
  BY <1>1, <1>2, <1>4 DEF Typed, Tab
<1>6. c \in Awake(tab', a, r)
  BY <1>5 DEF Awake
<1> QED
  BY <1>6 DEF Ends

LEMMA StepEnds ==
  ASSUME Typed, Matched, [Next]_vars, NEW r \in Rooms, NEW a \in away[r] \ away'[r]
  PROVE  Ends(r, a)
<1>0. alive \subseteq Accounts /\ NoAccount \notin Accounts /\ a \in Accounts
  BY RelayAssumption DEF Typed
<1>1. ASSUME NEW c \in Tabs, NEW x \in Bind(c), NEW cover \in MayCover(x), NEW q \in Rooms,
             Join(c, q, x, cover)
      PROVE  Ends(r, a)
  <2> DEFINE t == [Closed EXCEPT !.on = TRUE, !.room = q, !.acct = x, !.cover = cover,
                                 !.susp = tab[c].susp]
  <2>1. x \in alive \cup {NoAccount} /\ cover \in BOOLEAN
    BY RelayAssumption DEF Bind, MayCover
  <2>2. t \in Tab /\ t.on
    BY <1>0, <2>1 DEF Closed, Tab, Typed
  <2>3. Arrive(c, t, Released(c))
    BY <1>1 DEF Join
  <2> HIDE DEF t
  <2> QED
    BY <2>2, <2>3, ArriveEnds
<1>2. ASSUME NEW c \in Tabs, NEW x \in Bind(c), NEW cover \in MayCover(x),
             Auth(c, x, cover)
      PROVE  Ends(r, a)
  <2> DEFINE free == tab[c].acct # NoAccount /\ tab[c].room # NoRoom
             t == [tab[c] EXCEPT !.acct = x, !.cover = cover,
                                 !.leased = IF free THEN {} ELSE @]
             b == IF free THEN Released(c) ELSE box
  <2>1. x \in alive \cup {NoAccount} /\ cover \in BOOLEAN
    BY RelayAssumption DEF Bind, MayCover
  <2>2. t \in Tab /\ t.on
    BY <1>0, <1>2, <2>1 DEF Auth, Tab, Typed
  <2>3. Arrive(c, t, b)
    BY <1>2 DEF Auth
  <2> HIDE DEF t, b
  <2> QED
    BY <2>2, <2>3, ArriveEnds
<1>3. ASSUME NEW c \in Tabs, Resume(c)
      PROVE  Ends(r, a)
  <2> DEFINE t == [tab[c] EXCEPT !.susp = FALSE]
  <2>1. t \in Tab /\ t.on
    BY <1>3 DEF Resume, Tab, Typed
  <2>2. Arrive(c, t, box)
    BY <1>3 DEF Resume
  <2> HIDE DEF t
  <2> QED
    BY <2>1, <2>2, ArriveEnds
<1>4. ASSUME NEW c \in Tabs, Suspend(c) \/ Close(c) \/ \E w \in BOOLEAN : Leave(c, w)
      PROVE  Ends(r, a)
  <2>1. tab[c] \in Tab /\ tab[c].acct \in alive \cup {NoAccount}
    BY DEF Typed, Matched, Bound
  <2>2. \/ UNCHANGED <<away, store>>
        \/ /\ tab[c].acct # NoAccount /\ tab[c].room # NoRoom
           /\ SetAway(tab[c].acct, tab[c].room)
    BY <1>4 DEF Suspend, Close, Leave, Depart
  <2>3. tab[c].acct \in alive /\ tab[c].room \in Rooms /\ SetAway(tab[c].acct, tab[c].room)
    BY <2>1, <2>2 DEF Tab
  <2> QED
    BY <2>3, SetAwayEnds
<1>5. ASSUME NEW b \in Accounts, NEW C \in SUBSET SignedIn(b), SignOut(b, C)
      PROVE  Ends(r, a)
  <2>1. a = b
    BY <1>5 DEF SignOut, Forget
  <2> QED
    BY <1>5, <2>1 DEF Ends
<1>6. ASSUME NEW b \in Accounts, DeleteAccount(b) \/ PruneUnused(b)
      PROVE  Ends(r, a)
  <2>1. a = b /\ alive' = alive \ {b}
    BY <1>6 DEF DeleteAccount, PruneUnused, Forget
  <2> QED
    BY <2>1 DEF Ends
<1>7. CASE Crash
  <2>1. r \notin ToSet(disk[a])
    BY <1>0, <1>7 DEF Crash
  <2> QED
    BY <1>7, <2>1 DEF Ends
<1>8. ASSUME NEW c \in Tabs,
             \/ \E m \in Messages, x \in Accounts : Relay(c, m, x)
             \/ \E e \in inbox[c] : AckItem(c, e)
             \/ \E m \in Messages, st \in {"delivered", "read"} : Receipt(c, m, st)
      PROVE  FALSE
  BY <1>8 DEF Relay, AckItem, Receipt
<1>9. ASSUME NEW b \in Accounts, NEW C \in SUBSET SignedIn(b), EndSession(b, C)
      PROVE  FALSE
  BY <1>9 DEF EndSession
<1>10. ~Persist /\ ~SweepQueue /\ ~Tick /\ ~UNCHANGED vars
  BY DEF Persist, SweepQueue, Tick, vars
<1> QED
  BY <1>1, <1>2, <1>3, <1>4, <1>5, <1>6, <1>7, <1>8, <1>9, <1>10 DEF Next

(* An away entry ends only because the account is back with an awake page, *)
(* signed out or is gone, because a full list dropped its oldest room for  *)
(* a new one, or in a restart that came before the list was written: for   *)
(* any pages, rooms and limit (onJoin, onPresence, noteAway, forget,       *)
(* restore).                                                               *)
THEOREM AwayAlwaysEndsForAReason == Spec => AwayEndsForAReason
<1>1. Typed /\ Matched /\ [Next]_vars =>
        [\A r \in Rooms : \A a \in away[r] \ away'[r] :
           \/ Awake(tab', a, r) # {}
           \/ Len(store'[a]) = MaxAwayRooms /\ Last(store'[a]) # Last(store[a])
           \/ a \notin alive'
           \/ \E C \in SUBSET SignedIn(a) : SignOut(a, C)
           \/ r \notin ToSet(disk[a]) /\ Crash]_vars
  BY StepEnds DEF Ends
<1> QED
  BY <1>1, AlwaysTyped, AlwaysMatched, PTL DEF Spec, AwayEndsForAReason

----------------------------------------------------------------------------
(* What becomes of the rows in the handlers.  A row of nb was in b and is  *)
(* about the same message still, or is new and may be there (OK).          *)

(* The new rows that notifySender() may put down.                          *)
IsReceipt(row, c, m) ==
  row.kind = "status" /\ row.msg = m /\ row.from = Sender(c) /\ row.state = "queued"

LEMMA NotifiedRows ==
  ASSUME Typed, NEW b, Boxes(b, now), NEW c \in Tabs, NEW r \in Rooms,
         NEW m \in Messages, NEW s \in Senders, NEW st \in Statuses,
         NEW a \in Accounts, NEW i \in Ids(Notified(b, c, r, m, s, st)[a])
  PROVE  \/ /\ i \in Ids(b[a])
            /\ SameItem(Notified(b, c, r, m, s, st)[a].rows[i], b[a].rows[i])
            /\ SameLease(Notified(b, c, r, m, s, st)[a].rows[i], b[a].rows[i])
         \/ /\ a = s.acct /\ a \in alive
            /\ IsReceipt(Notified(b, c, r, m, s, st)[a].rows[i], c, m)
<1> DEFINE nb == Notified(b, c, r, m, s, st)
           up == [b EXCEPT ![s.acct] = UpgradeStatus(@, m, st)]
           in == StatusFor(c, r, m, st)
           en == [b EXCEPT ![s.acct] = Enqueue(@, in, now)]
<1>0. Good(b[a], now)
  BY DEF Boxes
<1>1. CASE nb = b
  BY <1>1 DEF SameItem, SameLease
<1>2. CASE nb # b /\ nb = up /\ s.acct \in alive
  <2>1. CASE a = s.acct
    <3>1. nb[a] = UpgradeStatus(b[a], m, st)
      BY <1>2, <2>1 DEF Boxes
    <3> QED
      BY <1>0, <3>1, UpgradeThins DEF Thinned
  <2>2. CASE a # s.acct
    <3>1. nb[a] = b[a]
      BY <1>2, <2>2 DEF Boxes
    <3> QED
      BY <3>1 DEF SameItem, SameLease
  <2> QED
    BY <2>1, <2>2
<1>3. CASE nb # b /\ nb = en /\ s.acct \in alive
  <2>1. CASE a = s.acct
    <3>1. nb[a] = Enqueue(b[a], in, now)
      BY <1>3, <2>1 DEF Boxes
    <3>2. in \in Input
      <4>1. Sender(c) \in Senders
        BY RelayAssumption DEF Sender, Typed, Tab
      <4> QED
        BY <4>1 DEF StatusFor, Input, Kinds, Statuses
    <3>3. \/ i \in Ids(b[a]) /\ nb[a].rows[i] = b[a].rows[i]
          \/ SameItem(nb[a].rows[i], in) /\ nb[a].rows[i].state = "queued"
      BY <3>1, <3>2, EnqueueItems
    <3>4. in.kind = "status" /\ in.msg = m /\ in.from = Sender(c)
      BY DEF StatusFor
    <3> HIDE DEF nb, in
    <3>5. \/ /\ i \in Ids(b[a])
             /\ SameItem(nb[a].rows[i], b[a].rows[i]) /\ SameLease(nb[a].rows[i], b[a].rows[i])
          \/ IsReceipt(nb[a].rows[i], c, m)
      BY <3>3, <3>4 DEF SameItem, SameLease, IsReceipt
    <3> QED
      BY <1>3, <2>1, <3>5 DEF nb
  <2>2. CASE a # s.acct
    <3>1. nb[a] = b[a]
      BY <1>3, <2>2 DEF Boxes
    <3> QED
      BY <3>1 DEF SameItem, SameLease
  <2> QED
    BY <2>1, <2>2
<1>4. nb = b \/ (s.acct \in alive /\ (nb = up \/ nb = en))
  BY DEF Notified
<1> QED
  BY <1>1, <1>2, <1>3, <1>4

(* Giving back what c holds.                                               *)
LEMMA ReleasedThins ==
  ASSUME NEW b, NEW at, Boxes(b, at), NEW a \in Accounts, NEW ids, NEW x \in Accounts
  PROVE  /\ Thinned([b EXCEPT ![a] = Release(@, ids)][x], b[x])
         /\ x = a => \A i \in Ids(b[x]) \cap ids :
                       [b EXCEPT ![a] = Release(@, ids)][x].rows[i].state # "delivering"
<1>1. Good(b[a], at) /\ Good(b[x], at)
  BY DEF Boxes
<1>2. CASE x = a
  <2>1. [b EXCEPT ![a] = Release(@, ids)][x] = Release(b[a], ids)
    BY <1>2 DEF Boxes
  <2> QED
    BY <1>1, <1>2, <2>1, ReleaseThins
<1>3. CASE x # a
  <2>1. [b EXCEPT ![a] = Release(@, ids)][x] = b[x]
    BY <1>3 DEF Boxes
  <2> QED
    BY <1>3, <2>1 DEF Thinned, SameItem, SameLease
<1> QED
  BY <1>2, <1>3

LEMMA ThinnedSame ==
  ASSUME NEW mb
  PROVE  Thinned(mb, mb)
BY DEF Thinned, SameItem, SameLease

LEMMA ReleasedKeepsRows ==
  ASSUME Typed, NEW c \in Tabs, NEW x \in Accounts
  PROVE  /\ Thinned(Released(c)[x], box[x])
         /\ \A i \in Ids(box[x]) :
              tab[c].acct = x /\ <<x, i>> \in tab[c].leased =>
                Released(c)[x].rows[i].state # "delivering"
<1>1. tab[c].acct \in Accounts \cup {NoAccount} /\ Boxes(box, now) /\ NoAccount # x
  BY RelayAssumption DEF Typed, Tab
<1>2. CASE tab[c].acct = NoAccount
  <2>1. Released(c) = box
    BY <1>2 DEF Released
  <2> QED
    BY <1>1, <1>2, <2>1, ThinnedSame
<1>3. CASE tab[c].acct \in Accounts /\ tab[c].acct # NoAccount
  <2> DEFINE a == tab[c].acct
             ids == {e[2] : e \in {y \in tab[c].leased : y[1] = a}}
  <2>1. Released(c) = [box EXCEPT ![a] = Release(@, ids)]
    BY <1>3 DEF Released
  <2>2. \A i : <<x, i>> \in tab[c].leased /\ a = x => i \in ids
    <3> SUFFICES ASSUME NEW i, <<x, i>> \in tab[c].leased, a = x
                 PROVE  i \in ids
      OBVIOUS
    <3>1. <<x, i>> \in {y \in tab[c].leased : y[1] = a} /\ <<x, i>>[2] = i
      OBVIOUS
    <3> QED
      BY <3>1
  <2> HIDE DEF ids
  <2>3. /\ Thinned([box EXCEPT ![a] = Release(@, ids)][x], box[x])
        /\ x = a => \A i \in Ids(box[x]) \cap ids :
                      [box EXCEPT ![a] = Release(@, ids)][x].rows[i].state # "delivering"
    BY <1>1, <1>3, ReleasedThins
  <2> QED
    BY <2>1, <2>2, <2>3
<1> QED
  BY <1>1, <1>2, <1>3

LEMMA ReleasedByKeepsRows ==
  ASSUME Typed, NEW a \in Accounts, NEW C \in SUBSET Tabs, NEW x \in Accounts
  PROVE  /\ Thinned([box EXCEPT ![a] = ReleasedBy(a, C)][x], box[x])
         /\ \A i \in Ids(box[x]) :
              x = a /\ (\E c \in C : <<x, i>> \in tab[c].leased) =>
                [box EXCEPT ![a] = ReleasedBy(a, C)][x].rows[i].state # "delivering"
<1> DEFINE ids == {e[2] : e \in {y \in UNION {tab[c].leased : c \in C} : y[1] = a}}
<1>1. [box EXCEPT ![a] = ReleasedBy(a, C)] = [box EXCEPT ![a] = Release(@, ids)]
  BY DEF ReleasedBy
<1>2. \A i : x = a /\ (\E c \in C : <<x, i>> \in tab[c].leased) => i \in ids
  <2> SUFFICES ASSUME NEW i, x = a, NEW c \in C, <<x, i>> \in tab[c].leased
               PROVE  i \in ids
    OBVIOUS
  <2>1. <<x, i>> \in {y \in UNION {tab[d].leased : d \in C} : y[1] = a} /\ <<x, i>>[2] = i
    OBVIOUS
  <2> QED
    BY <2>1
<1> HIDE DEF ids
<1>3. Boxes(box, now)
  BY DEF Typed
<1>4. /\ Thinned([box EXCEPT ![a] = Release(@, ids)][x], box[x])
      /\ x = a => \A i \in Ids(box[x]) \cap ids :
                    [box EXCEPT ![a] = Release(@, ids)][x].rows[i].state # "delivering"
  BY <1>3, ReleasedThins
<1> QED
  BY <1>1, <1>2, <1>4

(* What waits in b for the client of record t is handed to it.             *)
LEMMA DeliveredRows ==
  ASSUME Typed, NEW b, Boxes(b, now), NEW t, t.acct \in Accounts, t.room \in Rooms,
         NEW x \in Accounts, NEW i \in Ids(Delivered(b, t)[x])
  PROVE  /\ i \in Ids(b[x])
         /\ SameItem(Delivered(b, t)[x].rows[i], b[x].rows[i])
         /\ \/ SameLease(Delivered(b, t)[x].rows[i], b[x].rows[i])
            \/ x = t.acct /\ b[x].rows[i].room = t.room /\ <<x, i>> \in Taken(b, t)
<1>1. now \in Nat /\ Good(b[t.acct], now)
  BY DEF Typed, Clock, Boxes
<1>2. CASE x = t.acct
  <2>1. Delivered(b, t)[x] = Lease(b[x], t.room, now)
    BY <1>2 DEF Delivered, Boxes
  <2>2. /\ Ids(Lease(b[x], t.room, now)) = Ids(b[x])
        /\ \A j \in Ids(b[x]) :
             /\ SameItem(Lease(b[x], t.room, now).rows[j], b[x].rows[j])
             /\ \/ j \in Handed(b[x], t.room, now) /\ b[x].rows[j].room = t.room
                \/ SameLease(Lease(b[x], t.room, now).rows[j], b[x].rows[j])
    BY <1>1, <1>2, LeaseItems
  <2> QED
    BY <1>2, <2>1, <2>2 DEF Taken, Waiting
<1>3. CASE x # t.acct
  <2>1. Delivered(b, t)[x] = b[x]
    BY <1>3 DEF Delivered, Boxes
  <2> QED
    BY <2>1 DEF SameItem, SameLease
<1> QED
  BY <1>2, <1>3

LEMMA ArriveRows ==
  ASSUME Typed, NEW c \in Tabs, NEW t \in Tab, NEW b, Boxes(b, now), Arrive(c, t, b),
         NEW x \in Accounts, NEW i \in Ids(box'[x])
  PROVE  /\ i \in Ids(b[x])
         /\ SameItem(box'[x].rows[i], b[x].rows[i])
         /\ \/ SameLease(box'[x].rows[i], b[x].rows[i])
            \/ /\ x = t.acct /\ b[x].rows[i].room = t.room
               /\ <<x, i>> \in tab'[c].leased
<1>1. CASE t.acct # NoAccount /\ t.room # NoRoom /\ ~t.susp
  <2>1. t.acct \in Accounts /\ t.room \in Rooms
    BY <1>1 DEF Tab
  <2>2. box' = Delivered(b, t) /\ tab'[c].leased = t.leased \cup Taken(b, t)
    BY <1>1 DEF Arrive, Typed, Tab
  <2> QED
    BY <2>1, <2>2, DeliveredRows
<1>2. CASE ~(t.acct # NoAccount /\ t.room # NoRoom /\ ~t.susp)
  <2>1. box' = b
    BY <1>2 DEF Arrive
  <2> QED
    BY <2>1 DEF SameItem, SameLease
<1> QED
  BY <1>1, <1>2

(* Where the rows of the next state come from.                             *)
Kept(a, i) ==
  i \in Ids(box[a]) /\ SameItem(box'[a].rows[i], box[a].rows[i])
FromRelay(a, i) ==
  \E c \in Tabs, m \in Messages :
    Relay(c, m, a) /\ SameItem(box'[a].rows[i], MessageFor(c, m))
FromAck(a, i) ==
  \E c \in Tabs : \E e \in inbox[c] :
    /\ AckItem(c, e)
    /\ e[1] = tab[c].acct /\ e[2] \in Ids(box[e[1]])
    /\ box[e[1]].rows[e[2]].kind = "message"
    /\ a = box[e[1]].rows[e[2]].from.acct /\ a \in alive
    /\ IsReceipt(box'[a].rows[i], c, box[e[1]].rows[e[2]].msg)
FromReceipt(a, i) ==
  \E c \in Tabs, m \in Messages, st \in {"delivered", "read"} :
    /\ Receipt(c, m, st)
    /\ a = ledger[m].sender.acct /\ a \in alive
    /\ IsReceipt(box'[a].rows[i], c, m)

(* An open connection of the account in the room r holds row i.            *)
HeldBy(t, a, i, r) ==
  \E c \in Tabs : t[c].on /\ t[c].acct = a /\ t[c].room = r /\ <<a, i>> \in t[c].leased

LEMMA RelayRows ==
  ASSUME Typed, NEW c \in Tabs, NEW m \in Messages, NEW y \in Accounts, Relay(c, m, y),
         NEW a \in Accounts, NEW i \in Ids(box'[a])
  PROVE  /\ Kept(a, i) \/ FromRelay(a, i)
         /\ \/ Kept(a, i) /\ SameLease(box'[a].rows[i], box[a].rows[i])
            \/ box'[a].rows[i].state # "delivering"
            \/ HeldBy(tab', a, i, box'[a].rows[i].room)
<1> DEFINE r  == tab[c].room
           in == MessageFor(c, m)
           b  == [box EXCEPT ![y] = Enqueue(@, in, now)]
<1>1. r \in Rooms /\ Sender(c) \in Senders
  BY RelayAssumption DEF Relay, Typed, Tab, Sender
<1>2. in \in Input
  BY <1>1 DEF MessageFor, Input, Kinds, Statuses
<1>3. now \in Nat
  BY DEF Typed, Clock
<1>4. box[y].ids < MaxRows \/ ~Accepts(box[y], in)
  BY DEF Relay, IsDuplicate, Accepts
<1>5. Boxes(b, now)
  BY <1>2, <1>3, <1>4, EnqueueKeepsBoxes DEF Typed
<1>6. /\ i \in Ids(b[a]) /\ SameItem(box'[a].rows[i], b[a].rows[i])
      /\ \/ SameLease(box'[a].rows[i], b[a].rows[i])
         \/ HeldBy(tab', a, i, box'[a].rows[i].room)
  <2>1. CASE box' = b
    BY <2>1 DEF SameItem, SameLease
  <2>2. ASSUME NEW p \in Awake(tab, y, r),
               tab' = [tab EXCEPT ![p].leased = @ \cup Taken(b, tab[p])],
               box' = Delivered(b, tab[p])
        PROVE  /\ i \in Ids(b[a]) /\ SameItem(box'[a].rows[i], b[a].rows[i])
               /\ \/ SameLease(box'[a].rows[i], b[a].rows[i])
                  \/ HeldBy(tab', a, i, box'[a].rows[i].room)
    <3>1. /\ p \in Tabs /\ tab[p] \in Tab
          /\ tab[p].acct = y /\ tab[p].room = r /\ tab[p].on
      BY DEF Awake, Typed
    <3> HIDE DEF b, r
    <3>2. /\ i \in Ids(b[a]) /\ SameItem(box'[a].rows[i], b[a].rows[i])
          /\ \/ SameLease(box'[a].rows[i], b[a].rows[i])
             \/ a = y /\ b[a].rows[i].room = r /\ <<a, i>> \in Taken(b, tab[p])
      BY <2>2, <3>1, <1>1, <1>5, DeliveredRows
    <3>3. /\ tab'[p].on /\ tab'[p].acct = y /\ tab'[p].room = r
          /\ Taken(b, tab[p]) \subseteq tab'[p].leased
      BY <2>2, <3>1 DEF Typed, Tab
    <3> QED
      BY <3>1, <3>2, <3>3 DEF HeldBy, SameItem
  <2> QED
    BY <2>1, <2>2 DEF Relay
<1>7. CASE a # y
  <2>1. b[a] = box[a]
    BY <1>7 DEF Typed, Boxes
  <2> QED
    BY <1>6, <2>1 DEF Kept
<1>8. CASE a = y
  <2>1. b[a] = Enqueue(box[a], in, now)
    BY <1>8 DEF Typed, Boxes
  <2>2. \/ i \in Ids(box[a]) /\ b[a].rows[i] = box[a].rows[i]
        \/ SameItem(b[a].rows[i], in) /\ b[a].rows[i].state = "queued"
    BY <1>2, <1>6, <2>1, EnqueueItems
  <2> HIDE DEF b, in
  <2>3. CASE i \in Ids(box[a]) /\ b[a].rows[i] = box[a].rows[i]
    BY <1>6, <2>3 DEF Kept
  <2>4. CASE SameItem(b[a].rows[i], in) /\ b[a].rows[i].state = "queued"
    <3>1. SameItem(box'[a].rows[i], in)
      BY <1>6, <2>4 DEF SameItem
    <3>2. box'[a].rows[i].state # "delivering" \/ HeldBy(tab', a, i, box'[a].rows[i].room)
      BY <1>6, <2>4 DEF SameLease
    <3> QED
      BY <1>8, <3>1, <3>2 DEF in, FromRelay
  <2> QED
    BY <2>2, <2>3, <2>4
<1> QED
  BY <1>7, <1>8

LEMMA AckItemRows ==
  ASSUME Typed, NEW c \in Tabs, NEW e \in inbox[c], AckItem(c, e),
         NEW a \in Accounts, NEW i \in Ids(box'[a])
  PROVE  \/ /\ Kept(a, i) /\ SameLease(box'[a].rows[i], box[a].rows[i])
            /\ a = tab[c].acct /\ e[1] = a /\ e[2] = i => box[a].rows[i].state = "dead"
         \/ FromAck(a, i) /\ box'[a].rows[i].state = "queued"
<1> DEFINE y   == tab[c].acct
           row == box[y].rows[e[2]]
           b   == [box EXCEPT ![y] = Ack(@, {e[2]})]
<1>1. y \in Accounts /\ Boxes(box, now)
  BY DEF AckItem, Typed, Tab
<1>2. CASE ~(e[1] = y /\ e[2] \in Live(box[y]))
  <2>1. box' = box
    BY <1>2 DEF AckItem
  <2>2. a = y /\ e[1] = a /\ e[2] = i => box[a].rows[i].state = "dead"
    BY <1>2, <2>1 DEF Live
  <2> QED
    BY <2>1, <2>2 DEF Kept, SameItem, SameLease
<1>3. CASE e[1] = y /\ e[2] \in Live(box[y])
  <2>1. e[2] \in Ids(box[y]) /\ row \in Row
    BY <1>1, <1>3, RowIds DEF Live
  <2>2. Good(Ack(box[y], {e[2]}), now) /\ Ack(box[y], {e[2]}).ids <= MaxRows
    <3>1. Good(box[y], now) /\ box[y].ids <= MaxRows
      BY <1>1 DEF Boxes
    <3> QED
      BY <3>1, AckKeepsGood, SameIds
  <2>3. Boxes(b, now) /\ b[y] = Ack(box[y], {e[2]}) /\ \A x \in Accounts : x # y => b[x] = box[x]
    <3> HIDE DEF y
    <3> QED
      BY <1>1, <2>2, ReplaceKeepsBoxes
  <2>4. /\ Thinned(b[a], box[a])
        /\ a = y /\ e[2] \in Ids(b[a]) => box[a].rows[e[2]].state = "dead"
    <3>1. Good(box[y], now)
      BY <1>1 DEF Boxes
    <3>2. /\ Thinned(Ack(box[y], {e[2]}), box[y])
          /\ e[2] \in Ids(Ack(box[y], {e[2]})) => box[y].rows[e[2]].state = "dead"
      BY <3>1, AckThins
    <3> QED
      BY <2>3, <3>2, ThinnedSame
  <2>5. box' = IF row.kind = "message"
               THEN Notified(b, c, row.room, row.msg, row.from, "delivered") ELSE b
    BY <1>3 DEF AckItem
  <2>6. CASE row.kind # "message"
    <3>1. box' = b
      BY <2>5, <2>6
    <3> HIDE DEF b
    <3> QED
      BY <2>4, <3>1 DEF Thinned, Kept
  <2>7. CASE row.kind = "message"
    <3>0. box' = Notified(b, c, row.room, row.msg, row.from, "delivered")
      BY <2>5, <2>7
    <3>1. \/ /\ i \in Ids(b[a])
             /\ SameItem(box'[a].rows[i], b[a].rows[i])
             /\ SameLease(box'[a].rows[i], b[a].rows[i])
          \/ /\ a = row.from.acct /\ a \in alive
             /\ IsReceipt(box'[a].rows[i], c, row.msg)
      <4>1. /\ row.room \in Rooms /\ row.msg \in Messages /\ row.from \in Senders
            /\ "delivered" \in Statuses
        BY <2>1 DEF Row, Statuses
      <4> HIDE DEF b, row
      <4> QED
        BY <2>3, <3>0, <4>1, NotifiedRows
    <3>2. CASE /\ i \in Ids(b[a])
               /\ SameItem(box'[a].rows[i], b[a].rows[i])
               /\ SameLease(box'[a].rows[i], b[a].rows[i])
      <4> HIDE DEF b
      <4> QED
        BY <2>4, <3>2 DEF Thinned, Kept, SameItem, SameLease
    <3>3. CASE /\ a = row.from.acct /\ a \in alive
               /\ IsReceipt(box'[a].rows[i], c, row.msg)
      <4>1. box'[a].rows[i].state = "queued"
        BY <3>3 DEF IsReceipt
      <4>2. FromAck(a, i)
        BY <1>3, <2>1, <2>7, <3>3 DEF FromAck
      <4> QED
        BY <4>1, <4>2
    <3> QED
      BY <3>1, <3>2, <3>3
  <2> QED
    BY <2>6, <2>7
<1> QED
  BY <1>2, <1>3

LEMMA ReceiptRows ==
  ASSUME Typed, NEW c \in Tabs, NEW m \in Messages, NEW st \in {"delivered", "read"},
         Receipt(c, m, st), NEW a \in Accounts, NEW i \in Ids(box'[a])
  PROVE  \/ Kept(a, i) /\ SameLease(box'[a].rows[i], box[a].rows[i])
         \/ FromReceipt(a, i) /\ box'[a].rows[i].state = "queued"
<1>1. m \in DOMAIN ledger /\ ledger[m] \in Entry /\ Boxes(box, now)
  BY DEF Receipt, Typed, Book
<1>2. ledger[m].room \in Rooms /\ ledger[m].sender \in Senders /\ st \in Statuses
  BY <1>1 DEF Entry, Statuses
<1>3. box' = Notified(box, c, ledger[m].room, m, ledger[m].sender, st)
  BY DEF Receipt
<1>4. \/ /\ i \in Ids(box[a])
         /\ SameItem(box'[a].rows[i], box[a].rows[i])
         /\ SameLease(box'[a].rows[i], box[a].rows[i])
      \/ /\ a = ledger[m].sender.acct /\ a \in alive
         /\ IsReceipt(box'[a].rows[i], c, m)
  BY <1>1, <1>2, <1>3, NotifiedRows
<1> QED
  BY <1>4 DEF Kept, FromReceipt, IsReceipt

LEMMA ThinnedKept ==
  ASSUME NEW a, Thinned(box'[a], box[a]), NEW i \in Ids(box'[a])
  PROVE  Kept(a, i) /\ SameLease(box'[a].rows[i], box[a].rows[i])
BY DEF Thinned, Kept

(* join, auth, a page that is back.                                        *)
LEMMA EnterRows ==
  ASSUME Typed, NEW c \in Tabs, NEW a \in Accounts, NEW i \in Ids(box'[a]),
         \/ \E x \in Bind(c) : \E cover \in MayCover(x) :
              Auth(c, x, cover) \/ \E r \in Rooms : Join(c, r, x, cover)
         \/ Resume(c)
  PROVE  Kept(a, i)
<1>1. ASSUME NEW t \in Tab, NEW b, Boxes(b, now), Arrive(c, t, b), Thinned(b[a], box[a])
      PROVE  Kept(a, i)
  <2>1. i \in Ids(b[a]) /\ SameItem(box'[a].rows[i], b[a].rows[i])
    BY <1>1, ArriveRows
  <2> QED
    BY <2>1, <1>1 DEF Thinned, Kept, SameItem
<1>2. Boxes(Released(c), now) /\ Thinned(Released(c)[a], box[a])
  BY ReleasedTyped, ReleasedKeepsRows
<1>3. Boxes(box, now) /\ Thinned(box[a], box[a])
  BY ThinnedSame DEF Typed
<1>4. ASSUME NEW x \in Bind(c), NEW cover \in MayCover(x)
      PROVE  x \in Accounts \cup {NoAccount} /\ cover \in BOOLEAN
  BY RelayAssumption DEF Bind, MayCover, Typed
<1>5. ASSUME NEW x \in Bind(c), NEW cover \in MayCover(x), NEW r \in Rooms,
             Join(c, r, x, cover)
      PROVE  Kept(a, i)
  <2> DEFINE t == [Closed EXCEPT !.on = TRUE, !.room = r, !.acct = x, !.cover = cover,
                                 !.susp = tab[c].susp]
  <2>1. t \in Tab
    BY <1>4 DEF Closed, Tab, Typed
  <2>2. Arrive(c, t, Released(c))
    BY <1>5 DEF Join
  <2> HIDE DEF t
  <2> QED
    BY <2>1, <2>2, <1>1, <1>2
<1>6. ASSUME NEW x \in Bind(c), NEW cover \in MayCover(x), Auth(c, x, cover)
      PROVE  Kept(a, i)
  <2> DEFINE free == tab[c].acct # NoAccount /\ tab[c].room # NoRoom
             t == [tab[c] EXCEPT !.acct = x, !.cover = cover,
                                 !.leased = IF free THEN {} ELSE @]
             b == IF free THEN Released(c) ELSE box
  <2>0. x \in Accounts \cup {NoAccount} /\ cover \in BOOLEAN
    BY <1>4
  <2>1. t \in Tab
    BY <2>0 DEF Tab, Typed
  <2>2. Arrive(c, t, b)
    BY <1>6 DEF Auth
  <2>3. Boxes(b, now) /\ Thinned(b[a], box[a])
    BY <1>2, <1>3
  <2> HIDE DEF t, b
  <2> QED
    BY <2>1, <2>2, <2>3, <1>1
<1>7. ASSUME Resume(c)
      PROVE  Kept(a, i)
  <2>1. [tab[c] EXCEPT !.susp = FALSE] \in Tab
    BY DEF Tab, Typed
  <2>2. Arrive(c, [tab[c] EXCEPT !.susp = FALSE], box)
    BY <1>7 DEF Resume
  <2> QED
    BY <2>1, <2>2, <1>1, <1>3
<1> QED
  BY <1>5, <1>6, <1>7

(* Everything but entering and what passes messages and receipts on.       *)
LEMMA OtherRows ==
  ASSUME Typed, NEW a \in Accounts,
         \/ \E c \in Tabs : Suspend(c) \/ Close(c) \/ \E w \in BOOLEAN : Leave(c, w)
         \/ \E x \in Accounts :
              \/ \E C \in SUBSET SignedIn(x) : EndSession(x, C) \/ SignOut(x, C)
              \/ DeleteAccount(x) \/ PruneUnused(x)
         \/ Persist \/ Crash \/ SweepQueue \/ Tick
         \/ UNCHANGED vars
  PROVE  Thinned(box'[a], box[a])
<1>1. CASE box' = box
  BY <1>1, ThinnedSame
<1>2. ASSUME NEW c \in Tabs, box' = Released(c)
      PROVE  Thinned(box'[a], box[a])
  BY <1>2, ReleasedKeepsRows
<1>3. ASSUME NEW x \in Accounts, NEW C \in SUBSET Tabs,
             box' = [box EXCEPT ![x] = ReleasedBy(x, C)]
      PROVE  Thinned(box'[a], box[a])
  BY <1>3, ReleasedByKeepsRows
<1>4. ASSUME NEW x \in Accounts, box' = [box EXCEPT ![x] = Purge(@)]
      PROVE  Thinned(box'[a], box[a])
  <2>1. CASE a = x
    <3>1. box'[a] = Purge(box[a])
      BY <1>4, <2>1 DEF Typed, Boxes
    <3> QED
      BY <3>1, PurgeThins
  <2>2. CASE a # x
    <3>1. box'[a] = box[a]
      BY <1>4, <2>2 DEF Typed, Boxes
    <3> QED
      BY <3>1, ThinnedSame
  <2> QED
    BY <2>1, <2>2
<1>5. CASE SweepQueue
  <2>1. box'[a] = Sweep(box[a], now) /\ Good(box[a], now)
    BY <1>5 DEF SweepQueue, Typed, Boxes
  <2> QED
    BY <2>1, SweepThins
<1>6. \A x : SignedIn(x) \in SUBSET Tabs
  BY DEF SignedIn
<1>7. ASSUME NEW c \in Tabs, Suspend(c) \/ Close(c) \/ \E w \in BOOLEAN : Leave(c, w)
      PROVE  box' = box \/ box' = Released(c)
  BY <1>7 DEF Suspend, Close, Leave, Depart
<1>8. ASSUME NEW x \in Accounts,
             \/ \E C \in SUBSET SignedIn(x) : EndSession(x, C) \/ SignOut(x, C)
             \/ DeleteAccount(x) \/ PruneUnused(x)
      PROVE  \/ \E C \in SUBSET Tabs : box' = [box EXCEPT ![x] = ReleasedBy(x, C)]
             \/ box' = [box EXCEPT ![x] = Purge(@)]
  BY <1>6, <1>8 DEF EndSession, SignOut, DeleteAccount, PruneUnused
<1>9. CASE Persist \/ Crash \/ Tick \/ UNCHANGED vars
  BY <1>1, <1>9 DEF Persist, Crash, Tick, vars
<1> QED
  BY <1>1, <1>2, <1>3, <1>4, <1>5, <1>7, <1>8, <1>9

LEMMA StepRows ==
  ASSUME Typed, [Next]_vars, NEW a \in Accounts, NEW i \in Ids(box'[a])
  PROVE  Kept(a, i) \/ FromRelay(a, i) \/ FromAck(a, i) \/ FromReceipt(a, i)
<1>1. ASSUME NEW c \in Tabs,
             \/ \E x \in Bind(c) : \E cover \in MayCover(x) :
                  Auth(c, x, cover) \/ \E r \in Rooms : Join(c, r, x, cover)
             \/ Resume(c)
      PROVE  Kept(a, i)
  BY <1>1, EnterRows
<1>2. CASE \E c \in Tabs : \E m \in Messages, x \in Accounts : Relay(c, m, x)
  BY <1>2, RelayRows
<1>3. CASE \E c \in Tabs : \E e \in inbox[c] : AckItem(c, e)
  BY <1>3, AckItemRows
<1>4. CASE \E c \in Tabs : \E m \in Messages, st \in {"delivered", "read"} : Receipt(c, m, st)
  BY <1>4, ReceiptRows
<1>5. CASE \/ \E c \in Tabs : Suspend(c) \/ Close(c) \/ \E w \in BOOLEAN : Leave(c, w)
           \/ \E x \in Accounts :
                \/ \E C \in SUBSET SignedIn(x) : EndSession(x, C) \/ SignOut(x, C)
                \/ DeleteAccount(x) \/ PruneUnused(x)
           \/ Persist \/ Crash \/ SweepQueue \/ Tick
           \/ UNCHANGED vars
  BY <1>5, OtherRows, ThinnedKept
<1> QED
  BY <1>1, <1>2, <1>3, <1>4, <1>5 DEF Next

----------------------------------------------------------------------------
(* Nothing waits for an account that was deleted.                          *)

LEMMA StepDeleted ==
  ASSUME Typed, Matched, ~StoreFull, NothingForTheDeleted, [Next]_vars
  PROVE  NothingForTheDeleted'
<1> SUFFICES ASSUME NEW a \in Accounts \ alive', NEW i \in Ids(box'[a])
             PROVE  FALSE
  BY DEF NothingForTheDeleted
<1>1. CASE a \in alive
  <2>1. \E x \in Accounts : DeleteAccount(x) \/ PruneUnused(x)
    <3>1. alive' # alive
      BY <1>1
    <3>2. \A c \in Tabs : \A x, cover, r : ~Join(c, r, x, cover) /\ ~Auth(c, x, cover)
      BY <3>1 DEF Join, Auth, Unmoved
    <3>3. \A c \in Tabs : ~Resume(c) /\ ~Suspend(c) /\ ~Close(c) /\ \A w : ~Leave(c, w)
      BY <3>1 DEF Resume, Suspend, Close, Leave, Unmoved
    <3>4. \A c \in Tabs : /\ \A m, x : ~Relay(c, m, x)
                          /\ \A e : ~AckItem(c, e)
                          /\ \A m, st : ~Receipt(c, m, st)
      BY <3>1 DEF Relay, AckItem, Receipt, Unmoved
    <3>5. \A x, C : ~EndSession(x, C) /\ ~SignOut(x, C)
      BY <3>1 DEF EndSession, SignOut, Unmoved
    <3>6. ~Persist /\ ~Crash /\ ~SweepQueue /\ ~Tick /\ ~UNCHANGED vars
      BY <3>1 DEF Persist, Crash, SweepQueue, Tick, vars
    <3> QED
      BY <3>2, <3>3, <3>4, <3>5, <3>6 DEF Next
  <2>2. PICK x \in Accounts : DeleteAccount(x)
    BY <2>1 DEF PruneUnused
  <2>3. a = x /\ box' = [box EXCEPT ![x] = Purge(@)]
    BY <1>1, <2>2 DEF DeleteAccount
  <2>4. box'[a] = Purge(box[a])
    BY <2>3 DEF Typed, Boxes
  <2> QED
    BY <2>4, PurgeThins
<1>2. CASE a \notin alive
  <2>1. Ids(box[a]) = {}
    BY <1>2 DEF NothingForTheDeleted
  <2>2. ~Kept(a, i)
    BY <2>1 DEF Kept
  <2>3. ~FromAck(a, i) /\ ~FromReceipt(a, i)
    BY <1>2 DEF FromAck, FromReceipt
  <2>4. ~FromRelay(a, i)
    <3> SUFFICES ASSUME NEW c \in Tabs, NEW m \in Messages, Relay(c, m, a)
                 PROVE  FALSE
      BY DEF FromRelay
    <3>1. a \in Candidates(tab[c].room) /\ tab[c].room \in Rooms
      BY DEF Relay, Typed, Tab
    <3> QED
      BY <1>2, <3>1, RelayAssumption DEF Candidates, Matched, AwayIsStored, Bound, Present
  <2> QED
    BY <2>2, <2>3, <2>4, StepRows
<1> QED
  BY <1>1, <1>2

(* While unused accounts are not pruned, nothing ever waits for an account *)
(* that was deleted, whatever receipts and messages were under way to it   *)
(* (DELETE /api/account, notifySender; pruneUnused is another matter).     *)
THEOREM NothingEverForTheDeleted ==
  ASSUME ~StoreFull
  PROVE  Spec => []NothingForTheDeleted
<1>1. Init => NothingForTheDeleted
  BY DEF Init, NothingForTheDeleted
<1>2. Typed /\ Matched /\ NothingForTheDeleted /\ [Next]_vars => NothingForTheDeleted'
  BY StepDeleted
<1> QED
  BY <1>1, <1>2, AlwaysTyped, AlwaysMatched, PTL DEF Spec

----------------------------------------------------------------------------
(* Receipts are genuine, because the rows they answer and the ledger are:  *)
(* a message row and a ledger entry name only what was relayed.            *)
By(R, m, a) == \E x \in R : x.msg = m /\ x.by = a
To(R, m, a) == \E x \in R : x.msg = m /\ x.to = a

GenuineRow(a, row) ==
  /\ row.kind = "status" => By(relayed, row.msg, a) /\ To(relayed, row.msg, row.from.acct)
  /\ row.kind = "message" => By(relayed, row.msg, row.from.acct) /\ To(relayed, row.msg, a)
GenuineRows ==
  \A a \in Accounts : \A i \in Ids(box[a]) : GenuineRow(a, box[a].rows[i])
GenuineLedger ==
  \A m \in DOMAIN ledger :
    By(relayed, m, ledger[m].sender.acct) /\ \A a \in ledger[m].to : To(relayed, m, a)

(* What was relayed is never forgotten.                                    *)
LEMMA RelayedGrows ==
  ASSUME [Next]_vars
  PROVE  /\ relayed \subseteq relayed'
         /\ \/ ledger' = ledger
            \/ ledger' \in Swept(ledger, now)
            \/ \E c \in Tabs, m \in Messages, a \in Accounts : Relay(c, m, a)
<1>1. ASSUME NEW c \in Tabs, NEW m \in Messages, NEW a \in Accounts, Relay(c, m, a)
      PROVE  relayed \subseteq relayed'
  BY <1>1 DEF Relay
<1>2. CASE SweepQueue
  BY <1>2 DEF SweepQueue
<1>3. ASSUME NEW c \in Tabs
      PROVE  /\ \A x, cover, r : Join(c, r, x, cover) \/ Auth(c, x, cover) =>
                  UNCHANGED <<relayed, ledger>>
             /\ \A w : Leave(c, w) => UNCHANGED <<relayed, ledger>>
             /\ Resume(c) \/ Suspend(c) \/ Close(c) => UNCHANGED <<relayed, ledger>>
             /\ \A e : AckItem(c, e) => UNCHANGED <<relayed, ledger>>
             /\ \A m, st : Receipt(c, m, st) => UNCHANGED <<relayed, ledger>>
  BY DEF Join, Auth, Leave, Resume, Suspend, Close, AckItem, Receipt, Unmoved
<1>4. ASSUME NEW a \in Accounts
      PROVE  /\ \A C : EndSession(a, C) \/ SignOut(a, C) => UNCHANGED <<relayed, ledger>>
             /\ DeleteAccount(a) \/ PruneUnused(a) => UNCHANGED <<relayed, ledger>>
  BY DEF EndSession, SignOut, DeleteAccount, PruneUnused, Unmoved
<1>5. Persist \/ Crash \/ Tick \/ UNCHANGED vars => UNCHANGED <<relayed, ledger>>
  BY DEF Persist, Crash, Tick, vars
<1> QED
  BY <1>1, <1>2, <1>3, <1>4, <1>5 DEF Next

LEMMA StepGenuineRows ==
  ASSUME Typed, GenuineRows, GenuineLedger, [Next]_vars
  PROVE  GenuineRows'
<1> SUFFICES ASSUME NEW a \in Accounts, NEW i \in Ids(box'[a])
             PROVE  GenuineRow(a, box[a].rows[i])'
  BY DEF GenuineRows
<1>1. relayed \subseteq relayed'
  BY RelayedGrows
<1>2. CASE Kept(a, i)
  <2>1. GenuineRow(a, box[a].rows[i]) /\ SameItem(box'[a].rows[i], box[a].rows[i])
    BY <1>2 DEF Kept, GenuineRows
  <2> QED
    BY <1>1, <2>1 DEF GenuineRow, SameItem, By, To
<1>3. CASE FromRelay(a, i)
  <2>1. PICK c \in Tabs, m \in Messages :
          Relay(c, m, a) /\ SameItem(box'[a].rows[i], MessageFor(c, m))
    BY <1>3 DEF FromRelay
  <2>2. [by |-> tab[c].acct, to |-> a, msg |-> m] \in relayed'
    BY <2>1 DEF Relay
  <2>3. box'[a].rows[i].kind = "message" /\ box'[a].rows[i].msg = m
        /\ box'[a].rows[i].from.acct = tab[c].acct
    BY <2>1 DEF SameItem, MessageFor, Sender
  <2> QED
    BY <2>2, <2>3 DEF GenuineRow, By, To
<1>4. CASE FromAck(a, i)
  <2>1. PICK c \in Tabs : \E e \in inbox[c] :
          /\ e[1] = tab[c].acct /\ e[2] \in Ids(box[e[1]]) /\ AckItem(c, e)
          /\ box[e[1]].rows[e[2]].kind = "message"
          /\ a = box[e[1]].rows[e[2]].from.acct
          /\ IsReceipt(box'[a].rows[i], c, box[e[1]].rows[e[2]].msg)
    BY <1>4 DEF FromAck
  <2>2. PICK e \in inbox[c] :
          /\ e[1] = tab[c].acct /\ e[2] \in Ids(box[e[1]]) /\ AckItem(c, e)
          /\ box[e[1]].rows[e[2]].kind = "message"
          /\ a = box[e[1]].rows[e[2]].from.acct
          /\ IsReceipt(box'[a].rows[i], c, box[e[1]].rows[e[2]].msg)
    BY <2>1
  <2> DEFINE old == box[e[1]].rows[e[2]]
  <2>3. e[1] \in Accounts
    BY <2>2 DEF AckItem, Typed, Tab
  <2>4. By(relayed, old.msg, a) /\ To(relayed, old.msg, tab[c].acct)
    BY <2>2, <2>3 DEF GenuineRows, GenuineRow
  <2>5. /\ box'[a].rows[i].kind = "status" /\ box'[a].rows[i].msg = old.msg
        /\ box'[a].rows[i].from.acct = tab[c].acct
    <3>1. IsReceipt(box'[a].rows[i], c, old.msg)
      BY <2>2
    <3> HIDE DEF old
    <3> QED
      BY <3>1 DEF IsReceipt, Sender
  <2> HIDE DEF old
  <2> QED
    BY <1>1, <2>4, <2>5 DEF GenuineRow, By, To
<1>5. CASE FromReceipt(a, i)
  <2>1. PICK c \in Tabs, m \in Messages, st \in {"delivered", "read"} :
          /\ Receipt(c, m, st)
          /\ a = ledger[m].sender.acct
          /\ IsReceipt(box'[a].rows[i], c, m)
    BY <1>5 DEF FromReceipt
  <2>2. By(relayed, m, a) /\ To(relayed, m, tab[c].acct)
    BY <2>1 DEF Receipt, GenuineLedger
  <2>3. /\ box'[a].rows[i].kind = "status" /\ box'[a].rows[i].msg = m
        /\ box'[a].rows[i].from.acct = tab[c].acct
    BY <2>1 DEF IsReceipt, Sender
  <2> QED
    BY <1>1, <2>2, <2>3 DEF GenuineRow, By, To
<1> QED
  BY <1>2, <1>3, <1>4, <1>5, StepRows

LEMMA StepGenuineLedger ==
  ASSUME Typed, GenuineLedger, [Next]_vars
  PROVE  GenuineLedger'
<1>1. relayed \subseteq relayed'
  BY RelayedGrows
<1>2. CASE ledger' = ledger
  BY <1>1, <1>2 DEF GenuineLedger, By, To
<1>3. CASE ledger' \in Swept(ledger, now)
  <2>1. PICK K \in SUBSET Young(ledger, now) : ledger' = [m \in K |-> ledger[m]]
    BY <1>3 DEF Swept
  <2>2. \A m \in DOMAIN ledger' : m \in DOMAIN ledger /\ ledger'[m] = ledger[m]
    BY <2>1 DEF Young
  <2> QED
    BY <1>1, <2>2 DEF GenuineLedger, By, To
<1>4. ASSUME NEW c \in Tabs, NEW m \in Messages, NEW a \in Accounts, Relay(c, m, a)
      PROVE  GenuineLedger'
  <2>1. /\ ledger' = Remember(ledger, m, tab[c].room, Sender(c), a, now)
        /\ relayed' = relayed \cup {[by |-> tab[c].acct, to |-> a, msg |-> m]}
    BY <1>4 DEF Relay
  <2> SUFFICES ASSUME NEW x \in DOMAIN ledger'
               PROVE  /\ By(relayed', x, ledger'[x].sender.acct)
                      /\ \A y \in ledger'[x].to : To(relayed', x, y)
    BY DEF GenuineLedger
  <2>2. By(relayed', m, tab[c].acct) /\ To(relayed', m, a)
    <3> DEFINE new == [by |-> tab[c].acct, to |-> a, msg |-> m]
    <3>1. new \in relayed' /\ new.by = tab[c].acct /\ new.to = a /\ new.msg = m
      BY <2>1
    <3> HIDE DEF new
    <3> QED
      BY <3>1 DEF By, To
  <2>3. CASE x # m
    <3>1. x \in DOMAIN ledger /\ ledger'[x] = ledger[x]
      BY <2>1, <2>3 DEF Remember
    <3> QED
      BY <1>1, <3>1 DEF GenuineLedger, By, To
  <2>4. CASE x = m /\ m \in DOMAIN ledger
    <3>1. /\ ledger'[x].sender = ledger[m].sender
          /\ ledger'[x].to = ledger[m].to \cup {a}
      BY <2>1, <2>4 DEF Remember, Typed, Book, Entry
    <3> QED
      BY <1>1, <2>2, <2>4, <3>1 DEF GenuineLedger, By, To
  <2>5. CASE x = m /\ m \notin DOMAIN ledger
    <3>1. ledger'[x].sender.acct = tab[c].acct /\ ledger'[x].to = {a}
      BY <2>1, <2>5 DEF Remember, Sender
    <3> QED
      BY <2>2, <2>5, <3>1
  <2> QED
    BY <2>3, <2>4, <2>5
<1> QED
  BY <1>2, <1>3, <1>4, RelayedGrows

(* "Receipts are accepted only for messages this server actually relayed   *)
(* to the reader, and only reach that message's sender" (relay.ts:18-20):  *)
(* so it is of every receipt the queue ever holds, through whatever        *)
(* reconnects, deletions, sweeps of the ledger and restarts.               *)
THEOREM ReceiptsAreAlwaysGenuine == Spec => []ReceiptsAreGenuine
<1> DEFINE G == GenuineRows /\ GenuineLedger
<1>1. Init => G
  BY DEF Init, GenuineRows, GenuineLedger, EmptyMailbox, EmptyLedger, Ids
<1>2. Typed /\ G /\ [Next]_vars => G'
  BY StepGenuineRows, StepGenuineLedger
<1>3. G => ReceiptsAreGenuine
  BY DEF GenuineRows, GenuineRow, ReceiptsAreGenuine, By, To
<1> QED
  BY <1>1, <1>2, <1>3, AlwaysTyped, PTL DEF Spec

----------------------------------------------------------------------------
(* Leases are held.                                                        *)

LeaseHeld(a, i) ==
  LET row == box[a].rows[i] IN
  row.state = "delivering" /\ row.lease > now =>
    row.lease <= boot + LeaseTime \/ HeldBy(tab, a, i, row.room)
AllHeld == \A a \in Accounts : \A i \in Ids(box[a]) : LeaseHeld(a, i)

(* A row that was under the same lease before, and is held as it was, or   *)
(* is under none.                                                          *)
LEMMA LeaseCarried ==
  ASSUME AllHeld, UNCHANGED <<now, boot>>, NEW a \in Accounts, NEW i \in Ids(box'[a]),
         Kept(a, i), SameLease(box'[a].rows[i], box[a].rows[i]),
         \/ HeldBy(tab, a, i, box[a].rows[i].room) => HeldBy(tab', a, i, box[a].rows[i].room)
         \/ box'[a].rows[i].state # "delivering"
  PROVE  LeaseHeld(a, i)'
<1>1. LeaseHeld(a, i)
  BY DEF AllHeld, Kept
<1>2. box'[a].rows[i].room = box[a].rows[i].room
  BY DEF Kept, SameItem
<1> QED
  BY <1>1, <1>2 DEF LeaseHeld, SameLease

(* The connections other than c are as they were.                          *)
LEMMA HeldByOthers ==
  ASSUME NEW c \in Tabs, \A d \in Tabs : d # c => tab'[d] = tab[d],
         NEW a, NEW i, NEW r, HeldBy(tab, a, i, r),
         ~(tab[c].acct = a /\ tab[c].room = r /\ <<a, i>> \in tab[c].leased)
  PROVE  HeldBy(tab', a, i, r)
<1>1. PICK d \in Tabs : tab[d].on /\ tab[d].acct = a /\ tab[d].room = r /\ <<a, i>> \in tab[d].leased
  BY DEF HeldBy
<1> QED
  BY <1>1 DEF HeldBy

(* Entering: with the record t and the queue b.  Whatever c held as far as  *)
(* it is still under a lease in b, t holds in the same room.               *)
LEMMA ArriveHeld ==
  ASSUME Typed, AllHeld, UNCHANGED <<now, boot>>, NEW c \in Tabs, NEW t \in Tab, t.on,
         NEW b, Boxes(b, now), Arrive(c, t, b),
         \A a \in Accounts : Thinned(b[a], box[a]),
         \A a \in Accounts : \A i \in Ids(b[a]) :
           /\ tab[c].acct = a /\ tab[c].room = box[a].rows[i].room
           /\ <<a, i>> \in tab[c].leased /\ b[a].rows[i].state = "delivering"
           => t.acct = a /\ t.room = tab[c].room /\ <<a, i>> \in t.leased
  PROVE  AllHeld'
<1> SUFFICES ASSUME NEW a \in Accounts, NEW i \in Ids(box'[a])
             PROVE  LeaseHeld(a, i)'
  BY DEF AllHeld
<1>1. /\ i \in Ids(b[a]) /\ SameItem(box'[a].rows[i], b[a].rows[i])
      /\ \/ SameLease(box'[a].rows[i], b[a].rows[i])
         \/ a = t.acct /\ b[a].rows[i].room = t.room /\ <<a, i>> \in tab'[c].leased
  BY ArriveRows
<1>2. /\ tab'[c].on /\ tab'[c].acct = t.acct /\ tab'[c].room = t.room
      /\ t.leased \subseteq tab'[c].leased
      /\ \A d \in Tabs : d # c => tab'[d] = tab[d]
  BY DEF Arrive, Typed, Tab
<1>3. CASE a = t.acct /\ b[a].rows[i].room = t.room /\ <<a, i>> \in tab'[c].leased
  <2>1. HeldBy(tab', a, i, box'[a].rows[i].room)
    BY <1>1, <1>2, <1>3 DEF HeldBy, SameItem
  <2> QED
    BY <2>1 DEF LeaseHeld
<1>4. CASE SameLease(box'[a].rows[i], b[a].rows[i])
  <2>1. Kept(a, i) /\ SameLease(box'[a].rows[i], box[a].rows[i])
    BY <1>1, <1>4 DEF Thinned, Kept, SameItem, SameLease
  <2>2. CASE box'[a].rows[i].state # "delivering"
    BY <2>1, <2>2, LeaseCarried
  <2>3. CASE b[a].rows[i].state = "delivering"
    <3> DEFINE r == box[a].rows[i].room
    <3>1. CASE tab[c].acct = a /\ tab[c].room = r /\ <<a, i>> \in tab[c].leased
      <4>1. t.acct = a /\ t.room = r /\ <<a, i>> \in t.leased
        BY <1>1, <2>3, <3>1
      <4>2. HeldBy(tab', a, i, r)
        BY <1>2, <4>1 DEF HeldBy
      <4> QED
        BY <2>1, <4>2, LeaseCarried
    <3>2. CASE ~(tab[c].acct = a /\ tab[c].room = r /\ <<a, i>> \in tab[c].leased)
      <4>1. HeldBy(tab, a, i, r) => HeldBy(tab', a, i, r)
        BY <1>2, <3>2, HeldByOthers
      <4> QED
        BY <2>1, <4>1, LeaseCarried
    <3> QED
      BY <3>1, <3>2
  <2> QED
    BY <1>4, <2>2, <2>3 DEF SameLease
<1> QED
  BY <1>1, <1>3, <1>4

(* Nothing is handed out, and what each connection held it holds still or  *)
(* is not under a lease any more.                                          *)
LEMMA ThinnedHeld ==
  ASSUME AllHeld, UNCHANGED <<now, boot>>,
         \A a \in Accounts : Thinned(box'[a], box[a]),
         \A c \in Tabs : \A a \in Accounts : \A i \in Ids(box'[a]) :
           /\ tab[c].on /\ tab[c].acct = a /\ tab[c].room = box[a].rows[i].room
           /\ <<a, i>> \in tab[c].leased /\ box'[a].rows[i].state = "delivering"
           => /\ tab'[c].on /\ tab'[c].acct = a /\ tab'[c].room = tab[c].room
              /\ <<a, i>> \in tab'[c].leased
  PROVE  AllHeld'
<1> SUFFICES ASSUME NEW a \in Accounts, NEW i \in Ids(box'[a])
             PROVE  LeaseHeld(a, i)'
  BY DEF AllHeld
<1>1. Kept(a, i) /\ SameLease(box'[a].rows[i], box[a].rows[i])
  BY ThinnedKept
<1>2. CASE box'[a].rows[i].state # "delivering"
  BY <1>1, <1>2, LeaseCarried
<1>3. CASE box'[a].rows[i].state = "delivering"
  <2>1. HeldBy(tab, a, i, box[a].rows[i].room) => HeldBy(tab', a, i, box[a].rows[i].room)
    BY <1>3 DEF HeldBy
  <2> QED
    BY <1>1, <2>1, LeaseCarried
<1> QED
  BY <1>2, <1>3

LEMMA EnterHeld ==
  ASSUME Typed, AllHeld, NEW c \in Tabs,
         \/ \E x \in Bind(c) : \E cover \in MayCover(x) :
              Auth(c, x, cover) \/ \E r \in Rooms : Join(c, r, x, cover)
         \/ Resume(c)
  PROVE  AllHeld'
<1>1. Boxes(Released(c), now) /\ Boxes(box, now)
  BY ReleasedTyped DEF Typed
<1>2. \A a \in Accounts :
        /\ Thinned(Released(c)[a], box[a]) /\ Thinned(box[a], box[a])
        /\ \A i \in Ids(Released(c)[a]) :
             tab[c].acct = a /\ <<a, i>> \in tab[c].leased =>
               Released(c)[a].rows[i].state # "delivering"
  BY ReleasedKeepsRows, ThinnedSame DEF Thinned
<1>3. ASSUME NEW x \in Bind(c), NEW cover \in MayCover(x)
      PROVE  x \in Accounts \cup {NoAccount} /\ cover \in BOOLEAN
  BY RelayAssumption DEF Bind, MayCover, Typed
<1>4. ASSUME NEW x \in Bind(c), NEW cover \in MayCover(x), NEW r \in Rooms,
             Join(c, r, x, cover)
      PROVE  AllHeld'
  <2> DEFINE t == [Closed EXCEPT !.on = TRUE, !.room = r, !.acct = x, !.cover = cover,
                                 !.susp = tab[c].susp]
  <2>0. x \in Accounts \cup {NoAccount} /\ cover \in BOOLEAN
    BY <1>3
  <2>1. t \in Tab /\ t.on
    BY <2>0 DEF Closed, Tab, Typed
  <2>2. Arrive(c, t, Released(c)) /\ UNCHANGED <<now, boot>>
    BY <1>4 DEF Join, Unmoved
  <2> HIDE DEF t
  <2> QED
    BY <2>1, <2>2, <1>1, <1>2, ArriveHeld
<1>5. ASSUME NEW x \in Bind(c), NEW cover \in MayCover(x), Auth(c, x, cover)
      PROVE  AllHeld'
  <2> DEFINE free == tab[c].acct # NoAccount /\ tab[c].room # NoRoom
             t == [tab[c] EXCEPT !.acct = x, !.cover = cover,
                                 !.leased = IF free THEN {} ELSE @]
             b == IF free THEN Released(c) ELSE box
  <2>0. x \in Accounts \cup {NoAccount} /\ cover \in BOOLEAN
    BY <1>3
  <2>1. t \in Tab /\ t.on
    BY <1>5, <2>0 DEF Auth, Tab, Typed
  <2>2. Arrive(c, t, b) /\ UNCHANGED <<now, boot>>
    BY <1>5 DEF Auth, Unmoved
  <2>3. Boxes(b, now) /\ \A a \in Accounts : Thinned(b[a], box[a])
    BY <1>1, <1>2
  <2>4. ASSUME NEW a \in Accounts, NEW i \in Ids(b[a]),
               tab[c].acct = a, tab[c].room = box[a].rows[i].room,
               <<a, i>> \in tab[c].leased, b[a].rows[i].state = "delivering"
        PROVE  FALSE
    <3>1. i \in Ids(box[a])
      BY <2>3, <2>4 DEF Thinned
    <3>2. box[a].rows[i].room \in Rooms
      BY <1>1, <3>1, RowIds DEF Row
    <3>3. free
      BY <2>4, <3>2, RelayAssumption
    <3> QED
      BY <1>2, <2>4, <3>3
  <2> HIDE DEF t, b
  <2> QED
    BY <2>1, <2>2, <2>3, <2>4, ArriveHeld
<1>6. ASSUME Resume(c)
      PROVE  AllHeld'
  <2> DEFINE t == [tab[c] EXCEPT !.susp = FALSE]
  <2>1. t \in Tab /\ t.on /\ t.acct = tab[c].acct /\ t.room = tab[c].room
        /\ t.leased = tab[c].leased
    BY <1>6 DEF Resume, Tab, Typed
  <2>2. Arrive(c, t, box) /\ UNCHANGED <<now, boot>>
    BY <1>6 DEF Resume, Unmoved
  <2> HIDE DEF t
  <2> QED
    BY <2>1, <2>2, <1>1, <1>2, ArriveHeld
<1> QED
  BY <1>4, <1>5, <1>6

LEMMA ExitHeld ==
  ASSUME Typed, AllHeld, NEW c \in Tabs,
         Suspend(c) \/ Close(c) \/ \E w \in BOOLEAN : Leave(c, w)
  PROVE  AllHeld'
<1>1. /\ \A a \in Accounts : Thinned(box'[a], box[a])
      /\ UNCHANGED <<now, boot>>
  BY OtherRows DEF Suspend, Close, Leave, Unmoved
<1>2. CASE tab' = [tab EXCEPT ![c].susp = TRUE]
  <2>1. \A d \in Tabs : /\ tab'[d].on = tab[d].on /\ tab'[d].room = tab[d].room
                        /\ tab'[d].acct = tab[d].acct /\ tab'[d].leased = tab[d].leased
    BY <1>2 DEF Typed, Tab
  <2> QED
    BY <1>1, <2>1, ThinnedHeld
<1>3. ASSUME \A d \in Tabs : d # c => tab'[d] = tab[d], box' = Released(c)
      PROVE  AllHeld'
  <2>1. \A a \in Accounts : \A i \in Ids(box'[a]) :
          tab[c].acct = a /\ <<a, i>> \in tab[c].leased => box'[a].rows[i].state # "delivering"
    BY <1>1, <1>3, ReleasedKeepsRows DEF Thinned
  <2> QED
    BY <1>1, <1>3, <2>1, ThinnedHeld
<1>4. ASSUME tab[c].room = NoRoom, \A d \in Tabs : d # c => tab'[d] = tab[d]
      PROVE  AllHeld'
  <2>1. \A a \in Accounts : \A i \in Ids(box'[a]) : box[a].rows[i].room # NoRoom
    <3> SUFFICES ASSUME NEW a \in Accounts, NEW i \in Ids(box'[a])
                 PROVE  box[a].rows[i].room # NoRoom
      OBVIOUS
    <3>1. i \in Ids(box[a]) /\ Boxes(box, now)
      BY <1>1 DEF Thinned, Typed
    <3> QED
      BY <3>1, RowIds, RelayAssumption DEF Row
  <2> QED
    BY <1>1, <1>4, <2>1, ThinnedHeld
<1>5. CASE Suspend(c)
  BY <1>2, <1>5 DEF Suspend
<1>6. ASSUME NEW w, Leave(c, w)
      PROVE  AllHeld'
  <2>1. box' = Released(c) /\ \A d \in Tabs : d # c => tab'[d] = tab[d]
    BY <1>6 DEF Leave, Depart, Typed
  <2> QED
    BY <2>1, <1>3
<1>7. CASE Close(c)
  <2>1. CASE tab[c].room # NoRoom
    <3>1. box' = Released(c) /\ \A d \in Tabs : d # c => tab'[d] = tab[d]
      BY <1>7, <2>1 DEF Close, Depart, Typed
    <3> QED
      BY <3>1, <1>3
  <2>2. CASE tab[c].room = NoRoom
    <3>1. \A d \in Tabs : d # c => tab'[d] = tab[d]
      BY <1>7, <2>2 DEF Close, Typed
    <3> QED
      BY <2>2, <3>1, <1>4
  <2> QED
    BY <2>1, <2>2
<1> QED
  BY <1>5, <1>6, <1>7

LEMMA RelayHeld ==
  ASSUME Typed, AllHeld, NEW c \in Tabs, NEW m \in Messages, NEW y \in Accounts, Relay(c, m, y)
  PROVE  AllHeld'
<1> SUFFICES ASSUME NEW a \in Accounts, NEW i \in Ids(box'[a])
             PROVE  LeaseHeld(a, i)'
  BY DEF AllHeld
<1>1. \/ Kept(a, i) /\ SameLease(box'[a].rows[i], box[a].rows[i])
      \/ box'[a].rows[i].state # "delivering"
      \/ HeldBy(tab', a, i, box'[a].rows[i].room)
  BY RelayRows
<1>2. CASE Kept(a, i) /\ SameLease(box'[a].rows[i], box[a].rows[i])
  <2>1. \/ UNCHANGED tab
        \/ \E p \in Tabs : \E L : tab' = [tab EXCEPT ![p].leased = @ \cup L]
    BY DEF Relay, Awake
  <2>2. \A d \in Tabs : /\ tab'[d].on = tab[d].on /\ tab'[d].room = tab[d].room
                        /\ tab'[d].acct = tab[d].acct /\ tab[d].leased \subseteq tab'[d].leased
    BY <2>1 DEF Typed, Tab
  <2>3. \A r : HeldBy(tab, a, i, r) => HeldBy(tab', a, i, r)
    BY <2>2 DEF HeldBy
  <2>4. UNCHANGED <<now, boot>>
    BY DEF Relay
  <2> QED
    BY <1>2, <2>3, <2>4, LeaseCarried
<1>3. CASE box'[a].rows[i].state # "delivering" \/ HeldBy(tab', a, i, box'[a].rows[i].room)
  BY <1>3 DEF LeaseHeld
<1> QED
  BY <1>1, <1>2, <1>3

LEMMA AckItemHeld ==
  ASSUME Typed, AllHeld, NEW c \in Tabs, NEW e \in inbox[c], AckItem(c, e)
  PROVE  AllHeld'
<1> SUFFICES ASSUME NEW a \in Accounts, NEW i \in Ids(box'[a])
             PROVE  LeaseHeld(a, i)'
  BY DEF AllHeld
<1>1. \/ /\ Kept(a, i) /\ SameLease(box'[a].rows[i], box[a].rows[i])
         /\ a = tab[c].acct /\ e[1] = a /\ e[2] = i => box[a].rows[i].state = "dead"
      \/ box'[a].rows[i].state = "queued"
  BY AckItemRows
<1>2. CASE box'[a].rows[i].state = "queued"
  BY <1>2 DEF LeaseHeld
<1>3. CASE /\ Kept(a, i) /\ SameLease(box'[a].rows[i], box[a].rows[i])
           /\ a = tab[c].acct /\ e[1] = a /\ e[2] = i => box[a].rows[i].state = "dead"
  <2>1. UNCHANGED <<now, boot>> /\ tab' = [tab EXCEPT ![c].leased = @ \ {<<e[1], e[2]>>}]
    BY DEF AckItem, Unmoved
  <2>2. CASE box'[a].rows[i].state # "delivering"
    BY <1>3, <2>1, <2>2, LeaseCarried
  <2>3. CASE box'[a].rows[i].state = "delivering"
    <3>1. ~(tab[c].acct = a /\ <<a, i>> = <<e[1], e[2]>>)
      BY <1>3, <2>3 DEF SameLease
    <3>2. /\ \A d \in Tabs : d # c => tab'[d] = tab[d]
          /\ tab'[c].on = tab[c].on /\ tab'[c].room = tab[c].room /\ tab'[c].acct = tab[c].acct
          /\ tab'[c].leased = tab[c].leased \ {<<e[1], e[2]>>}
      BY <2>1 DEF Typed, Tab
    <3>3. \A r : HeldBy(tab, a, i, r) => HeldBy(tab', a, i, r)
      BY <3>1, <3>2 DEF HeldBy
    <3> QED
      BY <1>3, <2>1, <3>3, LeaseCarried
  <2> QED
    BY <2>2, <2>3
<1> QED
  BY <1>1, <1>2, <1>3

LEMMA ReceiptHeld ==
  ASSUME Typed, AllHeld, NEW c \in Tabs, NEW m \in Messages, NEW st \in {"delivered", "read"},
         Receipt(c, m, st)
  PROVE  AllHeld'
<1> SUFFICES ASSUME NEW a \in Accounts, NEW i \in Ids(box'[a])
             PROVE  LeaseHeld(a, i)'
  BY DEF AllHeld
<1>1. \/ Kept(a, i) /\ SameLease(box'[a].rows[i], box[a].rows[i])
      \/ box'[a].rows[i].state = "queued"
  BY ReceiptRows
<1>2. UNCHANGED <<tab, now, boot>>
  BY DEF Receipt, Unmoved
<1>3. HeldBy(tab, a, i, box[a].rows[i].room) => HeldBy(tab', a, i, box[a].rows[i].room)
  BY <1>2
<1>4. CASE box'[a].rows[i].state = "queued"
  BY <1>4 DEF LeaseHeld
<1> QED
  BY <1>1, <1>2, <1>3, <1>4, LeaseCarried

LEMMA AccountHeld ==
  ASSUME Typed, AllHeld, NEW x \in Accounts,
         \/ \E C \in SUBSET SignedIn(x) : EndSession(x, C) \/ SignOut(x, C)
         \/ DeleteAccount(x) \/ PruneUnused(x)
  PROVE  AllHeld'
<1>1. \A a \in Accounts : Thinned(box'[a], box[a])
  BY OtherRows
<1>2. UNCHANGED <<now, boot>>
  BY DEF EndSession, SignOut, DeleteAccount, PruneUnused, Unmoved
<1>3. PICK C \in SUBSET SignedIn(x) :
        /\ tab' = Unbound(C)
        /\ \/ box' = [box EXCEPT ![x] = ReleasedBy(x, C)]
           \/ box' = [box EXCEPT ![x] = Purge(@)]
  BY DEF EndSession, SignOut, DeleteAccount, PruneUnused
<1>4. C \in SUBSET Tabs /\ \A d \in C : tab[d].acct = x
  BY DEF SignedIn
<1>5. \A d \in Tabs \ C : tab'[d] = tab[d]
  BY <1>3 DEF Unbound
<1>6. \A d \in C : \A i \in Ids(box'[x]) :
        <<x, i>> \in tab[d].leased => box'[x].rows[i].state # "delivering"
  <2>1. CASE box' = [box EXCEPT ![x] = ReleasedBy(x, C)]
    BY <1>1, <1>4, <2>1, ReleasedByKeepsRows DEF Thinned
  <2>2. CASE box' = [box EXCEPT ![x] = Purge(@)]
    <3>1. box'[x] = Purge(box[x])
      BY <2>2 DEF Typed, Boxes
    <3> QED
      BY <3>1, PurgeThins
  <2> QED
    BY <1>3, <2>1, <2>2
<1> QED
  BY <1>1, <1>2, <1>4, <1>5, <1>6, ThinnedHeld

LEMMA CrashHeld ==
  ASSUME Typed, Crash
  PROVE  AllHeld'
<1> SUFFICES ASSUME NEW a \in Accounts, NEW i \in Ids(box'[a])
             PROVE  LeaseHeld(a, i)'
  BY DEF AllHeld
<1>1. boot' = now /\ UNCHANGED <<box, now>>
  BY DEF Crash
<1>2. LifeOf(box[a].rows[i], now)
  BY <1>1, RowIds DEF Typed
<1> QED
  BY <1>1, <1>2 DEF LeaseHeld, LifeOf

LEMMA StepHeld ==
  ASSUME Typed, AllHeld, [Next]_vars
  PROVE  AllHeld'
<1>1. ASSUME NEW c \in Tabs,
             \/ \E x \in Bind(c) : \E cover \in MayCover(x) :
                  Auth(c, x, cover) \/ \E r \in Rooms : Join(c, r, x, cover)
             \/ Resume(c)
      PROVE  AllHeld'
  BY <1>1, EnterHeld
<1>2. ASSUME NEW c \in Tabs, Suspend(c) \/ Close(c) \/ \E w \in BOOLEAN : Leave(c, w)
      PROVE  AllHeld'
  BY <1>2, ExitHeld
<1>3. ASSUME NEW c \in Tabs,
             \/ \E m \in Messages, a \in Accounts : Relay(c, m, a)
             \/ \E e \in inbox[c] : AckItem(c, e)
             \/ \E m \in Messages, st \in {"delivered", "read"} : Receipt(c, m, st)
      PROVE  AllHeld'
  BY <1>3, RelayHeld, AckItemHeld, ReceiptHeld
<1>4. ASSUME NEW a \in Accounts,
             \/ \E C \in SUBSET SignedIn(a) : EndSession(a, C) \/ SignOut(a, C)
             \/ DeleteAccount(a) \/ PruneUnused(a)
      PROVE  AllHeld'
  BY <1>4, AccountHeld
<1>5. CASE Crash
  BY <1>5, CrashHeld
<1>6. CASE SweepQueue
  <2>1. UNCHANGED <<tab, now, boot>> /\ \A a \in Accounts : Thinned(box'[a], box[a])
    BY <1>6, OtherRows DEF SweepQueue
  <2> QED
    BY <2>1, ThinnedHeld
<1>7. CASE Tick
  <2>1. now' = now + 1 /\ UNCHANGED <<tab, box, boot>> /\ now \in Nat
    BY <1>7 DEF Tick, Typed, Clock
  <2>2. ASSUME NEW a \in Accounts, NEW i \in Ids(box[a])
        PROVE  LeaseHeld(a, i)'
    <3>1. LeaseHeld(a, i) /\ box[a].rows[i].lease \in Nat
      <4>1. box[a].rows[i] \in Row
        BY RowIds DEF Typed
      <4> QED
        BY <4>1 DEF AllHeld, Row
    <3> QED
      BY <2>1, <3>1 DEF LeaseHeld
  <2> QED
    BY <2>1, <2>2 DEF AllHeld
<1>8. CASE Persist \/ UNCHANGED vars
  BY <1>8 DEF Persist, vars, AllHeld, LeaseHeld
<1> QED
  BY <1>1, <1>2, <1>3, <1>4, <1>5, <1>6, <1>7, <1>8 DEF Next

(* A row under a lease that still runs is held by an open connection of    *)
(* its account in its room, which gives it back when it ends, leaves or    *)
(* changes its account; only a restart leaves leases nobody holds, and     *)
(* those run out within LeaseTime of it (mailqueue.ts:12-15, release).     *)
THEOREM LeasesAreAlwaysHeld == Spec => []LeasesAreHeld
<1>1. Init => AllHeld
  BY DEF Init, AllHeld, EmptyMailbox, Ids
<1>2. Typed /\ AllHeld /\ [Next]_vars => AllHeld'
  BY StepHeld
<1>3. AllHeld => LeasesAreHeld
  BY DEF AllHeld, LeaseHeld, LeasesAreHeld, HeldBy, Live
<1> QED
  BY <1>1, <1>2, <1>3, AlwaysTyped, PTL DEF Spec

----------------------------------------------------------------------------
(* An acknowledgement is reported.  It rests on this: nobody is relayed a  *)
(* message of their own account, so what leaves with an acknowledgement    *)
(* leaves another mailbox than the one the receipt is for.                 *)
FromOthers ==
  \A a \in Accounts : \A i \in Ids(box[a]) :
    box[a].rows[i].kind = "message" => box[a].rows[i].from.acct # a

LEMMA StepFromOthers ==
  ASSUME Typed, FromOthers, [Next]_vars
  PROVE  FromOthers'
<1> SUFFICES ASSUME NEW a \in Accounts, NEW i \in Ids(box'[a])
             PROVE  box'[a].rows[i].kind = "message" => box'[a].rows[i].from.acct # a
  BY DEF FromOthers
<1>1. CASE Kept(a, i)
  BY <1>1 DEF Kept, SameItem, FromOthers
<1>2. CASE FromRelay(a, i)
  <2>1. PICK c \in Tabs, m \in Messages :
          Relay(c, m, a) /\ SameItem(box'[a].rows[i], MessageFor(c, m))
    BY <1>2 DEF FromRelay
  <2>2. a # tab[c].acct
    BY <2>1 DEF Relay
  <2> QED
    BY <2>1, <2>2 DEF SameItem, MessageFor, Sender
<1>3. CASE FromAck(a, i) \/ FromReceipt(a, i)
  BY <1>3 DEF FromAck, FromReceipt, IsReceipt
<1> QED
  BY <1>1, <1>2, <1>3, StepRows

(* A receipt finds its message reported, puts it down or is refused.       *)
LEMMA EnqueueReports ==
  ASSUME NEW mb, NEW in, in.kind = "status", ~TooLarge(in), NEW at
  PROVE  OverQuota(mb, in) \/ Same(Enqueue(mb, in, at), "status", in.msg) # {}
<1> SUFFICES ASSUME ~OverQuota(mb, in)
             PROVE  \E i \in Ids(Enqueue(mb, in, at)) :
                      /\ Enqueue(mb, in, at).rows[i].kind = "status"
                      /\ Enqueue(mb, in, at).rows[i].msg = in.msg
  BY DEF Same
<1>1. CASE Known(mb, in)
  <2>1. Enqueue(mb, in, at) = mb
    BY <1>1 DEF Enqueue, Accepts
  <2> QED
    BY <1>1, <2>1 DEF Known, Same
<1>2. CASE ~Known(mb, in)
  <2>1. Accepts(mb, in)
    BY <1>2 DEF Accepts, OverSenderQuota
  <2>2. /\ Ids(Enqueue(mb, in, at)) = Ids(mb) \cup {mb.ids + 1}
        /\ Enqueue(mb, in, at).rows[mb.ids + 1] = NewRow(mb, in, at)
    BY <2>1 DEF Enqueue, Ids
  <2> QED
    BY <2>2 DEF NewRow
<1> QED
  BY <1>1, <1>2

LEMMA UpgradeReports ==
  ASSUME NEW mb, NEW at, Good(mb, at), NEW m, NEW st, Upgradable(mb, m, st) # {}
  PROVE  Same(UpgradeStatus(mb, m, st), "status", m) # {}
<1>1. PICK i \in Upgradable(mb, m, st) : TRUE
  OBVIOUS
<1>2. i \in Ids(mb) /\ mb.rows[i].kind = "status" /\ mb.rows[i].msg = m
  BY DEF Upgradable, Same
<1>3. mb = [rows |-> mb.rows, seq |-> mb.seq, ids |-> mb.ids]
  BY DEF Good, IsMailbox
<1>4. Ids(UpgradeStatus(mb, m, st)) = Ids(mb)
  BY <1>3 DEF UpgradeStatus, Ids
<1>5. SameItem(UpgradeStatus(mb, m, st).rows[i], mb.rows[i])
  BY <1>2, <1>4, UpgradeThins DEF Thinned
<1> QED
  BY <1>2, <1>4, <1>5 DEF Same, SameItem

(* notifySender(), for a sender with an account.                           *)
LEMMA NotifiedReports ==
  ASSUME NEW b, Boxes(b, now), NEW c \in Tabs, NEW r, NEW m, NEW s, s.acct \in Accounts,
         NEW st
  PROVE  \/ Online(r, s) # {}
         \/ s.acct \notin alive
         \/ Same(Notified(b, c, r, m, s, st)[s.acct], "status", m) # {}
         \/ OverQuota(b[s.acct], StatusFor(c, r, m, st))
         \/ b[s.acct].ids >= MaxRows
<1> DEFINE a  == s.acct
           in == StatusFor(c, r, m, st)
<1> SUFFICES ASSUME Online(r, s) = {}, a \in alive, ~(b[a].ids >= MaxRows)
             PROVE  \/ Same(Notified(b, c, r, m, s, st)[a], "status", m) # {}
                    \/ OverQuota(b[a], in)
  OBVIOUS
<1>0. Good(b[a], now) /\ b[a].ids \in Nat /\ MaxRows \in Nat
  BY RelayAssumption DEF Boxes, Good, IsMailbox
<1>1. CASE Upgradable(b[a], m, st) # {}
  <2>1. Notified(b, c, r, m, s, st)[a] = UpgradeStatus(b[a], m, st)
    BY <1>1 DEF Notified, Boxes
  <2> QED
    BY <1>0, <1>1, <2>1, UpgradeReports
<1>2. CASE Upgradable(b[a], m, st) = {}
  <2>1. Notified(b, c, r, m, s, st)[a] = Enqueue(b[a], in, now)
    BY <1>0, <1>2 DEF Notified, Boxes
  <2>2. in.kind = "status" /\ in.msg = m /\ ~TooLarge(in)
    BY RelayAssumption, LimitsAssumption DEF StatusFor, TooLarge
  <2> HIDE DEF in
  <2> QED
    BY <2>1, <2>2, EnqueueReports
<1> QED
  BY <1>1, <1>2

(* Apart from an acknowledgement nothing leaves a page's hands but what is *)
(* lost with it, and that stays in the queue.                              *)
LEMMA LeavesHands ==
  ASSUME Typed, [Next]_vars, NEW c \in Tabs, NEW e \in inbox[c] \ inbox'[c],
         e[2] \notin Ids(box'[e[1]]), e[2] \in Ids(box[e[1]])
  PROVE  AckItem(c, e)
<1>0. inbox \in [Tabs -> SUBSET Item] /\ e[1] \in Accounts
  BY DEF Typed, Item
<1>1. \A d, t, b : Arrive(d, t, b) => inbox[c] \subseteq inbox'[c]
  BY <1>0 DEF Arrive
<1>2. ASSUME NEW d \in Tabs
      PROVE  /\ \A x, cover, r : ~Join(d, r, x, cover) /\ ~Auth(d, x, cover)
             /\ ~Resume(d) /\ ~Suspend(d) /\ \A w : ~Leave(d, w)
             /\ \A m, st : ~Receipt(d, m, st)
  BY <1>1 DEF Join, Auth, Resume, Suspend, Leave, Receipt
<1>3. ASSUME NEW d \in Tabs, NEW m \in Messages, NEW a \in Accounts, Relay(d, m, a)
      PROVE  FALSE
  BY <1>0, <1>3 DEF Relay
<1>4. ASSUME NEW d \in Tabs, Close(d)
      PROVE  FALSE
  <2>1. box' = box \/ box' = Released(d)
    BY <1>4 DEF Close, Depart
  <2>2. Ids(Released(d)[e[1]]) = Ids(box[e[1]])
    <3>1. CASE tab[d].acct = e[1]
      <4>1. \E ids : Released(d)[e[1]] = Release(box[e[1]], ids)
        <5>1. e[1] # NoAccount
          BY <1>0, RelayAssumption
        <5> QED
          BY <1>0, <3>1, <5>1 DEF Released, Typed, Boxes
      <4>2. box[e[1]] = [rows |-> box[e[1]].rows, seq |-> box[e[1]].seq, ids |-> box[e[1]].ids]
        BY <1>0 DEF Typed, Boxes, Good, IsMailbox
      <4> QED
        BY <4>1, <4>2 DEF Release, Ids
    <3>2. CASE tab[d].acct # e[1]
      BY <1>0, <3>2 DEF Released, Typed, Boxes
    <3> QED
      BY <3>1, <3>2
  <2> QED
    BY <2>1, <2>2
<1>5. ASSUME NEW d \in Tabs, NEW x \in inbox[d], AckItem(d, x)
      PROVE  AckItem(c, e)
  <2>1. inbox' = [inbox EXCEPT ![d] = @ \ {x}]
    BY <1>5 DEF AckItem
  <2>2. d = c /\ x = e
    BY <1>0, <2>1
  <2> QED
    BY <1>5, <2>2
<1>6. ASSUME NEW a \in Accounts
      PROVE  /\ \A C : ~EndSession(a, C) /\ ~SignOut(a, C)
             /\ ~DeleteAccount(a) /\ ~PruneUnused(a)
  BY DEF EndSession, SignOut, DeleteAccount, PruneUnused
<1>7. ~Persist /\ ~Crash /\ ~SweepQueue /\ ~Tick /\ ~UNCHANGED vars
  BY DEF Persist, Crash, SweepQueue, Tick, vars
<1> QED
  BY <1>2, <1>3, <1>4, <1>5, <1>6, <1>7 DEF Next

Reported(c, e) ==
  LET row == box[e[1]].rows[e[2]]
      s   == row.from
  IN
  e[2] \in Live(box[e[1]]) /\ e[2] \notin Ids(box'[e[1]]) /\ row.kind = "message" =>
    \/ \E p \in Present(row.room) : p = s.peer \/ tab[p].acct = s.acct
    \/ s.acct \notin alive
    \/ Same(box'[s.acct], "status", row.msg) # {}
    \/ OverQuota(box[s.acct], StatusFor(c, row.room, row.msg, "delivered"))
    \/ box[s.acct].ids >= MaxRows

LEMMA StepReported ==
  ASSUME Typed, FromOthers, [Next]_vars, NEW c \in Tabs, NEW e \in inbox[c] \ inbox'[c]
  PROVE  Reported(c, e)
<1> DEFINE y   == e[1]
           row == box[y].rows[e[2]]
           s   == row.from
           b   == [box EXCEPT ![y] = Ack(@, {e[2]})]
<1> SUFFICES ASSUME e[2] \in Live(box[y]), e[2] \notin Ids(box'[y]), row.kind = "message",
                    s.acct \in alive
             PROVE  \/ \E p \in Present(row.room) : p = s.peer \/ tab[p].acct = s.acct
                    \/ Same(box'[s.acct], "status", row.msg) # {}
                    \/ OverQuota(box[s.acct], StatusFor(c, row.room, row.msg, "delivered"))
                    \/ box[s.acct].ids >= MaxRows
  BY DEF Reported
<1>1. /\ y \in Accounts /\ e[2] \in Ids(box[y]) /\ s.acct \in Accounts
      /\ Boxes(box, now)
  BY DEF Typed, Item, Live
<1>2. AckItem(c, e)
  BY <1>1, LeavesHands
<1>3. y = tab[c].acct
  BY <1>1, <1>2 DEF AckItem
<1>4. box' = Notified(b, c, row.room, row.msg, s, "delivered")
  BY <1>2, <1>3 DEF AckItem
<1>5. s.acct # y
  BY <1>1 DEF FromOthers
<1>6. Boxes(b, now) /\ b[s.acct] = box[s.acct]
  <2>1. Good(box[y], now) /\ box[y].ids <= MaxRows
    BY <1>1 DEF Boxes
  <2>2. Good(Ack(box[y], {e[2]}), now) /\ Ack(box[y], {e[2]}).ids <= MaxRows
    BY <2>1, AckKeepsGood, SameIds
  <2> HIDE DEF y
  <2> QED
    BY <1>1, <1>5, <2>2, ReplaceKeepsBoxes DEF s
<1> HIDE DEF b, row, s
<1>7. \/ Online(row.room, s) # {}
      \/ Same(Notified(b, c, row.room, row.msg, s, "delivered")[s.acct], "status", row.msg) # {}
      \/ OverQuota(b[s.acct], StatusFor(c, row.room, row.msg, "delivered"))
      \/ b[s.acct].ids >= MaxRows
  BY <1>1, <1>6, NotifiedReports
<1>8. Online(row.room, s) # {} =>
        \E p \in Present(row.room) : p = s.peer \/ tab[p].acct = s.acct
  BY DEF Online
<1> QED
  BY <1>4, <1>6, <1>7, <1>8

(* "Each acknowledgement turns into 'delivered' for its sender" (relay.ts:  *)
(* 10-12), with the exceptions the property names and no other, for any    *)
(* pages, accounts and limits: the acknowledged row leaves another mailbox *)
(* than the receipt goes to, and notifySender raises the one there is,     *)
(* stores one or is refused for the quota.                                 *)
THEOREM AckAlwaysReported == Spec => AckIsReported
<1>1. Init => FromOthers
  BY DEF Init, FromOthers, EmptyMailbox, Ids
<1>2. Typed /\ FromOthers /\ [Next]_vars => FromOthers'
  BY StepFromOthers
<1>3. Typed /\ FromOthers /\ [Next]_vars =>
        [\A c \in Tabs : \A e \in inbox[c] \ inbox'[c] :
           LET row == box[e[1]].rows[e[2]]
               s   == row.from
           IN
           e[2] \in Live(box[e[1]]) /\ e[2] \notin Ids(box'[e[1]]) /\ row.kind = "message" =>
             \/ \E p \in Present(row.room) : p = s.peer \/ tab[p].acct = s.acct
             \/ s.acct \notin alive
             \/ Same(box'[s.acct], "status", row.msg) # {}
             \/ OverQuota(box[s.acct], StatusFor(c, row.room, row.msg, "delivered"))
             \/ box[s.acct].ids >= MaxRows]_vars
  BY StepReported DEF Reported
<1> QED
  BY <1>1, <1>2, <1>3, AlwaysTyped, PTL DEF Spec, AckIsReported
=============================================================================
