-------------------------- MODULE MailQueueProofs --------------------------
(***************************************************************************)
(* Proofs about MailQueue for every number of accounts, rooms, messages    *)
(* and for every value of the limits.  Each operation of Mailbox keeps     *)
(* Good (MailboxProofs); the steps of MailQueue then keep it of every      *)
(* account.                                                                *)
(***************************************************************************)
EXTENDS MailQueue, MailboxProofs, FiniteSetTheorems, WellFoundedInduction

(* The inductive invariant: every account's mailbox is good.               *)
AllGood ==
  /\ now \in Nat
  /\ DOMAIN box = Accounts /\ box = [a \in Accounts |-> box[a]]
  /\ \A a \in Accounts : Good(box[a], now)
  /\ acked \subseteq Accounts \X Kinds \X Messages

LEMMA InitGood == Init => AllGood
<1> SUFFICES ASSUME Init PROVE AllGood
  OBVIOUS
<1>1. EmptyMailbox = [EmptyMailbox EXCEPT !.ids = 0]
  BY DEF EmptyMailbox
<1>2. Good(EmptyMailbox, 0)
  BY <1>1, EmptyIsGood
<1> QED
  BY <1>2 DEF Init, AllGood

(* A call on one account that leaves its mailbox good.                     *)
LEMMA CallsKeepGood ==
  ASSUME AllGood, NEW a \in Accounts, NEW mb, NEW keys, Good(mb, now),
         keys \subseteq Accounts \X Kinds \X Messages, Returns(a, mb, keys)
  PROVE  AllGood'
BY DEF AllGood, Returns

(* What a caller offers is a proper row to store.                          *)
LEMMA OfferedIsInput ==
  ASSUME now \in Nat, NEW in \in Offered PROVE in \in Input
<1>1. {0} \cup {now + d : d \in Deadlines} \subseteq Nat /\ Sizes \subseteq Nat
  <2>1. \A d \in Deadlines : now + d \in Nat
    BY InputsAssumption
  <2> QED
    BY <2>1, InputsAssumption
<1>2. in \in [room: Rooms, kind: Kinds, msg: Messages, from: Senders,
              status: Statuses, expires: {0} \cup {now + d : d \in Deadlines},
              bytes: Sizes]
  BY DEF Offered
<1> HIDE DEF Offered
<1> QED
  BY <1>1, <1>2 DEF Input

LEMMA StepKeepsGood == AllGood /\ [Next]_vars => AllGood'
<1> SUFFICES ASSUME AllGood, [Next]_vars PROVE AllGood'
  OBVIOUS
<1>1. ASSUME NEW a \in Accounts PROVE Good(box[a], now) /\ now \in Nat
  BY DEF AllGood
<1>2. ASSUME NEW a \in Accounts, NEW in \in Offered, EnqueueItem(a, in)
      PROVE  AllGood'
  <2>1. in \in Input
    BY <1>1, OfferedIsInput
  <2>2. Good(Enqueue(box[a], in, now), now)
    BY <1>1, <2>1, EnqueueKeepsGood
  <2> QED
    BY <1>2, <2>2, CallsKeepGood DEF EnqueueItem, Calls
<1>3. ASSUME NEW a \in Accounts, NEW r \in Rooms, LeaseRoom(a, r)
      PROVE  AllGood'
  BY <1>1, <1>3, LeaseKeepsGood, CallsKeepGood DEF LeaseRoom, Calls
<1>4. ASSUME NEW a \in Accounts, NEW ids \in SUBSET Ids(box[a]), AckItems(a, ids)
      PROVE  AllGood'
  <2>1. Good(Ack(box[a], ids), now)
    BY <1>1, AckKeepsGood
  <2>2. \A i \in Ids(box[a]) : box[a].rows[i] \in Row
    BY <1>1, RowsOfGood
  <2>3. KeysOf(a, Acked(box[a], ids)) \subseteq Accounts \X Kinds \X Messages
    BY <2>2 DEF KeysOf, KeyOf, Acked, Live, Row
  <2> QED
    BY <1>4, <2>1, <2>3, CallsKeepGood DEF AckItems
<1>5. ASSUME NEW a \in Accounts, NEW ids \in SUBSET Ids(box[a]), ReleaseItems(a, ids)
      PROVE  AllGood'
  BY <1>1, <1>5, ReleaseKeepsGood, CallsKeepGood DEF ReleaseItems, Calls
<1>6. ASSUME NEW a \in Accounts, NEW i \in Ids(box[a]), ReviveItem(a, i)
      PROVE  AllGood'
  BY <1>1, <1>6, ReviveKeepsGood, CallsKeepGood DEF ReviveItem, Calls
<1>7. ASSUME NEW a \in Accounts, NEW msg \in Messages, NEW st \in {"delivered", "read"},
             UpgradeStatusOf(a, msg, st)
      PROVE  AllGood'
  BY <1>1, <1>7, UpgradeKeepsGood, CallsKeepGood DEF UpgradeStatusOf, Calls, Statuses
<1>8. ASSUME NEW a \in Accounts, PurgeAccount(a)
      PROVE  AllGood'
  <2>1. box[a].ids \in Nat
    BY <1>1 DEF Good, IsMailbox
  <2>2. Good(Purge(box[a]), now)
    BY <2>1, EmptyIsGood DEF Purge
  <2> QED
    BY <1>8, <2>2, CallsKeepGood DEF PurgeAccount, Calls
<1>9. CASE SweepAll
  <2>1. \A a \in Accounts : Good(Sweep(box[a], now), now)
    BY <1>1, SweepKeepsGood
  <2> QED
    BY <1>9, <2>1 DEF SweepAll, AllGood
<1>10. CASE Tick
  <2>1. \A a \in Accounts : Good(box[a], now + 1)
    BY <1>1, TimeKeepsGood
  <2> QED
    BY <1>10, <2>1 DEF Tick, AllGood
<1>11. CASE UNCHANGED vars
  BY <1>11 DEF vars, AllGood
<1> QED
  BY <1>2, <1>3, <1>4, <1>5, <1>6, <1>7, <1>8, <1>9, <1>10, <1>11 DEF Next

LEMMA AlwaysGood == Spec => []AllGood
BY InitGood, StepKeepsGood, PTL DEF Spec

(* The queue's state keeps its shape, for any limits and any clock.        *)
THEOREM TypeCorrect == Spec => []TypeOK
<1>1. AllGood => TypeOK
  BY DEF AllGood, TypeOK, Good
<1> QED
  BY <1>1, AlwaysGood, PTL

(* enqueue's duplicate lookup is enough: whatever dies, is revived, is     *)
(* acknowledged or purged in between, an account never owns two rows of    *)
(* one kind for one message.                                               *)
THEOREM DeduplicatedAlways == Spec => []Deduplicated
<1>1. AllGood => Deduplicated
  BY DEF AllGood, Deduplicated, Good
<1> QED
  BY <1>1, AlwaysGood, PTL

(* The numbers of a room's rows follow the order they were stored in, also *)
(* across deletions and the purge that restarts the counters.              *)
THEOREM OrderedAlways == Spec => []Ordered
<1>1. AllGood => Ordered
  BY DEF AllGood, Ordered, Good
<1> QED
  BY <1>1, AlwaysGood, PTL

(* Lease, attempts and death reason of a row always agree with its state.  *)
THEOREM RowLifeAlways == Spec => []RowLife
<1>1. AllGood => RowLife
  BY DEF AllGood, RowLife, Good
<1> QED
  BY <1>1, AlwaysGood, PTL

----------------------------------------------------------------------------
(* What a step may do to a row.                                            *)

(* A row that was live and is gone afterwards was acknowledged, or past    *)
(* its deadline, or its account was purged.                                *)
LEMMA GoneForAReason ==
  ASSUME AllGood, [Next]_vars, NEW a \in Accounts,
         NEW i \in Live(box[a]) \ Ids(box'[a])
  PROVE  \/ box[a].rows[i].expires <= now
         \/ KeyOf(a, i) \in acked'
         \/ PurgeAccount(a)
<1> SUFFICES ASSUME ~ PurgeAccount(a), ~ (box[a].rows[i].expires <= now)
             PROVE  KeyOf(a, i) \in acked'
  OBVIOUS
<1>1. DOMAIN box = Accounts /\ i \in Ids(box[a])
  BY DEF AllGood, Live
<1>2. ASSUME NEW b \in Accounts, NEW mb, Calls(b, mb),
             b = a => Ids(box[a]) \subseteq Ids(mb)
      PROVE  FALSE
  BY <1>1, <1>2 DEF Calls, Returns
<1>3. ASSUME NEW b \in Accounts, NEW in \in Offered, EnqueueItem(b, in) PROVE FALSE
  <2>1. Ids(box[b]) \subseteq Ids(Enqueue(box[b], in, now))
    BY DEF Enqueue, Ids
  <2> QED
    BY <1>2, <1>3, <2>1 DEF EnqueueItem
<1>4. ASSUME NEW b \in Accounts, NEW r \in Rooms, LeaseRoom(b, r) PROVE FALSE
  <2>1. Ids(box[b]) \subseteq Ids(Lease(box[b], r, now))
    BY DEF Lease, Ids, AllGood, Good, IsMailbox
  <2> QED
    BY <1>2, <1>4, <2>1 DEF LeaseRoom
<1>5. ASSUME NEW b \in Accounts, NEW ids \in SUBSET Ids(box[b]), AckItems(b, ids)
      PROVE  KeyOf(a, i) \in acked'
  <2>1. b = a
    BY <1>1, <1>5 DEF AckItems, Returns
  <2>2. Ids(box'[a]) = Ids(box[a]) \ Acked(box[a], ids)
    BY <1>1, <1>5, <2>1 DEF AckItems, Returns, Ack, Without, Ids, AllGood, Good, IsMailbox
  <2>3. i \in Acked(box[a], ids)
    BY <1>1, <2>2
  <2> QED
    BY <1>5, <2>1, <2>3 DEF AckItems, Returns, KeysOf
<1>6. ASSUME NEW b \in Accounts, NEW ids \in SUBSET Ids(box[b]), ReleaseItems(b, ids) PROVE FALSE
  <2>1. Ids(box[b]) \subseteq Ids(Release(box[b], ids))
    BY DEF Release, Ids, AllGood, Good, IsMailbox
  <2> QED
    BY <1>2, <1>6, <2>1 DEF ReleaseItems
<1>7. ASSUME NEW b \in Accounts, NEW j \in Ids(box[b]), ReviveItem(b, j) PROVE FALSE
  <2>1. Ids(box[b]) \subseteq Ids(Revive(box[b], j))
    BY DEF Revive, Ids, AllGood, Good, IsMailbox
  <2> QED
    BY <1>2, <1>7, <2>1 DEF ReviveItem
<1>8. ASSUME NEW b \in Accounts, NEW msg \in Messages, NEW st \in {"delivered", "read"},
             UpgradeStatusOf(b, msg, st)
      PROVE  FALSE
  <2>1. Ids(box[b]) \subseteq Ids(UpgradeStatus(box[b], msg, st))
    BY DEF UpgradeStatus, Ids, AllGood, Good, IsMailbox
  <2> QED
    BY <1>2, <1>8, <2>1 DEF UpgradeStatusOf
<1>9. ASSUME NEW b \in Accounts, PurgeAccount(b) PROVE FALSE
  <2>1. b # a
    BY <1>9
  <2> QED
    BY <1>2, <1>9, <2>1 DEF PurgeAccount
<1>10. CASE SweepAll
  <2>1. Ids(box'[a]) = Ids(box[a]) \ Purged(box[a], now)
    BY <1>10 DEF SweepAll, Sweep, Ids, AllGood, Good, IsMailbox
  <2>2. i \notin Purged(box[a], now)
    BY DEF Purged, Expired
  <2> QED
    BY <1>1, <2>1, <2>2
<1>11. CASE Tick \/ UNCHANGED vars
  BY <1>1, <1>11 DEF Tick, vars
<1> QED
  BY <1>3, <1>4, <1>5, <1>6, <1>7, <1>8, <1>9, <1>10, <1>11 DEF Next

(* "Only an acknowledgement removes it", for any limits: a sweep, a lease  *)
(* or a release never takes a row that is neither dead nor overdue.        *)
THEOREM NothingEverVanishes == Spec => NothingVanishes
<1>1. AllGood /\ [Next]_vars =>
        [\A a \in Accounts : \A i \in Live(box[a]) \ Ids(box'[a]) :
           \/ box[a].rows[i].expires <= now
           \/ KeyOf(a, i) \in acked'
           \/ PurgeAccount(a)]_vars
  BY GoneForAReason
<1> QED
  BY <1>1, AlwaysGood, PTL DEF Spec, NothingVanishes

(* The due rows of a room before one of the batch are in the batch, too.   *)
LEMMA BatchIsAPrefix ==
  ASSUME NEW mb, NEW r \in Rooms, NEW at \in Nat, Good(mb, at),
         NEW j \in Batch(mb, r, at), NEW i \in Due(mb, r, at),
         mb.rows[i].seq < mb.rows[j].seq
  PROVE  i \in Batch(mb, r, at)
<1> DEFINE Before(k) == {x \in Due(mb, r, at) : mb.rows[x].seq < mb.rows[k].seq}
<1>1. /\ Due(mb, r, at) \subseteq Ids(mb)
      /\ j \in Due(mb, r, at) /\ Cardinality(Before(j)) < LeaseLimit
  BY DEF Due, Batch
<1>2. \A x \in Ids(mb) : mb.rows[x].seq \in Nat
  BY RowsOfGood DEF Row
<1>3. IsFiniteSet(Ids(mb))
  <2>1. mb.ids \in Nat /\ Ids(mb) \subseteq 1 .. mb.ids
    BY DEF Good, IsMailbox, Ids
  <2>2. IsFiniteSet(1 .. mb.ids)
    <3>1. 1 \in Int /\ mb.ids \in Int
      BY <2>1
    <3> QED
      BY <3>1, FS_Interval
  <2> QED
    BY <2>1, <2>2, FS_Subset
<1>4. Before(i) \subseteq Before(j) /\ Before(j) \subseteq Ids(mb)
  BY <1>1, <1>2
<1>5. IsFiniteSet(Before(j))
  BY <1>3, <1>4, FS_Subset
<1>6. /\ Cardinality(Before(i)) <= Cardinality(Before(j))
      /\ Cardinality(Before(i)) \in Nat /\ Cardinality(Before(j)) \in Nat
  BY <1>4, <1>5, FS_Subset, FS_CardinalityType
<1>7. Cardinality(Before(i)) < LeaseLimit
  BY <1>1, <1>6, LimitsAssumption
<1> QED
  BY <1>7 DEF Batch

(* A row is handed out by a lease of its room, and by nothing else.        *)
LEMMA HandedByALease ==
  ASSUME AllGood, [Next]_vars, NEW a \in Accounts,
         NEW j \in Ids(box[a]) \cap Ids(box'[a]),
         box'[a].rows[j].attempts > box[a].rows[j].attempts
  PROVE  \E r \in Rooms : LeaseRoom(a, r) /\ j \in Batch(box[a], r, now)
<1>1. DOMAIN box = Accounts /\ Good(box[a], now)
  BY DEF AllGood
<1>2. box[a].rows[j].attempts \in Nat /\ box[a].rows[j] \in Row
  BY <1>1, RowsOfGood DEF Row
<1>3. ASSUME NEW b \in Accounts, NEW mb, Calls(b, mb) \/ Returns(b, mb, acked'),
             b = a /\ j \in Ids(mb) => mb.rows[j].attempts \in {0, box[a].rows[j].attempts}
      PROVE  FALSE
  BY <1>1, <1>2, <1>3 DEF Calls, Returns
<1>4. ASSUME NEW b \in Accounts, NEW in \in Offered, EnqueueItem(b, in) PROVE FALSE
  <2>1. b = a => Enqueue(box[b], in, now).rows[j] = box[a].rows[j]
    BY <1>1 DEF Enqueue, Ids, Good, IsMailbox
  <2> QED
    BY <1>2, <1>3, <1>4, <2>1 DEF EnqueueItem
<1>5. ASSUME NEW b \in Accounts, NEW r \in Rooms, LeaseRoom(b, r)
      PROVE  b = a /\ j \in Batch(box[a], r, now)
  <2>1. b = a
    BY <1>1, <1>2, <1>5 DEF LeaseRoom, Calls, Returns
  <2>2. j \in Batch(box[a], r, now)
    <3> SUFFICES ASSUME j \notin Batch(box[a], r, now) PROVE FALSE
      OBVIOUS
    <3>1. Lease(box[a], r, now).rows[j] = box[a].rows[j]
      BY <1>1 DEF Lease, Good, IsMailbox
    <3> QED
      BY <1>2, <1>3, <1>5, <2>1, <3>1 DEF LeaseRoom
  <2> QED
    BY <2>1, <2>2
<1>6. ASSUME NEW b \in Accounts, NEW ids \in SUBSET Ids(box[b]), AckItems(b, ids) PROVE FALSE
  <2>1. b = a /\ j \in Ids(Ack(box[b], ids)) => Ack(box[b], ids).rows[j] = box[a].rows[j]
    BY <1>1 DEF Ack, Without, Ids, Good, IsMailbox
  <2>2. Returns(b, Ack(box[b], ids), acked')
    BY <1>6 DEF AckItems, Returns
  <2> QED
    BY <1>2, <1>3, <2>1, <2>2
<1>7. ASSUME NEW b \in Accounts, NEW ids \in SUBSET Ids(box[b]), ReleaseItems(b, ids) PROVE FALSE
  <2>1. b = a => Release(box[b], ids).rows[j].attempts = box[a].rows[j].attempts
    BY <1>1, <1>2 DEF Release, Requeue, Row, Good, IsMailbox
  <2> QED
    BY <1>2, <1>3, <1>7, <2>1 DEF ReleaseItems
<1>8. ASSUME NEW b \in Accounts, NEW k \in Ids(box[b]), ReviveItem(b, k) PROVE FALSE
  <2>1. b = a => \/ Revive(box[b], k).rows[j].attempts = box[a].rows[j].attempts
                 \/ Revive(box[b], k).rows[j].attempts = 0
    BY <1>1, <1>2 DEF Revive, Row, Ids, Good, IsMailbox
  <2> QED
    BY <1>2, <1>3, <1>8, <2>1 DEF ReviveItem
<1>9. ASSUME NEW b \in Accounts, NEW msg \in Messages, NEW st \in {"delivered", "read"},
             UpgradeStatusOf(b, msg, st)
      PROVE  FALSE
  <2>1. b = a => UpgradeStatus(box[b], msg, st).rows[j].attempts = box[a].rows[j].attempts
    BY <1>1, <1>2 DEF UpgradeStatus, Requeue, Row, Good, IsMailbox
  <2> QED
    BY <1>2, <1>3, <1>9, <2>1 DEF UpgradeStatusOf
<1>10. ASSUME NEW b \in Accounts, PurgeAccount(b) PROVE FALSE
  <2>1. Ids(Purge(box[b])) = {}
    BY DEF Purge, EmptyMailbox, Ids
  <2> QED
    BY <1>3, <1>10, <2>1 DEF PurgeAccount
<1>11. CASE SweepAll
  <2>1. box'[a].rows[j].attempts = box[a].rows[j].attempts
    BY <1>1, <1>2, <1>11 DEF SweepAll, Sweep, Kill, Row, Ids, Good, IsMailbox
  <2> QED
    BY <1>2, <2>1
<1>12. CASE Tick \/ UNCHANGED vars
  BY <1>1, <1>2, <1>12 DEF Tick, vars
<1> QED
  BY <1>4, <1>5, <1>6, <1>7, <1>8, <1>9, <1>10, <1>11, <1>12 DEF Next

(* "Handed over in that order", for any limit of a batch: what is handed   *)
(* out leaves no due row of its room behind it.                            *)
THEOREM AlwaysHandedInOrder == Spec => HandedInOrder
<1> DEFINE Next1 ==
      \A a \in Accounts : \A i, j \in Ids(box[a]) \cap Ids(box'[a]) :
       /\ box'[a].rows[j].attempts > box[a].rows[j].attempts
       /\ i \in Due(box[a], box[a].rows[j].room, now)
       /\ box[a].rows[i].seq < box[a].rows[j].seq
       => box'[a].rows[i].state \in {"delivering", "dead"}
            /\ (box'[a].rows[i].state = "delivering" =>
                  box'[a].rows[i].attempts > box[a].rows[i].attempts)
<1>1. AllGood /\ [Next]_vars => [Next1]_vars
  <2> SUFFICES ASSUME AllGood, [Next]_vars, NEW a \in Accounts,
                      NEW i \in Ids(box[a]) \cap Ids(box'[a]),
                      NEW j \in Ids(box[a]) \cap Ids(box'[a]),
                      box'[a].rows[j].attempts > box[a].rows[j].attempts,
                      i \in Due(box[a], box[a].rows[j].room, now),
                      box[a].rows[i].seq < box[a].rows[j].seq
               PROVE  \/ box'[a].rows[i].state = "dead"
                      \/ /\ box'[a].rows[i].state = "delivering"
                         /\ box'[a].rows[i].attempts > box[a].rows[i].attempts
    OBVIOUS
  <2>1. PICK r \in Rooms : LeaseRoom(a, r) /\ j \in Batch(box[a], r, now)
    BY HandedByALease
  <2>2. Good(box[a], now) /\ now \in Nat /\ DOMAIN box = Accounts
    BY DEF AllGood
  <2>3. box[a].rows[j].room = r
    BY <2>1 DEF Batch, Due
  <2>4. i \in Batch(box[a], r, now)
    BY <2>1, <2>2, <2>3, BatchIsAPrefix
  <2>5. box[a].rows[i] \in Row /\ box[a].rows[i].attempts \in Nat
    BY <2>2, RowsOfGood DEF Row
  <2>6. box'[a].rows[i] = IF Spent(box[a], i) THEN Kill(box[a].rows[i], "attempts")
                          ELSE Hand(box[a].rows[i], now)
    BY <2>1, <2>2, <2>4 DEF LeaseRoom, Calls, Returns, Lease, Good, IsMailbox
  <2>7. CASE Spent(box[a], i)
    BY <2>5, <2>6, <2>7 DEF Kill, Row
  <2>8. CASE ~Spent(box[a], i)
    BY <2>5, <2>6, <2>8 DEF Hand, Row
  <2> QED
    BY <2>7, <2>8
<1> QED
  BY <1>1, AlwaysGood, PTL DEF Spec, HandedInOrder

----------------------------------------------------------------------------
(* The queue implements OfflineBox.  An item is waiting when it has a row  *)
(* that is not dead; by Deduplicated it has at most one row, which is what *)
(* makes a step of rows a step of items.                                   *)

LEMMA KeysBefore ==
  /\ \A k : k \in WaitingKeys <=> \E a \in Accounts : \E i \in Live(box[a]) : k = KeyOf(a, i)
  /\ \A k : k \in DeadKeys <=>
       \E a \in Accounts : \E i \in Ids(box[a]) \ Live(box[a]) : k = KeyOf(a, i)
BY DEF WaitingKeys, DeadKeys, KeysOf

LEMMA KeysAfter ==
  /\ \A k : k \in WaitingKeys' <=> \E a \in Accounts : \E i \in Live(box'[a]) : k = KeyOf(a, i)'
  /\ \A k : k \in DeadKeys' <=>
       \E a \in Accounts : \E i \in Ids(box'[a]) \ Live(box'[a]) : k = KeyOf(a, i)'
BY DEF WaitingKeys, DeadKeys, KeysOf

(* Rows of one item are one row.                                           *)
LEMMA OneRow ==
  ASSUME AllGood, NEW a \in Accounts, NEW b \in Accounts,
         NEW i \in Ids(box[a]), NEW j \in Ids(box[b]), KeyOf(a, i) = KeyOf(b, j)
  PROVE  a = b /\ i = j
BY DEF AllGood, Good, Unique, KeyOf

LEMMA OneRowAfter ==
  ASSUME AllGood', NEW a \in Accounts, NEW b \in Accounts,
         NEW i \in Ids(box'[a]), NEW j \in Ids(box'[b]), KeyOf(a, i)' = KeyOf(b, j)'
  PROVE  a = b /\ i = j
BY DEF AllGood, Good, Unique, KeyOf

LEMMA KeysAreKeys ==
  ASSUME AllGood, NEW a \in Accounts, NEW i \in Ids(box[a])
  PROVE  KeyOf(a, i) \in Promise!Keys
<1>1. box[a].rows[i] \in Row
  BY RowsOfGood DEF AllGood
<1> QED
  BY <1>1 DEF KeyOf, Promise!Keys, Row

LEMMA KeysAreKeysAfter ==
  ASSUME AllGood', NEW a \in Accounts, NEW i \in Ids(box'[a])
  PROVE  KeyOf(a, i)' \in Promise!Keys
<1>1. box'[a].rows[i] \in Row
  BY DEF AllGood, Good, IsMailbox, Ids
<1> QED
  BY <1>1 DEF KeyOf, Promise!Keys, Row

(* A step that adds no row, revives none and acknowledges none only buries *)
(* items and forgets buried ones.                                          *)
LEMMA BuryStep ==
  ASSUME AllGood', acked' = {},
         \A a \in Accounts :
           /\ Ids(box'[a]) \subseteq Ids(box[a])
           /\ Live(box'[a]) \subseteq Live(box[a])
           /\ \A i \in Ids(box'[a]) : KeyOf(a, i)' = KeyOf(a, i)
  PROVE  Promise!Next
<1> DEFINE K == {k \in WaitingKeys : k \notin WaitingKeys'}
           F == {k \in DeadKeys \cup K : k \notin DeadKeys'}
<1>1. ASSUME NEW a \in Accounts, NEW i \in Live(box'[a])
      PROVE  i \in Ids(box'[a]) /\ i \in Live(box[a])
  BY DEF Live
<1>2. WaitingKeys' \subseteq WaitingKeys
  BY <1>1, KeysBefore, KeysAfter
<1>3. ASSUME NEW k \in DeadKeys' PROVE k \in DeadKeys \cup K
  <2>1. PICK a \in Accounts : \E i \in Ids(box'[a]) \ Live(box'[a]) : k = KeyOf(a, i)'
    BY KeysAfter
  <2>2. PICK i \in Ids(box'[a]) \ Live(box'[a]) : k = KeyOf(a, i)'
    BY <2>1
  <2>3. k = KeyOf(a, i) /\ i \in Ids(box[a])
    BY <2>2
  <2>4. k \notin WaitingKeys'
    BY <1>1, <2>2, OneRowAfter, KeysAfter
  <2>5. k \in WaitingKeys \/ k \in DeadKeys
    BY <2>3, KeysBefore
  <2> QED
    BY <2>4, <2>5
<1>4. WaitingKeys' = WaitingKeys \ K /\ DeadKeys' = (DeadKeys \cup K) \ F
  BY <1>2, <1>3
<1>5. K \in SUBSET WaitingKeys /\ F \in SUBSET (DeadKeys \cup K)
  OBVIOUS
<1> HIDE DEF K, F
<1>6. Promise!Bury(K, F)
  BY <1>4, <1>5 DEF Promise!Bury
<1> QED
  BY <1>5, <1>6 DEF Promise!Next

(* The same of a call on one account.                                      *)
LEMMA CallBuries ==
  ASSUME AllGood, AllGood', NEW a \in Accounts, NEW mb, Calls(a, mb),
         Ids(mb) \subseteq Ids(box[a]), Live(mb) \subseteq Live(box[a]),
         \A i \in Ids(mb) : /\ mb.rows[i].kind = box[a].rows[i].kind
                            /\ mb.rows[i].msg = box[a].rows[i].msg
  PROVE  Promise!Next
<1>1. \A b \in Accounts : box'[b] = IF b = a THEN mb ELSE box[b]
  BY DEF AllGood, Calls, Returns
<1>2. acked' = {}
  BY DEF Calls, Returns
<1>3. ASSUME NEW b \in Accounts
      PROVE  /\ Ids(box'[b]) \subseteq Ids(box[b])
             /\ Live(box'[b]) \subseteq Live(box[b])
             /\ \A i \in Ids(box'[b]) : KeyOf(b, i)' = KeyOf(b, i)
  BY <1>1 DEF KeyOf
<1> QED
  BY <1>2, <1>3, BuryStep

LEMMA AcceptStep ==
  ASSUME AllGood, AllGood', NEW a \in Accounts, NEW in \in Offered, EnqueueItem(a, in)
  PROVE  Promise!Next
<1> PICK mb : mb = box[a]
  OBVIOUS
<1> PICK new : new = mb.ids + 1
  OBVIOUS
<1> DEFINE key == <<a, in.kind, in.msg>>
<1>1. mb.ids \in Nat /\ Ids(mb) \subseteq 1 .. mb.ids /\ new \notin Ids(mb)
  BY DEF AllGood, Good, IsMailbox, Ids
<1>2. /\ \A b \in Accounts : b # a => box'[b] = box[b]
      /\ box'[a] = Enqueue(mb, in, now)
      /\ acked' = {}
  BY DEF AllGood, EnqueueItem, Calls, Returns
<1>3. /\ Ids(box'[a]) = Ids(mb) \cup {new}
      /\ \A i \in Ids(mb) : box'[a].rows[i] = mb.rows[i]
      /\ box'[a].rows[new] = NewRow(mb, in, now)
  BY <1>1, <1>2 DEF EnqueueItem, Enqueue, Ids
<1>4. /\ box'[a].rows[new].state = "queued"
      /\ KeyOf(a, new)' = key
  BY <1>3 DEF NewRow, KeyOf
<1>5. /\ Live(box'[a]) = Live(mb) \cup {new}
      /\ Ids(box'[a]) \ Live(box'[a]) = Ids(mb) \ Live(mb)
  BY <1>1, <1>3, <1>4 DEF Live
<1>6. \A b \in Accounts : \A i \in Ids(box[b]) : KeyOf(b, i)' = KeyOf(b, i)
  BY <1>2, <1>3 DEF KeyOf
<1>7. key \notin WaitingKeys /\ key \notin DeadKeys
  <2>1. \A i \in Ids(mb) : ~(mb.rows[i].kind = in.kind /\ mb.rows[i].msg = in.msg)
    BY DEF EnqueueItem, Accepts, Known, Same
  <2>2. \A b \in Accounts : \A i \in Ids(box[b]) : KeyOf(b, i) # key
    BY <2>1 DEF KeyOf
  <2> QED
    BY <2>2, KeysBefore DEF Live
<1> HIDE DEF key
<1>8. \A k : k \in WaitingKeys' <=> k \in WaitingKeys \/ k = key
  <2>1. ASSUME NEW k, k \in WaitingKeys' PROVE k \in WaitingKeys \/ k = key
    <3>1. PICK b \in Accounts : \E i \in Live(box'[b]) : k = KeyOf(b, i)'
      BY <2>1, KeysAfter
    <3> QED
      BY <3>1, <1>2, <1>4, <1>5, <1>6, KeysBefore DEF Live
  <2>2. ASSUME NEW k, k \in WaitingKeys PROVE k \in WaitingKeys'
    <3>1. PICK b \in Accounts : \E i \in Live(box[b]) : k = KeyOf(b, i)
      BY <2>2, KeysBefore
    <3>2. Live(box[b]) \subseteq Live(box'[b])
      BY <1>2, <1>5
    <3> QED
      BY <3>1, <3>2, <1>6, KeysAfter DEF Live
  <2>3. key \in WaitingKeys'
    BY <1>4, <1>5, KeysAfter
  <2> QED
    BY <2>1, <2>2, <2>3
<1>9. \A k : k \in DeadKeys' <=> k \in DeadKeys
  <2>1. \A b \in Accounts : Ids(box'[b]) \ Live(box'[b]) = Ids(box[b]) \ Live(box[b])
    BY <1>2, <1>5
  <2>2. \A b \in Accounts : \A i \in Ids(box[b]) \ Live(box[b]) : KeyOf(b, i)' = KeyOf(b, i)
    BY <1>6
  <2>3. ASSUME NEW k
        PROVE  k \in DeadKeys' <=>
                 \E b \in Accounts : \E i \in Ids(box[b]) \ Live(box[b]) : k = KeyOf(b, i)
    BY <2>1, <2>2, KeysAfter
  <2> QED
    BY <2>3, KeysBefore
<1>10. key \in Promise!Keys
  BY <1>3, <1>4, KeysAreKeysAfter
<1>11. WaitingKeys' = WaitingKeys \cup {key} /\ DeadKeys' = DeadKeys
  BY <1>8, <1>9
<1>12. Promise!Accept(key)
  BY <1>2, <1>7, <1>11 DEF Promise!Accept
<1> QED
  BY <1>10, <1>12 DEF Promise!Next

LEMMA SettleStep ==
  ASSUME AllGood, AllGood', NEW a \in Accounts, NEW ids \in SUBSET Ids(box[a]),
         AckItems(a, ids)
  PROVE  Promise!Next
<1> DEFINE S == Acked(box[a], ids)
           K == KeysOf(a, S)
<1>1. /\ \A b \in Accounts : b # a => box'[b] = box[b]
      /\ box'[a] = Ack(box[a], ids)
      /\ acked' = K
      /\ S # {} /\ S \subseteq Live(box[a])
  BY DEF AllGood, AckItems, Returns, Acked
<1>2. /\ Ids(box'[a]) = Ids(box[a]) \ S
      /\ \A i \in Ids(box'[a]) : box'[a].rows[i] = box[a].rows[i]
  BY <1>1 DEF Ack, Without, Ids, AllGood, Good, IsMailbox
<1>3. /\ Live(box'[a]) = Live(box[a]) \ S
      /\ Ids(box'[a]) \ Live(box'[a]) = Ids(box[a]) \ Live(box[a])
  BY <1>1, <1>2 DEF Live
<1>4. \A b \in Accounts : \A i \in Ids(box'[b]) : i \in Ids(box[b]) /\ KeyOf(b, i)' = KeyOf(b, i)
  BY <1>1, <1>2 DEF KeyOf
<1>5. \A k : k \in K <=> \E i \in S : k = KeyOf(a, i)
  BY DEF KeysOf
<1>6. K # {} /\ K \subseteq WaitingKeys
  BY <1>1, <1>5, KeysBefore
<1> HIDE DEF K, S
<1>7. \A k : k \in WaitingKeys' <=> k \in WaitingKeys /\ k \notin K
  <2>1. ASSUME NEW k, k \in WaitingKeys' PROVE k \in WaitingKeys /\ k \notin K
    <3>1. PICK b \in Accounts : \E i \in Live(box'[b]) : k = KeyOf(b, i)'
      BY <2>1, KeysAfter
    <3>2. PICK i \in Live(box'[b]) : k = KeyOf(b, i)'
      BY <3>1
    <3>3. i \in Live(box[b]) /\ i \in Ids(box[b]) /\ k = KeyOf(b, i) /\ (b = a => i \notin S)
      BY <3>2, <1>1, <1>3, <1>4 DEF Live
    <3>4. ASSUME k \in K PROVE FALSE
      <4>1. PICK j \in S : k = KeyOf(a, j)
        BY <3>4, <1>5
      <4>2. j \in Ids(box[a])
        BY <1>1 DEF Live
      <4> QED
        BY <3>3, <4>1, <4>2, OneRow
    <3> QED
      BY <3>3, <3>4, KeysBefore
  <2>2. ASSUME NEW k, k \in WaitingKeys, k \notin K PROVE k \in WaitingKeys'
    <3>1. PICK b \in Accounts : \E i \in Live(box[b]) : k = KeyOf(b, i)
      BY <2>2, KeysBefore
    <3>2. PICK i \in Live(box[b]) : k = KeyOf(b, i)
      BY <3>1
    <3>3. i \in Live(box'[b])
      BY <2>2, <3>2, <1>1, <1>3, <1>5
    <3>4. k = KeyOf(b, i)'
      BY <3>2, <3>3, <1>4 DEF Live
    <3> QED
      BY <3>3, <3>4, KeysAfter
  <2> QED
    BY <2>1, <2>2
<1>8. \A k : k \in DeadKeys' <=> k \in DeadKeys
  <2>1. \A b \in Accounts : Ids(box'[b]) \ Live(box'[b]) = Ids(box[b]) \ Live(box[b])
    BY <1>1, <1>3
  <2> QED
    BY <2>1, <1>4, KeysBefore, KeysAfter
<1>9. WaitingKeys' = WaitingKeys \ K /\ DeadKeys' = DeadKeys
  BY <1>7, <1>8
<1>10. Promise!Settle(K)
  BY <1>1, <1>6, <1>9 DEF Promise!Settle
<1> QED
  BY <1>6, <1>10 DEF Promise!Next

LEMMA ResurrectStep ==
  ASSUME AllGood, AllGood', NEW a \in Accounts, NEW i \in Ids(box[a]), ReviveItem(a, i)
  PROVE  Promise!Next
<1> DEFINE key == KeyOf(a, i)
<1>1. /\ \A b \in Accounts : b # a => box'[b] = box[b]
      /\ box'[a] = Revive(box[a], i)
      /\ acked' = {}
      /\ i \notin Live(box[a])
  BY DEF AllGood, ReviveItem, Calls, Returns
<1>2. /\ Ids(box'[a]) = Ids(box[a])
      /\ \A j \in Ids(box[a]) : j # i => box'[a].rows[j] = box[a].rows[j]
      /\ box'[a].rows[i] = [box[a].rows[i] EXCEPT !.state = "queued", !.attempts = 0,
                                                  !.reason = "none", !.lease = 0]
  BY <1>1 DEF Revive, Ids, AllGood, Good, IsMailbox
<1>3. box[a].rows[i] \in Row
  BY RowsOfGood DEF AllGood
<1>4. /\ box'[a].rows[i].state = "queued"
      /\ box'[a].rows[i].kind = box[a].rows[i].kind
      /\ box'[a].rows[i].msg = box[a].rows[i].msg
  BY <1>2, <1>3 DEF Row
<1>5. Live(box'[a]) = Live(box[a]) \cup {i}
  BY <1>2, <1>4 DEF Live
<1>6. \A b \in Accounts : Ids(box'[b]) = Ids(box[b])
                          /\ \A j \in Ids(box[b]) : KeyOf(b, j)' = KeyOf(b, j)
  BY <1>1, <1>2, <1>4 DEF KeyOf
<1>7. key \in DeadKeys /\ key \in WaitingKeys'
  <2>1. key \in DeadKeys
    BY <1>1, KeysBefore
  <2>2. key \in WaitingKeys'
    BY <1>5, <1>6, KeysAfter
  <2> QED
    BY <2>1, <2>2
<1>8. \A b \in Accounts : \A j \in Ids(box[b]) : KeyOf(b, j) = key => b = a /\ j = i
  BY OneRow
<1> HIDE DEF key
<1>9. \A b \in Accounts : \A j \in Ids(box[b]) :
        j \in Live(box'[b]) <=> j \in Live(box[b]) \/ (b = a /\ j = i)
  BY <1>1, <1>5
<1>10. \A k : k \in WaitingKeys' <=> k \in WaitingKeys \/ k = key
  BY <1>6, <1>7, <1>8, <1>9, KeysBefore, KeysAfter DEF Live, key
<1>11. \A k : k \in DeadKeys' <=> k \in DeadKeys /\ k # key
  BY <1>6, <1>7, <1>8, <1>9, KeysBefore, KeysAfter DEF key
<1>12. WaitingKeys' = WaitingKeys \cup {key} /\ DeadKeys' = DeadKeys \ {key}
  BY <1>10, <1>11
<1>13. Promise!Resurrect(key)
  BY <1>1, <1>7, <1>12 DEF Promise!Resurrect
<1>14. key \in Promise!Keys
  BY KeysAreKeys DEF key
<1> QED
  BY <1>13, <1>14 DEF Promise!Next

LEMMA DropStep ==
  ASSUME AllGood, AllGood', NEW a \in Accounts, PurgeAccount(a)
  PROVE  Promise!Next
<1>1. /\ \A b \in Accounts : b # a => box'[b] = box[b]
      /\ box'[a] = Purge(box[a])
      /\ acked' = {}
  BY DEF AllGood, PurgeAccount, Calls, Returns
<1>2. Ids(box'[a]) = {} /\ Live(box'[a]) = {}
  BY <1>1 DEF Purge, EmptyMailbox, Ids, Live
<1>3. \A b \in Accounts : \A i \in Ids(box[b]) :
        /\ KeyOf(b, i)[1] = b
        /\ b # a => KeyOf(b, i)' = KeyOf(b, i)
        /\ KeyOf(b, i) \in Promise!Keys
  BY <1>1, KeysAreKeys DEF KeyOf
<1>4. \A k : k \in Promise!Of(a) <=> k \in Promise!Keys /\ k[1] = a
  BY DEF Promise!Of
<1>5. \A k : k \in WaitingKeys' <=> k \in WaitingKeys /\ k \notin Promise!Of(a)
  BY <1>1, <1>2, <1>3, <1>4, KeysBefore, KeysAfter DEF Live
<1>6. \A k : k \in DeadKeys' <=> k \in DeadKeys /\ k \notin Promise!Of(a)
  BY <1>1, <1>2, <1>3, <1>4, KeysBefore, KeysAfter
<1>7. WaitingKeys' = WaitingKeys \ Promise!Of(a) /\ DeadKeys' = DeadKeys \ Promise!Of(a)
  BY <1>5, <1>6
<1>8. Promise!Drop(a)
  BY <1>1, <1>7 DEF Promise!Drop
<1> QED
  BY <1>8 DEF Promise!Next

LEMMA StepKeepsPromise ==
  ASSUME AllGood, AllGood', [Next]_vars
  PROVE  [Promise!Next]_Promise!boxVars
<1>1. ASSUME NEW a \in Accounts, NEW i \in Ids(box[a]) PROVE box[a].rows[i] \in Row
  BY RowsOfGood DEF AllGood
<1>2. ASSUME NEW a \in Accounts, NEW r \in Rooms, LeaseRoom(a, r) PROVE Promise!Next
  <2> DEFINE nb == Lease(box[a], r, now)
  <2>1. /\ Ids(nb) = Ids(box[a])
        /\ \A i \in Ids(nb) :
             nb.rows[i] = IF i \notin Batch(box[a], r, now) THEN box[a].rows[i]
                          ELSE IF Spent(box[a], i) THEN Kill(box[a].rows[i], "attempts")
                          ELSE Hand(box[a].rows[i], now)
    BY DEF Lease, Ids, AllGood, Good, IsMailbox
  <2>2. Batch(box[a], r, now) \subseteq Live(box[a])
    BY DEF Batch, Due, Live
  <2>3. ASSUME NEW i \in Ids(nb)
        PROVE  /\ nb.rows[i].kind = box[a].rows[i].kind
               /\ nb.rows[i].msg = box[a].rows[i].msg
               /\ i \in Live(nb) => i \in Live(box[a])
    <3>1. CASE i \notin Batch(box[a], r, now)
      BY <2>1, <3>1 DEF Live
    <3>2. CASE i \in Batch(box[a], r, now)
      <4>1. nb.rows[i] \in {Kill(box[a].rows[i], "attempts"), Hand(box[a].rows[i], now)}
        BY <2>1, <3>2
      <4>2. box[a].rows[i] \in Row /\ i \in Live(box[a])
        BY <1>1, <2>1, <2>2, <3>2
      <4> QED
        BY <4>1, <4>2 DEF Row, Kill, Hand
    <3> QED
      BY <3>1, <3>2
  <2>4. Calls(a, nb)
    BY <1>2 DEF LeaseRoom
  <2> HIDE DEF nb
  <2> QED
    BY <2>1, <2>3, <2>4, CallBuries DEF Live
<1>3. ASSUME NEW a \in Accounts, NEW ids \in SUBSET Ids(box[a]), ReleaseItems(a, ids)
      PROVE  Promise!Next
  <2> DEFINE nb == Release(box[a], ids)
  <2>1. /\ Ids(nb) = Ids(box[a])
        /\ \A i \in Ids(nb) :
             nb.rows[i] = IF i \in ids /\ box[a].rows[i].state = "delivering"
                          THEN Requeue(box[a].rows[i]) ELSE box[a].rows[i]
    BY DEF Release, Ids, AllGood, Good, IsMailbox
  <2>2. ASSUME NEW i \in Ids(nb)
        PROVE  /\ nb.rows[i].kind = box[a].rows[i].kind
               /\ nb.rows[i].msg = box[a].rows[i].msg
               /\ i \in Live(nb) => i \in Live(box[a])
    BY <1>1, <2>1, <2>2 DEF Row, Requeue, Live
  <2>3. Calls(a, nb)
    BY <1>3 DEF ReleaseItems
  <2> HIDE DEF nb
  <2> QED
    BY <2>1, <2>2, <2>3, CallBuries DEF Live
<1>4. ASSUME NEW a \in Accounts, NEW msg \in Messages, NEW st \in {"delivered", "read"},
             UpgradeStatusOf(a, msg, st)
      PROVE  Promise!Next
  <2> DEFINE nb == UpgradeStatus(box[a], msg, st)
  <2>1. /\ Ids(nb) = Ids(box[a])
        /\ \A i \in Ids(nb) :
             nb.rows[i] = IF i \in Upgradable(box[a], msg, st)
                          THEN [Requeue(box[a].rows[i]) EXCEPT !.status = st]
                          ELSE box[a].rows[i]
    BY DEF UpgradeStatus, Ids, AllGood, Good, IsMailbox
  <2>2. Upgradable(box[a], msg, st) \subseteq Live(box[a])
    BY DEF Upgradable
  <2>3. ASSUME NEW i \in Ids(nb)
        PROVE  /\ nb.rows[i].kind = box[a].rows[i].kind
               /\ nb.rows[i].msg = box[a].rows[i].msg
               /\ i \in Live(nb) => i \in Live(box[a])
    BY <1>1, <2>1, <2>2, <2>3 DEF Row, Requeue, Live
  <2>4. Calls(a, nb)
    BY <1>4 DEF UpgradeStatusOf
  <2> HIDE DEF nb
  <2> QED
    BY <2>1, <2>3, <2>4, CallBuries DEF Live
<1>5. CASE SweepAll
  <2>1. ASSUME NEW a \in Accounts
        PROVE  /\ Ids(box'[a]) = Ids(box[a]) \ Purged(box[a], now)
               /\ \A i \in Ids(box'[a]) :
                    box'[a].rows[i] = IF i \in Expired(box[a], now)
                                      THEN Kill(box[a].rows[i], "expired")
                                      ELSE box[a].rows[i]
    BY <1>5 DEF SweepAll, Sweep, Ids, AllGood, Good, IsMailbox
  <2>2. ASSUME NEW a \in Accounts, NEW i \in Ids(box'[a])
        PROVE  /\ i \in Ids(box[a])
               /\ KeyOf(a, i)' = KeyOf(a, i)
               /\ i \in Live(box'[a]) => i \in Live(box[a])
    <3>1. i \in Ids(box[a]) /\ box[a].rows[i] \in Row
      BY <1>1, <2>1
    <3>2. CASE i \in Expired(box[a], now)
      <4>1. box'[a].rows[i] = Kill(box[a].rows[i], "expired") /\ i \in Live(box[a])
        BY <2>1, <3>2 DEF Expired
      <4>2. /\ box'[a].rows[i].kind = box[a].rows[i].kind
            /\ box'[a].rows[i].msg = box[a].rows[i].msg
        BY <3>1, <4>1 DEF Kill, Row
      <4> QED
        BY <3>1, <4>1, <4>2 DEF KeyOf
    <3>3. CASE i \notin Expired(box[a], now)
      <4>1. box'[a].rows[i] = box[a].rows[i]
        BY <2>1, <3>3
      <4> QED
        BY <3>1, <4>1 DEF KeyOf, Live
    <3> QED
      BY <3>2, <3>3
  <2>3. acked' = {}
    BY <1>5 DEF SweepAll
  <2>4. ASSUME NEW a \in Accounts
        PROVE  Ids(box'[a]) \subseteq Ids(box[a]) /\ Live(box'[a]) \subseteq Live(box[a])
    BY <2>2 DEF Live
  <2> QED
    BY <2>2, <2>3, <2>4, BuryStep
<1>6. CASE Tick
  <2>1. box' = box /\ acked' = {}
    BY <1>6 DEF Tick
  <2>2. \A a \in Accounts : \A i \in Ids(box'[a]) : KeyOf(a, i)' = KeyOf(a, i)
    BY <2>1 DEF KeyOf
  <2> QED
    BY <2>1, <2>2, BuryStep
<1>7. CASE UNCHANGED vars
  <2>1. box' = box /\ acked' = acked
    BY <1>7 DEF vars
  <2>2. WaitingKeys' = WaitingKeys /\ DeadKeys' = DeadKeys
    BY <2>1 DEF WaitingKeys, DeadKeys, KeysOf, KeyOf
  <2> QED
    BY <2>1, <2>2 DEF Promise!boxVars
<1> QED
  BY <1>2, <1>3, <1>4, <1>5, <1>6, <1>7, AcceptStep, SettleStep, ResurrectStep, DropStep
  DEF Next

(* The refinement, for any limits: whatever the queue does with rows,      *)
(* leases, attempts and sweeps, an item is stored once, waits until it is  *)
(* acknowledged to its caller, dies or goes with its account, and comes    *)
(* back only when the operator revives it.                                 *)
THEOREM PromiseKept == Spec => KeepsPromise
<1>1. Init => Promise!Init
  <2> SUFFICES ASSUME Init PROVE Promise!Init
    OBVIOUS
  <2>1. \A a \in Accounts : Ids(box[a]) = {} /\ Live(box[a]) = {}
    BY DEF Init, EmptyMailbox, Ids, Live
  <2>2. WaitingKeys = {} /\ DeadKeys = {}
    BY <2>1, KeysBefore
  <2> QED
    BY <2>2 DEF Init, Promise!Init
<1>2. AllGood /\ AllGood' /\ [Next]_vars => [Promise!Next]_Promise!boxVars
  BY StepKeepsPromise
<1> QED
  BY <1>1, <1>2, AlwaysGood, PTL DEF Spec, KeepsPromise, Promise!Spec
----------------------------------------------------------------------------
(* The bytes of a mailbox are a fold over the set of its rows, defined by  *)
(* a recursive function.  Here is what is needed of it: that the function  *)
(* exists, that the order of adding does not matter, and so that a sum     *)
(* over fewer rows is no larger.  Each is shown by a counterexample of the *)
(* least size, of which there can be none.                                 *)

(* The least of a set of numbers.                                          *)
LEMMA LeastOf ==
  ASSUME NEW T \in SUBSET Nat, T # {}
  PROVE  \E n \in T : \A m \in T : n <= m
<1>1. PICK n \in T : \A m \in T : ~ (<<m, n>> \in OpToRel(<, Nat))
  BY NatLessThanWellFounded, WFMin, Zenon
<1>2. \A m \in T : ~ (m < n)
  BY <1>1, Zenon DEF OpToRel
<1> QED
  BY <1>2

(* g adds up the bytes of every set of rows, a chosen row first.           *)
First(s) == CHOOSE x \in s : TRUE
Adds(g, rows, S) ==
  g = [s \in SUBSET S |->
         IF s = {} THEN 0 ELSE rows[First(s)].bytes + g[s \ {First(s)}]]

(* What BytesOf is, the fold of the community modules written out.         *)
LEMMA BytesAreAdded ==
  ASSUME NEW mb, NEW S PROVE BytesOf(mb, S) = (CHOOSE g : Adds(g, mb.rows, S))[S]
BY DEF BytesOf, MapThenSumSet, MapThenFoldSet, Adds, First

LEMMA FirstIsIn == ASSUME NEW s, s # {} PROVE First(s) \in s
BY DEF First

LEMMA OneFewer ==
  ASSUME NEW s, IsFiniteSet(s), NEW x \in s
  PROVE  /\ IsFiniteSet(s \ {x}) /\ Cardinality(s \ {x}) \in Nat
         /\ Cardinality(s) \in Nat /\ Cardinality(s) = Cardinality(s \ {x}) + 1
<1>1. Cardinality(s) \in Nat
  BY FS_CardinalityType
<1>2. IsFiniteSet(s \ {x}) /\ Cardinality(s \ {x}) = Cardinality(s) - 1
  BY FS_RemoveElement
<1>3. Cardinality(s \ {x}) \in Nat
  BY <1>2, FS_CardinalityType
<1> QED
  BY <1>1, <1>2, <1>3

(* The function that the fold is defined by exists: built up set size by   *)
(* set size.                                                               *)
AddsUpTo(g, rows, S, n) ==
  /\ g \in [SUBSET S -> Nat]
  /\ \A s \in SUBSET S : Cardinality(s) <= n =>
       g[s] = IF s = {} THEN 0 ELSE rows[First(s)].bytes + g[s \ {First(s)}]

LEMMA OneSizeMore ==
  ASSUME NEW S, IsFiniteSet(S), NEW rows, \A i \in S : rows[i].bytes \in Nat,
         NEW n \in Nat, NEW g, AddsUpTo(g, rows, S, n)
  PROVE  \E h : AddsUpTo(h, rows, S, n + 1)
<1> DEFINE h == [s \in SUBSET S |->
                   IF s = {} THEN 0 ELSE rows[First(s)].bytes + g[s \ {First(s)}]]
<1>1. ASSUME NEW s \in SUBSET S, s # {}
      PROVE  /\ First(s) \in s /\ rows[First(s)].bytes \in Nat
             /\ s \ {First(s)} \in SUBSET S /\ g[s \ {First(s)}] \in Nat
             /\ Cardinality(s \ {First(s)}) \in Nat
             /\ Cardinality(s) = Cardinality(s \ {First(s)}) + 1
  <2>1. First(s) \in s
    BY <1>1, FirstIsIn
  <2>2. IsFiniteSet(s)
    BY FS_Subset
  <2>3. Cardinality(s \ {First(s)}) \in Nat /\ Cardinality(s) = Cardinality(s \ {First(s)}) + 1
    BY <2>1, <2>2, OneFewer
  <2> QED
    BY <2>1, <2>3 DEF AddsUpTo
<1>2. h \in [SUBSET S -> Nat]
  <2>1. ASSUME NEW s \in SUBSET S PROVE h[s] \in Nat
    <3>1. CASE s = {}
      BY <3>1
    <3>2. CASE s # {}
      <4>1. h[s] = rows[First(s)].bytes + g[s \ {First(s)}]
        BY <3>2
      <4> QED
        BY <4>1, <3>2, <1>1
    <3> QED
      BY <3>1, <3>2
  <2> QED
    BY <2>1
<1>3. ASSUME NEW s \in SUBSET S, Cardinality(s) <= n + 1
      PROVE  h[s] = IF s = {} THEN 0 ELSE rows[First(s)].bytes + h[s \ {First(s)}]
  <2>1. CASE s = {}
    BY <2>1
  <2>2. CASE s # {}
    <3> DEFINE t == s \ {First(s)}
    <3>1. t \in SUBSET S /\ Cardinality(t) <= n
      BY <1>1, <1>3, <2>2
    <3>2. h[t] = g[t]
      BY <3>1 DEF AddsUpTo
    <3>3. h[s] = rows[First(s)].bytes + g[t]
      BY <2>2
    <3> QED
      BY <3>2, <3>3, <2>2
  <2> QED
    BY <2>1, <2>2
<1> QED
  <2> HIDE DEF h
  <2>1. AddsUpTo(h, rows, S, n + 1)
    BY <1>2, <1>3 DEF AddsUpTo
  <2> QED
    BY <2>1

LEMMA AddingExists ==
  ASSUME NEW S, IsFiniteSet(S), NEW rows, \A i \in S : rows[i].bytes \in Nat
  PROVE  \E g \in [SUBSET S -> Nat] : Adds(g, rows, S)
<1> DEFINE Fails == {n \in Nat : ~ \E g : AddsUpTo(g, rows, S, n)}
<1>1. \E g : AddsUpTo(g, rows, S, 0)
  <2> DEFINE g == [s \in SUBSET S |-> 0]
  <2>1. g \in [SUBSET S -> Nat]
    OBVIOUS
  <2>2. ASSUME NEW s \in SUBSET S, Cardinality(s) <= 0 PROVE s = {}
    <3>1. IsFiniteSet(s)
      BY FS_Subset
    <3>2. Cardinality(s) = 0
      BY <3>1, <2>2, FS_CardinalityType
    <3> QED
      BY <3>1, <3>2, FS_EmptySet
  <2>3. AddsUpTo(g, rows, S, 0)
    BY <2>1, <2>2 DEF AddsUpTo
  <2> QED
    BY <2>3
<1>2. Fails = {}
  <2> SUFFICES ASSUME Fails # {} PROVE FALSE
    OBVIOUS
  <2>1. PICK n \in Fails : \A m \in Fails : n <= m
    BY LeastOf
  <2>2. n # 0
    BY <1>1
  <2>3. n - 1 \in Nat /\ n - 1 \notin Fails
    BY <2>1, <2>2
  <2>4. PICK g : AddsUpTo(g, rows, S, n - 1)
    BY <2>3
  <2>5. \E h : AddsUpTo(h, rows, S, (n - 1) + 1)
    BY <2>3, <2>4, OneSizeMore
  <2> QED
    BY <2>5, <2>3
<1>3. PICK g : AddsUpTo(g, rows, S, Cardinality(S))
  BY <1>2, FS_CardinalityType
<1>4. \A s \in SUBSET S : Cardinality(s) <= Cardinality(S)
  BY FS_Subset
<1>5. \A s \in SUBSET S :
        g[s] = IF s = {} THEN 0 ELSE rows[First(s)].bytes + g[s \ {First(s)}]
  BY <1>3, <1>4 DEF AddsUpTo
<1>6. g \in [SUBSET S -> Nat]
  BY <1>3 DEF AddsUpTo
<1>7. Adds(g, rows, S)
  BY <1>5, <1>6 DEF Adds
<1> QED
  BY <1>6, <1>7

(* Two such functions agree on sets whose rows have the same bytes.        *)
LEMMA SameAdding ==
  ASSUME NEW S, NEW rows, NEW g, Adds(g, rows, S),
         NEW T, NEW others, NEW h, Adds(h, others, T),
         NEW U \in SUBSET (S \cap T), IsFiniteSet(U),
         \A i \in U : rows[i].bytes = others[i].bytes
  PROVE  g[U] = h[U]
<1> DEFINE Differ == {n \in Nat : \E s \in SUBSET U : Cardinality(s) = n /\ g[s] # h[s]}
<1>1. Differ = {}
  <2> SUFFICES ASSUME Differ # {} PROVE FALSE
    OBVIOUS
  <2>1. PICK n \in Differ : \A m \in Differ : n <= m
    BY LeastOf
  <2>2. PICK s \in SUBSET U : Cardinality(s) = n /\ g[s] # h[s]
    BY <2>1
  <2> DEFINE t == s \ {First(s)}
  <2>3. /\ g[s] = IF s = {} THEN 0 ELSE rows[First(s)].bytes + g[t]
        /\ h[s] = IF s = {} THEN 0 ELSE others[First(s)].bytes + h[t]
    BY DEF Adds
  <2>4. s # {}
    BY <2>2, <2>3
  <2>5. First(s) \in s
    BY <2>4, FirstIsIn
  <2>6. Cardinality(t) \in Nat /\ Cardinality(t) + 1 = n
    BY <2>2, <2>5, FS_Subset, OneFewer
  <2>7. g[t] # h[t]
    BY <2>2, <2>3, <2>4, <2>5
  <2>8. Cardinality(t) \in Differ
    BY <2>6, <2>7
  <2>9. n <= Cardinality(t) /\ n \in Nat
    <3> HIDE DEF Differ, t
    <3> QED
      BY <2>1, <2>2, <2>6, <2>8
  <2> QED
    BY <2>6, <2>9
<1>2. Cardinality(U) \in Nat
  BY FS_CardinalityType
<1> QED
  BY <1>1, <1>2

Weighed(rows, S) == IsFiniteSet(S) /\ \A i \in S : rows[i].bytes \in Nat

(* The order in which they are added does not matter.                      *)
AnyOrder(g, rows, S) ==
  \A U \in SUBSET S : \A y \in U : g[U] = rows[y].bytes + g[U \ {y}]
LEMMA AddedInAnyOrder ==
  ASSUME NEW S, NEW rows, Weighed(rows, S),
         NEW g \in [SUBSET S -> Nat], Adds(g, rows, S)
  PROVE  AnyOrder(g, rows, S)
<1> DEFINE Off(s, x) == g[s] # rows[x].bytes + g[s \ {x}]
           Fails == {n \in Nat : \E s \in SUBSET S : \E x \in s : Cardinality(s) = n /\ Off(s, x)}
<1>1. Fails = {}
  <2> SUFFICES ASSUME Fails # {} PROVE FALSE
    OBVIOUS
  <2>1. PICK n \in Fails : \A m \in Fails : n <= m
    BY LeastOf
  <2>2. PICK s \in SUBSET S : \E x \in s : Cardinality(s) = n /\ Off(s, x)
    BY <2>1
  <2>3. PICK x \in s : Cardinality(s) = n /\ Off(s, x)
    BY <2>2
  <2> DEFINE f == First(s)
             both == (s \ {f}) \ {x}
  <2>4. f \in s
    BY FirstIsIn
  <2>5. g[s] = rows[f].bytes + g[s \ {f}]
    BY <2>4 DEF Adds
  <2>6. f # x
    BY <2>3, <2>5
  <2>7. IsFiniteSet(s) /\ IsFiniteSet(s \ {f}) /\ IsFiniteSet(s \ {x})
    BY FS_Subset DEF Weighed
  <2>8. /\ Cardinality(s \ {f}) \in Nat /\ Cardinality(s \ {f}) + 1 = n
        /\ Cardinality(s \ {x}) \in Nat /\ Cardinality(s \ {x}) + 1 = n
    BY <2>3, <2>4, <2>7, OneFewer
  <2>9. Cardinality(s \ {f}) \notin Fails /\ Cardinality(s \ {x}) \notin Fails
    <3>1. ASSUME NEW m \in Nat, m + 1 = n PROVE m \notin Fails
      <4>1. ~(n <= m)
        BY <3>1
      <4> HIDE DEF Fails
      <4> QED
        BY <2>1, <4>1
    <3> HIDE DEF Fails
    <3> QED
      BY <2>8, <3>1
  <2>10. ~ Off(s \ {f}, x)
    <3>1. x \in s \ {f} /\ s \ {f} \in SUBSET S
      BY <2>6
    <3> QED
      BY <2>8, <2>9, <3>1
  <2>11. ~ Off(s \ {x}, f)
    <3>1. f \in s \ {x} /\ s \ {x} \in SUBSET S
      BY <2>4, <2>6
    <3> QED
      BY <2>8, <2>9, <3>1
  <2>12. g[s \ {f}] = rows[x].bytes + g[both]
    BY <2>10
  <2>13. g[s \ {x}] = rows[f].bytes + g[both]
    <3>1. (s \ {x}) \ {f} = both
      OBVIOUS
    <3> QED
      BY <2>11, <3>1
  <2>14. rows[x].bytes \in Nat /\ rows[f].bytes \in Nat /\ both \in SUBSET S
    BY <2>4 DEF Weighed
  <2>15. g[both] \in Nat
    BY <2>14
  <2> HIDE DEF both, f
  <2>16. g[s] = rows[x].bytes + g[s \ {x}]
    BY <2>5, <2>12, <2>13, <2>14, <2>15
  <2> QED
    BY <2>3, <2>16
<1>2. ASSUME NEW U \in SUBSET S PROVE IsFiniteSet(U) /\ Cardinality(U) \in Nat
  BY FS_Subset, FS_CardinalityType DEF Weighed
<1>3. ASSUME NEW U \in SUBSET S, NEW y \in U
      PROVE  g[U] = rows[y].bytes + g[U \ {y}]
  <2>1. Cardinality(U) \in Fails => FALSE
    BY <1>1
  <2> QED
    BY <1>2, <2>1
<1> QED
  BY <1>3 DEF AnyOrder

----------------------------------------------------------------------------
(* BytesOf, of a finite set of rows with a number of bytes each.           *)
LEMMA BytesByAdding ==
  ASSUME NEW mb, NEW S, Weighed(mb.rows, S)
  PROVE  \E g \in [SUBSET S -> Nat] :
           /\ Adds(g, mb.rows, S)
           /\ \A U \in SUBSET S : BytesOf(mb, U) = g[U]
<1>1. PICK g \in [SUBSET S -> Nat] : Adds(g, mb.rows, S)
  BY AddingExists DEF Weighed
<1>2. ASSUME NEW U \in SUBSET S PROVE BytesOf(mb, U) = g[U]
  <2>1. IsFiniteSet(U) /\ \A i \in U : mb.rows[i].bytes \in Nat
    BY FS_Subset DEF Weighed
  <2> DEFINE h == CHOOSE x : Adds(x, mb.rows, U)
  <2>2. \E x : Adds(x, mb.rows, U)
    BY <2>1, AddingExists
  <2>3. Adds(h, mb.rows, U)
    BY <2>2
  <2>4. BytesOf(mb, U) = h[U]
    BY BytesAreAdded
  <2> HIDE DEF h
  <2>5. h[U] = g[U]
    BY <1>1, <2>1, <2>3, SameAdding
  <2> QED
    BY <2>4, <2>5
<1> QED
  BY <1>1, <1>2

LEMMA BytesNumber ==
  ASSUME NEW mb, NEW S, Weighed(mb.rows, S) PROVE BytesOf(mb, S) \in Nat
<1>1. PICK g \in [SUBSET S -> Nat] : \A U \in SUBSET S : BytesOf(mb, U) = g[U]
  BY BytesByAdding
<1>2. BytesOf(mb, S) = g[S] /\ g[S] \in Nat
  BY <1>1
<1> QED
  BY <1>2

LEMMA BytesAgree ==
  ASSUME NEW mb, NEW other, NEW S, Weighed(mb.rows, S),
         \A i \in S : other.rows[i].bytes = mb.rows[i].bytes
  PROVE  BytesOf(other, S) = BytesOf(mb, S)
<1>1. Weighed(other.rows, S)
  BY DEF Weighed
<1>2. PICK g \in [SUBSET S -> Nat] :
        Adds(g, mb.rows, S) /\ \A U \in SUBSET S : BytesOf(mb, U) = g[U]
  BY BytesByAdding
<1>3. PICK h \in [SUBSET S -> Nat] :
        Adds(h, other.rows, S) /\ \A U \in SUBSET S : BytesOf(other, U) = h[U]
  BY <1>1, BytesByAdding
<1>4. g[S] = h[S]
  <2>1. IsFiniteSet(S) /\ S \in SUBSET (S \cap S)
    BY DEF Weighed
  <2> QED
    BY <1>2, <1>3, <2>1, SameAdding
<1> QED
  BY <1>2, <1>3, <1>4

LEMMA BytesWithout ==
  ASSUME NEW mb, NEW S, Weighed(mb.rows, S), NEW x \in S
  PROVE  BytesOf(mb, S) = mb.rows[x].bytes + BytesOf(mb, S \ {x})
<1>1. PICK g \in [SUBSET S -> Nat] :
        Adds(g, mb.rows, S) /\ \A U \in SUBSET S : BytesOf(mb, U) = g[U]
  BY BytesByAdding
<1>2. AnyOrder(g, mb.rows, S)
  BY <1>1, AddedInAnyOrder
<1>4. g[S] = mb.rows[x].bytes + g[S \ {x}]
  BY <1>2 DEF AnyOrder
<1>3. BytesOf(mb, S) = g[S] /\ BytesOf(mb, S \ {x}) = g[S \ {x}]
  BY <1>1
<1> QED
  BY <1>3, <1>4

LEMMA FewerBytes ==
  ASSUME NEW mb, NEW S, Weighed(mb.rows, S), NEW T \in SUBSET S
  PROVE  BytesOf(mb, T) <= BytesOf(mb, S)
<1> DEFINE More == {n \in Nat : \E s \in SUBSET S :
                      T \subseteq s /\ Cardinality(s) = n /\ ~(BytesOf(mb, T) <= BytesOf(mb, s))}
<1>0. ASSUME NEW s \in SUBSET S PROVE Weighed(mb.rows, s) /\ BytesOf(mb, s) \in Nat
  BY FS_Subset, BytesNumber DEF Weighed
<1>1. More = {}
  <2> SUFFICES ASSUME More # {} PROVE FALSE
    OBVIOUS
  <2>1. PICK n \in More : \A m \in More : n <= m
    BY LeastOf
  <2>2. PICK s \in SUBSET S :
          T \subseteq s /\ Cardinality(s) = n /\ ~(BytesOf(mb, T) <= BytesOf(mb, s))
    BY <2>1
  <2>3. s # T
    BY <2>2, <1>0
  <2>4. PICK x \in s : x \notin T
    BY <2>2, <2>3
  <2>5. Weighed(mb.rows, s) /\ s \ {x} \in SUBSET S
    BY <1>0
  <2>6. BytesOf(mb, s) = mb.rows[x].bytes + BytesOf(mb, s \ {x})
    BY <2>5, BytesWithout
  <2>7. mb.rows[x].bytes \in Nat /\ BytesOf(mb, s \ {x}) \in Nat /\ BytesOf(mb, T) \in Nat
    BY <1>0, <2>5 DEF Weighed
  <2>8. ~(BytesOf(mb, T) <= BytesOf(mb, s \ {x}))
    BY <2>2, <2>6, <2>7
  <2>9. Cardinality(s \ {x}) \in Nat /\ Cardinality(s \ {x}) + 1 = n
    BY <2>2, <2>5, OneFewer DEF Weighed
  <2>10. Cardinality(s \ {x}) \in More
    BY <2>2, <2>4, <2>5, <2>8, <2>9
  <2> HIDE DEF More
  <2>11. n <= Cardinality(s \ {x}) /\ n \in Nat
    BY <2>1, <2>2, <2>9, <2>10
  <2> QED
    BY <2>9, <2>11
<1>2. Cardinality(S) \in Nat
  BY FS_CardinalityType DEF Weighed
<1> QED
  BY <1>1, <1>2

----------------------------------------------------------------------------
(* The quotas.                                                             *)

(* The rows of a mailbox that count toward its quotas.                     *)
OfSender(mb, s) ==
  {i \in Live(mb) : /\ SenderKey[mb.rows[i].from] = SenderKey[s]
                    /\ mb.rows[i].kind = "message"}
SameWeight(row, old) ==
  row.bytes = old.bytes /\ row.from = old.from /\ row.kind = old.kind
Within(nb, mb) ==
  /\ Live(nb) \subseteq Live(mb)
  /\ \A i \in Live(nb) : SameWeight(nb.rows[i], mb.rows[i])

LEMMA LiveIsWeighed ==
  ASSUME NEW mb, NEW at, Good(mb, at)
  PROVE  IsFiniteSet(Live(mb)) /\ Weighed(mb.rows, Live(mb))
<1>1. mb.ids \in Nat /\ Ids(mb) \subseteq 1 .. mb.ids
  BY DEF Good, IsMailbox, Ids
<1>2. IsFiniteSet(1 .. mb.ids)
  <2>1. 1 \in Int /\ mb.ids \in Int
    BY <1>1
  <2> QED
    BY <2>1, FS_Interval
<1>3. Live(mb) \subseteq Ids(mb)
  BY DEF Live
<1>4. IsFiniteSet(Live(mb))
  <2>1. Live(mb) \in SUBSET (1 .. mb.ids)
    BY <1>1, <1>3
  <2> QED
    BY <1>2, <2>1, FS_Subset
<1>5. \A i \in Live(mb) : mb.rows[i].bytes \in Nat
  BY <1>3, RowsOfGood DEF Row
<1> QED
  BY <1>4, <1>5 DEF Weighed

(* What stays within a mailbox that keeps its quotas keeps them.           *)
LEMMA WithinIsNotCrowded ==
  ASSUME NEW mb, NEW at, Good(mb, at), NEW nb, Within(nb, mb), Crowded(nb)
  PROVE  Crowded(mb)
<1>1. IsFiniteSet(Live(mb)) /\ Weighed(mb.rows, Live(mb))
  BY LiveIsWeighed
<1>2. Live(nb) \in SUBSET Live(mb)
  BY DEF Within
<1>3. CASE Cardinality(Live(nb)) > MaxItemsPerAccount
  <2>1. /\ Cardinality(Live(nb)) <= Cardinality(Live(mb)) /\ Cardinality(Live(nb)) \in Nat
        /\ Cardinality(Live(mb)) \in Nat
    BY <1>1, <1>2, FS_Subset, FS_CardinalityType
  <2> QED
    BY <1>3, <2>1, LimitsAssumption DEF Crowded
<1>4. CASE BytesOf(nb, Live(nb)) > MaxBytesPerAccount
  <2>1. Weighed(mb.rows, Live(nb))
    BY <1>1, <1>2, FS_Subset DEF Weighed
  <2>2. \A i \in Live(nb) : nb.rows[i].bytes = mb.rows[i].bytes
    BY DEF Within, SameWeight
  <2>3. BytesOf(nb, Live(nb)) = BytesOf(mb, Live(nb))
    BY <2>1, <2>2, BytesAgree
  <2>4. BytesOf(mb, Live(nb)) <= BytesOf(mb, Live(mb))
    BY <1>1, <1>2, FewerBytes
  <2>5. BytesOf(mb, Live(nb)) \in Nat /\ BytesOf(mb, Live(mb)) \in Nat
    BY <1>1, <2>1, BytesNumber
  <2> QED
    BY <1>4, <2>3, <2>4, <2>5, LimitsAssumption DEF Crowded
<1>5. ASSUME NEW s \in Senders, Cardinality(OfSender(nb, s)) > MaxItemsPerSender
      PROVE  Crowded(mb)
  <2>1. OfSender(nb, s) \in SUBSET OfSender(mb, s) /\ OfSender(mb, s) \in SUBSET Live(mb)
    BY <1>2 DEF OfSender, Within, SameWeight
  <2>2. IsFiniteSet(OfSender(mb, s))
    BY <1>1, <2>1, FS_Subset
  <2>3. /\ Cardinality(OfSender(nb, s)) <= Cardinality(OfSender(mb, s))
        /\ Cardinality(OfSender(nb, s)) \in Nat /\ Cardinality(OfSender(mb, s)) \in Nat
    BY <2>1, <2>2, FS_Subset, FS_CardinalityType
  <2>4. Cardinality(OfSender(mb, s)) > MaxItemsPerSender
    BY <1>5, <2>3, LimitsAssumption
  <2> QED
    BY <2>4 DEF Crowded, OfSender
<1> QED
  BY <1>3, <1>4, <1>5 DEF Crowded, OfSender

(* Every operation but the storing of a row and the revival stays within.  *)
LEMMA LeaseWithin ==
  ASSUME NEW mb, NEW at, Good(mb, at), NEW r
  PROVE  Within(Lease(mb, r, at), mb)
<1>1. mb = [rows |-> mb.rows, seq |-> mb.seq, ids |-> mb.ids]
  BY DEF Good, IsMailbox
<1>2. Lease(mb, r, at).rows =
        [i \in Ids(mb) |->
           IF i \notin Batch(mb, r, at) THEN mb.rows[i]
           ELSE IF Spent(mb, i) THEN Kill(mb.rows[i], "attempts")
           ELSE Hand(mb.rows[i], at)]
  BY <1>1 DEF Lease
<1>3. ASSUME NEW row \in Row
      PROVE  /\ SameWeight(Kill(row, "attempts"), row) /\ Kill(row, "attempts").state = "dead"
             /\ SameWeight(Hand(row, at), row)
  BY DEF Kill, Hand, Row, SameWeight
<1>4. \A i \in Ids(mb) : mb.rows[i] \in Row
  BY RowsOfGood
<1>5. \A i \in Batch(mb, r, at) : mb.rows[i].state # "dead"
  BY DEF Batch, Due
<1> QED
  BY <1>2, <1>3, <1>4, <1>5 DEF SameWeight, Within, Live, Ids

LEMMA AckWithin ==
  ASSUME NEW mb, NEW at, Good(mb, at), NEW ids
  PROVE  Within(Ack(mb, ids), mb)
<1>1. mb = [rows |-> mb.rows, seq |-> mb.seq, ids |-> mb.ids]
  BY DEF Good, IsMailbox
<1>2. Ack(mb, ids).rows = [i \in Ids(mb) \ Acked(mb, ids) |-> mb.rows[i]]
  BY <1>1 DEF Ack, Without
<1> QED
  BY <1>2 DEF Within, SameWeight, Live, Ids

LEMMA ReleaseWithin ==
  ASSUME NEW mb, NEW at, Good(mb, at), NEW ids
  PROVE  Within(Release(mb, ids), mb)
<1>1. mb = [rows |-> mb.rows, seq |-> mb.seq, ids |-> mb.ids]
  BY DEF Good, IsMailbox
<1>2. Release(mb, ids).rows =
        [i \in Ids(mb) |->
           IF i \in ids /\ mb.rows[i].state = "delivering"
           THEN Requeue(mb.rows[i]) ELSE mb.rows[i]]
  BY <1>1 DEF Release
<1>3. ASSUME NEW row \in Row PROVE SameWeight(Requeue(row), row)
  BY DEF Requeue, Row, SameWeight
<1>4. \A i \in Ids(mb) : mb.rows[i] \in Row
  BY RowsOfGood
<1> QED
  BY <1>2, <1>3, <1>4 DEF Within, SameWeight, Live, Ids

LEMMA UpgradeWithin ==
  ASSUME NEW mb, NEW at, Good(mb, at), NEW msg, NEW st
  PROVE  Within(UpgradeStatus(mb, msg, st), mb)
<1>1. mb = [rows |-> mb.rows, seq |-> mb.seq, ids |-> mb.ids]
  BY DEF Good, IsMailbox
<1>2. UpgradeStatus(mb, msg, st).rows =
        [i \in Ids(mb) |->
           IF i \in Upgradable(mb, msg, st)
           THEN [Requeue(mb.rows[i]) EXCEPT !.status = st] ELSE mb.rows[i]]
  BY <1>1 DEF UpgradeStatus
<1>3. ASSUME NEW row \in Row PROVE SameWeight([Requeue(row) EXCEPT !.status = st], row)
  BY DEF Requeue, Row, SameWeight
<1>4. \A i \in Ids(mb) : mb.rows[i] \in Row
  BY RowsOfGood
<1>5. Upgradable(mb, msg, st) \subseteq Live(mb)
  BY DEF Upgradable
<1> QED
  BY <1>2, <1>3, <1>4, <1>5 DEF Within, SameWeight, Live, Ids

LEMMA SweepWithin ==
  ASSUME NEW mb, NEW at, Good(mb, at)
  PROVE  Within(Sweep(mb, at), mb)
<1>1. mb = [rows |-> mb.rows, seq |-> mb.seq, ids |-> mb.ids]
  BY DEF Good, IsMailbox
<1>2. Sweep(mb, at).rows =
        [i \in Ids(mb) \ Purged(mb, at) |->
           IF i \in Expired(mb, at) THEN Kill(mb.rows[i], "expired") ELSE mb.rows[i]]
  BY <1>1 DEF Sweep
<1>3. ASSUME NEW row \in Row PROVE Kill(row, "expired").state = "dead"
  BY DEF Kill, Row
<1>4. \A i \in Ids(mb) : mb.rows[i] \in Row
  BY RowsOfGood
<1> QED
  BY <1>2, <1>3, <1>4 DEF Within, SameWeight, Live, Ids

(* A row that is accepted leaves the quotas kept: enqueue counts it.       *)
LEMMA EnqueueFits ==
  ASSUME NEW mb, NEW at \in Nat, Good(mb, at), NEW in \in Input, Accepts(mb, in),
         Crowded(Enqueue(mb, in, at))
  PROVE  Crowded(mb)
<1> DEFINE nb == Enqueue(mb, in, at)
           new == mb.ids + 1
<1>1. /\ nb.rows = [i \in Ids(mb) \cup {new} |->
                      IF i = new THEN NewRow(mb, in, at) ELSE mb.rows[i]]
      /\ new \notin Ids(mb) /\ NewRow(mb, in, at).state = "queued"
      /\ NewRow(mb, in, at).bytes = in.bytes /\ NewRow(mb, in, at).from = in.from
      /\ NewRow(mb, in, at).kind = in.kind /\ in.bytes \in Nat /\ in.from \in Senders
  <2>1. mb.ids \in Nat /\ Ids(mb) \subseteq 1 .. mb.ids
    BY DEF Good, IsMailbox, Ids
  <2>2. new \notin Ids(mb)
    BY <2>1
  <2>3. in.bytes \in Nat /\ in.from \in Senders
    BY DEF Input
  <2>4. nb.rows = [i \in Ids(mb) \cup {new} |->
                      IF i = new THEN NewRow(mb, in, at) ELSE mb.rows[i]]
    BY DEF Enqueue
  <2> HIDE DEF nb, new
  <2> QED
    BY <2>2, <2>3, <2>4 DEF NewRow
<1>2. Crowded(nb)
  OBVIOUS
<1> HIDE DEF nb, new
<1>3. Live(nb) = Live(mb) \cup {new} /\ new \notin Live(mb)
  BY <1>1 DEF Live, Ids
<1>4. IsFiniteSet(Live(mb)) /\ Weighed(mb.rows, Live(mb))
  BY LiveIsWeighed
<1>5. IsFiniteSet(Live(nb)) /\ Cardinality(Live(nb)) = Cardinality(Live(mb)) + 1
  BY <1>3, <1>4, FS_AddElement
<1>6. ~OverQuota(mb, in) /\ ~OverSenderQuota(mb, in)
  BY DEF Accepts
<1>7. ~(Cardinality(Live(nb)) > MaxItemsPerAccount)
  BY <1>4, <1>5, <1>6, FS_CardinalityType, LimitsAssumption DEF OverQuota
<1>8. ~(BytesOf(nb, Live(nb)) > MaxBytesPerAccount)
  <2>1. \A i \in Live(mb) : nb.rows[i].bytes = mb.rows[i].bytes
    BY <1>1, <1>3 DEF Live
  <2>2. nb.rows[new].bytes = in.bytes
    BY <1>1
  <2>3. \A i \in Live(nb) : nb.rows[i].bytes \in Nat
    BY <1>1, <1>3, <1>4, <2>1, <2>2 DEF Weighed
  <2>4. Weighed(nb.rows, Live(nb))
    BY <1>5, <2>3 DEF Weighed
  <2>5. BytesOf(nb, Live(nb)) = in.bytes + BytesOf(nb, Live(mb))
    <3>1. Live(nb) \ {new} = Live(mb) /\ new \in Live(nb)
      BY <1>3
    <3> QED
      BY <2>2, <2>4, <3>1, BytesWithout
  <2>6. BytesOf(nb, Live(mb)) = BytesOf(mb, Live(mb)) /\ BytesOf(mb, Live(mb)) \in Nat
    BY <1>4, <2>1, BytesAgree, BytesNumber
  <2> QED
    BY <1>1, <1>6, <2>5, <2>6, LimitsAssumption DEF OverQuota
<1>9. PICK s \in Senders : Cardinality(OfSender(nb, s)) > MaxItemsPerSender
  BY <1>2, <1>7, <1>8 DEF Crowded, OfSender
<1>10. IsFiniteSet(OfSender(mb, s))
  <2>1. OfSender(mb, s) \in SUBSET Live(mb)
    BY DEF OfSender
  <2> QED
    BY <1>4, <2>1, FS_Subset
<1>11. CASE in.kind = "message" /\ SenderKey[in.from] = SenderKey[s]
  <2>1. OfSender(nb, s) = OfSender(mb, s) \cup {new} /\ new \notin OfSender(mb, s)
    BY <1>1, <1>3, <1>11 DEF OfSender, Live
  <2>2. Cardinality(OfSender(nb, s)) = Cardinality(OfSender(mb, s)) + 1
    BY <1>10, <2>1, FS_AddElement
  <2>3. ~(Cardinality(OfSender(mb, s)) >= MaxItemsPerSender)
    <3> DEFINE rows == {i \in Live(mb) : SenderKey[mb.rows[i].from] = SenderKey[in.from]}
    <3>1. ~(Cardinality(rows) >= MaxItemsPerSender)
      BY <1>6, <1>11 DEF OverSenderQuota
    <3>2. rows \in SUBSET Live(mb) /\ OfSender(mb, s) \in SUBSET rows
      BY <1>11 DEF OfSender
    <3> HIDE DEF rows
    <3>3. IsFiniteSet(rows)
      BY <1>4, <3>2, FS_Subset
    <3>4. /\ Cardinality(OfSender(mb, s)) <= Cardinality(rows)
          /\ Cardinality(OfSender(mb, s)) \in Nat /\ Cardinality(rows) \in Nat
      BY <1>10, <3>2, <3>3, FS_Subset, FS_CardinalityType
    <3> QED
      BY <3>1, <3>4, LimitsAssumption
  <2> QED
    BY <1>9, <1>10, <2>2, <2>3, FS_CardinalityType, LimitsAssumption
<1>12. CASE ~(in.kind = "message" /\ SenderKey[in.from] = SenderKey[s])
  <2>1. OfSender(nb, s) = OfSender(mb, s)
    BY <1>1, <1>3, <1>12 DEF OfSender, Live
  <2> QED
    BY <1>9, <2>1 DEF Crowded, OfSender
<1> QED
  BY <1>11, <1>12
(* A step that is no revival of this account's rows fills no mailbox past  *)
(* a quota.                                                                *)
LEMMA StepOverfills ==
  ASSUME AllGood, [Next]_vars, NEW a \in Accounts, Crowded(box'[a]), ~Crowded(box[a])
  PROVE  \E i \in Ids(box[a]) : ReviveItem(a, i)
<1>1. ASSUME NEW b \in Accounts PROVE Good(box[b], now) /\ now \in Nat
  BY DEF AllGood
<1>2. DOMAIN box = Accounts /\ box = [b \in Accounts |-> box[b]]
  BY DEF AllGood
<1>3. ~Within(box'[a], box[a])
  BY <1>1, WithinIsNotCrowded
<1>4. ASSUME NEW b \in Accounts, NEW mb, NEW keys, Returns(b, mb, keys),
             b = a => Within(mb, box[a])
      PROVE  FALSE
  <2>1. CASE b = a
    <3>1. box'[a] = mb
      BY <1>2, <1>4, <2>1 DEF Returns
    <3> QED
      BY <1>3, <1>4, <2>1, <3>1
  <2>2. CASE b # a
    <3>1. box'[a] = box[a]
      BY <1>2, <1>4, <2>2 DEF Returns
    <3> QED
      BY <3>1
  <2> QED
    BY <2>1, <2>2
<1>5. ASSUME NEW b \in Accounts, NEW in \in Offered, EnqueueItem(b, in) PROVE FALSE
  <2>1. in \in Input
    BY <1>1, OfferedIsInput
  <2>2. Accepts(box[b], in) /\ Returns(b, Enqueue(box[b], in, now), {})
    BY <1>5 DEF EnqueueItem, Calls
  <2>3. CASE b = a
    <3>1. box'[a] = Enqueue(box[a], in, now)
      BY <1>2, <2>2, <2>3 DEF Returns
    <3> QED
      BY <1>1, <2>1, <2>2, <2>3, <3>1, EnqueueFits
  <2>4. CASE b # a
    <3>1. box'[a] = box[a]
      BY <1>2, <2>2, <2>4 DEF Returns
    <3> QED
      BY <3>1
  <2> QED
    BY <2>3, <2>4
<1>6. ASSUME NEW b \in Accounts, NEW r \in Rooms, LeaseRoom(b, r) PROVE FALSE
  BY <1>1, <1>4, <1>6, LeaseWithin DEF LeaseRoom, Calls
<1>7. ASSUME NEW b \in Accounts, NEW ids \in SUBSET Ids(box[b]), AckItems(b, ids) PROVE FALSE
  BY <1>1, <1>4, <1>7, AckWithin DEF AckItems
<1>8. ASSUME NEW b \in Accounts, NEW ids \in SUBSET Ids(box[b]), ReleaseItems(b, ids) PROVE FALSE
  BY <1>1, <1>4, <1>8, ReleaseWithin DEF ReleaseItems, Calls
<1>9. ASSUME NEW b \in Accounts, NEW i \in Ids(box[b]), ReviveItem(b, i) PROVE b = a
  <2> SUFFICES ASSUME b # a PROVE FALSE
    OBVIOUS
  <2>1. Returns(b, Revive(box[b], i), {})
    BY <1>9 DEF ReviveItem, Calls
  <2> QED
    BY <1>4, <2>1
<1>10. ASSUME NEW b \in Accounts, NEW msg \in Messages, NEW st \in {"delivered", "read"},
              UpgradeStatusOf(b, msg, st)
       PROVE  FALSE
  BY <1>1, <1>4, <1>10, UpgradeWithin DEF UpgradeStatusOf, Calls
<1>11. ASSUME NEW b \in Accounts, PurgeAccount(b) PROVE FALSE
  <2>1. Within(Purge(box[b]), box[b])
    BY DEF Purge, EmptyMailbox, Within, Live, Ids
  <2> QED
    BY <1>4, <1>11, <2>1 DEF PurgeAccount, Calls
<1>12. CASE SweepAll
  <2>1. box'[a] = Sweep(box[a], now)
    BY <1>12 DEF SweepAll
  <2> QED
    BY <1>1, <1>3, <2>1, SweepWithin
<1>13. CASE Tick \/ UNCHANGED vars
  BY <1>13 DEF Tick, vars
<1> QED
  BY <1>5, <1>6, <1>7, <1>8, <1>9, <1>10, <1>11, <1>12, <1>13 DEF Next

(* "Bounded", for any limits: a mailbox, and a sender's part of it, pass   *)
(* their quotas in no step but the operator's revival.                     *)
THEOREM OnlyAReviveOverfills == Spec => OnlyReviveOverfills
<1>1. AllGood /\ [Next]_vars =>
        [\A a \in Accounts :
           Crowded(box'[a]) /\ ~Crowded(box[a]) =>
             \E i \in Ids(box[a]) : ReviveItem(a, i)]_vars
  BY StepOverfills
<1> QED
  BY <1>1, AlwaysGood, PTL DEF Spec, OnlyReviveOverfills
=============================================================================
