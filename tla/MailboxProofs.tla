--------------------------- MODULE MailboxProofs ---------------------------
(***************************************************************************)
(* What every operation of Mailbox keeps, for every value of the limits:   *)
(* Good.  MailQueueProofs and AwayRelayProofs go through the steps of      *)
(* their modules with these lemmas.                                        *)
(***************************************************************************)
EXTENDS Mailbox, TLAPS

Good(mb, at) ==
  /\ IsMailbox(mb)
  /\ Unique(mb)
  /\ InOrder(mb)
  /\ \A i \in Ids(mb) : LifeOf(mb.rows[i], at)

----------------------------------------------------------------------------
(* Most operations only delete rows or rewrite the fields that neither the *)
(* order nor the deduplication looks at: those stay good when each row     *)
(* that is left stays a proper row.                                        *)
LEMMA RewriteKeepsGood ==
  ASSUME NEW mb, NEW at, NEW rows, Good(mb, at),
         DOMAIN rows \subseteq Ids(mb),
         rows = [i \in DOMAIN rows |-> rows[i]],
         \A i \in DOMAIN rows :
           /\ rows[i] \in Row
           /\ LifeOf(rows[i], at)
           /\ rows[i].room = mb.rows[i].room
           /\ rows[i].seq = mb.rows[i].seq
           /\ rows[i].kind = mb.rows[i].kind
           /\ rows[i].msg = mb.rows[i].msg
  PROVE  Good([mb EXCEPT !.rows = rows], at)
<1> DEFINE nb == [rows |-> rows, seq |-> mb.seq, ids |-> mb.ids]
<1>1. [mb EXCEPT !.rows = rows] = nb
  BY DEF Good, IsMailbox
<1>2. IsMailbox(nb)
  BY DEF Good, IsMailbox, Ids
<1>3. Unique(nb)
  BY DEF Good, Unique, Ids
<1>4. InOrder(nb)
  BY DEF Good, InOrder, Ids
<1>5. \A i \in Ids(nb) : LifeOf(nb.rows[i], at)
  BY DEF Ids
<1> QED
  BY <1>1, <1>2, <1>3, <1>4, <1>5 DEF Good

(* What a rewriting operation does to a row.                               *)
LEMMA RowsOfGood ==
  ASSUME NEW mb, NEW at, Good(mb, at), NEW i \in Ids(mb)
  PROVE  mb.rows[i] \in Row /\ LifeOf(mb.rows[i], at)
BY DEF Good, IsMailbox, Ids

LEMMA KillRow ==
  ASSUME NEW row \in Row, NEW at, LifeOf(row, at), NEW why \in Reasons \ {"none"},
         why = "attempts" => row.attempts = MaxAttempts
  PROVE  /\ Kill(row, why) \in Row
         /\ LifeOf(Kill(row, why), at)
BY LimitsAssumption DEF Row, LifeOf, Kill, States, Reasons

LEMMA HandRow ==
  ASSUME NEW row \in Row, NEW at \in Nat, LifeOf(row, at), row.state # "dead",
         row.attempts < MaxAttempts
  PROVE  /\ Hand(row, at) \in Row
         /\ LifeOf(Hand(row, at), at)
<1>1. at + LeaseTime \in Nat /\ row.attempts + 1 \in Nat \ {0}
  BY LimitsAssumption DEF Row
<1>2. row.attempts + 1 <= MaxAttempts
  BY LimitsAssumption DEF Row
<1>3. Hand(row, at) \in Row
  BY <1>1 DEF Row, Hand, States
<1>4. /\ Hand(row, at).attempts = row.attempts + 1
      /\ Hand(row, at).state = "delivering"
      /\ Hand(row, at).lease = at + LeaseTime
      /\ Hand(row, at).reason = row.reason
  BY DEF Row, Hand
<1>5. row.reason = "none"
  BY DEF LifeOf
<1>6. LifeOf(Hand(row, at), at)
  BY <1>1, <1>2, <1>4, <1>5 DEF LifeOf
<1> QED
  BY <1>3, <1>6

LEMMA RequeueRow ==
  ASSUME NEW row \in Row, NEW at, LifeOf(row, at), row.state # "dead"
  PROVE  /\ Requeue(row) \in Row
         /\ LifeOf(Requeue(row), at)
BY LimitsAssumption DEF Row, LifeOf, Requeue, States, Reasons
----------------------------------------------------------------------------
(* The operations, one by one.                                             *)

(* enqueue(): the only one that adds a row.  The new row gets an id and a  *)
(* number no row has, and Known kept every equal key out.                  *)
LEMMA EnqueueKeepsGood ==
  ASSUME NEW mb, NEW at \in Nat, Good(mb, at), NEW in \in Input
  PROVE  Good(Enqueue(mb, in, at), at)
<1>1. CASE ~Accepts(mb, in)
  BY <1>1 DEF Enqueue
<1>2. CASE Accepts(mb, in)
  <2> DEFINE new  == mb.ids + 1
             nrow == NewRow(mb, in, at)
             nb   == Enqueue(mb, in, at)
  <2>1. /\ mb.ids \in Nat /\ mb.seq \in [Rooms -> Nat]
        /\ \A i \in Ids(mb) : i \in Nat /\ i < new
    BY DEF Good, IsMailbox, Ids
  <2>2. /\ in.room \in Rooms /\ in.kind \in Kinds /\ in.msg \in Messages
        /\ in.from \in Senders /\ in.status \in Statuses
        /\ in.expires \in Nat /\ in.bytes \in Nat
    BY DEF Input
  <2>3. NextSeq(mb, in.room) \in Nat /\ NextSeq(mb, in.room) = mb.seq[in.room] + 1
    BY <2>1, <2>2 DEF NextSeq
  <2>4. DeadlineOf(in, at) \in Nat
    BY <2>2, LimitsAssumption DEF DeadlineOf
  <2>5. /\ nrow \in Row
        /\ nrow.room = in.room /\ nrow.kind = in.kind /\ nrow.msg = in.msg
        /\ nrow.seq = NextSeq(mb, in.room)
    BY <2>2, <2>3, <2>4 DEF NewRow, Row, States, Reasons
  <2>6. LifeOf(nrow, at)
    BY LimitsAssumption DEF NewRow, LifeOf
  <2>7. /\ Ids(nb) = Ids(mb) \cup {new}
        /\ nb.rows[new] = nrow
        /\ \A i \in Ids(mb) : nb.rows[i] = mb.rows[i]
        /\ nb.seq = [mb.seq EXCEPT ![in.room] = NextSeq(mb, in.room)]
        /\ nb.ids = new
        /\ nb = [rows |-> nb.rows, seq |-> nb.seq, ids |-> nb.ids]
        /\ nb.rows = [i \in Ids(mb) \cup {new} |-> IF i = new THEN nrow ELSE mb.rows[i]]
    BY <1>2, <2>1 DEF Enqueue, Ids
  <2> HIDE DEF nb, nrow, new
  <2>8. \A i \in Ids(mb) : mb.rows[i] \in Row /\ LifeOf(mb.rows[i], at)
    BY RowsOfGood
  <2>9. IsMailbox(nb)
    <3>1. nb.seq \in [Rooms -> Nat] /\ nb.ids \in Nat
      BY <2>1, <2>2, <2>3, <2>7 DEF new
    <3>2. DOMAIN nb.rows \subseteq 1 .. nb.ids
      BY <2>1, <2>7 DEF new, Ids, Good, IsMailbox
    <3>3. nb.rows \in [DOMAIN nb.rows -> Row]
      BY <2>5, <2>7, <2>8 DEF Ids
    <3> QED
      BY <2>7, <3>1, <3>2, <3>3 DEF IsMailbox
  <2>10. Unique(nb)
    <3>1. \A i \in Ids(mb) : ~(mb.rows[i].kind = in.kind /\ mb.rows[i].msg = in.msg)
      BY <1>2 DEF Accepts, Known, Same
    <3> QED
      BY <2>5, <2>7, <3>1 DEF Unique, Good
  <2>11. InOrder(nb)
    <3> SUFFICES ASSUME NEW i \in Ids(nb)
                 PROVE  /\ nb.rows[i].seq \in 1 .. nb.seq[nb.rows[i].room]
                        /\ \A j \in Ids(nb) :
                             i < j /\ nb.rows[j].room = nb.rows[i].room
                               => nb.rows[i].seq < nb.rows[j].seq
      BY DEF InOrder
    <3>1. CASE i = new
      <4>1. nb.rows[i].seq \in 1 .. nb.seq[nb.rows[i].room]
        BY <3>1, <2>1, <2>2, <2>3, <2>5, <2>7
      <4>2. \A j \in Ids(nb) : ~(i < j)
        BY <3>1, <2>1, <2>7 DEF new
      <4> QED
        BY <4>1, <4>2
    <3>2. CASE i \in Ids(mb)
      <4>1. /\ mb.rows[i].room \in Rooms /\ mb.rows[i].seq \in Nat
            /\ mb.rows[i].seq \in 1 .. mb.seq[mb.rows[i].room]
            /\ mb.seq[mb.rows[i].room] \in Nat
        BY <3>2, <2>1, <2>8 DEF Good, InOrder, Row
      <4>2. nb.rows[i].seq \in 1 .. nb.seq[nb.rows[i].room]
        BY <3>2, <4>1, <2>1, <2>2, <2>3, <2>7
      <4>3. ASSUME NEW j \in Ids(nb), i < j, nb.rows[j].room = nb.rows[i].room
            PROVE  nb.rows[i].seq < nb.rows[j].seq
        <5>1. CASE j = new
          BY <5>1, <3>2, <4>1, <4>3, <2>1, <2>2, <2>3, <2>5, <2>7
        <5>2. CASE j \in Ids(mb)
          BY <5>2, <3>2, <4>3, <2>7 DEF Good, InOrder
        <5> QED
          BY <5>1, <5>2, <2>7
      <4> QED
        BY <4>2, <4>3
    <3> QED
      BY <3>1, <3>2, <2>7
  <2>12. \A i \in Ids(nb) : LifeOf(nb.rows[i], at)
    BY <2>6, <2>7, <2>8
  <2> QED
    BY <2>9, <2>10, <2>11, <2>12 DEF Good, nb
<1> QED
  BY <1>1, <1>2

LEMMA LeaseKeepsGood ==
  ASSUME NEW mb, NEW at \in Nat, Good(mb, at), NEW r \in Rooms
  PROVE  Good(Lease(mb, r, at), at)
<1> DEFINE rows == [i \in Ids(mb) |->
              IF i \notin Batch(mb, r, at) THEN mb.rows[i]
              ELSE IF Spent(mb, i) THEN Kill(mb.rows[i], "attempts")
              ELSE Hand(mb.rows[i], at)]
<1>1. ASSUME NEW i \in Ids(mb)
      PROVE  /\ rows[i] \in Row
             /\ LifeOf(rows[i], at)
             /\ rows[i].room = mb.rows[i].room /\ rows[i].seq = mb.rows[i].seq
             /\ rows[i].kind = mb.rows[i].kind /\ rows[i].msg = mb.rows[i].msg
  <2>1. mb.rows[i] \in Row /\ LifeOf(mb.rows[i], at)
    BY RowsOfGood
  <2>2. CASE i \notin Batch(mb, r, at)
    BY <2>1, <2>2
  <2>3. CASE i \in Batch(mb, r, at) /\ Spent(mb, i)
    <3>1. mb.rows[i].attempts = MaxAttempts
      BY <2>1, <2>3, LimitsAssumption DEF Spent, LifeOf, Row
    <3>2. Kill(mb.rows[i], "attempts") \in Row /\ LifeOf(Kill(mb.rows[i], "attempts"), at)
      BY <2>1, <3>1, KillRow DEF Reasons
    <3>3. rows[i] = Kill(mb.rows[i], "attempts")
      BY <2>3
    <3> QED
      BY <2>1, <3>2, <3>3 DEF Kill, Row
  <2>4. CASE i \in Batch(mb, r, at) /\ ~Spent(mb, i)
    <3>1. mb.rows[i].state # "dead" /\ mb.rows[i].attempts < MaxAttempts
      BY <2>1, <2>4, LimitsAssumption DEF Batch, Due, Spent, Row
    <3>2. Hand(mb.rows[i], at) \in Row /\ LifeOf(Hand(mb.rows[i], at), at)
      BY <2>1, <3>1, HandRow
    <3>3. rows[i] = Hand(mb.rows[i], at)
      BY <2>4
    <3> QED
      BY <2>1, <3>2, <3>3 DEF Hand, Row
  <2> QED
    BY <2>2, <2>3, <2>4
<1>2. Lease(mb, r, at) = [mb EXCEPT !.rows = rows]
  BY DEF Lease
<1>3. DOMAIN rows = Ids(mb) /\ rows = [i \in DOMAIN rows |-> rows[i]]
  OBVIOUS
<1> HIDE DEF rows
<1> QED
  BY <1>1, <1>2, <1>3, RewriteKeepsGood

LEMMA AckKeepsGood ==
  ASSUME NEW mb, NEW at, Good(mb, at), NEW ids
  PROVE  Good(Ack(mb, ids), at)
<1> DEFINE rows == [i \in Ids(mb) \ Acked(mb, ids) |-> mb.rows[i]]
<1>1. Ack(mb, ids) = [mb EXCEPT !.rows = rows]
  BY DEF Ack, Without
<1>2. \A i \in DOMAIN rows : rows[i] = mb.rows[i] /\ rows[i] \in Row /\ LifeOf(rows[i], at)
  BY RowsOfGood
<1>3. DOMAIN rows \subseteq Ids(mb) /\ rows = [i \in DOMAIN rows |-> rows[i]]
  OBVIOUS
<1> HIDE DEF rows
<1> QED
  BY <1>1, <1>2, <1>3, RewriteKeepsGood

LEMMA ReleaseKeepsGood ==
  ASSUME NEW mb, NEW at, Good(mb, at), NEW ids
  PROVE  Good(Release(mb, ids), at)
<1> DEFINE rows == [i \in Ids(mb) |->
              IF i \in ids /\ mb.rows[i].state = "delivering"
              THEN Requeue(mb.rows[i]) ELSE mb.rows[i]]
<1>1. Release(mb, ids) = [mb EXCEPT !.rows = rows]
  BY DEF Release
<1>2. ASSUME NEW i \in Ids(mb)
      PROVE  /\ rows[i] \in Row
             /\ LifeOf(rows[i], at)
             /\ rows[i].room = mb.rows[i].room /\ rows[i].seq = mb.rows[i].seq
             /\ rows[i].kind = mb.rows[i].kind /\ rows[i].msg = mb.rows[i].msg
  <2>1. mb.rows[i] \in Row /\ LifeOf(mb.rows[i], at)
    BY RowsOfGood
  <2>2. CASE i \in ids /\ mb.rows[i].state = "delivering"
    <3>1. rows[i] = Requeue(mb.rows[i])
      BY <2>2
    <3>2. rows[i] \in Row /\ LifeOf(rows[i], at)
      BY <2>1, <2>2, <3>1, RequeueRow
    <3> QED
      BY <2>1, <3>1, <3>2 DEF Requeue, Row
  <2> QED
    BY <2>1, <2>2
<1>3. DOMAIN rows = Ids(mb) /\ rows = [i \in DOMAIN rows |-> rows[i]]
  OBVIOUS
<1> HIDE DEF rows
<1> QED
  BY <1>1, <1>2, <1>3, RewriteKeepsGood

LEMMA ReviveKeepsGood ==
  ASSUME NEW mb, NEW at, Good(mb, at), NEW k \in Ids(mb)
  PROVE  Good(Revive(mb, k), at)
<1> DEFINE fresh == [mb.rows[k] EXCEPT !.state = "queued", !.attempts = 0,
                                       !.reason = "none", !.lease = 0]
           rows == [mb.rows EXCEPT ![k] = fresh]
<1>1. Revive(mb, k) = [mb EXCEPT !.rows = rows]
  BY DEF Revive, Good, IsMailbox
<1>2. mb.rows[k] \in Row
  BY RowsOfGood
<1>3. /\ fresh \in Row
      /\ fresh.attempts = 0 /\ fresh.state = "queued"
      /\ fresh.reason = "none" /\ fresh.lease = 0
      /\ fresh.room = mb.rows[k].room /\ fresh.seq = mb.rows[k].seq
      /\ fresh.kind = mb.rows[k].kind /\ fresh.msg = mb.rows[k].msg
  BY <1>2 DEF Row, States, Reasons
<1> HIDE DEF fresh
<1>3a. LifeOf(fresh, at)
  BY <1>3, LimitsAssumption DEF LifeOf
<1>4. DOMAIN rows = Ids(mb) /\ rows = [i \in DOMAIN rows |-> rows[i]]
  BY DEF Good, IsMailbox, Ids
<1>5. \A i \in Ids(mb) : rows[i] = IF i = k THEN fresh ELSE mb.rows[i]
  BY DEF Ids
<1> HIDE DEF rows
<1>6. \A i \in Ids(mb) : mb.rows[i] \in Row /\ LifeOf(mb.rows[i], at)
  BY RowsOfGood
<1>7. \A i \in DOMAIN rows :
        /\ rows[i] \in Row
        /\ LifeOf(rows[i], at)
        /\ rows[i].room = mb.rows[i].room
        /\ rows[i].seq = mb.rows[i].seq
        /\ rows[i].kind = mb.rows[i].kind
        /\ rows[i].msg = mb.rows[i].msg
  BY <1>3, <1>3a, <1>4, <1>5, <1>6
<1> QED
  BY <1>1, <1>4, <1>7, RewriteKeepsGood

LEMMA UpgradeKeepsGood ==
  ASSUME NEW mb, NEW at, Good(mb, at), NEW msg, NEW st \in Statuses
  PROVE  Good(UpgradeStatus(mb, msg, st), at)
<1> DEFINE rows == [i \in Ids(mb) |->
              IF i \in Upgradable(mb, msg, st)
              THEN [Requeue(mb.rows[i]) EXCEPT !.status = st] ELSE mb.rows[i]]
<1>1. UpgradeStatus(mb, msg, st) = [mb EXCEPT !.rows = rows]
  BY DEF UpgradeStatus
<1>2. ASSUME NEW i \in Ids(mb)
      PROVE  /\ rows[i] \in Row
             /\ LifeOf(rows[i], at)
             /\ rows[i].room = mb.rows[i].room /\ rows[i].seq = mb.rows[i].seq
             /\ rows[i].kind = mb.rows[i].kind /\ rows[i].msg = mb.rows[i].msg
  <2>1. mb.rows[i] \in Row /\ LifeOf(mb.rows[i], at)
    BY RowsOfGood
  <2>2. CASE i \in Upgradable(mb, msg, st)
    <3>1. rows[i] = [Requeue(mb.rows[i]) EXCEPT !.status = st]
      BY <2>2
    <3>2. mb.rows[i].state # "dead"
      BY <2>2 DEF Upgradable, Live
    <3>3. Requeue(mb.rows[i]) \in Row /\ LifeOf(Requeue(mb.rows[i]), at)
      BY <2>1, <3>2, RequeueRow
    <3>4. rows[i] \in Row /\ LifeOf(rows[i], at)
      BY <3>1, <3>3 DEF Row, LifeOf
    <3> QED
      BY <2>1, <3>1, <3>4 DEF Requeue, Row
  <2> QED
    BY <2>1, <2>2
<1>3. DOMAIN rows = Ids(mb) /\ rows = [i \in DOMAIN rows |-> rows[i]]
  OBVIOUS
<1> HIDE DEF rows
<1> QED
  BY <1>1, <1>2, <1>3, RewriteKeepsGood

LEMMA SweepKeepsGood ==
  ASSUME NEW mb, NEW at, Good(mb, at)
  PROVE  Good(Sweep(mb, at), at)
<1> DEFINE rows == [i \in Ids(mb) \ Purged(mb, at) |->
              IF i \in Expired(mb, at) THEN Kill(mb.rows[i], "expired") ELSE mb.rows[i]]
<1>1. Sweep(mb, at) = [mb EXCEPT !.rows = rows]
  BY DEF Sweep
<1>2. DOMAIN rows \subseteq Ids(mb) /\ rows = [i \in DOMAIN rows |-> rows[i]]
  OBVIOUS
<1>3. ASSUME NEW i \in DOMAIN rows
      PROVE  /\ rows[i] \in Row
             /\ LifeOf(rows[i], at)
             /\ rows[i].room = mb.rows[i].room /\ rows[i].seq = mb.rows[i].seq
             /\ rows[i].kind = mb.rows[i].kind /\ rows[i].msg = mb.rows[i].msg
  <2>1. mb.rows[i] \in Row /\ LifeOf(mb.rows[i], at)
    BY <1>2, RowsOfGood
  <2>2. CASE i \in Expired(mb, at)
    <3>1. rows[i] = Kill(mb.rows[i], "expired")
      BY <2>2
    <3>2. rows[i] \in Row /\ LifeOf(rows[i], at)
      BY <2>1, <3>1, KillRow DEF Reasons
    <3> QED
      BY <2>1, <3>1, <3>2 DEF Kill, Row
  <2> QED
    BY <2>1, <2>2
<1> HIDE DEF rows
<1> QED
  BY <1>1, <1>2, <1>3, RewriteKeepsGood

LEMMA EmptyIsGood ==
  ASSUME NEW at, NEW n \in Nat
  PROVE  Good([EmptyMailbox EXCEPT !.ids = n], at)
BY DEF EmptyMailbox, Good, IsMailbox, Unique, InOrder, Ids

LEMMA TimeKeepsGood ==
  ASSUME NEW mb, NEW at \in Nat, Good(mb, at)
  PROVE  Good(mb, at + 1)
<1>1. ASSUME NEW i \in Ids(mb)
      PROVE  LifeOf(mb.rows[i], at + 1)
  <2>1. mb.rows[i] \in Row /\ LifeOf(mb.rows[i], at)
    BY RowsOfGood
  <2> QED
    BY <2>1, LimitsAssumption DEF LifeOf, Row
<1> QED
  BY <1>1 DEF Good
----------------------------------------------------------------------------
(* What becomes of the rows.  They stay about the same message between the *)
(* same people, and only lease() hands one out.                            *)

SameItem(row, old) ==
  row.kind = old.kind /\ row.msg = old.msg /\ row.from = old.from /\ row.room = old.room
SameLease(row, old) ==
  row.state = "delivering" => old.state = "delivering" /\ row.lease = old.lease

(* nb has rows of mb only, each as far as it was.                          *)
Thinned(nb, mb) ==
  /\ Ids(nb) \subseteq Ids(mb)
  /\ \A i \in Ids(nb) : SameItem(nb.rows[i], mb.rows[i]) /\ SameLease(nb.rows[i], mb.rows[i])

LEMMA AckThins ==
  ASSUME NEW mb, NEW at, Good(mb, at), NEW ids
  PROVE  /\ Thinned(Ack(mb, ids), mb)
         /\ \A i \in ids : i \in Ids(Ack(mb, ids)) => mb.rows[i].state = "dead"
<1>1. mb = [rows |-> mb.rows, seq |-> mb.seq, ids |-> mb.ids]
  BY DEF Good, IsMailbox
<1>2. Ack(mb, ids).rows = [i \in Ids(mb) \ Acked(mb, ids) |-> mb.rows[i]]
  BY <1>1 DEF Ack, Without
<1> QED
  BY <1>2 DEF Thinned, SameItem, SameLease, Ids, Acked, Live

LEMMA ReleaseThins ==
  ASSUME NEW mb, NEW at, Good(mb, at), NEW ids
  PROVE  /\ Thinned(Release(mb, ids), mb)
         /\ \A i \in Ids(mb) \cap ids : Release(mb, ids).rows[i].state # "delivering"
<1>1. mb = [rows |-> mb.rows, seq |-> mb.seq, ids |-> mb.ids]
  BY DEF Good, IsMailbox
<1>2. Release(mb, ids).rows =
        [i \in Ids(mb) |->
           IF i \in ids /\ mb.rows[i].state = "delivering"
           THEN Requeue(mb.rows[i]) ELSE mb.rows[i]]
  BY <1>1 DEF Release
<1>3. ASSUME NEW row \in Row
      PROVE  SameItem(Requeue(row), row) /\ Requeue(row).state = "queued"
  BY DEF Requeue, Row, SameItem
<1>4. \A i \in Ids(mb) : mb.rows[i] \in Row
  BY RowsOfGood
<1> QED
  BY <1>2, <1>3, <1>4 DEF Thinned, SameItem, SameLease, Ids

LEMMA UpgradeThins ==
  ASSUME NEW mb, NEW at, Good(mb, at), NEW msg, NEW st
  PROVE  Thinned(UpgradeStatus(mb, msg, st), mb)
<1>1. mb = [rows |-> mb.rows, seq |-> mb.seq, ids |-> mb.ids]
  BY DEF Good, IsMailbox
<1>2. UpgradeStatus(mb, msg, st).rows =
        [i \in Ids(mb) |->
           IF i \in Upgradable(mb, msg, st)
           THEN [Requeue(mb.rows[i]) EXCEPT !.status = st] ELSE mb.rows[i]]
  BY <1>1 DEF UpgradeStatus
<1>3. ASSUME NEW row \in Row
      PROVE  /\ SameItem([Requeue(row) EXCEPT !.status = st], row)
             /\ [Requeue(row) EXCEPT !.status = st].state = "queued"
  BY DEF Requeue, Row, SameItem
<1>4. \A i \in Ids(mb) : mb.rows[i] \in Row
  BY RowsOfGood
<1> QED
  BY <1>2, <1>3, <1>4 DEF Thinned, SameItem, SameLease, Ids

LEMMA SweepThins ==
  ASSUME NEW mb, NEW at, Good(mb, at)
  PROVE  Thinned(Sweep(mb, at), mb)
<1>1. mb = [rows |-> mb.rows, seq |-> mb.seq, ids |-> mb.ids]
  BY DEF Good, IsMailbox
<1>2. Sweep(mb, at).rows =
        [i \in Ids(mb) \ Purged(mb, at) |->
           IF i \in Expired(mb, at) THEN Kill(mb.rows[i], "expired") ELSE mb.rows[i]]
  BY <1>1 DEF Sweep
<1>3. ASSUME NEW row \in Row
      PROVE  SameItem(Kill(row, "expired"), row) /\ Kill(row, "expired").state = "dead"
  BY DEF Kill, Row, SameItem
<1>4. \A i \in Ids(mb) : mb.rows[i] \in Row
  BY RowsOfGood
<1> QED
  BY <1>2, <1>3, <1>4 DEF Thinned, SameItem, SameLease, Ids

LEMMA PurgeThins ==
  ASSUME NEW mb
  PROVE  Ids(Purge(mb)) = {} /\ Thinned(Purge(mb), mb)
BY DEF Purge, EmptyMailbox, Thinned, Ids

(* lease(): a row that is handed out afterwards was so before, or is one   *)
(* of those handed to whoever asked.                                       *)
LEMMA LeaseItems ==
  ASSUME NEW mb, NEW at \in Nat, Good(mb, at), NEW r \in Rooms
  PROVE  /\ Ids(Lease(mb, r, at)) = Ids(mb)
         /\ \A i \in Ids(mb) :
              /\ SameItem(Lease(mb, r, at).rows[i], mb.rows[i])
              /\ \/ i \in Handed(mb, r, at) /\ mb.rows[i].room = r
                 \/ SameLease(Lease(mb, r, at).rows[i], mb.rows[i])
<1>1. mb = [rows |-> mb.rows, seq |-> mb.seq, ids |-> mb.ids]
  BY DEF Good, IsMailbox
<1>2. Lease(mb, r, at).rows =
        [i \in Ids(mb) |->
           IF i \notin Batch(mb, r, at) THEN mb.rows[i]
           ELSE IF Spent(mb, i) THEN Kill(mb.rows[i], "attempts")
           ELSE Hand(mb.rows[i], at)]
  BY <1>1 DEF Lease
<1>3. ASSUME NEW row \in Row
      PROVE  /\ SameItem(Kill(row, "attempts"), row) /\ Kill(row, "attempts").state = "dead"
             /\ SameItem(Hand(row, at), row)
  BY DEF Kill, Hand, Row, SameItem
<1>4. \A i \in Ids(mb) : mb.rows[i] \in Row
  BY RowsOfGood
<1>5. \A i \in Batch(mb, r, at) : mb.rows[i].room = r
  BY DEF Batch, Due
<1> QED
  BY <1>2, <1>3, <1>4, <1>5 DEF SameItem, SameLease, Ids, Handed

(* enqueue(): a new row waits, and is what was put in.                     *)
LEMMA EnqueueItems ==
  ASSUME NEW mb, NEW in \in Input, NEW at,
         NEW i \in Ids(Enqueue(mb, in, at))
  PROVE  \/ i \in Ids(mb) /\ Enqueue(mb, in, at).rows[i] = mb.rows[i]
         \/ /\ SameItem(Enqueue(mb, in, at).rows[i], in)
            /\ Enqueue(mb, in, at).rows[i].state = "queued"
BY DEF Enqueue, Ids, NewRow, SameItem
=============================================================================
