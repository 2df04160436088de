------------------------------ MODULE Mailbox ------------------------------
(***************************************************************************)
(* The rows one account owns in the mail_queue table                       *)
(* (server/accounts/mailqueue.ts), and what every operation of the class   *)
(* MailQueue does to them.  These are operators on a value: MailQueue.tla  *)
(* makes a state machine of them, AwayRelay.tla calls them from the        *)
(* handlers of the signaling hub, as relay.ts does.                        *)
(*                                                                         *)
(* A mailbox is [rows, seq, ids]: the rows by id, the last sequence number *)
(* given per room (table mail_queue_seq; 0 stands for no row), and how     *)
(* many ids were ever drawn.  The code draws ids at random; here they are  *)
(* 1, 2, 3..., which keeps what matters, that an id is never used twice.   *)
(***************************************************************************)
EXTENDS Naturals, FiniteSets, FiniteSetsExt

CONSTANTS
  Rooms,              \* rooms
  Messages,           \* message ids, chosen by the sending client
  Senders,            \* who an item may come from (MailFrom)
  SenderKey,          \* what the per-sender quota counts a sender by (sender_key)
  MaxItemsPerAccount, \* QUEUE_LIMITS.maxItemsPerAccount
  MaxBytesPerAccount, \* QUEUE_LIMITS.maxBytesPerAccount
  MaxItemBytes,       \* QUEUE_LIMITS.maxItemBytes
  MaxItemsPerSender,  \* QUEUE_LIMITS.maxItemsPerSender
  MaxAttempts,        \* QUEUE_LIMITS.maxAttempts
  LeaseLimit,         \* the most rows one lease() takes (relay.ts passes 500)
  LeaseTime,          \* QUEUE_LIMITS.leaseMs
  Ttl,                \* queueTtlMs()
  DeadRetention       \* QUEUE_LIMITS.deadRetentionMs

ASSUME LimitsAssumption ==
  /\ MaxItemsPerAccount \in Nat /\ MaxBytesPerAccount \in Nat
  /\ MaxItemBytes \in Nat /\ MaxItemsPerSender \in Nat
  /\ MaxAttempts \in Nat \ {0} /\ LeaseLimit \in Nat \ {0}
  /\ LeaseTime \in Nat \ {0} /\ Ttl \in Nat \ {0} /\ DeadRetention \in Nat

Kinds    == {"message", "status"}
States   == {"queued", "delivering", "dead"}
Statuses == {"none", "delivered", "read"}
Reasons  == {"none", "attempts", "expired"}

(* What enqueue() is called with; expires = 0 stands for "no deadline of   *)
(* its own".                                                               *)
Input == [room: Rooms, kind: Kinds, msg: Messages, from: Senders,
          status: Statuses, expires: Nat, bytes: Nat]

Row == [room: Rooms, seq: Nat, kind: Kinds, msg: Messages, from: Senders,
        status: Statuses, state: States, attempts: Nat, stored: Nat,
        lease: Nat, expires: Nat, bytes: Nat, reason: Reasons]

EmptyMailbox == [rows |-> [i \in {} |-> {}], seq |-> [r \in Rooms |-> 0], ids |-> 0]

IsMailbox(mb) ==
  /\ mb = [rows |-> mb.rows, seq |-> mb.seq, ids |-> mb.ids]
  /\ mb.ids \in Nat
  /\ mb.seq \in [Rooms -> Nat]
  /\ DOMAIN mb.rows \subseteq 1 .. mb.ids
  /\ mb.rows \in [DOMAIN mb.rows -> Row]

----------------------------------------------------------------------------
(* Queries.                                                                *)

Ids(mb)  == DOMAIN mb.rows
Live(mb) == {i \in Ids(mb) : mb.rows[i].state # "dead"}
BytesOf(mb, S) == MapThenSumSet(LAMBDA i : mb.rows[i].bytes, S)

(* Rows for the same (kind, message): the UNIQUE index mail_queue_dedupe.  *)
(* Dead rows count.                                                        *)
Same(mb, kind, msg) ==
  {i \in Ids(mb) : mb.rows[i].kind = kind /\ mb.rows[i].msg = msg}

----------------------------------------------------------------------------
(* enqueue().  The size is judged first, then the duplicate, then the      *)
(* quotas; the sender quota is for messages only.                          *)

TooLarge(in)  == in.bytes > MaxItemBytes
\* Variant: dead rows are forgotten when looking for a duplicate.
KnownIfLive(mb, in) == Same(mb, in.kind, in.msg) \cap Live(mb) # {}
Known(mb, in) == Same(mb, in.kind, in.msg) # {}
\* Variant: the bytes are compared before the new row is added.
OverQuotaByStored(mb, in) ==
  \/ Cardinality(Live(mb)) >= MaxItemsPerAccount
  \/ BytesOf(mb, Live(mb)) >= MaxBytesPerAccount
OverQuota(mb, in) ==
  \/ Cardinality(Live(mb)) >= MaxItemsPerAccount
  \/ BytesOf(mb, Live(mb)) + in.bytes > MaxBytesPerAccount
OverSenderQuota(mb, in) ==
  /\ in.kind = "message"
  /\ Cardinality({i \in Live(mb) : SenderKey[mb.rows[i].from] = SenderKey[in.from]})
       >= MaxItemsPerSender

Accepts(mb, in) ==
  /\ ~TooLarge(in)
  /\ ~Known(mb, in)
  /\ ~OverQuota(mb, in)
  /\ ~OverSenderQuota(mb, in)

(* The caller is told { ok: true, duplicate: true }.                       *)
IsDuplicate(mb, in) == ~TooLarge(in) /\ Known(mb, in)

(* The message's own deadline when it has one in the future, never past    *)
(* the retention window.                                                   *)
DeadlineOf(in, at) ==
  IF in.expires > at /\ in.expires < at + Ttl THEN in.expires ELSE at + Ttl

\* Variant: numbered by how many rows of the room wait instead of a counter.
SeqByCount(mb, r) == Cardinality({i \in Live(mb) : mb.rows[i].room = r}) + 1
NextSeq(mb, r) == mb.seq[r] + 1

NewRow(mb, in, at) ==
  [room |-> in.room, seq |-> NextSeq(mb, in.room), kind |-> in.kind,
   msg |-> in.msg, from |-> in.from, status |-> in.status,
   state |-> "queued", attempts |-> 0, stored |-> at, lease |-> 0,
   expires |-> DeadlineOf(in, at), bytes |-> in.bytes, reason |-> "none"]

Enqueue(mb, in, at) ==
  IF Accepts(mb, in)
  THEN [rows |-> [i \in Ids(mb) \cup {mb.ids + 1} |->
                    IF i = mb.ids + 1 THEN NewRow(mb, in, at) ELSE mb.rows[i]],
        seq  |-> [mb.seq EXCEPT ![in.room] = NextSeq(mb, in.room)],
        ids  |-> mb.ids + 1]
  ELSE mb

----------------------------------------------------------------------------
(* lease(): due rows of a room, in order of their sequence numbers and at  *)
(* most LeaseLimit of them.  One at its attempt budget is killed (it still *)
(* counts toward the limit), the others are handed out.                    *)

\* Variant: rows under a lease that ran out are left out.
DueQueued(mb, r, at) ==
  {i \in Ids(mb) : /\ mb.rows[i].room = r /\ mb.rows[i].state = "queued"
                   /\ mb.rows[i].expires > at}
Due(mb, r, at) ==
  {i \in Ids(mb) :
     /\ mb.rows[i].room = r
     /\ \/ mb.rows[i].state = "queued"
        \/ mb.rows[i].state = "delivering" /\ mb.rows[i].lease <= at
     /\ mb.rows[i].expires > at}

\* Variant: the newest rows first.
BatchNewest(mb, r, at) ==
  {i \in Due(mb, r, at) :
     Cardinality({j \in Due(mb, r, at) : mb.rows[j].seq > mb.rows[i].seq}) < LeaseLimit}
Batch(mb, r, at) ==
  {i \in Due(mb, r, at) :
     Cardinality({j \in Due(mb, r, at) : mb.rows[j].seq < mb.rows[i].seq}) < LeaseLimit}

\* Variant: one attempt too many.
SpentLate(mb, i) == mb.rows[i].attempts > MaxAttempts
Spent(mb, i)      == mb.rows[i].attempts >= MaxAttempts
Handed(mb, r, at) == {i \in Batch(mb, r, at) : ~Spent(mb, i)}

Kill(row, why) == [row EXCEPT !.state = "dead", !.reason = why, !.lease = 0]
Hand(row, at)  == [row EXCEPT !.state = "delivering", !.attempts = @ + 1,
                              !.lease = at + LeaseTime]

Lease(mb, r, at) ==
  [mb EXCEPT !.rows =
     [i \in Ids(mb) |->
        IF i \notin Batch(mb, r, at) THEN mb.rows[i]
        ELSE IF Spent(mb, i) THEN Kill(mb.rows[i], "attempts")
        ELSE Hand(mb.rows[i], at)]]

----------------------------------------------------------------------------
(* ack(): any row of the account that is not dead, handed out or not.      *)
\* Variant: dead rows can be acknowledged.
AckedAny(mb, ids) == ids \cap Ids(mb)
Acked(mb, ids) == ids \cap Live(mb)
Without(mb, S) == [mb EXCEPT !.rows = [i \in Ids(mb) \ S |-> mb.rows[i]]]
Ack(mb, ids)   == Without(mb, Acked(mb, ids))

(* release(): by account and id; whoever holds the lease now loses it too. *)
Requeue(row) == [row EXCEPT !.state = "queued", !.lease = 0]
Release(mb, ids) ==
  [mb EXCEPT !.rows =
     [i \in Ids(mb) |->
        IF i \in ids /\ mb.rows[i].state = "delivering"
        THEN Requeue(mb.rows[i]) ELSE mb.rows[i]]]

(* revive(): a dead row starts over.  Neither its deadline nor the quotas  *)
(* are looked at.                                                          *)
Revive(mb, i) ==
  [mb EXCEPT !.rows[i] =
     [@ EXCEPT !.state = "queued", !.attempts = 0, !.reason = "none", !.lease = 0]]

(* upgradeStatus(): a waiting status row rises to a later state and is due *)
(* again at once.                                                          *)
Upgradable(mb, msg, st) ==
  {i \in Same(mb, "status", msg) \cap Live(mb) : mb.rows[i].status \notin {"read", st}}
UpgradeStatus(mb, msg, st) ==
  [mb EXCEPT !.rows =
     [i \in Ids(mb) |->
        IF i \in Upgradable(mb, msg, st)
        THEN [Requeue(mb.rows[i]) EXCEPT !.status = st] ELSE mb.rows[i]]]

(* sweep(): rows past their deadline die, then dead rows (those just killed *)
(* among them) stored longer ago than the retention are deleted.            *)
\* Variant: rows that are handed out do not expire.
ExpiredQueued(mb, at) ==
  {i \in Live(mb) : mb.rows[i].state = "queued" /\ mb.rows[i].expires <= at}
Expired(mb, at) == {i \in Live(mb) : mb.rows[i].expires <= at}
Purged(mb, at) ==
  {i \in (Ids(mb) \ Live(mb)) \cup Expired(mb, at) :
     mb.rows[i].stored + DeadRetention < at}
Sweep(mb, at) ==
  [mb EXCEPT !.rows =
     [i \in Ids(mb) \ Purged(mb, at) |->
        IF i \in Expired(mb, at) THEN Kill(mb.rows[i], "expired") ELSE mb.rows[i]]]

(* purgeAccount(): the rows and the sequence numbers; ids are not reused.  *)
Purge(mb) == [EmptyMailbox EXCEPT !.ids = mb.ids]

----------------------------------------------------------------------------
(* What every operation keeps, of one mailbox; MailQueue.tla states it of  *)
(* all of them and says where it comes from.                               *)

(* No second row of the same kind for the same message.                    *)
Unique(mb) ==
  \A i, j \in Ids(mb) :
    mb.rows[i].kind = mb.rows[j].kind /\ mb.rows[i].msg = mb.rows[j].msg => i = j

(* Sequence numbers follow the order of storing, none ahead of the counter. *)
InOrder(mb) ==
  \A i \in Ids(mb) :
    /\ mb.rows[i].seq \in 1 .. mb.seq[mb.rows[i].room]
    /\ \A j \in Ids(mb) :
         i < j /\ mb.rows[j].room = mb.rows[i].room => mb.rows[i].seq < mb.rows[j].seq

(* Lease, attempts and reason agree with the state of the row.             *)
LifeOf(row, at) ==
  /\ row.attempts <= MaxAttempts
  /\ row.state = "delivering" => row.attempts > 0 /\ row.lease <= at + LeaseTime
  /\ row.state # "delivering" => row.lease = 0
  /\ (row.state = "dead") <=> (row.reason # "none")
  /\ row.reason = "attempts" => row.attempts = MaxAttempts
=============================================================================
