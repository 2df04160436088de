----------------------------- MODULE MailQueue -----------------------------
(***************************************************************************)
(* The offline message queue of server/accounts/mailqueue.ts as a state    *)
(* machine: the mailboxes of all accounts and the clock.  Every call of    *)
(* the class runs in one SQLite transaction on one thread, so each is one  *)
(* action; the callers (sockets, the operator, the ten minute sweep) may   *)
(* call in any order with any arguments.                                   *)
(***************************************************************************)
EXTENDS Mailbox

CONSTANTS
  Accounts,   \* accounts that own mailboxes
  Deadlines,  \* lifetimes a sender may ask for (0: none of its own)
  Sizes,      \* sizes of stored items
  MaxRows,    \* bound: rows ever stored per account
  MaxTime     \* bound: the clock stops here

ASSUME InputsAssumption ==
  /\ Deadlines \subseteq Nat /\ Sizes \subseteq Nat
  /\ MaxRows \in Nat /\ MaxTime \in Nat

VARIABLES
  box,    \* account -> mailbox
  now,    \* the clock the queue reads
  acked   \* what the last call acknowledged: ack()'s result, for the relay

vars == <<box, now, acked>>

KeyOf(a, i) == <<a, box[a].rows[i].kind, box[a].rows[i].msg>>
KeysOf(a, S) == {KeyOf(a, i) : i \in S}

TypeOK ==
  /\ now \in Nat
  /\ box \in [Accounts -> {box[a] : a \in Accounts}]
  /\ \A a \in Accounts : IsMailbox(box[a])
  /\ acked \subseteq Accounts \X Kinds \X Messages

Init ==
  /\ box = [a \in Accounts |-> EmptyMailbox]
  /\ now = 0
  /\ acked = {}

Returns(a, mb, keys) ==
  /\ box' = [box EXCEPT ![a] = mb]
  /\ acked' = keys
  /\ UNCHANGED now
Calls(a, mb) == Returns(a, mb, {})

(* Messages carry no receipt state, receipts always do (relay.ts).         *)
Offered ==
  {in \in [room: Rooms, kind: Kinds, msg: Messages, from: Senders,
           status: Statuses, expires: {0} \cup {now + d : d \in Deadlines},
           bytes: Sizes] :
     (in.kind = "message") <=> (in.status = "none")}

(* Arrivals stop when what they store could no longer expire before the    *)
(* clock stops.                                                            *)
EnqueueItem(a, in) ==
  /\ box[a].ids < MaxRows /\ now + Ttl <= MaxTime
  /\ Accepts(box[a], in)
  /\ Calls(a, Enqueue(box[a], in, now))

LeaseRoom(a, r) ==
  /\ Batch(box[a], r, now) # {}
  /\ Calls(a, Lease(box[a], r, now))

\* Variant: the rows that are not handed out right now go without being told.
AckItemsHanded(a, ids) ==
  /\ Acked(box[a], ids) # {}
  /\ Returns(a, Ack(box[a], ids),
             KeysOf(a, {i \in Acked(box[a], ids) : box[a].rows[i].state = "delivering"}))

AckItems(a, ids) ==
  /\ Acked(box[a], ids) # {}
  /\ Returns(a, Ack(box[a], ids), KeysOf(a, Acked(box[a], ids)))

ReleaseItems(a, ids) ==
  /\ \E i \in ids \cap Ids(box[a]) : box[a].rows[i].state = "delivering"
  /\ Calls(a, Release(box[a], ids))

ReviveItem(a, i) ==
  /\ i \in Ids(box[a]) \ Live(box[a])
  /\ Calls(a, Revive(box[a], i))

UpgradeStatusOf(a, msg, st) ==
  /\ Upgradable(box[a], msg, st) # {}
  /\ Calls(a, UpgradeStatus(box[a], msg, st))

PurgeAccount(a) ==
  /\ Ids(box[a]) # {}
  /\ Calls(a, Purge(box[a]))

(* The sweep goes over the whole table.                                    *)
SweepAll ==
  /\ \E a \in Accounts : Expired(box[a], now) \cup Purged(box[a], now) # {}
  /\ box' = [a \in Accounts |-> Sweep(box[a], now)]
  /\ acked' = {}
  /\ UNCHANGED now

Tick ==
  /\ now < MaxTime
  /\ now' = now + 1
  /\ acked' = {}
  /\ UNCHANGED box

Next ==
  \/ \E a \in Accounts :
       \/ \E in \in Offered : EnqueueItem(a, in)
       \/ \E r \in Rooms : LeaseRoom(a, r)
       \/ \E ids \in SUBSET Ids(box[a]) : AckItems(a, ids)
       \/ \E ids \in SUBSET Ids(box[a]) : ReleaseItems(a, ids)
       \/ \E i \in Ids(box[a]) : ReviveItem(a, i)
       \/ \E msg \in Messages, st \in {"delivered", "read"} : UpgradeStatusOf(a, msg, st)
       \/ PurgeAccount(a)
  \/ SweepAll
  \/ Tick

Spec == Init /\ [][Next]_vars

(* Time passes and the timer of server/routes.ts keeps sweeping.           *)
FairSpec == Spec /\ WF_vars(Tick) /\ WF_vars(SweepAll)

----------------------------------------------------------------------------
(* Properties.                                                             *)

(* "Deduplicated": of one account there is never a second row of the same  *)
(* kind for the same message, whatever died, was revived or was stored     *)
(* again in between (mailqueue.ts:9-11, enqueue's lookup).                 *)
Deduplicated == \A a \in Accounts : Unique(box[a])

(* "Ordered": in a room the sequence numbers follow the order of storing   *)
(* and none is ahead of the room's counter, so no two rows of a room share *)
(* a place; also after deletions and after purgeAccount, which restarts    *)
(* the counters (mailqueue.ts:7-8).                                        *)
Ordered == \A a \in Accounts : InOrder(box[a])

(* A row's lease, attempts and reason agree with its state along every     *)
(* path of lease, release, upgrade, death and revival: only a row handed   *)
(* out at least once is under a lease, no row is handed out more often     *)
(* than the budget, and a row is given up for its attempts only after the  *)
(* whole budget was spent (mailqueue.ts:12-15 and 20-22).                  *)
RowLife == \A a \in Accounts : \A i \in Ids(box[a]) : LifeOf(box[a].rows[i], now)

(* "Handed over in that order": a step that hands out a row leaves no due  *)
(* row of the same room with a smaller number behind; it is handed out in  *)
(* the same step or given up (lease, also when LeaseLimit cuts the batch). *)
HandedInOrder ==
  [][\A a \in Accounts : \A i, j \in Ids(box[a]) \cap Ids(box'[a]) :
       /\ box'[a].rows[j].attempts > box[a].rows[j].attempts
       /\ i \in Due(box[a], box[a].rows[j].room, now)
       /\ box[a].rows[i].seq < box[a].rows[j].seq
       => box'[a].rows[i].state \in {"delivering", "dead"}
            /\ (box'[a].rows[i].state = "delivering" =>
                  box'[a].rows[i].attempts > box[a].rows[i].attempts)]_vars

(* "Only an acknowledgement removes it": a row that is neither dead nor    *)
(* past its deadline leaves the table only by an acknowledgement of its    *)
(* account or with the account, never by a sweep, a lease or a release     *)
(* (mailqueue.ts:12-15).                                                   *)
NothingVanishes ==
  [][\A a \in Accounts : \A i \in Live(box[a]) \ Ids(box'[a]) :
       \/ box[a].rows[i].expires <= now
       \/ KeyOf(a, i) \in acked'
       \/ PurgeAccount(a)]_vars

(* "Bounded": a mailbox, and one sender's messages in it, grow past their  *)
(* quotas only by the operator's revive, which looks at neither            *)
(* (mailqueue.ts:16-17; enqueue and revive).                               *)
Crowded(mb) ==
  \/ Cardinality(Live(mb)) > MaxItemsPerAccount
  \/ BytesOf(mb, Live(mb)) > MaxBytesPerAccount
  \/ \E s \in Senders :
       Cardinality({i \in Live(mb) : /\ SenderKey[mb.rows[i].from] = SenderKey[s]
                                     /\ mb.rows[i].kind = "message"}) > MaxItemsPerSender
OnlyReviveOverfills ==
  [][\A a \in Accounts :
       Crowded(box'[a]) /\ ~Crowded(box[a]) =>
         \E i \in Ids(box[a]) : ReviveItem(a, i)]_vars

(* Every stored row settles: it is acknowledged, given up or expires, also *)
(* when nobody ever comes back for it (the deadline every row has, and the *)
(* sweep).                                                                 *)
EverythingSettles ==
  \A a \in Accounts : \A i \in 1 .. MaxRows :
    i \in Live(box[a]) ~> i \notin Live(box[a])

(* The queue implements what OfflineBox promises: an item waits while it   *)
(* has a row that is not dead.                                             *)
WaitingKeys == UNION {KeysOf(a, Live(box[a])) : a \in Accounts}
DeadKeys    == UNION {KeysOf(a, Ids(box[a]) \ Live(box[a])) : a \in Accounts}

Promise == INSTANCE OfflineBox WITH
             BoxAccounts <- Accounts, BoxKinds <- Kinds, BoxMessages <- Messages,
             waiting <- WaitingKeys, dead <- DeadKeys, settled <- acked
KeepsPromise == Promise!Spec
=============================================================================
