----------------------------- MODULE AwayRelay -----------------------------
(***************************************************************************)
(* The away relay: server/signaling/relay.ts with the handlers of the hub  *)
(* (server/signaling/hub.ts) that call it, the offline queue it fills      *)
(* (Mailbox.tla, RelayLedger.tla) and the list of away rooms the account   *)
(* store keeps for a restart (server/accounts/store.ts).                   *)
(*                                                                         *)
(* A tab is a page of somebody's browser or app: it has at most one        *)
(* connection at a time and comes back under the peer id it had (what the  *)
(* hub does about ids, held members and sessions is HubRooms.tla).  All    *)
(* handlers run to their end without yielding.  A `relay`, `relay-ack` or  *)
(* `receipt` frame that names several recipients or items is handled one   *)
(* after the other without looking at anything in between that the earlier *)
(* ones change, so it is as good as several frames that name one each.     *)
(***************************************************************************)
EXTENDS RelayLedger, Sequences, SequencesExt

CONSTANTS
  Tabs,
  Accounts,
  NoRoom, NoAccount,
  MayBe,         \* the accounts a tab has a session of
  Author,        \* the tab that writes a message
  Covers,        \* what a signed-in page may say of being covered while away
  MaxAwayRooms,  \* ACCOUNT_LIMITS.maxAwayRooms
  StoreFull,     \* whether the account store is at its limit (pruneUnused)
  CrashTimes,    \* bound: when the server may crash
  Deletable,     \* bound: the accounts that may be deleted
  MaxRows,       \* bound: rows ever stored per account
  MaxTime        \* bound: the clock stops here

ASSUME RelayAssumption ==
  /\ NoRoom \notin Rooms /\ NoAccount \notin Accounts
  /\ MayBe \in [Tabs -> SUBSET Accounts] /\ Author \in [Messages -> Tabs]
  /\ Recipients = Accounts
  /\ Senders = [peer: Tabs, acct: Accounts \cup {NoAccount}]
  /\ SenderKey = [s \in Senders |-> IF s.acct # NoAccount THEN s.acct ELSE s.peer]
  /\ Covers \subseteq BOOLEAN
  /\ MaxAwayRooms \in Nat \ {0} /\ StoreFull \in BOOLEAN
  /\ MaxRows \in Nat /\ MaxTime \in Nat /\ CrashTimes \subseteq Nat
  /\ Deletable \subseteq Accounts
  /\ MaxItemBytes >= 1     \* the size of what the hub relays, and of a receipt
  /\ LeaseLimit >= MaxRows \* bound: one lease takes all that waits in a room

VARIABLES
  tab,     \* tab -> its connection (RelayPeer)
  inbox,   \* tab -> <<account, row id, receipt>> handed to it, unacknowledged
  away,    \* room -> accounts away in it (awayByRoom)
  store,   \* account -> its away rooms in the account store, oldest first
  disk,    \* the same as last written to disk (persistSoon)
  alive,   \* accounts that exist
  box,     \* account -> mailbox
  ledger,
  relayed, \* history: what was accepted from whom to whom
  now,
  boot     \* when the server process started

vars == <<tab, inbox, away, store, disk, alive, box, ledger, relayed, now, boot>>

Closed == [on |-> FALSE, room |-> NoRoom, acct |-> NoAccount, cover |-> FALSE,
           susp |-> FALSE, leased |-> {}]
Relayed == [by: Accounts \cup {NoAccount}, to: Accounts, msg: Messages]

TypeOK ==
  /\ tab \in [Tabs -> [on: BOOLEAN, room: Rooms \cup {NoRoom},
                       acct: Accounts \cup {NoAccount}, cover: BOOLEAN,
                       susp: BOOLEAN, leased: SUBSET (Accounts \X (1 .. MaxRows))]]
  /\ inbox \in [Tabs -> SUBSET (Accounts \X (1 .. MaxRows) \X Statuses)]
  /\ away \in [Rooms -> SUBSET Accounts]
  /\ \A s \in {store, disk} : \A a \in Accounts :
       Range(s[a]) \subseteq Rooms /\ Len(s[a]) <= MaxAwayRooms /\ IsInjective(s[a])
  /\ alive \subseteq Accounts
  /\ \A a \in Accounts : IsMailbox(box[a])
  /\ \A m \in DOMAIN ledger : m \in Messages /\ ledger[m] \in Entry
  /\ relayed \subseteq Relayed
  /\ now \in 0 .. MaxTime /\ boot \in 0 .. now

Init ==
  /\ tab = [c \in Tabs |-> Closed]
  /\ inbox = [c \in Tabs |-> {}]
  /\ away = [r \in Rooms |-> {}]
  /\ store = [a \in Accounts |-> <<>>]
  /\ disk = store
  /\ alive = Accounts
  /\ box = [a \in Accounts |-> EmptyMailbox]
  /\ ledger = EmptyLedger
  /\ relayed = {}
  /\ now = 0 /\ boot = 0
----------------------------------------------------------------------------
(* Away entries.  setAway: the relay's map and the account's list, which   *)
(* keeps the newest MaxAwayRooms; the relay drops what the list dropped.   *)
(* A list names a room at most once (TypeOK), so the first is all of them. *)

Awake(t, a, r) ==
  {c \in Tabs : t[c].on /\ t[c].room = r /\ t[c].acct = a /\ ~t[c].susp}

\* Variant: the list is never cut.
Uncut(s) == s
Newest(s) == IF Len(s) > MaxAwayRooms THEN SubSeq(s, Len(s) - MaxAwayRooms + 1, Len(s)) ELSE s
Noted(a, r) == Newest(Append(RemoveFirst(store[a], r), r))

\* Variant: what the list dropped stays in the relay's map.
SetAwayOnly(a, r) ==
  /\ away' = [away EXCEPT ![r] = @ \cup {a}]
  /\ store' = [store EXCEPT ![a] = IF a \in alive /\ a \notin away[r] THEN Noted(a, r) ELSE @]

SetAway(a, r) ==
  IF a \in away[r] THEN UNCHANGED <<away, store>>
  ELSE
    /\ store' = [store EXCEPT ![a] = IF a \in alive THEN Noted(a, r) ELSE @]
    /\ away' = [x \in Rooms |->
                  IF x = r THEN away[x] \cup {a}
                  ELSE IF x \in ToSet(store[a]) \ ToSet(store'[a]) THEN away[x] \ {a}
                  ELSE away[x]]

\* Variant: coming back to one room ends it in all.
ClearAwayEverywhere(a, r) ==
  IF a \notin away[r] THEN UNCHANGED <<away, store>>
  ELSE
    /\ away' = [x \in Rooms |-> away[x] \ {a}]
    /\ store' = [store EXCEPT ![a] = <<>>]

ClearAway(a, r) ==
  IF a \notin away[r] THEN UNCHANGED <<away, store>>
  ELSE
    /\ away' = [away EXCEPT ![r] = @ \ {a}]
    /\ store' = [store EXCEPT ![a] = IF a \in alive THEN RemoveFirst(@, r) ELSE @]

----------------------------------------------------------------------------
(* Leases.  What a connection holds goes back to the queue when it ends,   *)
(* leaves the room or changes its account.                                 *)

Released(c) ==
  IF tab[c].acct = NoAccount THEN box
  ELSE [box EXCEPT ![tab[c].acct] =
          Release(@, {e[2] : e \in {x \in tab[c].leased : x[1] = tab[c].acct}})]

(* deliver(): the client of record t gets what waits in b for its account  *)
(* in its room.                                                            *)
Waiting(b, t) == Handed(b[t.acct], t.room, now)
Delivered(b, t) == [b EXCEPT ![t.acct] = Lease(@, t.room, now)]
Taken(b, t) == {<<t.acct, i>> : i \in Waiting(b, t)}
Shown(b, t) == {<<t.acct, i, b[t.acct].rows[i].status>> : i \in Waiting(b, t)}

(* onJoin(), and the hub's `presence` frame of a page that is back: with   *)
(* the connection's record t and the queue b as they are by then.          *)
Arrive(c, t, b) ==
  IF t.acct # NoAccount /\ t.room # NoRoom /\ ~t.susp
  THEN /\ ClearAway(t.acct, t.room)
       /\ tab' = [tab EXCEPT ![c] = [t EXCEPT !.leased = @ \cup Taken(b, t)]]
       /\ inbox' = [inbox EXCEPT ![c] = @ \cup Shown(b, t)]
       /\ box' = Delivered(b, t)
  ELSE /\ tab' = [tab EXCEPT ![c] = t]
       /\ box' = b
       /\ UNCHANGED <<inbox, away, store>>

(* leaveRoom() on the relay's side (release, onLeave): t is the record the *)
(* connection is left with.                                                *)
Depart(c, t, wantsAway) ==
  LET a == tab[c].acct
      r == tab[c].room
  IN
  /\ tab' = [tab EXCEPT ![c] = t]
  /\ box' = Released(c)
  /\ IF /\ a # NoAccount /\ tab[c].cover /\ wantsAway
        /\ Awake(tab, a, r) \ {c} = {}
        /\ a \in alive
     THEN SetAway(a, r) ELSE UNCHANGED <<away, store>>

Left(t) == [t EXCEPT !.room = NoRoom, !.leased = {}]
Unmoved == UNCHANGED <<disk, alive, ledger, relayed, now, boot>>

----------------------------------------------------------------------------
(* Frames of a client.                                                     *)

Bind(c) == (MayBe[c] \cap alive) \cup {NoAccount}
MayCover(a) == IF a = NoAccount THEN {FALSE} ELSE Covers

(* Joining leaves the room the connection was in, not as away.  A page     *)
(* that is suspended stays so until it says otherwise, unless it connects  *)
(* anew.                                                                   *)
Join(c, r, a, cover) ==
  /\ a \in Bind(c) /\ cover \in MayCover(a)
  /\ Arrive(c, [Closed EXCEPT !.on = TRUE, !.room = r, !.acct = a, !.cover = cover,
                              !.susp = tab[c].susp], Released(c))
  /\ Unmoved

Auth(c, a, cover) ==
  /\ tab[c].on
  /\ a \in Bind(c) /\ cover \in MayCover(a)
  /\ LET released == tab[c].acct # NoAccount /\ tab[c].room # NoRoom IN
     Arrive(c, [tab[c] EXCEPT !.acct = a, !.cover = cover,
                              !.leased = IF released THEN {} ELSE @],
            IF released THEN Released(c) ELSE box)
  /\ Unmoved

Resume(c) ==
  /\ tab[c].on
  /\ Arrive(c, [tab[c] EXCEPT !.susp = FALSE], box)
  /\ Unmoved

\* Variant: other awake pages are not looked at.
SuspendAlone(c) ==
  /\ tab[c].on
  /\ tab' = [tab EXCEPT ![c].susp = TRUE]
  /\ IF tab[c].acct # NoAccount /\ tab[c].room # NoRoom /\ tab[c].cover
     THEN SetAway(tab[c].acct, tab[c].room) ELSE UNCHANGED <<away, store>>
  /\ UNCHANGED <<inbox, box>>
  /\ Unmoved

Suspend(c) ==
  LET a == tab[c].acct
      r == tab[c].room
  IN
  /\ tab[c].on
  /\ tab' = [tab EXCEPT ![c].susp = TRUE]
  /\ IF a # NoAccount /\ r # NoRoom /\ tab[c].cover /\ Awake(tab, a, r) \ {c} = {}
     THEN SetAway(a, r) ELSE UNCHANGED <<away, store>>
  /\ UNCHANGED <<inbox, box>>
  /\ Unmoved

Leave(c, wantsAway) ==
  /\ tab[c].on /\ tab[c].room # NoRoom
  /\ Depart(c, Left(tab[c]), wantsAway)
  /\ UNCHANGED inbox
  /\ Unmoved

(* The connection is gone; the page may be gone with it, and with the page *)
(* what it had not acknowledged.                                           *)
Close(c) ==
  /\ tab[c].on
  /\ inbox' \in {inbox, [inbox EXCEPT ![c] = {}]}
  /\ IF tab[c].room # NoRoom THEN Depart(c, Closed, TRUE)
     ELSE /\ tab' = [tab EXCEPT ![c] = Closed]
          /\ UNCHANGED <<box, away, store>>
  /\ Unmoved

----------------------------------------------------------------------------
(* Relaying.                                                               *)

Sender(c) == [peer |-> c, acct |-> tab[c].acct]
Present(r) == {c \in Tabs : tab[c].on /\ tab[c].room = r}
Candidates(r) == away[r] \cup ({tab[c].acct : c \in Present(r)} \ {NoAccount})

MessageFor(c, m) ==
  [room |-> tab[c].room, kind |-> "message", msg |-> m, from |-> Sender(c),
   status |-> "none", expires |-> 0, bytes |-> 1]

(* To a member who is here and awake it is handed at once, to the awake    *)
(* connection that comes first (the others find nothing left).             *)
Relay(c, m, a) ==
  LET r   == tab[c].room
      in  == MessageFor(c, m)
      b   == [box EXCEPT ![a] = Enqueue(@, in, now)]
      up  == IF Accepts(box[a], in) /\ a \notin away[r] THEN Awake(tab, a, r) ELSE {}
  IN
  /\ tab[c].on /\ r # NoRoom /\ Author[m] = c
  /\ a \in Candidates(r) \ {tab[c].acct}
  /\ \/ Accepts(box[a], in) /\ box[a].ids < MaxRows
     \/ IsDuplicate(box[a], in)
  /\ ledger' = Remember(ledger, m, r, Sender(c), a, now)
  /\ relayed' = relayed \cup {[by |-> tab[c].acct, to |-> a, msg |-> m]}
  /\ \/ up = {} /\ box' = b /\ UNCHANGED <<tab, inbox>>
     \/ \E p \in up :
          /\ tab' = [tab EXCEPT ![p].leased = @ \cup Taken(b, tab[p])]
          /\ inbox' = [inbox EXCEPT ![p] = @ \cup Shown(b, tab[p])]
          /\ box' = Delivered(b, tab[p])
  /\ UNCHANGED <<away, store, disk, alive, now, boot>>

(* notifySender(): in b, the state of message m for its sender, reported   *)
(* by the connection c: told at once when the sender is in the room, else  *)
(* put into the queue of the sender's account (bound: while that may still *)
(* take rows, as if it were full otherwise).                               *)
Online(r, s) ==
  {p \in Present(r) : p = s.peer \/ (s.acct # NoAccount /\ tab[p].acct = s.acct)}
StatusFor(c, r, m, st) ==
  [room |-> r, kind |-> "status", msg |-> m, from |-> Sender(c),
   status |-> st, expires |-> 0, bytes |-> 1]
\* Variant: whether the sender's account still exists is not looked at.
NotifiedAnyway(b, c, r, m, s, st) ==
  IF Online(r, s) # {} \/ s.acct = NoAccount THEN b
  ELSE IF Upgradable(b[s.acct], m, st) # {}
  THEN [b EXCEPT ![s.acct] = UpgradeStatus(@, m, st)]
  ELSE IF b[s.acct].ids < MaxRows
  THEN [b EXCEPT ![s.acct] = Enqueue(@, StatusFor(c, r, m, st), now)]
  ELSE b
\* Variant: only a receipt that waits already is raised.
NotifiedIfWaiting(b, c, r, m, s, st) ==
  IF Online(r, s) = {} /\ s.acct \in alive
  THEN [b EXCEPT ![s.acct] = UpgradeStatus(@, m, st)] ELSE b
Notified(b, c, r, m, s, st) ==
  IF Online(r, s) # {} \/ s.acct \notin alive THEN b
  ELSE IF Upgradable(b[s.acct], m, st) # {}
  THEN [b EXCEPT ![s.acct] = UpgradeStatus(@, m, st)]
  ELSE IF b[s.acct].ids < MaxRows
  THEN [b EXCEPT ![s.acct] = Enqueue(@, StatusFor(c, r, m, st), now)]
  ELSE b

(* e is an item the page was handed and has dealt with by now.             *)
AckItem(c, e) ==
  LET a   == tab[c].acct
      row == box[a].rows[e[2]]
  IN
  /\ tab[c].on /\ a # NoAccount /\ tab[c].room # NoRoom
  /\ e \in inbox[c]
  /\ inbox' = [inbox EXCEPT ![c] = @ \ {e}]
  /\ tab' = [tab EXCEPT ![c].leased = @ \ {<<e[1], e[2]>>}]
  /\ \/ /\ ~(e[1] = a /\ e[2] \in Live(box[a]))
        /\ UNCHANGED box
     \/ /\ e[1] = a /\ e[2] \in Live(box[a])
        /\ LET b == [box EXCEPT ![a] = Ack(@, {e[2]})] IN
           box' = IF row.kind = "message"
                  THEN Notified(b, c, row.room, row.msg, row.from, "delivered") ELSE b
  /\ UNCHANGED <<away, store>>
  /\ Unmoved

\* Variant: whoever is in the room may report.
ReceiptFromAnyone(c, m, st) ==
  /\ tab[c].on /\ tab[c].acct # NoAccount
  /\ m \in DOMAIN ledger
  /\ ledger[m].room = tab[c].room
  /\ box' = Notified(box, c, ledger[m].room, m, ledger[m].sender, st)
  /\ UNCHANGED <<tab, inbox, away, store>>
  /\ Unmoved

Receipt(c, m, st) ==
  /\ tab[c].on /\ tab[c].acct # NoAccount
  /\ m \in DOMAIN ledger
  /\ ledger[m].room = tab[c].room /\ tab[c].acct \in ledger[m].to
  /\ box' = Notified(box, c, ledger[m].room, m, ledger[m].sender, st)
  /\ UNCHANGED <<tab, inbox, away, store>>
  /\ Unmoved

----------------------------------------------------------------------------
(* Accounts.                                                               *)

(* onRevoke: the connections C that carry the ended session (or any of the *)
(* account's) are signed out where they are; none of it makes one away.    *)
Unbound(C) ==
  [c \in Tabs |-> IF c \in C
                  THEN [tab[c] EXCEPT !.acct = NoAccount, !.cover = FALSE, !.leased = {}]
                  ELSE tab[c]]
\* Variant: what the connections held is not given back.
ReleasedByNone(a, C) == box[a]
ReleasedBy(a, C) ==
  Release(box[a], {e[2] : e \in {x \in UNION {tab[c].leased : c \in C} : x[1] = a}})
SignedIn(a) == {c \in Tabs : tab[c].on /\ tab[c].acct = a}

(* forget(): the account is away nowhere; the list goes to disk at once.   *)
Forget(a) ==
  /\ away' = [r \in Rooms |-> away[r] \ {a}]
  /\ store' = [store EXCEPT ![a] = <<>>]

(* Another device ends a session (DELETE /api/account/sessions/:id), or the *)
(* account opens more sessions than it may have.                           *)
EndSession(a, C) ==
  /\ a \in alive
  /\ C # {} /\ C \subseteq SignedIn(a)
  /\ tab' = Unbound(C)
  /\ box' = [box EXCEPT ![a] = ReleasedBy(a, C)]
  /\ UNCHANGED <<inbox, away, store>>
  /\ Unmoved

(* POST /api/account/signout, of one session or of all.                    *)
SignOut(a, C) ==
  /\ a \in alive
  /\ C \subseteq SignedIn(a)
  /\ tab' = Unbound(C)
  /\ box' = [box EXCEPT ![a] = ReleasedBy(a, C)]
  /\ Forget(a)
  /\ disk' = IF store[a] # <<>> THEN store' ELSE disk
  /\ UNCHANGED <<inbox, alive, ledger, relayed, now, boot>>

(* DELETE /api/account; also the operator's.                               *)
DeleteAccount(a) ==
  /\ a \in alive \cap Deletable
  /\ alive' = alive \ {a}
  /\ tab' = Unbound(SignedIn(a))
  /\ Forget(a)
  /\ disk' = store'
  /\ box' = [box EXCEPT ![a] = Purge(@)]
  /\ UNCHANGED <<inbox, ledger, relayed, now, boot>>

(* pruneUnused() of a full store, for an account nobody signed in to again *)
(* after registering: its sessions ran out and it is away nowhere.  That   *)
(* items wait for it in the offline queue is not looked at, and they stay. *)
PruneUnused(a) ==
  /\ StoreFull /\ a \in alive /\ store[a] = <<>>
  /\ alive' = alive \ {a}
  /\ tab' = Unbound(SignedIn(a))
  /\ box' = [box EXCEPT ![a] = ReleasedBy(a, SignedIn(a))]
  /\ Forget(a)
  /\ disk' = store'
  /\ UNCHANGED <<inbox, ledger, relayed, now, boot>>

----------------------------------------------------------------------------
(* The server.                                                             *)

(* The account store is written (persistSoon's timer).                     *)
Persist ==
  /\ disk # store
  /\ disk' = store
  /\ UNCHANGED <<tab, inbox, away, store, alive, box, ledger, relayed, now, boot>>

(* The process dies and starts again: no connections, the queue and the    *)
(* ledger as they were (SQLite), away entries as last written (restore).   *)
Crash ==
  /\ now \in CrashTimes
  /\ tab' = [c \in Tabs |-> Closed]
  /\ store' = disk
  /\ away' = [r \in Rooms |-> {a \in Accounts : r \in ToSet(disk[a])}]
  /\ boot' = now
  /\ UNCHANGED <<inbox, disk, alive, box, ledger, relayed, now>>

SweepQueue ==
  /\ box' = [a \in Accounts |-> Sweep(box[a], now)]
  /\ ledger' \in Swept(ledger, now)
  /\ UNCHANGED <<tab, inbox, away, store, disk, alive, relayed, now, boot>>

Tick ==
  /\ now < MaxTime
  /\ now' = now + 1
  /\ UNCHANGED <<tab, inbox, away, store, disk, alive, box, ledger, relayed, boot>>

Next ==
  \/ \E c \in Tabs :
       \/ \E a \in Bind(c) : \E cover \in MayCover(a) :
            Auth(c, a, cover) \/ \E r \in Rooms : Join(c, r, a, cover)
       \/ Resume(c) \/ Suspend(c) \/ Close(c)
       \/ \E wantsAway \in BOOLEAN : Leave(c, wantsAway)
       \/ \E m \in Messages, a \in Accounts : Relay(c, m, a)
       \/ \E e \in inbox[c] : AckItem(c, e)
       \/ \E m \in Messages, st \in {"delivered", "read"} : Receipt(c, m, st)
  \/ \E a \in Accounts :
       \/ \E C \in SUBSET SignedIn(a) : EndSession(a, C) \/ SignOut(a, C)
       \/ DeleteAccount(a) \/ PruneUnused(a)
  \/ Persist \/ Crash \/ SweepQueue \/ Tick

Spec == Init /\ [][Next]_vars

(* People open the app and come back to the room, again and again; a page  *)
(* that is open reconnects now and then and joins anew (connection-keeper  *)
(* in the clients); the page deals with what it was handed.  An expired    *)
(* lease alone makes the server hand out nothing: somebody has to come.    *)
Returns(a, r) == \E c \in Tabs : ~tab[c].susp /\ Join(c, r, a, TRUE)
PagesAnswer ==
  /\ \A c \in Tabs : SF_vars(tab[c].susp /\ Resume(c))
  /\ \A c \in Tabs : WF_vars(\E e \in inbox[c] : AckItem(c, e))
FairSpec ==
  /\ Spec /\ PagesAnswer
  /\ WF_vars(Tick)
  /\ \A a \in Accounts, r \in Rooms : SF_vars(Returns(a, r))

----------------------------------------------------------------------------
(* Properties.                                                             *)

(* Who has an awake page in a room is not listed as away in it, over joins,*)
(* sign-ins, suspended and resumed pages, evictions and restarts: messages *)
(* are not diverted away from somebody's active tab (relay.ts:16-17).      *)
PresentIsNotAway == \A r \in Rooms : \A a \in away[r] : Awake(tab, a, r) = {}

(* The relay's map and the list in the account store name the same away    *)
(* rooms, also when the list is full and drops the oldest, and nobody who  *)
(* was deleted is away: what a restart restores is what was true           *)
(* (setAway, clearAway, forget and restore).                               *)
AwayIsStored ==
  \A r \in Rooms : \A a \in Accounts :
    a \in away[r] <=> a \in alive /\ r \in ToSet(store[a])

(* A row under a lease that still runs is held by an open connection of    *)
(* its account in its room, which gives it back when it ends; only a       *)
(* restart of the server leaves leases that nobody holds, and those run    *)
(* out (mailqueue.ts:12-15, relay.ts release).                             *)
LeasesAreHeld ==
  \A a \in Accounts : \A i \in Live(box[a]) :
    LET row == box[a].rows[i] IN
    row.state = "delivering" /\ row.lease > now =>
      \/ row.lease <= boot + LeaseTime
      \/ \E c \in Tabs : /\ tab[c].on /\ tab[c].acct = a /\ tab[c].room = row.room
                         /\ <<a, i>> \in tab[c].leased

(* Nothing waits for an account that was deleted, whatever receipts or     *)
(* messages were still under way to it (DELETE /api/account, notifySender).*)
NothingForTheDeleted == \A a \in Accounts \ alive : Ids(box[a]) = {}

(* "Receipts are accepted only for messages this server actually relayed   *)
(* to the reader, and only reach that message's sender" (relay.ts:18-20):  *)
(* a stored receipt is about a message its owner sent, reported by an      *)
(* account it was relayed to.                                              *)
ReceiptsAreGenuine ==
  \A a \in Accounts : \A i \in Ids(box[a]) :
    LET row == box[a].rows[i] IN
    row.kind = "status" =>
      /\ \E x \in relayed : x.msg = row.msg /\ x.by = a
      /\ \E x \in relayed : x.msg = row.msg /\ x.to = row.from.acct

(* "Each acknowledgement turns into 'delivered' for its sender" (relay.ts:  *)
(* 10-12), as far as it holds: when an acknowledgement removes a message,  *)
(* its sender is in the room to be told, or an account that still exists   *)
(* has a receipt for the message (one receipt for all recipients) or a     *)
(* queue that takes no more of it (bound: or may take no more rows),       *)
(* whoever else closed, signed in or was deleted since the message was     *)
(* sent.                                                                   *)
AckIsReported ==
  [][\A c \in Tabs : \A e \in inbox[c] \ inbox'[c] :
       LET row == box[e[1]].rows[e[2]]
           s   == row.from
       IN
       e[2] \in Live(box[e[1]]) /\ e[2] \notin Ids(box'[e[1]]) /\ row.kind = "message" =>
         \/ \E p \in Present(row.room) : p = s.peer \/ tab[p].acct = s.acct
         \/ s.acct \notin alive
         \/ Same(box'[s.acct], "status", row.msg) # {}
         \/ OverQuota(box[s.acct], StatusFor(c, row.room, row.msg, "delivered"))
         \/ box[s.acct].ids >= MaxRows]_vars

(* An away entry ends only because the account is back in the room with an *)
(* awake page, because the store's list dropped its oldest room, because   *)
(* the account signed out or is gone, or in a restart that came before the *)
(* list was written.                                                       *)
AwayEndsForAReason ==
  [][\A r \in Rooms : \A a \in away[r] \ away'[r] :
       \/ Awake(tab', a, r) # {}
       \/ Len(store'[a]) = MaxAwayRooms /\ Last(store'[a]) # Last(store[a])
       \/ a \notin alive'
       \/ \E C \in SUBSET SignedIn(a) : SignOut(a, C)
       \/ r \notin ToSet(disk[a]) /\ Crash]_vars

(* A message or receipt that waits for an account whose member keeps coming *)
(* back is dealt with in the end, or given up after MaxAttempts tries: no  *)
(* closing, suspending, signing in or out at the wrong moment and no       *)
(* restart of the server leaves it where nobody is handed it.              *)
WaitingEnds ==
  \A a \in Accounts : \A i \in 1 .. MaxRows : i \in Live(box[a]) ~> i \notin Live(box[a])
=============================================================================
